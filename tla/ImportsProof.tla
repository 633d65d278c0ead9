---------------------------- MODULE ImportsProof ----------------------------
(***************************************************************************)
(* For every set of files and every import graph over them, cyclic ones    *)
(* included, mergeImports never re-enters a file it is still merging and   *)
(* never puts a file's declarations into the program twice.                *)
(*                                                                         *)
(* The argument: what the active calls hold (the file each one merges and  *)
(* what it has spliced so far) is pairwise disjoint, has no repetition,    *)
(* and is recorded in visited; a file enters only when it is not recorded, *)
(* and a return only moves what the callee holds to its caller.            *)
(*                                                                         *)
(* The second half shows that the merger implements ImportSemantics: what  *)
(* was emitted and the files of the active calls account for visited, each *)
(* call was made for an import of its caller, and what a loop has passed   *)
(* was visited.  So a file is emitted when its imports were, or are still  *)
(* active and therefore reach it; and when the outermost call ends, root   *)
(* and emitted files are closed under imports, hence all of the program.   *)
(***************************************************************************)
EXTENDS Imports, SequenceTheorems, WellFoundedInduction, FiniteSetTheorems, TLAPS

(* What the call of a frame holds: the file and what was spliced into it.  *)
Held(f) == {Merged(f)[a] : a \in DOMAIN Merged(f)}

HeldApart ==
  \A i, j \in DOMAIN stack :
    i # j => \A m \in Held(stack[i]) \cap Held(stack[j]) : ~Recognised(m)

HeldOnce == \A i \in DOMAIN stack : Distinct(Merged(stack[i]))

HeldVisited ==
  \A i \in DOMAIN stack : \A m \in Held(stack[i]) : Recognised(m) => m \in visited

NothingYet == status # "merged" => program = <<>>

IInv == TypeOK /\ HeldApart /\ HeldOnce /\ HeldVisited /\ NothingYet /\ MergedOnce

-----------------------------------------------------------------------------
(* A frame is what Frames says, and its merged nodes are a sequence.       *)
LEMMA FrameFacts ==
  ASSUME NEW f \in Frames
  PROVE  /\ Merged(f) \in Seq(Modules)
         /\ DOMAIN Merged(f) = 1..(Len(f.merged) + 1)
         /\ Merged(f)[Len(f.merged) + 1] = f.mod
         /\ \A a \in 1..Len(f.merged) : Merged(f)[a] = f.merged[a]
         /\ f.mod \in Held(f)
BY DEF Frames, Merged, Held

(* The frame a call starts with holds its file and nothing else.           *)
LEMMA FreshFrame ==
  ASSUME NEW m \in Modules
  PROVE  /\ Frame(m) \in Frames
         /\ Merged(Frame(m)) = <<m>>
         /\ Held(Frame(m)) = {m}
         /\ Distinct(Merged(Frame(m)))
<1>1. Frame(m) \in Frames /\ Merged(Frame(m)) = <<m>>
  BY DEF Frame, Frames, Merged
<1> QED
  BY <1>1 DEF Held, Distinct

(* Moving the loop on to the next declaration holds nothing new.           *)
LEMMA AdvancedFrame ==
  ASSUME NEW f \in Frames
  PROVE  /\ [f EXCEPT !.pos = @ + 1] \in Frames
         /\ Merged([f EXCEPT !.pos = @ + 1]) = Merged(f)
BY DEF Frames, Merged

(* Splicing a callee's program into its caller holds what both held, and   *)
(* without repetition when neither repeats and they share nothing.         *)
LEMMA Splice ==
  ASSUME NEW f \in Frames, NEW g \in Frames,
         Distinct(Merged(f)), Distinct(Merged(g)),
         \A m \in Held(f) \cap Held(g) : ~Recognised(m)
  PROVE  LET h == [f EXCEPT !.merged = @ \o Merged(g)]
         IN  /\ h \in Frames
             /\ Held(h) = Held(f) \cup Held(g)
             /\ Distinct(Merged(h))
<1> DEFINE h == [f EXCEPT !.merged = @ \o Merged(g)]
           F == Len(f.merged)
           G == Len(g.merged) + 1
           s == f.merged
           t == Merged(g)
<1>1. /\ F \in Nat /\ G \in Nat \ {0}
      /\ s \in Seq(Modules) /\ Len(s) = F
      /\ t \in Seq(Modules) /\ Len(t) = G
      /\ f.mod \in Modules
  BY DEF Frames, Merged
<1>2. h.merged = s \o t /\ h.mod = f.mod
  BY DEF Frames
<1>3. s \o t \in Seq(Modules) => h \in Frames
  BY DEF Frames
<1> HIDE DEF h, s, t, F, G
<1>4. /\ s \o t \in Seq(Modules)
      /\ Len(s \o t) = F + G
      /\ \A a \in 1..F : (s \o t)[a] = s[a]
      /\ \A a \in (F + 1)..(F + G) : (s \o t)[a] = t[a - F]
  BY <1>1
<1>5. /\ DOMAIN Merged(h) = 1..(F + G + 1)
      /\ \A a \in 1..F : Merged(h)[a] = Merged(f)[a]
      /\ \A a \in (F + 1)..(F + G) : Merged(h)[a] = Merged(g)[a - F]
      /\ Merged(h)[F + G + 1] = Merged(f)[F + 1]
  <2>1. /\ DOMAIN Merged(h) = 1..(F + G + 1)
        /\ Merged(h)[F + G + 1] = f.mod
        /\ \A a \in 1..(F + G) : Merged(h)[a] = (s \o t)[a]
    <3>1. h \in Frames /\ h.mod = f.mod /\ h.merged = s \o t /\ Len(h.merged) = F + G
      BY <1>2, <1>3, <1>4
    <3>2. /\ DOMAIN Merged(h) = 1..(Len(h.merged) + 1)
          /\ Merged(h)[Len(h.merged) + 1] = h.mod
          /\ \A a \in 1..Len(h.merged) : Merged(h)[a] = h.merged[a]
      BY <3>1, FrameFacts
    <3> QED
      BY <3>1, <3>2
  <2>2. Merged(f)[F + 1] = f.mod /\ \A a \in 1..F : Merged(f)[a] = s[a]
    BY FrameFacts DEF F, s
  <2>3. 1..F \subseteq 1..(F + G) /\ (F + 1)..(F + G) \subseteq 1..(F + G)
    BY <1>1
  <2>4. \A a \in (F + 1)..(F + G) : Merged(h)[a] = Merged(g)[a - F]
    BY <1>4, <2>1, <2>3 DEF t
  <2> QED
    BY <1>4, <2>1, <2>2, <2>3, <2>4
<1>6. DOMAIN Merged(f) = 1..(F + 1) /\ DOMAIN Merged(g) = 1..G
  BY FrameFacts DEF F, G
<1>7. Held(h) = Held(f) \cup Held(g)
  <2>1. ASSUME NEW m \in Held(h) PROVE m \in Held(f) \cup Held(g)
    <3>1. PICK a \in 1..(F + G + 1) : Merged(h)[a] = m
      BY <2>1, <1>5 DEF Held
    <3>2. CASE a \in 1..F
      <4>1. a \in 1..(F + 1) /\ Merged(f)[a] = m
        BY <3>1, <3>2, <1>1, <1>5
      <4> QED
        BY <4>1, <1>6 DEF Held
    <3>3. CASE a \in (F + 1)..(F + G)
      <4>1. a - F \in 1..G /\ Merged(g)[a - F] = m
        BY <3>1, <3>3, <1>1, <1>5
      <4> QED
        BY <4>1, <1>6 DEF Held
    <3>4. CASE a = F + G + 1
      <4>1. F + 1 \in 1..(F + 1) /\ Merged(f)[F + 1] = m
        BY <3>1, <3>4, <1>1, <1>5
      <4> QED
        BY <4>1, <1>6 DEF Held
    <3> QED
      BY <3>1, <3>2, <3>3, <3>4, <1>1
  <2>2. ASSUME NEW m \in Held(f) PROVE m \in Held(h)
    <3>1. PICK a \in 1..(F + 1) : Merged(f)[a] = m
      BY <2>2, <1>6 DEF Held
    <3>2. \E b \in 1..(F + G + 1) : Merged(h)[b] = m
      <4>1. CASE a \in 1..F
        BY <3>1, <4>1, <1>1, <1>5
      <4>2. CASE a = F + 1
        BY <3>1, <4>2, <1>1, <1>5
      <4> QED
        BY <4>1, <4>2, <1>1
    <3> QED
      BY <3>2, <1>5 DEF Held
  <2>3. ASSUME NEW m \in Held(g) PROVE m \in Held(h)
    <3>1. PICK a \in 1..G : Merged(g)[a] = m
      BY <2>3, <1>6 DEF Held
    <3>2. a + F \in (F + 1)..(F + G) /\ (a + F) - F = a
      BY <1>1, <3>1
    <3>3. a + F \in 1..(F + G + 1) /\ Merged(h)[a + F] = m
      BY <1>1, <3>1, <3>2, <1>5
    <3> QED
      BY <3>3, <1>5 DEF Held
  <2> QED
    BY <2>1, <2>2, <2>3
<1>8. Distinct(Merged(h))
  <2> SUFFICES ASSUME NEW a \in 1..(F + G + 1), NEW b \in 1..(F + G + 1),
                      Merged(h)[a] = Merged(h)[b], Recognised(Merged(h)[a])
               PROVE  a = b
    BY <1>5 DEF Distinct
  (* Position p of the spliced program stands for position At(p) of one of *)
  (* the two it was made of.                                               *)
  <2> DEFINE FromG(p) == p \in (F + 1)..(F + G)
             At(p) == IF FromG(p) THEN p - F ELSE IF p \in 1..F THEN p ELSE F + 1
  <2>1. \A p \in 1..(F + G + 1) :
          /\ FromG(p) => At(p) \in 1..G /\ Merged(h)[p] = Merged(g)[At(p)]
          /\ ~FromG(p) => At(p) \in 1..(F + 1) /\ Merged(h)[p] = Merged(f)[At(p)]
    BY <1>1, <1>5
  <2>2. \A p, q \in 1..(F + G + 1) : (FromG(p) <=> FromG(q)) /\ At(p) = At(q) => p = q
    BY <1>1
  <2> HIDE DEF FromG, At
  <2>3. CASE FromG(a) /\ FromG(b)
    BY <2>1, <2>2, <2>3, <1>6 DEF Distinct
  <2>4. CASE ~FromG(a) /\ ~FromG(b)
    BY <2>1, <2>2, <2>4, <1>6 DEF Distinct
  <2>5. CASE FromG(a) /\ ~FromG(b)
    <3>1. Merged(h)[a] \in Held(g) /\ Merged(h)[b] \in Held(f)
      BY <2>1, <2>5, <1>6 DEF Held
    <3> QED
      BY <3>1
  <2>6. CASE ~FromG(a) /\ FromG(b)
    <3>1. Merged(h)[a] \in Held(f) /\ Merged(h)[b] \in Held(g)
      BY <2>1, <2>6, <1>6 DEF Held
    <3> QED
      BY <3>1
  <2> QED
    BY <2>3, <2>4, <2>5, <2>6
<1> QED
  BY <1>3, <1>4, <1>7, <1>8 DEF h, s, t

-----------------------------------------------------------------------------
(* The shape of the three ways the stack changes.                          *)
LEMMA AdvancedStack ==
  ASSUME stack \in Seq(Frames), stack # <<>>
  PROVE  /\ Advanced \in Seq(Frames)
         /\ Len(Advanced) = Len(stack)
         /\ Advanced # <<>>
         /\ \A i \in DOMAIN stack : Merged(Advanced[i]) = Merged(stack[i])
<1>1. Len(stack) \in DOMAIN stack /\ stack[Len(stack)] \in Frames
  OBVIOUS
<1>2. \A i \in DOMAIN stack :
        Advanced[i] = IF i = Len(stack) THEN [stack[i] EXCEPT !.pos = @ + 1] ELSE stack[i]
  BY <1>1 DEF Advanced
<1>3. \A i \in DOMAIN stack : Advanced[i] \in Frames /\ Merged(Advanced[i]) = Merged(stack[i])
  <2> SUFFICES ASSUME NEW i \in DOMAIN stack
               PROVE  Advanced[i] \in Frames /\ Merged(Advanced[i]) = Merged(stack[i])
    OBVIOUS
  <2>1. stack[i] \in Frames
    OBVIOUS
  <2>2. /\ [stack[i] EXCEPT !.pos = @ + 1] \in Frames
        /\ Merged([stack[i] EXCEPT !.pos = @ + 1]) = Merged(stack[i])
    BY <2>1, AdvancedFrame
  <2> QED
    BY <1>2, <2>1, <2>2
<1>4. DOMAIN Advanced = DOMAIN stack
  BY DEF Advanced
<1>5. Advanced \in Seq(Frames) /\ Len(Advanced) = Len(stack)
  <2>1. Advanced \in [1..Len(stack) -> Frames]
    BY <1>3, <1>4 DEF Advanced
  <2> QED
    BY <2>1
<1> QED
  BY <1>3, <1>5

(* A return leaves the callers, the last of them with the splice.          *)
LEMMA ReturnedStack ==
  ASSUME stack \in Seq(Frames), Len(stack) > 1, HeldApart, HeldOnce,
         NEW n, n = Len(stack) - 1
  PROVE  /\ Returned \in Seq(Frames)
         /\ Len(Returned) = n
         /\ n \in Nat \ {0}
         /\ \A i \in 1..(n - 1) : Returned[i] = stack[i]
         /\ Held(Returned[n]) = Held(stack[n]) \cup Held(stack[n + 1])
         /\ Distinct(Merged(Returned[n]))
<1> DEFINE h == [stack[n] EXCEPT !.merged = @ \o Merged(stack[n + 1])]
<1>1. n \in Nat \ {0} /\ n \in DOMAIN stack /\ n + 1 \in DOMAIN stack /\ n + 1 = Len(stack)
  OBVIOUS
<1>2. /\ h \in Frames
      /\ Held(h) = Held(stack[n]) \cup Held(stack[n + 1])
      /\ Distinct(Merged(h))
  <2>1. stack[n] \in Frames /\ stack[n + 1] \in Frames
    BY <1>1
  <2>2. Distinct(Merged(stack[n])) /\ Distinct(Merged(stack[n + 1]))
    BY <1>1 DEF HeldOnce
  <2>3. \A m \in Held(stack[n]) \cap Held(stack[n + 1]) : ~Recognised(m)
    BY <1>1 DEF HeldApart
  <2> QED
    BY <2>1, <2>2, <2>3, Splice
<1>3. Pop \in Seq(Frames) /\ Len(Pop) = n /\ \A i \in 1..n : Pop[i] = stack[i]
  BY <1>1 DEF Pop
<1>4. Returned = [Pop EXCEPT ![n] = [Pop[n] EXCEPT !.merged = @ \o Merged(stack[n + 1])]]
  BY <1>1 DEF Returned, Top
<1>5. Pop[n] = stack[n] /\ DOMAIN Pop = 1..n
  BY <1>1, <1>3
<1>6. Returned = [Pop EXCEPT ![n] = h]
  BY <1>4, <1>5
<1> HIDE DEF h
<1>7. Returned \in Seq(Frames) /\ Len(Returned) = n
  BY <1>1, <1>2, <1>3, <1>6
<1>8. Returned[n] = h /\ \A i \in 1..(n - 1) : Returned[i] = stack[i]
  <2>1. n \in DOMAIN Pop /\ \A i \in 1..(n - 1) : i \in DOMAIN Pop /\ i # n
    BY <1>1, <1>5
  <2>2. Returned[n] = h
    BY <2>1, <1>6
  <2>3. \A i \in 1..(n - 1) : Returned[i] = Pop[i] /\ Pop[i] = stack[i]
    BY <2>1, <1>3, <1>5, <1>6
  <2> QED
    BY <2>2, <2>3
<1> QED
  BY <1>1, <1>2, <1>7, <1>8

-----------------------------------------------------------------------------
(* The initial state satisfies the inductive invariant.                    *)
LEMMA InitInv == Init => IInv
BY ImportsAssumption
   DEF Init, IInv, TypeOK, NoDiagnostic, Diagnostic, Diagnostics, HeldApart, HeldOnce, HeldVisited,
       NothingYet, MergedOnce, Distinct

(* A step that leaves input, stack, program and visited as they are, and   *)
(* ends in the same status, keeps what the invariant says of them.         *)
LEMMA FailStep ==
  ASSUME IInv, status' = "failed", status # "merged", stack' = <<>>,
         UNCHANGED <<input, program>>, visited' \in SUBSET Modules,
         diagnostic' \in Diagnostics
  PROVE  IInv'
BY DEF IInv, TypeOK, HeldApart, HeldOnce, HeldVisited, NothingYet, MergedOnce, Distinct,
       Recognised

(* Moving a loop on keeps the invariant.                                   *)
LEMMA AdvanceStep ==
  ASSUME IInv, status = "merge", stack' = Advanced,
         UNCHANGED <<input, status, visited, program, diagnostic>>
  PROVE  IInv'
<1>1. stack \in Seq(Frames) /\ stack # <<>>
  BY DEF IInv, TypeOK
<1>2. /\ stack' \in Seq(Frames) /\ stack' # <<>>
      /\ DOMAIN stack' = DOMAIN stack
      /\ \A i \in DOMAIN stack : Merged(stack'[i]) = Merged(stack[i])
  BY <1>1, AdvancedStack
<1>3. \A i \in DOMAIN stack : Held(stack'[i]) = Held(stack[i])
  BY <1>2 DEF Held
<1>4. TypeOK' /\ NothingYet' /\ MergedOnce'
  BY <1>1, <1>2 DEF IInv, TypeOK, NothingYet, MergedOnce, Distinct, Recognised
<1>5. HeldApart' /\ HeldVisited'
  BY <1>2, <1>3 DEF IInv, HeldApart, HeldVisited, Recognised
<1>6. HeldOnce'
  BY <1>2 DEF IInv, HeldOnce, Distinct, Recognised
<1> QED
  BY <1>4, <1>5, <1>6 DEF IInv

(* A call for a file that was not visited keeps the invariant.             *)
LEMMA EnterStep ==
  ASSUME IInv, NEW m \in Modules, EnterImport(m)
  PROVE  IInv'
<1>1. stack \in Seq(Frames) /\ stack # <<>> /\ status = "merge"
  BY DEF IInv, TypeOK, EnterImport, AtImport
<1>2. stack' = Append(Advanced, Frame(m)) /\ visited' = visited \cup {m} /\ m \notin visited
      /\ UNCHANGED <<input, status, program, diagnostic>>
  BY DEF EnterImport
<1> DEFINE n == Len(stack)
<1>3. /\ stack' \in Seq(Frames) /\ stack' # <<>> /\ n \in Nat
      /\ DOMAIN stack' = 1..(n + 1) /\ DOMAIN stack = 1..n
      /\ stack'[n + 1] = Frame(m)
      /\ \A i \in 1..n : Merged(stack'[i]) = Merged(stack[i])
  <2>1. /\ Advanced \in Seq(Frames) /\ Len(Advanced) = n
        /\ \A i \in 1..n : Merged(Advanced[i]) = Merged(stack[i])
    BY <1>1, AdvancedStack
  <2>2. Frame(m) \in Frames
    BY FreshFrame
  <2>3. \A i \in 1..n : stack'[i] = Advanced[i]
    BY <1>1, <1>2, <2>1
  <2> QED
    BY <1>1, <1>2, <2>1, <2>2, <2>3
<1> HIDE DEF n
<1>4. /\ \A i \in 1..n : Held(stack'[i]) = Held(stack[i])
      /\ Held(stack'[n + 1]) = {m}
      /\ Merged(stack'[n + 1]) = <<m>>
  BY <1>3, FreshFrame DEF Held
<1>5. TypeOK' /\ NothingYet' /\ MergedOnce'
  BY <1>1, <1>2, <1>3 DEF IInv, TypeOK, NothingYet, MergedOnce, Distinct, Recognised
<1>6. \A i \in 1..n : Recognised(m) => m \notin Held(stack[i])
  BY <1>2, <1>3 DEF IInv, HeldVisited
<1>7. \A x : Recognised(x)' <=> Recognised(x)
  BY <1>2 DEF Recognised
<1>8. HeldApart'
  <2> SUFFICES ASSUME NEW i \in 1..(n + 1), NEW j \in 1..(n + 1), i # j,
                      NEW x \in Held(stack'[i]) \cap Held(stack'[j])
               PROVE  ~Recognised(x)
    BY <1>3, <1>7 DEF HeldApart
  <2>1. CASE i \in 1..n /\ j \in 1..n
    BY <2>1, <1>3, <1>4 DEF IInv, HeldApart
  <2>2. CASE i = n + 1
    BY <2>2, <1>3, <1>4, <1>6
  <2>3. CASE j = n + 1
    BY <2>3, <1>3, <1>4, <1>6
  <2> QED
    BY <2>1, <2>2, <2>3, <1>3
<1>9. HeldOnce'
  <2> SUFFICES ASSUME NEW i \in 1..(n + 1)
               PROVE  Distinct(Merged(stack'[i]))
    BY <1>3, <1>7 DEF HeldOnce, Distinct
  <2>1. CASE i \in 1..n
    BY <2>1, <1>3 DEF IInv, HeldOnce
  <2>2. CASE i = n + 1
    BY <2>2, <1>4 DEF Distinct
  <2> QED
    BY <2>1, <2>2, <1>3
<1>10. HeldVisited'
  <2> SUFFICES ASSUME NEW i \in 1..(n + 1), NEW x \in Held(stack'[i]), Recognised(x)
               PROVE  x \in visited'
    BY <1>3, <1>7 DEF HeldVisited
  <2>1. CASE i \in 1..n
    BY <2>1, <1>2, <1>3, <1>4 DEF IInv, HeldVisited
  <2>2. CASE i = n + 1
    BY <2>2, <1>2, <1>4
  <2> QED
    BY <2>1, <2>2, <1>3
<1> QED
  BY <1>5, <1>8, <1>9, <1>10 DEF IInv

(* A return moves what the call holds to its caller.                       *)
LEMMA ReturnStep ==
  ASSUME IInv, ReturnToImporter
  PROVE  IInv'
<1> DEFINE n == Len(stack) - 1
<1>1. /\ stack \in Seq(Frames) /\ Len(stack) > 1 /\ status = "merge"
      /\ HeldApart /\ HeldOnce
      /\ stack' = Returned
      /\ UNCHANGED <<input, status, visited, program, diagnostic>>
  BY DEF IInv, TypeOK, ReturnToImporter, AtEnd
<1>2. /\ stack' \in Seq(Frames) /\ Len(stack') = n /\ n \in Nat \ {0}
      /\ DOMAIN stack' = 1..n /\ DOMAIN stack = 1..(n + 1)
      /\ \A i \in 1..(n - 1) : stack'[i] = stack[i]
      /\ Held(stack'[n]) = Held(stack[n]) \cup Held(stack[n + 1])
      /\ Distinct(Merged(stack'[n]))
  BY <1>1, ReturnedStack
<1> HIDE DEF n
<1>3. TypeOK' /\ NothingYet' /\ MergedOnce'
  BY <1>1, <1>2 DEF IInv, TypeOK, NothingYet, MergedOnce, Distinct, Recognised
<1>4. \A x : Recognised(x)' <=> Recognised(x)
  BY <1>1 DEF Recognised
<1>5. \A i \in 1..n : i # n => Held(stack'[i]) = Held(stack[i])
  BY <1>2
<1>6. HeldApart'
  <2> SUFFICES ASSUME NEW i \in 1..n, NEW j \in 1..n, i # j,
                      NEW x \in Held(stack'[i]) \cap Held(stack'[j])
               PROVE  ~Recognised(x)
    BY <1>2, <1>4 DEF HeldApart
  <2>1. i \in 1..(n + 1) /\ j \in 1..(n + 1) /\ n \in 1..(n + 1) /\ n + 1 \in 1..(n + 1)
        /\ i # n + 1 /\ j # n + 1
    BY <1>2
  <2>2. CASE i # n /\ j # n
    BY <2>1, <2>2, <1>1, <1>2, <1>5 DEF HeldApart
  <2>3. CASE i = n
    BY <2>1, <2>3, <1>1, <1>2, <1>5 DEF HeldApart
  <2>4. CASE j = n
    BY <2>1, <2>4, <1>1, <1>2, <1>5 DEF HeldApart
  <2> QED
    BY <2>2, <2>3, <2>4
<1>7. HeldOnce'
  <2> SUFFICES ASSUME NEW i \in 1..n
               PROVE  Distinct(Merged(stack'[i]))
    BY <1>2, <1>4 DEF HeldOnce, Distinct
  <2>1. CASE i = n
    BY <2>1, <1>2
  <2>2. CASE i # n
    BY <2>2, <1>1, <1>2 DEF HeldOnce
  <2> QED
    BY <2>1, <2>2
<1>8. HeldVisited'
  <2> SUFFICES ASSUME NEW i \in 1..n, NEW x \in Held(stack'[i]), Recognised(x)
               PROVE  x \in visited
    BY <1>1, <1>2, <1>4 DEF HeldVisited
  <2>1. i \in 1..(n + 1) /\ n + 1 \in 1..(n + 1)
    BY <1>2
  <2> QED
    BY <2>1, <1>2, <1>5 DEF IInv, HeldVisited
<1> QED
  BY <1>3, <1>6, <1>7, <1>8 DEF IInv

(* The inductive step: one step per action.                                *)
LEMMA NextInv == IInv /\ [Next]_vars => IInv'
<1> SUFFICES ASSUME IInv, [Next]_vars PROVE IInv'
  OBVIOUS
<1>1. CASE ParseRoot
  <2>1. /\ stack' = <<Frame(Root)>> /\ status' = "merge" /\ program' = <<>>
        /\ visited' = (IF input.named THEN {Root} ELSE {})
        /\ UNCHANGED <<input, diagnostic>>
    BY <1>1 DEF ParseRoot, IInv, NothingYet
  <2>2. /\ Root \in Modules /\ Frame(Root) \in Frames
        /\ Held(Frame(Root)) = {Root} /\ Merged(Frame(Root)) = <<Root>>
    BY ImportsAssumption, FreshFrame
  <2>3. stack' \in Seq(Frames) /\ DOMAIN stack' = {1} /\ stack'[1] = Frame(Root) /\ stack' # <<>>
    BY <2>1, <2>2
  <2>4. TypeOK'
    BY <2>1, <2>2, <2>3 DEF IInv, TypeOK
  <2>5. HeldApart' /\ HeldOnce' /\ HeldVisited'
    BY <2>1, <2>2, <2>3 DEF HeldApart, HeldOnce, HeldVisited, Distinct, Recognised
  <2>6. NothingYet' /\ MergedOnce'
    BY <2>1 DEF NothingYet, MergedOnce, Distinct
  <2> QED
    BY <2>4, <2>5, <2>6 DEF IInv
<1>2. CASE RootUnparsable
  <2>1. stack = <<>> /\ visited \in SUBSET Modules
    BY <1>2 DEF RootUnparsable, IInv, TypeOK
  <2>2. diagnostic' \in Diagnostics
    BY <1>2, ImportsAssumption DEF RootUnparsable, Diagnostic, Diagnostics
  <2> QED
    BY <1>2, <2>1, <2>2, FailStep DEF RootUnparsable
<1>3. CASE SkipStd
  BY <1>3, AdvanceStep DEF SkipStd, AtImport
<1>4. CASE ImportNotFound
  <2>1. visited \in SUBSET Modules /\ diagnostic' \in Diagnostics
    BY <1>4 DEF ImportNotFound, Diagnostic, Diagnostics, IInv, TypeOK
  <2> QED
    BY <1>4, <2>1, FailStep DEF ImportNotFound, AtImport
<1>5. ASSUME NEW m \in Modules, SkipVisited(m) PROVE IInv'
  BY <1>5, AdvanceStep DEF SkipVisited, AtImport
<1>6. ASSUME NEW m \in Modules, ImportUnparsable(m) PROVE IInv'
  <2>1. visited' \in SUBSET Modules /\ diagnostic' \in Diagnostics
    BY <1>6 DEF ImportUnparsable, Diagnostic, Diagnostics, IInv, TypeOK
  <2> QED
    BY <1>6, <2>1, FailStep DEF ImportUnparsable, AtImport
<1>7. ASSUME NEW m \in Modules, EnterImport(m) PROVE IInv'
  BY <1>7, EnterStep
<1>8. CASE ReturnToImporter
  BY <1>8, ReturnStep
<1>9. CASE MergeDone
  <2>1. /\ stack \in Seq(Frames) /\ 1 \in DOMAIN stack /\ Top = stack[1]
        /\ stack' = <<>> /\ status' = "merged" /\ program' = Merged(stack[1])
        /\ UNCHANGED <<input, visited, diagnostic>>
    BY <1>9 DEF MergeDone, Top, IInv, TypeOK
  <2>2. stack[1] \in Frames
    BY <2>1
  <2>3. program' \in Seq(Modules)
    BY <2>1, <2>2, FrameFacts
  <2>4. TypeOK'
    BY <2>1, <2>3 DEF IInv, TypeOK
  <2>5. MergedOnce'
    BY <2>1 DEF IInv, HeldOnce, MergedOnce, Distinct, Recognised
  <2>6. HeldApart' /\ HeldOnce' /\ HeldVisited' /\ NothingYet'
    BY <2>1 DEF HeldApart, HeldOnce, HeldVisited, NothingYet
  <2> QED
    BY <2>4, <2>5, <2>6 DEF IInv
<1>10. CASE UNCHANGED vars
  BY <1>10 DEF vars, IInv, TypeOK, HeldApart, HeldOnce, HeldVisited, NothingYet, MergedOnce,
               Distinct, Recognised
<1> QED
  BY <1>1, <1>2, <1>3, <1>4, <1>5, <1>6, <1>7, <1>8, <1>9, <1>10 DEF Next

-----------------------------------------------------------------------------
(* The merger's state keeps its types (TypeOK), on every import graph.     *)
THEOREM TypeCorrect == Spec => []TypeOK
<1>1. IInv => TypeOK
  BY DEF IInv
<1> QED
  BY <1>1, InitInv, NextInv, PTL DEF Spec

(* mergeImports never puts a file's declarations into the program twice.   *)
THEOREM MergesOnce == Spec => []MergedOnce
<1>1. IInv => MergedOnce
  BY DEF IInv
<1> QED
  BY <1>1, InitInv, NextInv, PTL DEF Spec

(* mergeImports never recurses into a file that an outer call is merging.  *)
THEOREM NeverReenters == Spec => []NoReentry
<1>1. IInv => NoReentry
  <2> SUFFICES ASSUME IInv, NEW i \in DOMAIN stack, NEW j \in DOMAIN stack,
                      stack[i].mod = stack[j].mod, Recognised(stack[i].mod)
               PROVE  i = j
    BY DEF NoReentry
  <2>1. stack[i] \in Frames /\ stack[j] \in Frames
    BY DEF IInv, TypeOK
  <2>2. stack[i].mod \in Held(stack[i]) /\ stack[j].mod \in Held(stack[j])
    BY <2>1, FrameFacts
  <2> QED
    BY <2>2 DEF IInv, HeldApart
<1> QED
  BY <1>1, InitInv, NextInv, PTL DEF Spec

-----------------------------------------------------------------------------
(* A file only gets a frame after it was parsed, so the innermost call is  *)
(* the parsed file that imports what a diagnostic names; and as long as    *)
(* nothing has failed, every file that was read parsed.                    *)
Unbroken == \A i \in DOMAIN stack : stack[i].mod \notin input.broken

ReadParsed ==
  /\ status = "parse" => visited = {}
  /\ status = "merge" => visited \cap input.broken = {}

RealInv == IInv /\ Unbroken /\ ReadParsed /\ FailureIsReal

(* The files of the frames, whichever way the stack changes.               *)
LEMMA FilesAdvanced ==
  ASSUME stack \in Seq(Frames), stack # <<>>
  PROVE  DOMAIN Advanced = DOMAIN stack /\ \A i \in DOMAIN stack : Advanced[i].mod = stack[i].mod
<1>1. \A i \in DOMAIN stack : stack[i] \in Frames
  OBVIOUS
<1>2. \A f \in Frames : [f EXCEPT !.pos = @ + 1].mod = f.mod
  BY DEF Frames
<1>3. \A i \in DOMAIN stack :
        Advanced[i] = IF i = Len(stack) THEN [stack[i] EXCEPT !.pos = @ + 1] ELSE stack[i]
  BY DEF Advanced
<1>4. DOMAIN Advanced = DOMAIN stack
  BY DEF Advanced
<1> QED
  BY <1>1, <1>2, <1>3, <1>4

(* The files of the frames when a call is entered.                         *)
LEMMA FilesEntered ==
  ASSUME stack \in Seq(Frames), stack # <<>>, NEW m \in Modules, NEW i \in DOMAIN Append(Advanced, Frame(m))
  PROVE  \/ Append(Advanced, Frame(m))[i].mod = m
         \/ i \in DOMAIN stack /\ Append(Advanced, Frame(m))[i].mod = stack[i].mod
<1>1. Advanced \in Seq(Frames) /\ Frame(m).mod = m
  BY AdvancedStack DEF Frame
<1>2. CASE i = Len(Advanced) + 1
  BY <1>1, <1>2
<1>3. CASE i # Len(Advanced) + 1
  <2>1. i \in DOMAIN Advanced /\ Append(Advanced, Frame(m))[i] = Advanced[i]
    BY <1>1, <1>3
  <2> QED
    BY <2>1, FilesAdvanced
<1> QED
  BY <1>2, <1>3

(* The files of the frames when a call returns.                            *)
LEMMA FilesReturned ==
  ASSUME stack \in Seq(Frames), Len(stack) > 1, NEW i \in DOMAIN Returned
  PROVE  i \in DOMAIN stack /\ Returned[i].mod = stack[i].mod
<1>1. Pop \in Seq(Frames) /\ DOMAIN Pop \subseteq DOMAIN stack /\ \A j \in DOMAIN Pop : Pop[j] = stack[j]
  BY DEF Pop
<1>2. \A f \in Frames : \A s : [f EXCEPT !.merged = @ \o s].mod = f.mod
  BY DEF Frames
<1>3. DOMAIN Returned = DOMAIN Pop
  BY DEF Returned
<1>4. Returned[i] = IF i = Len(stack) - 1 THEN [Pop[i] EXCEPT !.merged = @ \o Merged(Top)] ELSE Pop[i]
  BY <1>3 DEF Returned
<1>5. Pop[i] \in Frames /\ Pop[i] = stack[i]
  BY <1>1, <1>3
<1> QED
  BY <1>1, <1>2, <1>3, <1>4, <1>5

(* Nothing is on the stack and nothing has failed at the start.            *)
LEMMA RealInit == Init => RealInv
BY InitInv DEF Init, RealInv, Unbroken, ReadParsed, FailureIsReal

(* The file of the innermost call is one that was read and parsed.         *)
LEMMA TopParsed ==
  ASSUME IInv, Unbroken, stack # <<>>
  PROVE  Top.mod \in Parsed
<1>1. stack \in Seq(Frames) /\ Len(stack) \in DOMAIN stack /\ Top = stack[Len(stack)]
  BY DEF IInv, TypeOK, Top
<1>2. Top \in Frames /\ Top.mod \notin input.broken
  BY <1>1 DEF Unbroken
<1>3. Top.mod \in Held(Top)
  BY <1>2, FrameFacts
<1>4. Top.mod # Root => Top.mod \in visited
  BY <1>1, <1>3 DEF IInv, HeldVisited, Recognised
<1> QED
  BY <1>2, <1>4 DEF Parsed

(* One step per action: those that move the stack keep it unbroken, those  *)
(* that fail empty it and name an import of the innermost call.            *)
LEMMA RealNext == RealInv /\ [Next]_vars => RealInv'
<1> DEFINE Goal == Unbroken' /\ ReadParsed' /\ FailureIsReal'
<1> SUFFICES ASSUME RealInv, [Next]_vars PROVE Goal
  BY NextInv DEF RealInv
<1>0. IInv /\ TypeOK /\ stack \in Seq(Frames) /\ Unbroken /\ ReadParsed
  BY DEF RealInv, IInv, TypeOK
<1>1. CASE ParseRoot
  <2>1. /\ stack' = <<Frame(Root)>> /\ status' = "merge" /\ input' = input
        /\ Root \notin input.broken /\ Frame(Root).mod = Root /\ visited' \subseteq {Root}
    BY <1>1 DEF ParseRoot, Frame
  <2> QED
    BY <2>1 DEF Unbroken, ReadParsed, FailureIsReal
<1>2. CASE RootUnparsable
  <2>1. /\ stack' = <<>> /\ program' = <<>> /\ input' = input /\ Root \in input.broken
        /\ visited' = {} /\ status' = "failed" /\ diagnostic'.target = Root
    BY <1>0, <1>2 DEF RootUnparsable, Diagnostic, TypeOK, IInv, NothingYet, ReadParsed
  <2>2. Unbroken' /\ ReadParsed'
    BY <2>1 DEF Unbroken, ReadParsed
  <2>3. FailureIsReal'
    <3>1. /\ program' = <<>> /\ diagnostic'.target = Root /\ Root \in input'.broken
          /\ visited' \cap input'.broken \subseteq {diagnostic'.target}
      BY <2>1
    <3> QED
      BY <3>1, Zenon DEF FailureIsReal
  <2> QED
    BY <2>2, <2>3
(* A call moves on, or another one starts or returns.                      *)
<1>3. ASSUME status = "merge", UNCHANGED <<input, status>>, visited' \cap input.broken = {},
             \A i \in DOMAIN stack' :
               \/ stack'[i].mod \notin input.broken
               \/ i \in DOMAIN stack /\ stack'[i].mod = stack[i].mod
      PROVE  Goal
  BY <1>0, <1>3 DEF Unbroken, ReadParsed, FailureIsReal
<1>4. ASSUME NEW target, AtImport(target)
      PROVE  stack # <<>> /\ status = "merge" /\ visited \cap input.broken = {}
  BY <1>0, <1>4 DEF AtImport, TypeOK, ReadParsed
(* A call fails at the import it stands at.                                *)
<1>5. ASSUME NEW target, AtImport(target), target = Missing \/ target \in input.broken,
             UNCHANGED <<input, program>>, stack' = <<>>, status' = "failed",
             visited \subseteq visited', visited' \subseteq visited \cup {target},
             diagnostic'.target = target
      PROVE  Goal
  <2>1. stack # <<>> /\ status = "merge" /\ visited \cap input.broken = {}
    BY <1>4, <1>5
  <2>2. program' = <<>>
    BY <1>0, <1>5, <2>1 DEF IInv, NothingYet
  <2>3. Top.mod \in Parsed'
    <3>1. Top.mod \in Parsed
      BY <1>0, <2>1, TopParsed
    <3> QED
      BY <1>5, <3>1 DEF Parsed
  <2>4. Top.pos \in DOMAIN input.imports[Top.mod] /\ input.imports[Top.mod][Top.pos] = target
    <3>1. Top \in Frames
      BY <1>0, <2>1 DEF Top
    <3>2. Top.pos \in Nat \ {0} /\ input.imports[Top.mod] \in Seq(Targets)
      BY <1>0, <3>1 DEF Frames, TypeOK, Graph
    <3> QED
      BY <1>5, <3>2 DEF AtImport
  <2>5. Unbroken' /\ ReadParsed'
    BY <1>5 DEF Unbroken, ReadParsed
  <2>6. FailureIsReal'
    <3> DEFINE file == Top.mod
               place == Top.pos
    <3>1. file \in Parsed' /\ place \in DOMAIN input'.imports[file] /\ input'.imports[file][place] = diagnostic'.target
      BY <1>5, <2>3, <2>4
    <3>2. /\ program' = <<>> /\ visited' \cap input'.broken \subseteq {diagnostic'.target}
          /\ diagnostic'.target = Missing \/ diagnostic'.target \in input'.broken
      BY <1>5, <2>1, <2>2
    <3> HIDE DEF file, place
    <3> QED
      BY <3>1, <3>2 DEF FailureIsReal
  <2> QED
    BY <2>5, <2>6
<1> HIDE DEF Goal
<1>6. CASE SkipStd
  BY <1>0, <1>3, <1>4, <1>6, FilesAdvanced DEF SkipStd
<1>7. CASE ImportNotFound
  BY <1>5, <1>7 DEF ImportNotFound, Diagnostic
<1>8. ASSUME NEW m \in Modules, SkipVisited(m) PROVE Goal
  BY <1>0, <1>3, <1>4, <1>8, FilesAdvanced DEF SkipVisited
<1>9. ASSUME NEW m \in Modules, ImportUnparsable(m) PROVE Goal
  BY <1>5, <1>9 DEF ImportUnparsable, Diagnostic
<1>10. ASSUME NEW m \in Modules, EnterImport(m) PROVE Goal
  <2>1. /\ stack # <<>> /\ status = "merge" /\ stack' = Append(Advanced, Frame(m))
        /\ UNCHANGED <<input, status>> /\ m \notin input.broken /\ visited' = visited \cup {m}
        /\ visited \cap input.broken = {}
    BY <1>4, <1>10 DEF EnterImport
  <2>2. ASSUME NEW i \in DOMAIN stack'
        PROVE  \/ stack'[i].mod \notin input.broken
               \/ i \in DOMAIN stack /\ stack'[i].mod = stack[i].mod
    BY <1>0, <2>1, FilesEntered
  <2>3. status = "merge" /\ UNCHANGED <<input, status>> /\ visited' \cap input.broken = {}
    BY <2>1
  <2> QED
    BY <1>3, <2>2, <2>3
<1>11. CASE ReturnToImporter
  BY <1>0, <1>3, <1>11, FilesReturned DEF ReturnToImporter, AtEnd, ReadParsed
<1>12. CASE MergeDone
  BY <1>12 DEF MergeDone, Goal, Unbroken, ReadParsed, FailureIsReal
<1>13. CASE UNCHANGED vars
  BY <1>13 DEF vars, Goal, RealInv, Unbroken, ReadParsed, FailureIsReal, Parsed
<1> QED
  BY <1>1, <1>2, <1>6, <1>7, <1>8, <1>9, <1>10, <1>11, <1>12, <1>13 DEF Next

(* mergeImports: a failed merge hands no program on, and its diagnostic    *)
(* names a module that is really missing or unparsable and that some file  *)
(* imports which was read and parsed, however deep in the recursion it was *)
(* met; no file was read after the one that failed.                        *)
THEOREM FailuresAreReal == Spec => []FailureIsReal
<1>1. RealInv => FailureIsReal
  BY DEF RealInv
<1> QED
  BY <1>1, RealInit, RealNext, PTL DEF Spec

-----------------------------------------------------------------------------
(* Implements.  Emitted and the active files account for visited, nothing  *)
(* is emitted twice, each call was made for an import of its caller, and   *)
(* what the loops have passed was visited.                                 *)
EmittedSet == {Emitted[a] : a \in DOMAIN Emitted}
ImportsOf(m) == {input.imports[m][p] : p \in DOMAIN input.imports[m]}

EmittedOnce == \A a, b \in DOMAIN Emitted : Emitted[a] = Emitted[b] => a = b
ActiveOnce ==
  /\ \A i, j \in 2..Len(stack) : stack[i].mod = stack[j].mod => i = j
  /\ \A i \in 2..Len(stack) : stack[i].mod \notin EmittedSet /\ (input.named => stack[i].mod # Root)
  /\ input.named => Root \notin EmittedSet
VisitedAre ==
  visited = EmittedSet \cup {stack[i].mod : i \in 2..Len(stack)} \cup (IF input.named THEN {Root} ELSE {})
Chained ==
  /\ stack[1].mod = Root
  /\ \A i \in 1..Len(stack) - 1 : stack[i + 1].mod \in ImportsOf(stack[i].mod)
Passed ==
  \A i \in DOMAIN stack : \A p \in DOMAIN input.imports[stack[i].mod] :
    p < stack[i].pos => input.imports[stack[i].mod][p] \in visited \cup {Std}
Complete ==
  \A m \in EmittedSet : m \notin input.broken /\ ImportsOf(m) \subseteq visited \cup {Std}

Merging == EmittedOnce /\ ActiveOnce /\ VisitedAre /\ Chained /\ Passed /\ Complete
MergeInv == RealInv /\ (status = "merge" => Merging)

-----------------------------------------------------------------------------
(* Where a set of numbers begins: the form induction takes below.          *)
LEMMA Least ==
  ASSUME NEW S \in SUBSET Nat, S # {}
  PROVE  \E k \in S : \A j \in S : k <= j
<1> DEFINE R == {r \in Nat \X Nat : r[1] < r[2]}
<1>1. IsWellFoundedOn(R, Nat)
  BY NatLessThanWellFounded DEF OpToRel
<1>2. PICK k \in S : \A j \in S : ~(<<j, k>> \in R)
  <2> HIDE DEF R
  <2> QED
    BY <1>1, WFMin
<1>3. ASSUME NEW j \in S PROVE k <= j
  <2>1. j \in Nat /\ k \in Nat /\ ~(<<j, k>> \in R)
    BY <1>2
  <2> QED
    BY <2>1
<1> QED
  BY <1>3

(* The recursion of Gathered has a solution, and so it does unfold.        *)
Gathers(g, s, n) == g = [k \in 0..n |-> IF k = 0 THEN <<>> ELSE g[k - 1] \o s[k].merged]

(* Some function satisfies the recursion, however many frames there are. *)
LEMMA GatherExists ==
  ASSUME NEW s, NEW n \in Nat
  PROVE  \E g : Gathers(g, s, n)
<1> DEFINE Bad == {k \in Nat : ~\E g : Gathers(g, s, k)}
<1> SUFFICES ASSUME Bad # {} PROVE FALSE
  OBVIOUS
<1>1. PICK k \in Bad : \A j \in Bad : k <= j
  BY Least
<1>2. k # 0
  <2>1. Gathers([i \in 0..0 |-> <<>>], s, 0)
    BY DEF Gathers
  <2> QED
    BY <1>1, <2>1
<1>3. k - 1 \in Nat /\ k - 1 \notin Bad
  BY <1>1, <1>2
<1>4. PICK g : Gathers(g, s, k - 1)
  BY <1>3
<1> DEFINE h == [i \in 0..k |-> IF i = k THEN g[k - 1] \o s[k].merged ELSE g[i]]
<1>5. \A i \in 0..k - 1 : h[i] = g[i] /\ g[i] = IF i = 0 THEN <<>> ELSE g[i - 1] \o s[i].merged
  BY <1>3, <1>4 DEF Gathers
<1>6. \A i \in 0..k : h[i] = IF i = 0 THEN <<>> ELSE h[i - 1] \o s[i].merged
  <2> SUFFICES ASSUME NEW i \in 0..k PROVE h[i] = IF i = 0 THEN <<>> ELSE h[i - 1] \o s[i].merged
    OBVIOUS
  <2>1. CASE i = k
    BY <1>2, <1>3, <1>5, <2>1
  <2>2. CASE i # k
    <3>1. i \in 0..k - 1 /\ (i # 0 => i - 1 \in 0..k - 1)
      BY <1>3, <2>2
    <3> QED
      BY <1>5, <3>1
  <2> QED
    BY <2>1, <2>2
<1>7. h = [i \in 0..k |-> h[i]]
  OBVIOUS
<1> HIDE DEF h
<1>8. Gathers(h, s, k)
  BY <1>6, <1>7 DEF Gathers
<1> QED
  BY <1>1, <1>8

(* So Gathered does: one frame more is one concatenation more.           *)
LEMMA GatherUnfolds ==
  ASSUME NEW s \in Seq(Frames)
  PROVE  /\ Gathered(s)[0] = <<>>
         /\ \A n \in 1..Len(s) : Gathered(s)[n] = Gathered(s)[n - 1] \o s[n].merged
<1>1. Gathered(s) = CHOOSE g : Gathers(g, s, Len(s))
  BY DEF Gathered, Gathers
<1>2. Gathers(Gathered(s), s, Len(s))
  <2>1. Len(s) \in Nat
    OBVIOUS
  <2> QED
    BY <1>1, <2>1, GatherExists
<1> HIDE DEF Gathered
<1> QED
  BY <1>2 DEF Gathers

(* What the frames have gathered is a sequence of modules.               *)
LEMMA GatherType ==
  ASSUME NEW s \in Seq(Frames), NEW n \in 0..Len(s)
  PROVE  Gathered(s)[n] \in Seq(Modules)
<1> DEFINE Bad == {k \in Nat : k <= Len(s) /\ Gathered(s)[k] \notin Seq(Modules)}
<1> SUFFICES ASSUME Bad # {} PROVE FALSE
  OBVIOUS
<1>1. PICK k \in Bad : \A j \in Bad : k <= j
  BY Least
<1>2. k # 0
  <2>1. Gathered(s)[0] = <<>>
    BY GatherUnfolds
  <2>2. <<>> \in Seq(Modules)
    BY EmptySeq
  <2> QED
    BY <1>1, <2>1, <2>2
<1>3. k - 1 \in Nat /\ k - 1 \notin Bad /\ k \in 1..Len(s) /\ k - 1 <= Len(s)
  BY <1>1, <1>2
<1>4. Gathered(s)[k - 1] \in Seq(Modules) /\ s[k].merged \in Seq(Modules)
  <2>1. s[k] \in Frames
    BY <1>3
  <2> QED
    BY <1>3, <2>1 DEF Frames
<1>5. Gathered(s)[k] = Gathered(s)[k - 1] \o s[k].merged
  BY <1>3, GatherUnfolds
<1>6. Gathered(s)[k - 1] \o s[k].merged \in Seq(Modules)
  BY <1>4
<1> QED
  BY <1>1, <1>5, <1>6

(* Only what the frames have merged counts.                                *)
LEMMA GatherSame ==
  ASSUME NEW s \in Seq(Frames), NEW u \in Seq(Frames), NEW n \in 0..Len(s), n <= Len(u),
         \A i \in 1..n : s[i].merged = u[i].merged
  PROVE  Gathered(s)[n] = Gathered(u)[n]
<1> DEFINE Bad == {k \in Nat : k <= n /\ Gathered(s)[k] # Gathered(u)[k]}
<1> SUFFICES ASSUME Bad # {} PROVE FALSE
  OBVIOUS
<1>1. PICK k \in Bad : \A j \in Bad : k <= j
  BY Least
<1>2. k # 0
  BY <1>1, GatherUnfolds
<1>3. k - 1 \in Nat /\ k - 1 \notin Bad /\ k \in 1..n /\ k \in 1..Len(s) /\ k \in 1..Len(u)
  BY <1>1, <1>2
<1>4. /\ Gathered(s)[k] = Gathered(s)[k - 1] \o s[k].merged
      /\ Gathered(u)[k] = Gathered(u)[k - 1] \o u[k].merged
  BY <1>3, GatherUnfolds
<1>5. Gathered(s)[k - 1] = Gathered(u)[k - 1] /\ s[k].merged = u[k].merged
  <2>1. k - 1 <= n
    BY <1>3
  <2> QED
    BY <1>3, <2>1
<1> QED
  BY <1>1, <1>4, <1>5

(* What the merger has emitted does not change while a call moves on or    *)
(* another one is made; a return emits the file it merged, and the end of  *)
(* the outermost call emits the root.                                      *)
LEMMA EmittedType ==
  ASSUME TypeOK
  PROVE  Emitted \in Seq(Modules)
<1>1. Gathered(stack)[Len(stack)] \in Seq(Modules)
  BY GatherType DEF TypeOK
<1> QED
  BY <1>1 DEF TypeOK, Emitted

(* Moving a loop on emits nothing.                                       *)
LEMMA EmittedAdvanced ==
  ASSUME stack \in Seq(Frames), stack # <<>>
  PROVE  Gathered(Advanced)[Len(Advanced)] = Gathered(stack)[Len(stack)]
<1>1. /\ Advanced \in Seq(Frames) /\ Len(Advanced) = Len(stack)
      /\ \A i \in DOMAIN stack : Advanced[i].merged = stack[i].merged
  <2>1. \A f \in Frames : [f EXCEPT !.pos = @ + 1].merged = f.merged
    BY DEF Frames
  <2>2. \A i \in DOMAIN stack :
          stack[i] \in Frames /\ Advanced[i] = IF i = Len(stack) THEN [stack[i] EXCEPT !.pos = @ + 1] ELSE stack[i]
    BY DEF Advanced
  <2> QED
    BY <2>1, <2>2, AdvancedStack
<1> QED
  BY <1>1, GatherSame

(* A call starts with nothing merged, and so emits nothing.              *)
LEMMA EmittedEntered ==
  ASSUME stack \in Seq(Frames), stack # <<>>, NEW m \in Modules,
         NEW s, s = Append(Advanced, Frame(m))
  PROVE  Gathered(s)[Len(s)] = Gathered(stack)[Len(stack)]
<1>1. /\ Advanced \in Seq(Frames) /\ Frame(m) \in Frames /\ Frame(m).merged = <<>>
  BY AdvancedStack, FreshFrame DEF Frame
<1>2. /\ s \in Seq(Frames) /\ Len(s) = Len(Advanced) + 1 /\ Len(Advanced) \in Nat
      /\ \A i \in 1..Len(Advanced) : s[i].merged = Advanced[i].merged
      /\ s[Len(s)] = Frame(m) /\ Len(s) - 1 = Len(Advanced) /\ Len(s) \in 1..Len(s)
  BY <1>1
<1>3. Gathered(s)[Len(Advanced)] = Gathered(Advanced)[Len(Advanced)]
  <2>1. /\ Len(Advanced) \in 0..Len(s) /\ Len(Advanced) <= Len(Advanced)
        /\ \A i \in 1..Len(Advanced) : s[i].merged = Advanced[i].merged
    BY <1>2
  <2> QED
    BY <1>1, <1>2, <2>1, GatherSame
<1>4. Gathered(s)[Len(s)] = Gathered(s)[Len(Advanced)] \o <<>>
  BY <1>1, <1>2, GatherUnfolds
<1>5. Gathered(s)[Len(Advanced)] \in Seq(Modules)
  <2>1. Len(Advanced) \in 0..Len(s)
    BY <1>2
  <2> QED
    BY <1>2, <2>1, GatherType
<1>6. Gathered(s)[Len(Advanced)] \o <<>> = Gathered(s)[Len(Advanced)]
  BY <1>5, ConcatEmptySeq
<1> QED
  BY <1>3, <1>4, <1>6, EmittedAdvanced

(* Concatenation is associative.                                           *)
LEMMA Regroup ==
  ASSUME NEW p \in Seq(Modules), NEW g \in Seq(Modules), NEW a \in Seq(Modules), NEW b \in Seq(Modules), NEW m \in Modules
  PROVE  p \o (g \o (a \o Append(b, m))) = Append(p \o ((g \o a) \o b), m)
<1>1. Append(b, m) = b \o <<m>> /\ <<m>> \in Seq(Modules)
  BY AppendIsConcat
<1>2. a \o (b \o <<m>>) = (a \o b) \o <<m>> /\ a \o b \in Seq(Modules)
  BY <1>1, ConcatAssociative
<1>3. g \o ((a \o b) \o <<m>>) = (g \o (a \o b)) \o <<m>> /\ g \o (a \o b) \in Seq(Modules)
  BY <1>1, <1>2, ConcatAssociative
<1>4. g \o (a \o b) = (g \o a) \o b
  BY ConcatAssociative
<1>5. p \o ((g \o (a \o b)) \o <<m>>) = (p \o (g \o (a \o b))) \o <<m>> /\ p \o (g \o (a \o b)) \in Seq(Modules)
  <2>1. ASSUME NEW x \in Seq(Modules), NEW y \in Seq(Modules), NEW z \in Seq(Modules)
        PROVE  x \o y \in Seq(Modules) /\ x \o (y \o z) = (x \o y) \o z
    BY SMTT(30)
  <2> QED
    BY <1>1, <1>3, <2>1
<1>6. Append(p \o (g \o (a \o b)), m) = (p \o (g \o (a \o b))) \o <<m>>
  BY <1>5, AppendIsConcat
<1> QED
  BY <1>1, <1>2, <1>3, <1>4, <1>5, <1>6

(* The splice of a return adds the called file after all that is emitted.*)
LEMMA EmittedReturned ==
  ASSUME TypeOK, Len(stack) > 1, NEW n, n = Len(stack) - 1
  PROVE  program \o Gathered(Returned)[Len(Returned)] = Append(Emitted, Top.mod)
<1> DEFINE f == stack[n]
           e == stack[n + 1]
           h == [f EXCEPT !.merged = @ \o Merged(e)]
<1>1. /\ stack \in Seq(Frames) /\ n \in Nat \ {0} /\ n \in DOMAIN stack /\ n + 1 \in DOMAIN stack
      /\ n + 1 = Len(stack) /\ Top = e /\ n - 1 \in Nat /\ (n + 1) - 1 = n
  BY DEF TypeOK, Top
<1>2. f \in Frames /\ e \in Frames
  BY <1>1
<1>3. Pop \in Seq(Frames) /\ Len(Pop) = n /\ \A i \in 1..n : Pop[i] = stack[i]
  BY <1>1 DEF Pop
<1>5. Returned = [Pop EXCEPT ![n] = h]
  <2>1. Returned = [Pop EXCEPT ![n] = [Pop[n] EXCEPT !.merged = @ \o Merged(stack[n + 1])]]
    BY <1>1 DEF Returned
  <2>2. Pop[n] = stack[n]
    BY <1>1, <1>3
  <2> QED
    BY <2>1, <2>2
<1> HIDE DEF f, e
<1>4. /\ h \in Frames /\ h.merged = f.merged \o Append(e.merged, e.mod)
      /\ f.merged \in Seq(Modules) /\ e.merged \in Seq(Modules) /\ e.mod \in Modules
  <2>1. f.merged \in Seq(Modules) /\ e.merged \in Seq(Modules) /\ e.mod \in Modules
    BY <1>2 DEF Frames
  <2>2. h.merged = f.merged \o Merged(e)
    BY <1>2 DEF Frames
  <2>3. Merged(e) = Append(e.merged, e.mod) /\ f.merged \o Merged(e) \in Seq(Modules)
    BY <2>1 DEF Merged
  <2>4. f.merged \o Merged(e) \in Seq(Modules) => h \in Frames
    BY <1>2 DEF Frames
  <2> QED
    BY <2>1, <2>2, <2>3, <2>4
<1> HIDE DEF h
<1>6. /\ Returned \in Seq(Frames) /\ Len(Returned) = n /\ Returned[n] = h
      /\ \A i \in 1..n - 1 : Returned[i] = stack[i]
  <2>1. Returned \in Seq(Frames) /\ Len(Returned) = n
    BY <1>1, <1>3, <1>4, <1>5
  <2>2. n \in DOMAIN Pop /\ \A i \in 1..n - 1 : i \in DOMAIN Pop /\ i # n /\ i \in 1..n
    BY <1>1, <1>3
  <2> QED
    BY <1>3, <1>5, <2>1, <2>2
<1>7. Gathered(Returned)[n - 1] = Gathered(stack)[n - 1]
  <2>1. n - 1 \in 0..Len(Returned) /\ n - 1 <= Len(stack) /\ \A i \in 1..n - 1 : Returned[i].merged = stack[i].merged
    BY <1>1, <1>6
  <2> QED
    BY <1>1, <1>6, <2>1, GatherSame
<1>8. Gathered(Returned)[n] = Gathered(stack)[n - 1] \o (f.merged \o Append(e.merged, e.mod))
  <2>1. n \in 1..Len(Returned)
    BY <1>1, <1>6
  <2>2. Gathered(Returned)[n] = Gathered(Returned)[n - 1] \o Returned[n].merged
    BY <1>6, <2>1, GatherUnfolds
  <2> QED
    BY <1>4, <1>6, <1>7, <2>2
<1>9. Gathered(stack)[n + 1] = (Gathered(stack)[n - 1] \o f.merged) \o e.merged
  <2>1. n \in 1..Len(stack) /\ n + 1 \in 1..Len(stack)
    BY <1>1
  <2>2. Gathered(stack)[n] = Gathered(stack)[n - 1] \o f.merged
    BY <1>1, <2>1, GatherUnfolds DEF f
  <2>3. Gathered(stack)[n + 1] = Gathered(stack)[(n + 1) - 1] \o e.merged
    BY <1>1, <2>1, GatherUnfolds DEF e
  <2> QED
    BY <1>1, <2>2, <2>3
<1>10. Gathered(stack)[n - 1] \in Seq(Modules) /\ program \in Seq(Modules)
  <2>1. n - 1 \in 0..Len(stack)
    BY <1>1
  <2> QED
    BY <1>1, <2>1, GatherType DEF TypeOK
<1>11. Emitted = program \o ((Gathered(stack)[n - 1] \o f.merged) \o e.merged)
  BY <1>1, <1>9 DEF Emitted
<1>12. program \o (Gathered(stack)[n - 1] \o (f.merged \o Append(e.merged, e.mod)))
         = Append(program \o ((Gathered(stack)[n - 1] \o f.merged) \o e.merged), e.mod)
  <2>1. \A p, g, a, b \in Seq(Modules) : \A m \in Modules :
          p \o (g \o (a \o Append(b, m))) = Append(p \o ((g \o a) \o b), m)
    BY Regroup
  <2>2. \A g, a, b \in Seq(Modules) : \A m \in Modules :
          program \o (g \o (a \o Append(b, m))) = Append(program \o ((g \o a) \o b), m)
    BY <1>10, <2>1
  <2>3. \A a, b \in Seq(Modules) : \A m \in Modules :
          program \o (Gathered(stack)[n - 1] \o (a \o Append(b, m)))
            = Append(program \o ((Gathered(stack)[n - 1] \o a) \o b), m)
    BY <1>10, <2>2
  <2> QED
    BY <1>4, <2>3
<1>13. Gathered(Returned)[Len(Returned)] = Gathered(Returned)[n]
  BY <1>6
<1> QED
  BY <1>1, <1>8, <1>11, <1>12, <1>13

(* The end of the outermost call adds the root.                          *)
LEMMA EmittedDone ==
  ASSUME TypeOK, Len(stack) = 1, program = <<>>
  PROVE  Merged(Top) = Append(Emitted, Top.mod)
<1>1. stack \in Seq(Frames) /\ 1 \in 1..Len(stack) /\ Top = stack[1] /\ stack[1] \in Frames
  <2>1. stack \in Seq(Frames)
    BY DEF TypeOK
  <2>2. 1 \in 1..Len(stack) /\ stack[1] \in Frames
    BY <2>1
  <2> QED
    BY <2>1, <2>2 DEF Top
<1>2. stack[1].merged \in Seq(Modules)
  BY <1>1 DEF Frames
<1>3. Gathered(stack)[1] = <<>> \o stack[1].merged
  <2>1. PICK n \in 1..Len(stack) : n = 1 /\ n - 1 = 0
    BY <1>1
  <2>2. Gathered(stack)[n] = Gathered(stack)[n - 1] \o stack[n].merged /\ Gathered(stack)[0] = <<>>
    BY <1>1, GatherUnfolds
  <2> QED
    BY <2>1, <2>2
<1>4. Emitted = stack[1].merged
  BY <1>2, <1>3, ConcatEmptySeq DEF Emitted
<1> QED
  BY <1>1, <1>4 DEF Merged

-----------------------------------------------------------------------------
(* Where the loops stand after a step.                                     *)
LEMMA AdvancedAt ==
  ASSUME stack \in Seq(Frames), stack # <<>>
  PROVE  /\ Len(Advanced) = Len(stack) /\ Advanced \in Seq(Frames)
         /\ \A i \in DOMAIN stack :
              /\ Advanced[i].mod = stack[i].mod
              /\ Advanced[i].pos = IF i = Len(stack) THEN stack[i].pos + 1 ELSE stack[i].pos
<1>1. \A f \in Frames : [f EXCEPT !.pos = @ + 1].mod = f.mod /\ [f EXCEPT !.pos = @ + 1].pos = f.pos + 1
  BY DEF Frames
<1>2. \A i \in DOMAIN stack :
        stack[i] \in Frames /\ Advanced[i] = IF i = Len(stack) THEN [stack[i] EXCEPT !.pos = @ + 1] ELSE stack[i]
  BY DEF Advanced
<1> QED
  BY <1>1, <1>2, AdvancedStack

(* A return leaves the files and the positions of the callers.           *)
LEMMA ReturnedAt ==
  ASSUME stack \in Seq(Frames), Len(stack) > 1
  PROVE  /\ Len(Returned) = Len(stack) - 1
         /\ \A i \in 1..Len(stack) - 1 : Returned[i].mod = stack[i].mod /\ Returned[i].pos = stack[i].pos
<1>1. /\ Pop \in Seq(Frames) /\ Len(Pop) = Len(stack) - 1 /\ DOMAIN Pop = 1..Len(stack) - 1
      /\ \A i \in 1..Len(stack) - 1 : Pop[i] = stack[i] /\ Pop[i] \in Frames
  BY DEF Pop
<1>2. \A f \in Frames : \A s : [f EXCEPT !.merged = @ \o s].mod = f.mod /\ [f EXCEPT !.merged = @ \o s].pos = f.pos
  BY DEF Frames
<1>3. \A i \in 1..Len(stack) - 1 :
        Returned[i] = IF i = Len(stack) - 1 THEN [Pop[i] EXCEPT !.merged = @ \o Merged(Top)] ELSE Pop[i]
  BY <1>1 DEF Returned
<1>4. Len(Returned) = Len(stack) - 1
  BY <1>1 DEF Returned
<1>5. ASSUME NEW i \in 1..Len(stack) - 1
      PROVE  Returned[i].mod = stack[i].mod /\ Returned[i].pos = stack[i].pos
  <2>1. Pop[i] \in Frames /\ Pop[i] = stack[i]
    BY <1>1
  <2>2. CASE i = Len(stack) - 1
    <3>1. Returned[i] = [Pop[i] EXCEPT !.merged = @ \o Merged(Top)]
      BY <1>3, <2>2
    <3> QED
      BY <1>2, <2>1, <3>1
  <2>3. CASE i # Len(stack) - 1
    BY <1>3, <2>1, <2>3
  <2> QED
    BY <2>2, <2>3
<1> QED
  BY <1>4, <1>5

(* The innermost call, and the declaration it stands at.                   *)
LEMMA Standing ==
  ASSUME MergeInv, NEW target, AtImport(target)
  PROVE  /\ stack \in Seq(Frames) /\ stack # <<>> /\ status = "merge" /\ Merging
         /\ Len(stack) \in DOMAIN stack /\ Len(stack) \in Nat \ {0}
         /\ Top = stack[Len(stack)] /\ Top \in Frames
         /\ Top.pos \in DOMAIN input.imports[Top.mod]
         /\ target = input.imports[Top.mod][Top.pos] /\ target \in ImportsOf(Top.mod)
<1>1. TypeOK /\ stack \in Seq(Frames) /\ stack # <<>> /\ status = "merge" /\ Merging
  BY DEF MergeInv, RealInv, IInv, TypeOK, AtImport
<1>2. Len(stack) \in DOMAIN stack /\ Len(stack) \in Nat \ {0} /\ Top = stack[Len(stack)]
  BY <1>1 DEF Top
<1>3. Top \in Frames
  BY <1>1, <1>2
<1>4. Top.pos \in Nat \ {0} /\ input.imports[Top.mod] \in Seq(Targets)
  BY <1>1, <1>3 DEF Frames, TypeOK, Graph
<1>5. Top.pos <= Len(input.imports[Top.mod]) /\ target = input.imports[Top.mod][Top.pos]
  BY DEF AtImport
<1>6. Top.pos \in DOMAIN input.imports[Top.mod]
  BY <1>4, <1>5
<1> QED
  BY <1>1, <1>2, <1>3, <1>5, <1>6 DEF ImportsOf

(* The loop moves on past a declaration that names nothing new.            *)
LEMMA PassStep ==
  ASSUME MergeInv, NEW target, AtImport(target), target \in visited \cup {Std}, stack' = Advanced,
         UNCHANGED <<input, status, visited, program, diagnostic>>
  PROVE  Merging'
<1>1. /\ stack \in Seq(Frames) /\ stack # <<>> /\ Merging /\ Top = stack[Len(stack)]
      /\ target = input.imports[Top.mod][Top.pos] /\ Top \in Frames
  BY Standing
<1>2. /\ Len(stack') = Len(stack) /\ stack' \in Seq(Frames) /\ DOMAIN stack' = 1..Len(stack) /\ Len(stack) \in Nat
      /\ \A i \in 1..Len(stack) :
           /\ stack'[i].mod = stack[i].mod
           /\ stack'[i].pos = IF i = Len(stack) THEN stack[i].pos + 1 ELSE stack[i].pos
  BY <1>1, AdvancedAt
<1>n. Len(stack) \in Nat \ {0}
  BY <1>1
<1>3. Emitted' = Emitted
  BY <1>1, EmittedAdvanced DEF Emitted
<1>4. EmittedSet' = EmittedSet
  BY <1>3 DEF EmittedSet
<1>5. ActiveOnce' /\ VisitedAre' /\ Chained' /\ EmittedOnce' /\ Complete'
  <2>1. EmittedOnce'
    BY <1>1, <1>3 DEF Merging, EmittedOnce
  <2>2. 2..Len(stack) \subseteq 1..Len(stack)
    BY <1>n
  <2>3. ActiveOnce'
    BY <1>1, <1>2, <1>4, <2>2 DEF Merging, ActiveOnce
  <2>4. VisitedAre'
    BY <1>1, <1>2, <1>4, <2>2 DEF Merging, VisitedAre
  <2>5. Complete'
    BY <1>1, <1>4 DEF Merging, Complete, ImportsOf
  <2>6. Chained'
    <3>1. 1 \in 1..Len(stack) /\ \A i \in 1..Len(stack) - 1 : i \in 1..Len(stack) /\ i + 1 \in 1..Len(stack)
      BY <1>n
    <3>2. stack'[1].mod = Root
      BY <1>1, <1>2, <3>1 DEF Merging, Chained
    <3>3. ASSUME NEW i \in 1..Len(stack) - 1 PROVE stack'[i + 1].mod \in ImportsOf(stack'[i].mod)
      <4>1. stack[i + 1].mod \in ImportsOf(stack[i].mod)
        BY <1>1 DEF Merging, Chained
      <4> QED
        BY <1>2, <3>1, <4>1
    <3>4. input' = input /\ Len(stack') = Len(stack)
      BY <1>2
    <3>5. \A i \in 1..Len(stack) - 1 :
            stack'[i + 1].mod \in {input'.imports[stack'[i].mod][p] : p \in DOMAIN input'.imports[stack'[i].mod]}
      BY <3>3, <3>4 DEF ImportsOf
    <3> QED
      BY <3>2, <3>4, <3>5 DEF Chained, ImportsOf
  <2> QED
    BY <2>1, <2>3, <2>4, <2>5, <2>6
<1>6. Passed'
  <2> SUFFICES ASSUME NEW i \in 1..Len(stack), NEW p \in DOMAIN input.imports[stack[i].mod], p < stack'[i].pos
               PROVE  input.imports[stack[i].mod][p] \in visited \cup {Std}
    BY <1>2 DEF Passed
  <2>1. CASE p < stack[i].pos
    <3>1. i \in DOMAIN stack
      BY <1>1
    <3> QED
      BY <1>1, <2>1, <3>1 DEF Merging, Passed
  <2>2. CASE ~(p < stack[i].pos)
    <3>1. i = Len(stack)
      BY <1>2, <2>2
    <3>2. p \in Nat /\ stack[i].pos \in Nat
      <4>1. input.imports[stack[i].mod] \in Seq(Targets)
        BY <1>1, <3>1 DEF MergeInv, RealInv, IInv, TypeOK, Graph, Frames
      <4>2. p \in Nat
        BY <4>1
      <4> QED
        BY <1>1, <3>1, <4>2 DEF Frames
    <3>3. p = stack[i].pos
      <4>1. p < stack[i].pos + 1
        BY <1>2, <3>1
      <4> QED
        BY <2>2, <3>2, <4>1
    <3> QED
      BY <1>1, <3>1, <3>3
  <2> QED
    BY <2>1, <2>2
<1> QED
  BY <1>5, <1>6 DEF Merging

(* A call is made for an import that was not visited.                      *)
LEMMA EnteredStep ==
  ASSUME MergeInv, NEW m \in Modules, EnterImport(m)
  PROVE  Merging'
<1> DEFINE n == Len(stack)
<1>1. /\ stack \in Seq(Frames) /\ stack # <<>> /\ Merging /\ Top = stack[n] /\ n \in Nat \ {0}
      /\ m = input.imports[Top.mod][Top.pos] /\ m \in ImportsOf(Top.mod)
      /\ Top.pos \in DOMAIN input.imports[Top.mod] /\ Top \in Frames
  BY Standing DEF EnterImport
<1>2. /\ stack' = Append(Advanced, Frame(m)) /\ visited' = visited \cup {m} /\ m \notin visited
      /\ UNCHANGED <<input, status, program, diagnostic>>
  BY DEF EnterImport
<1>3. /\ Len(stack') = n + 1 /\ DOMAIN stack' = 1..n + 1
      /\ stack'[n + 1].mod = m /\ stack'[n + 1].pos = 1
      /\ \A i \in 1..n : /\ stack'[i].mod = stack[i].mod
                         /\ stack'[i].pos = IF i = n THEN stack[i].pos + 1 ELSE stack[i].pos
  <2>1. /\ Advanced \in Seq(Frames) /\ Len(Advanced) = n
        /\ Frame(m) \in Frames /\ Frame(m).mod = m /\ Frame(m).pos = 1
    BY <1>1, AdvancedAt, FreshFrame DEF Frame
  <2>2. /\ Len(stack') = n + 1 /\ DOMAIN stack' = 1..n + 1 /\ stack'[n + 1] = Frame(m)
        /\ \A i \in 1..n : stack'[i] = Advanced[i]
    BY <1>2, <2>1
  <2> QED
    BY <1>1, <2>1, <2>2, AdvancedAt
<1>4. Emitted' = Emitted
  BY <1>1, <1>2, EmittedEntered DEF Emitted
<1>5. EmittedSet' = EmittedSet
  BY <1>4 DEF EmittedSet
<1>6. /\ m \notin EmittedSet /\ (input.named => m # Root)
      /\ \A i \in 2..n : stack[i].mod # m
  BY <1>1, <1>2 DEF Merging, VisitedAre
<1>a. n = Len(stack)
  OBVIOUS
<1> HIDE DEF n
<1>r. 2..n \subseteq 1..n /\ \A i \in 2..n + 1 : i = n + 1 \/ i \in 2..n
  BY <1>1
<1>7. EmittedOnce'
  BY <1>1, <1>4 DEF Merging, EmittedOnce
<1>8. ActiveOnce'
  <2>1. \A i \in 2..n : /\ stack'[i].mod = stack[i].mod /\ stack[i].mod # m /\ stack[i].mod \notin EmittedSet
                        /\ input.named => stack[i].mod # Root
    BY <1>1, <1>3, <1>6, <1>a, <1>r DEF Merging, ActiveOnce
  <2>2. /\ \A i, j \in 2..n : stack[i].mod = stack[j].mod => i = j
        /\ input.named => Root \notin EmittedSet
    BY <1>1, <1>a DEF Merging, ActiveOnce
  <2>3. \A i, j \in 2..n + 1 : stack'[i].mod = stack'[j].mod => i = j
    BY <1>3, <1>r, <2>1, <2>2
  <2>4. \A i \in 2..n + 1 : stack'[i].mod \notin EmittedSet /\ (input.named => stack'[i].mod # Root)
    BY <1>3, <1>6, <1>r, <2>1
  <2> QED
    BY <1>2, <1>3, <1>5, <2>2, <2>3, <2>4 DEF ActiveOnce
<1>9. VisitedAre'
  <2>1. {stack'[i].mod : i \in 2..n + 1} = {stack[i].mod : i \in 2..n} \cup {m}
    <3>1. n + 1 \in 2..n + 1 /\ 2..n \subseteq 2..n + 1
      BY <1>1
    <3> QED
      BY <1>3, <1>r, <3>1
  <2>2. visited = EmittedSet \cup {stack[i].mod : i \in 2..n} \cup (IF input.named THEN {Root} ELSE {})
    BY <1>1, <1>a DEF Merging, VisitedAre
  <2>3. visited' = EmittedSet' \cup {stack'[i].mod : i \in 2..n + 1} \cup (IF input'.named THEN {Root} ELSE {})
    BY <1>2, <1>5, <2>1, <2>2
  <2> QED
    BY <1>3, <2>3 DEF VisitedAre
<1>10. Chained'
  <2> SUFFICES ASSUME NEW i \in 1..n PROVE stack'[i + 1].mod \in ImportsOf(stack[i].mod)
    <3>1. 1 \in 1..n /\ (n + 1) - 1 = n /\ stack[1].mod = Root
      BY <1>1 DEF Merging, Chained
    <3>2. input' = input /\ Len(stack') = n + 1 /\ \A i \in 1..n : stack'[i].mod = stack[i].mod
      BY <1>2, <1>3
    <3>3. \A i \in 1..n :
            stack'[i + 1].mod \in {input'.imports[stack'[i].mod][p] : p \in DOMAIN input'.imports[stack'[i].mod]}
      BY <3>2 DEF ImportsOf
    <3> QED
      BY <3>1, <3>2, <3>3 DEF Chained, ImportsOf
  <2>1. CASE i = n
    BY <1>1, <1>3, <2>1
  <2>2. CASE i # n
    <3>1. i \in 1..n - 1 /\ i + 1 \in 1..n
      BY <1>1, <2>2
    <3> QED
      BY <1>1, <1>3, <1>a, <3>1 DEF Merging, Chained
  <2> QED
    BY <2>1, <2>2
<1>11. Passed'
  <2> SUFFICES ASSUME NEW i \in 1..n + 1, NEW p \in DOMAIN input.imports[stack'[i].mod], p < stack'[i].pos
               PROVE  input.imports[stack'[i].mod][p] \in visited' \cup {Std}
    BY <1>2, <1>3 DEF Passed
  <2>1. CASE i \in 1..n /\ p < stack[i].pos
    <3>1. stack'[i].mod = stack[i].mod /\ i \in DOMAIN stack
      BY <1>3, <1>a, <1>1, <2>1
    <3> QED
      BY <1>1, <1>2, <2>1, <3>1 DEF Merging, Passed
  <2>2. CASE i \in 1..n /\ ~(p < stack[i].pos)
    <3>1. i = n /\ stack'[i].mod = Top.mod
      BY <1>1, <1>3, <2>2
    <3>2. p \in Nat /\ stack[i].pos \in Nat
      <4>1. input.imports[stack'[i].mod] \in Seq(Targets)
        BY <1>1, <3>1 DEF MergeInv, RealInv, IInv, TypeOK, Graph, Frames
      <4>2. p \in Nat
        BY <4>1
      <4> QED
        BY <1>1, <3>1, <4>2 DEF Frames
    <3>3. p = stack[i].pos
      BY <1>3, <2>2, <3>1, <3>2
    <3> QED
      BY <1>1, <1>2, <3>1, <3>3
  <2>3. CASE i = n + 1
    <3>1. stack'[i].mod = m /\ p < 1
      BY <1>3, <2>3
    <3>2. input.imports[m] \in Seq(Targets)
      BY DEF MergeInv, RealInv, IInv, TypeOK, Graph
    <3> QED
      BY <3>1, <3>2
  <2> QED
    BY <1>1, <2>1, <2>2, <2>3
<1>12. Complete'
  BY <1>1, <1>2, <1>5 DEF Merging, Complete, ImportsOf
<1> QED
  BY <1>7, <1>8, <1>9, <1>10, <1>11, <1>12 DEF Merging

(* At the end of its loop a call has seen every import of its file.        *)
LEMMA AllPassed ==
  ASSUME MergeInv, AtEnd
  PROVE  /\ stack \in Seq(Frames) /\ Len(stack) \in Nat \ {0} /\ Merging /\ status = "merge" /\ TypeOK
         /\ Top = stack[Len(stack)] /\ Len(stack) \in DOMAIN stack
         /\ Top.mod \in Modules \ input.broken
         /\ ImportsOf(Top.mod) \subseteq visited \cup {Std}
         /\ program = <<>>
<1>1. /\ TypeOK /\ stack \in Seq(Frames) /\ stack # <<>> /\ status = "merge" /\ Merging /\ program = <<>> /\ Unbroken
  BY DEF MergeInv, RealInv, IInv, TypeOK, AtEnd, NothingYet
<1>2. Len(stack) \in DOMAIN stack /\ Len(stack) \in Nat \ {0} /\ Top = stack[Len(stack)]
  BY <1>1 DEF Top
<1>3. Top \in Frames
  BY <1>1, <1>2
<1>4. Top.mod \in Modules \ input.broken /\ Top.pos \in Nat \ {0} /\ input.imports[Top.mod] \in Seq(Targets)
  BY <1>1, <1>2, <1>3 DEF Frames, TypeOK, Graph, Unbroken
<1>5. \A p \in DOMAIN input.imports[Top.mod] : p < Top.pos
  BY <1>4 DEF AtEnd
<1>6. ImportsOf(Top.mod) \subseteq visited \cup {Std}
  BY <1>1, <1>2, <1>5 DEF Merging, Passed, ImportsOf
<1> QED
  BY <1>1, <1>2, <1>4, <1>6

(* A call returns: its file is emitted.                                    *)
LEMMA ReturningStep ==
  ASSUME MergeInv, ReturnToImporter
  PROVE  /\ Merging'
         /\ Emitted' = Append(Emitted, Top.mod)
         /\ Top.mod \notin EmittedSet /\ (input.named => Top.mod # Root)
<1> DEFINE n == Len(stack)
           m == Top.mod
<1>1. /\ stack \in Seq(Frames) /\ n \in Nat /\ n > 1 /\ Merging /\ Top = stack[n] /\ TypeOK
      /\ m \in Modules \ input.broken /\ ImportsOf(m) \subseteq visited \cup {Std}
  BY AllPassed DEF ReturnToImporter
<1>2. /\ stack' = Returned /\ UNCHANGED <<input, status, visited, program, diagnostic>>
  BY DEF ReturnToImporter
<1>3. /\ Len(stack') = n - 1
      /\ \A i \in 1..n - 1 : stack'[i].mod = stack[i].mod /\ stack'[i].pos = stack[i].pos
  BY <1>1, <1>2, ReturnedAt
<1>4. Emitted' = Append(Emitted, m)
  <2>1. program \o Gathered(Returned)[Len(Returned)] = Append(Emitted, Top.mod)
    BY <1>1, EmittedReturned
  <2> QED
    BY <1>2, <2>1 DEF Emitted
<1>a. n = Len(stack)
  OBVIOUS
<1>d. DOMAIN stack' = 1..n - 1
  <2>1. stack' \in Seq(Frames)
    BY <1>1, <1>2, ReturnedStack DEF MergeInv, RealInv, IInv
  <2> QED
    BY <1>3, <2>1
<1> HIDE DEF n
<1>r. 2 \in 2..n /\ n \in 2..n /\ 2..n - 1 \subseteq 2..n /\ 2..n - 1 \subseteq 1..n - 1 /\ 1 \in 1..n - 1
      /\ (\A i \in 2..n : i = n \/ i \in 2..n - 1)
      /\ \A i \in 2..n - 1 : i # n
  BY <1>1
<1>5. /\ m \notin EmittedSet /\ (input.named => m # Root /\ Root \notin EmittedSet)
      /\ \A i \in 2..n - 1 : /\ stack[i].mod # m /\ stack[i].mod \notin EmittedSet
                             /\ input.named => stack[i].mod # Root
  BY <1>1, <1>a, <1>r DEF Merging, ActiveOnce
<1>6. Emitted \in Seq(Modules) /\ m \in Modules
  BY <1>1, EmittedType
<1>7. /\ DOMAIN Emitted = 1..Len(Emitted) /\ DOMAIN Emitted' = 1..Len(Emitted) + 1 /\ Len(Emitted) \in Nat
      /\ Emitted'[Len(Emitted) + 1] = m /\ \A a \in 1..Len(Emitted) : Emitted'[a] = Emitted[a]
  BY <1>4, <1>6
<1> HIDE DEF m
<1>8. EmittedSet' = EmittedSet \cup {m}
  <2>1. \A a \in 1..Len(Emitted) + 1 : a \in 1..Len(Emitted) \/ a = Len(Emitted) + 1
    BY <1>7
  <2>2. 1..Len(Emitted) \subseteq 1..Len(Emitted) + 1 /\ Len(Emitted) + 1 \in 1..Len(Emitted) + 1
    BY <1>7
  <2> QED
    BY <1>7, <2>1, <2>2 DEF EmittedSet
<1>9. EmittedOnce'
  <2>1. \A a, b \in 1..Len(Emitted) : Emitted[a] = Emitted[b] => a = b
    BY <1>1, <1>7 DEF Merging, EmittedOnce
  <2>2. \A a \in 1..Len(Emitted) : Emitted[a] # m
    BY <1>5, <1>7 DEF EmittedSet
  <2>3. \A a \in 1..Len(Emitted) + 1 : a \in 1..Len(Emitted) \/ a = Len(Emitted) + 1
    BY <1>7
  <2>4. \A a, b \in 1..Len(Emitted) + 1 : Emitted'[a] = Emitted'[b] => a = b
    BY <1>7, <2>1, <2>2, <2>3
  <2> QED
    BY <1>7, <2>4 DEF EmittedOnce
<1>10. ActiveOnce'
  <2>1. \A i, j \in 2..n - 1 : stack'[i].mod = stack'[j].mod => i = j
    <3>1. \A i, j \in 2..n : stack[i].mod = stack[j].mod => i = j
      BY <1>1, <1>a DEF Merging, ActiveOnce
    <3>2. \A i \in 2..n - 1 : i \in 2..n /\ stack'[i].mod = stack[i].mod
      BY <1>3, <1>r
    <3> QED
      BY <3>1, <3>2
  <2>2. \A i \in 2..n - 1 : stack'[i].mod \notin EmittedSet' /\ (input.named => stack'[i].mod # Root)
    BY <1>3, <1>5, <1>8, <1>r
  <2>3. input.named => Root \notin EmittedSet'
    BY <1>5, <1>8
  <2> QED
    BY <1>2, <1>3, <2>1, <2>2, <2>3 DEF ActiveOnce
<1>11. VisitedAre'
  <2>1. {stack[i].mod : i \in 2..n} = {stack'[i].mod : i \in 2..n - 1} \cup {m}
    BY <1>1, <1>3, <1>r DEF m
  <2>2. visited = EmittedSet \cup {stack[i].mod : i \in 2..n} \cup (IF input.named THEN {Root} ELSE {})
    BY <1>1, <1>a DEF Merging, VisitedAre
  <2>3. visited' = EmittedSet' \cup {stack'[i].mod : i \in 2..n - 1} \cup (IF input'.named THEN {Root} ELSE {})
    BY <1>2, <1>8, <2>1, <2>2
  <2> QED
    BY <1>3, <2>3 DEF VisitedAre
<1>12. Chained'
  <2>1. stack'[1].mod = Root
    BY <1>1, <1>3, <1>r DEF Merging, Chained
  <2>2. \A i \in 1..(n - 1) - 1 : i \in 1..n - 1 /\ i + 1 \in 1..n - 1
    BY <1>1
  <2>3. \A i \in 1..(n - 1) - 1 :
          stack'[i + 1].mod \in {input'.imports[stack'[i].mod][p] : p \in DOMAIN input'.imports[stack'[i].mod]}
    <3>1. \A i \in 1..n - 1 : stack[i + 1].mod \in ImportsOf(stack[i].mod)
      BY <1>1, <1>a DEF Merging, Chained
    <3>2. \A i \in 1..(n - 1) - 1 : stack'[i + 1].mod = stack[i + 1].mod /\ stack'[i].mod = stack[i].mod
      BY <1>3, <2>2
    <3>3. \A i \in 1..(n - 1) - 1 : stack'[i + 1].mod \in ImportsOf(stack'[i].mod)
      BY <2>2, <3>1, <3>2
    <3>4. input' = input
      BY <1>2
    <3> QED
      BY <3>3, <3>4 DEF ImportsOf
  <2> QED
    BY <1>3, <2>1, <2>3 DEF Chained, ImportsOf
<1>13. Passed'
  <2>1. 1..n - 1 \subseteq DOMAIN stack
    BY <1>1, <1>a
  <2> QED
    BY <1>1, <1>2, <1>3, <1>d, <2>1 DEF Merging, Passed
<1>14. Complete'
  <2>1. \A x \in EmittedSet \cup {m} : x \notin input.broken /\ ImportsOf(x) \subseteq visited \cup {Std}
    BY <1>1 DEF Merging, Complete, m
  <2> QED
    BY <1>2, <1>8, <2>1 DEF Complete, ImportsOf
<1> QED
  BY <1>4, <1>5, <1>9, <1>10, <1>11, <1>12, <1>13, <1>14 DEF Merging, m

(* The outermost call begins with nothing emitted.                       *)
LEMMA StartingStep ==
  ASSUME MergeInv, ParseRoot
  PROVE  Merging' /\ Emitted' = <<>>
<1>1. /\ stack' = <<Frame(Root)>> /\ program' = <<>> /\ input' = input
      /\ visited' = IF input.named THEN {Root} ELSE {}
  BY DEF ParseRoot, MergeInv, RealInv, IInv, NothingYet
<1>2. /\ Frame(Root) \in Frames /\ Frame(Root).mod = Root /\ Frame(Root).pos = 1 /\ Frame(Root).merged = <<>>
  BY ImportsAssumption, FreshFrame DEF Frame
<1>3. /\ stack' \in Seq(Frames) /\ Len(stack') = 1 /\ DOMAIN stack' = {1} /\ stack'[1] = Frame(Root)
  BY <1>1, <1>2
<1>4. Gathered(stack')[1] = <<>>
  <2>1. PICK n \in 1..Len(stack') : n = 1 /\ n - 1 = 0
    BY <1>3
  <2>2. Gathered(stack')[n] = Gathered(stack')[n - 1] \o stack'[n].merged /\ Gathered(stack')[0] = <<>>
    BY <1>3, GatherUnfolds
  <2>3. <<>> \o <<>> = <<>>
    BY EmptySeq, ConcatEmptySeq
  <2> QED
    BY <1>2, <1>3, <2>1, <2>2, <2>3
<1>5. Emitted' = <<>>
  <2>1. <<>> \o <<>> = <<>>
    BY EmptySeq, ConcatEmptySeq
  <2> QED
    BY <1>1, <1>3, <1>4, <2>1 DEF Emitted
<1>6. EmittedSet' = {} /\ EmittedOnce' /\ Complete'
  BY <1>5 DEF EmittedSet, EmittedOnce, Complete
<1>7. ActiveOnce' /\ VisitedAre' /\ Chained'
  BY <1>1, <1>2, <1>3, <1>6 DEF ActiveOnce, VisitedAre, Chained
<1>8. Passed'
  <2>1. input.imports[Root] \in Seq(Targets)
    BY ImportsAssumption DEF MergeInv, RealInv, IInv, TypeOK, Graph
  <2>2. \A p \in DOMAIN input.imports[Root] : ~(p < 1)
    BY <2>1
  <2> QED
    BY <1>1, <1>2, <1>3, <2>2 DEF Passed
<1> QED
  BY <1>5, <1>6, <1>7, <1>8 DEF Merging

(* The whole invariant, at the start and over every step.                  *)
LEMMA MergeInit == Init => MergeInv
BY RealInit DEF Init, MergeInv

(* One step per action; those that end the merge leave nothing to show.  *)
LEMMA MergeNext == MergeInv /\ [Next]_vars => MergeInv'
<1> SUFFICES ASSUME MergeInv, [Next]_vars, status' = "merge" PROVE Merging'
  BY RealNext DEF MergeInv
<1>1. CASE ParseRoot
  BY <1>1, StartingStep
<1>2. CASE RootUnparsable \/ ImportNotFound \/ MergeDone
  BY <1>2 DEF RootUnparsable, ImportNotFound, MergeDone
<1>3. CASE SkipStd
  BY <1>3, PassStep DEF SkipStd
<1>4. ASSUME NEW m \in Modules, SkipVisited(m) PROVE Merging'
  BY <1>4, PassStep DEF SkipVisited
<1>5. ASSUME NEW m \in Modules, ImportUnparsable(m) PROVE Merging'
  BY <1>5 DEF ImportUnparsable
<1>6. ASSUME NEW m \in Modules, EnterImport(m) PROVE Merging'
  BY <1>6, EnteredStep
<1>7. CASE ReturnToImporter
  BY <1>7, ReturningStep
<1>8. CASE UNCHANGED vars
  <2>1. UNCHANGED <<input, status, visited, stack, program>> /\ Merging
    BY <1>8 DEF vars, MergeInv
  <2>2. Emitted' = Emitted
    BY <2>1 DEF Emitted
  <2>3. EmittedSet' = EmittedSet
    BY <2>2 DEF EmittedSet
  <2>4. EmittedOnce'
    BY <2>1, <2>2 DEF Merging, EmittedOnce
  <2>5. ActiveOnce'
    BY <2>1, <2>3 DEF Merging, ActiveOnce
  <2>6. VisitedAre'
    BY <2>1, <2>3 DEF Merging, VisitedAre
  <2>7. Chained'
    BY <2>1 DEF Merging, Chained, ImportsOf
  <2>8. Passed'
    BY <2>1 DEF Merging, Passed
  <2>9. Complete'
    BY <2>1, <2>3 DEF Merging, Complete, ImportsOf
  <2> QED
    BY <2>4, <2>5, <2>6, <2>7, <2>8, <2>9 DEF Merging
<1> QED
  BY <1>1, <1>2, <1>3, <1>4, <1>5, <1>6, <1>7, <1>8 DEF Next

-----------------------------------------------------------------------------
(* An unbroken file that is reached has its imports reached.               *)
LEMMA ReachedOn ==
  ASSUME NEW start, NEW m \in Abstract!Reached(start) \ input.broken, NEW t \in ImportsOf(m) \cap Modules
  PROVE  t \in Abstract!Reached(start)
BY DEF Abstract!Reached, Abstract!Closed, Abstract!Imports, ImportsOf

(* The file being merged is reached from every file whose call is active.  *)
LEMMA ReachTop ==
  ASSUME MergeInv, status = "merge", NEW i \in DOMAIN stack
  PROVE  Top.mod \in Abstract!Reached({stack[i].mod})
<1>1. /\ stack \in Seq(Frames) /\ stack # <<>> /\ Top = stack[Len(stack)] /\ Chained /\ Unbroken
      /\ Len(stack) \in Nat \ {0}
  BY DEF MergeInv, RealInv, IInv, TypeOK, Merging, Top
<1>2. \A j \in 1..Len(stack) : stack[j].mod \in Modules \ input.broken
  <2>1. \A j \in 1..Len(stack) : stack[j] \in Frames /\ j \in DOMAIN stack
    BY <1>1
  <2> QED
    BY <1>1, <2>1 DEF Unbroken, Frames
<1> SUFFICES ASSUME NEW S \in SUBSET Modules, stack[i].mod \in S, Abstract!Closed(S)
             PROVE  Top.mod \in S
  BY <1>1, <1>2 DEF Abstract!Reached
<1> DEFINE Bad == {j \in Nat : j >= i /\ j \in 1..Len(stack) /\ stack[j].mod \notin S}
<1>3. Bad = {}
  <2> SUFFICES ASSUME Bad # {} PROVE FALSE
    OBVIOUS
  <2>1. PICK k \in Bad : \A j \in Bad : k <= j
    BY Least
  <2>2. k # i /\ k \in Nat /\ i \in Nat /\ k >= i /\ i >= 1 /\ k <= Len(stack) /\ stack[k].mod \notin S
    BY <1>1, <2>1
  <2>3. /\ k - 1 \in Nat /\ k - 1 >= i /\ k - 1 \in 1..Len(stack) /\ k - 1 \in 1..Len(stack) - 1
        /\ (k - 1) + 1 = k /\ k \in 1..Len(stack)
    BY <1>1, <2>2
  <2>4. k - 1 \notin Bad
    BY <2>1, <2>2
  <2>5. stack[k - 1].mod \in S \ input.broken
    BY <1>2, <2>3, <2>4
  <2>6. stack[(k - 1) + 1].mod \in ImportsOf(stack[k - 1].mod)
    BY <1>1, <2>3 DEF Chained
  <2>7. stack[k].mod \in ImportsOf(stack[k - 1].mod) \cap Modules
    BY <1>2, <2>3, <2>6
  <2>8. \A x \in S \ input.broken : ImportsOf(x) \cap Modules \subseteq S
    BY DEF Abstract!Closed, Abstract!Imports, ImportsOf
  <2>9. stack[k].mod \in S
    BY <2>5, <2>7, <2>8
  <2> QED
    BY <2>2, <2>9
<1>4. Len(stack) \in Nat /\ Len(stack) >= i /\ Len(stack) \in 1..Len(stack)
  BY <1>1
<1> QED
  BY <1>1, <1>3, <1>4

(* The file being merged is part of the program, and it parsed.          *)
LEMMA TopInProgram ==
  ASSUME MergeInv, status = "merge"
  PROVE  Top.mod \in Abstract!Program \ input.broken
<1>1. /\ stack \in Seq(Frames) /\ stack # <<>> /\ Top = stack[Len(stack)] /\ stack[1].mod = Root /\ Unbroken
  BY DEF MergeInv, RealInv, IInv, TypeOK, Merging, Chained, Top
<1>2. 1 \in DOMAIN stack /\ Len(stack) \in DOMAIN stack
  BY <1>1
<1> QED
  BY <1>1, <1>2, ReachTop DEF Abstract!Program, Unbroken

(* What EmittedOnce says of the counts the promise is stated with.         *)
LEMMA EmissionsAre ==
  ASSUME EmittedOnce, NEW m
  PROVE  Abstract!Emissions(m) = IF m \in EmittedSet THEN 1 ELSE 0
<1> DEFINE places == {a \in DOMAIN Emitted : Emitted[a] = m}
<1>1. Abstract!Emissions(m) = Cardinality(places)
  BY DEF Abstract!Emissions, Abstract!Cardinality, Cardinality, IsFiniteSet, Abstract!IsFiniteSet
<1>2. CASE m \in EmittedSet
  <2>1. PICK a \in DOMAIN Emitted : Emitted[a] = m
    BY <1>2 DEF EmittedSet
  <2>2. places = {a}
    BY <2>1 DEF EmittedOnce
  <2> QED
    BY <1>1, <1>2, <2>2, FS_Singleton
<1>3. CASE m \notin EmittedSet
  <2>1. places = {}
    BY <1>3 DEF EmittedSet
  <2> QED
    BY <1>1, <1>3, <2>1, FS_EmptySet
<1> QED
  BY <1>2, <1>3

(* At the end of its loop the innermost file may be emitted: each import   *)
(* of it was, or is still being merged and so depends on it.               *)
LEMMA TopReady ==
  ASSUME MergeInv, AtEnd, Abstract!Emissions(Top.mod) < Abstract!Allowance(Top.mod)
  PROVE  Abstract!Ready(Top.mod)
<1>1. /\ stack \in Seq(Frames) /\ Len(stack) \in Nat \ {0} /\ Merging /\ status = "merge"
      /\ ImportsOf(Top.mod) \subseteq visited \cup {Std}
  BY AllPassed
<1>2. ASSUME NEW t \in ImportsOf(Top.mod) \cap Modules
      PROVE  Abstract!Emissions(t) > 0 \/ Top.mod \in Abstract!Reached({t})
  <2>1. t \in visited
    BY <1>1, ImportsAssumption
  <2>2. t \in EmittedSet \/ t = Root \/ \E i \in 2..Len(stack) : t = stack[i].mod
    BY <1>1, <2>1 DEF Merging, VisitedAre
  <2>3. CASE t \in EmittedSet
    <3>1. Abstract!Emissions(t) = 1
      BY <1>1, <2>3, EmissionsAre DEF Merging
    <3> QED
      BY <3>1
  <2>4. CASE t = Root
    <3>1. 1 \in DOMAIN stack /\ stack[1].mod = Root
      BY <1>1 DEF Merging, Chained
    <3> QED
      BY <1>1, <2>4, <3>1, ReachTop
  <2>5. CASE \E i \in 2..Len(stack) : t = stack[i].mod
    <3>1. PICK i \in 2..Len(stack) : t = stack[i].mod
      BY <2>5
    <3>2. i \in DOMAIN stack
      BY <1>1
    <3> QED
      BY <1>1, <3>1, <3>2, ReachTop
  <2> QED
    BY <2>2, <2>3, <2>4, <2>5
<1>3. Abstract!Imports(Top.mod) = ImportsOf(Top.mod)
  BY DEF Abstract!Imports, ImportsOf
<1> HIDE DEF Abstract!Emissions
<1> QED
  BY <1>1, <1>2, <1>3 DEF Abstract!Ready

(* An empty stack has gathered nothing.                                    *)
LEMMA NothingGathered == Gathered(<<>>)[Len(<<>>)] = <<>>
<1>1. <<>> \in Seq(Frames) /\ Len(<<>>) = 0
  BY EmptySeq
<1> QED
  BY <1>1, GatherUnfolds

-----------------------------------------------------------------------------
(* A step of the promise, or none.                                         *)
Step == [Abstract!AbsNext]_(Abstract!absVars)

(* A return is the promise's Emit of the file that was merged.           *)
LEMMA ReturnRefines == ASSUME MergeInv, ReturnToImporter PROVE Step
<1>1. /\ Merging /\ status = "merge" /\ stack \in Seq(Frames) /\ Top.mod \in Modules \ input.broken
  BY AllPassed DEF ReturnToImporter
<1>2. /\ Emitted' = Append(Emitted, Top.mod) /\ Top.mod \notin EmittedSet /\ (input.named => Top.mod # Root)
  BY ReturningStep
<1>3. Abstract!Emissions(Top.mod) = 0
  BY <1>1, <1>2, EmissionsAre DEF Merging
<1>4. /\ Abstract!Allowance(Top.mod) \in {1, 2}
      /\ Top.mod = Root => Abstract!Allowance(Top.mod) = 2
  BY <1>2 DEF Abstract!Allowance
<1>5. Abstract!Ready(Top.mod)
  BY <1>3, <1>4, TopReady DEF ReturnToImporter
<1>6. Top.mod \in Abstract!Program \ input.broken
  BY <1>1, TopInProgram
<1>7. Top.mod = Root => Abstract!Emissions(Top.mod) + 1 < Abstract!Allowance(Top.mod)
  BY <1>3, <1>4
<1>8. UNCHANGED <<input, status>>
  BY DEF ReturnToImporter
<1>9. Abstract!Emit(Top.mod)
  BY <1>2, <1>5, <1>6, <1>7, <1>8 DEF Abstract!Emit
<1> QED
  BY <1>1, <1>9 DEF Step, Abstract!AbsNext

(* The end of the outermost call is the promise's Conclude.              *)
LEMMA DoneRefines == ASSUME MergeInv, MergeDone PROVE Step
<1>1. /\ Merging /\ status = "merge" /\ stack \in Seq(Frames) /\ TypeOK /\ program = <<>>
      /\ Top.mod \in Modules \ input.broken /\ ImportsOf(Top.mod) \subseteq visited \cup {Std}
      /\ Top = stack[Len(stack)] /\ Len(stack) = 1
  BY AllPassed DEF MergeDone
<1>2. Top.mod = Root
  BY <1>1 DEF Merging, Chained
<1>3. visited \subseteq EmittedSet \cup {Root}
  BY <1>1 DEF Merging, VisitedAre
<1>4. \A m \in EmittedSet \cup {Root} : m \notin input.broken /\ ImportsOf(m) \subseteq visited \cup {Std}
  BY <1>1, <1>2 DEF Merging, Complete
<1>5. EmittedSet \cup {Root} \in SUBSET Modules
  BY <1>1, EmittedType, ImportsAssumption DEF EmittedSet
<1>6. Abstract!Program \subseteq EmittedSet \cup {Root}
  <2>1. Abstract!Closed(EmittedSet \cup {Root})
    BY <1>3, <1>4, ImportsAssumption DEF Abstract!Closed, Abstract!Imports, ImportsOf
  <2> QED
    BY <1>5, <2>1 DEF Abstract!Program, Abstract!Reached
<1>7. ~Abstract!Faulty
  <2>1. visited \subseteq Modules
    BY <1>1 DEF TypeOK
  <2>2. \A m \in EmittedSet \cup {Root} : Missing \notin ImportsOf(m)
    BY <1>4, <2>1, ImportsAssumption
  <2> QED
    BY <1>4, <1>6, <2>2 DEF Abstract!Faulty, Abstract!Imports, ImportsOf
<1>8. \A m \in Abstract!Program \ {Root} : Abstract!Emissions(m) > 0
  <2>1. \A m \in EmittedSet : Abstract!Emissions(m) = 1
    BY <1>1, EmissionsAre DEF Merging
  <2>2. \A m \in EmittedSet : Abstract!Emissions(m) > 0
    BY <2>1
  <2> QED
    BY <1>6, <2>2
<1>9. Abstract!Ready(Root)
  <2>1. Abstract!Emissions(Root) < Abstract!Allowance(Root)
    <3>1. Abstract!Emissions(Root) = IF Root \in EmittedSet THEN 1 ELSE 0
      BY <1>1, EmissionsAre DEF Merging
    <3>2. input.named => Root \notin EmittedSet
      BY <1>1 DEF Merging, ActiveOnce
    <3>3. Abstract!Allowance(Root) = IF ~input.named THEN 2 ELSE 1
      BY DEF Abstract!Allowance
    <3> QED
      BY <3>1, <3>2, <3>3
  <2> QED
    BY <1>2, <2>1, TopReady DEF MergeDone
<1>10. Emitted' = Append(Emitted, Root)
  <2>1. program' = Append(Emitted, Root) /\ stack' = <<>>
    BY <1>1, <1>2, EmittedDone DEF MergeDone
  <2>2. Append(Emitted, Root) \in Seq(Modules)
    BY <1>1, EmittedType, ImportsAssumption
  <2>3. Append(Emitted, Root) \o <<>> = Append(Emitted, Root)
    BY <2>2, ConcatEmptySeq
  <2>4. Emitted' = program' \o Gathered(<<>>)[Len(<<>>)]
    BY <2>1 DEF Emitted
  <2> QED
    BY <2>1, <2>3, <2>4, NothingGathered
<1>11. status' = "merged" /\ input' = input
  BY DEF MergeDone
<1>12. Abstract!Conclude
  BY <1>7, <1>8, <1>9, <1>10, <1>11 DEF Abstract!Conclude
<1> QED
  BY <1>12 DEF Step, Abstract!AbsNext

(* A failure is one the program's text forces, and hands nothing on.       *)
LEMMA FailureRefines ==
  ASSUME MergeInv, status \in {"parse", "merge"}, Abstract!Faulty,
         status' = "failed", stack' = <<>>, UNCHANGED <<input, program>>
  PROVE  Step
<1>1. program' = <<>>
  BY DEF MergeInv, RealInv, IInv, NothingYet
<1>2. Emitted' = <<>>
  <2>1. <<>> \o <<>> = <<>>
    BY EmptySeq, ConcatEmptySeq
  <2>2. Emitted' = program' \o Gathered(<<>>)[Len(<<>>)]
    BY DEF Emitted
  <2> QED
    BY <1>1, <2>1, <2>2, NothingGathered
<1>3. Abstract!Refuse
  BY <1>2 DEF Abstract!Refuse
<1> QED
  BY <1>3 DEF Step, Abstract!AbsNext

(* A step that emits nothing and ends nothing is none of the promise.      *)
LEMMA SilentStep ==
  ASSUME Emitted' = Emitted, input' = input,
         status' = status \/ (status \in {"parse", "merge"} /\ status' \in {"parse", "merge"})
  PROVE  Step
BY DEF Step, Abstract!absVars

(* One step per action of the merger.                                    *)
LEMMA StepRefines == ASSUME MergeInv, [Next]_vars PROVE Step
<1>0. TypeOK /\ NothingYet
  BY DEF MergeInv, RealInv, IInv
<1>1. CASE ParseRoot
  <2>1. Emitted' = <<>>
    BY <1>1, StartingStep
  <2>2. stack = <<>> /\ program = <<>> /\ status = "parse" /\ status' = "merge" /\ input' = input
    BY <1>0, <1>1 DEF TypeOK, NothingYet, ParseRoot
  <2>3. Emitted = <<>>
    <3>1. <<>> \o <<>> = <<>>
      BY EmptySeq, ConcatEmptySeq
    <3>2. Emitted = program \o Gathered(<<>>)[Len(<<>>)]
      BY <2>2 DEF Emitted
    <3> QED
      BY <2>2, <3>1, <3>2, NothingGathered
  <2> QED
    BY <2>1, <2>2, <2>3, SilentStep
<1>2. CASE RootUnparsable
  <2>1. /\ status = "parse" /\ status' = "failed" /\ stack' = <<>> /\ UNCHANGED <<input, program>>
        /\ Root \in input.broken
    BY <1>0, <1>2 DEF RootUnparsable, TypeOK
  <2>2. Root \in Abstract!Program
    BY ImportsAssumption DEF Abstract!Program, Abstract!Reached
  <2>3. Abstract!Faulty
    BY <2>1, <2>2 DEF Abstract!Faulty
  <2> QED
    BY <2>1, <2>3, FailureRefines
<1>3. CASE SkipStd
  <2>1. Emitted' = Emitted
    BY <1>0, <1>3, EmittedAdvanced DEF SkipStd, AtImport, TypeOK, Emitted
  <2> QED
    BY <1>3, <2>1, SilentStep DEF SkipStd
<1>4. CASE ImportNotFound
  <2>1. status = "merge" /\ Missing \in ImportsOf(Top.mod)
    BY <1>4, Standing DEF ImportNotFound
  <2>2. Top.mod \in Abstract!Program \ input.broken
    BY <2>1, TopInProgram
  <2>3. Abstract!Faulty
    BY <2>1, <2>2 DEF Abstract!Faulty, Abstract!Imports, ImportsOf
  <2> QED
    BY <1>4, <2>1, <2>3, FailureRefines DEF ImportNotFound
<1>5. ASSUME NEW m \in Modules, SkipVisited(m) PROVE Step
  <2>1. Emitted' = Emitted
    BY <1>0, <1>5, EmittedAdvanced DEF SkipVisited, AtImport, TypeOK, Emitted
  <2> QED
    BY <1>5, <2>1, SilentStep DEF SkipVisited
<1>6. ASSUME NEW m \in Modules, ImportUnparsable(m) PROVE Step
  <2>1. status = "merge" /\ m \in ImportsOf(Top.mod) /\ m \in input.broken
    BY <1>6, Standing DEF ImportUnparsable
  <2>2. Top.mod \in Abstract!Program \ input.broken
    BY <2>1, TopInProgram
  <2>3. m \in Abstract!Program
    BY <2>1, <2>2, ReachedOn DEF Abstract!Program
  <2>4. Abstract!Faulty
    BY <2>1, <2>3 DEF Abstract!Faulty
  <2> QED
    BY <1>6, <2>1, <2>4, FailureRefines DEF ImportUnparsable
<1>7. ASSUME NEW m \in Modules, EnterImport(m) PROVE Step
  <2>1. /\ stack \in Seq(Frames) /\ stack # <<>> /\ stack' = Append(Advanced, Frame(m))
        /\ UNCHANGED <<input, status, program>>
    BY <1>0, <1>7 DEF EnterImport, AtImport, TypeOK
  <2>2. Gathered(stack')[Len(stack')] = Gathered(stack)[Len(stack)]
    BY <2>1, EmittedEntered
  <2>3. Emitted' = Emitted
    BY <2>1, <2>2 DEF Emitted
  <2> QED
    BY <2>1, <2>3, SilentStep
<1>8. CASE ReturnToImporter
  BY <1>8, ReturnRefines
<1>9. CASE MergeDone
  BY <1>9, DoneRefines
<1>10. CASE UNCHANGED vars
  <2>1. UNCHANGED <<input, status, stack, program>>
    BY <1>10 DEF vars
  <2>2. Emitted' = Emitted
    BY <2>1 DEF Emitted
  <2> QED
    BY <2>1, <2>2, SilentStep
<1> QED
  BY <1>1, <1>2, <1>3, <1>4, <1>5, <1>6, <1>7, <1>8, <1>9, <1>10 DEF Next

(* compiler.cpp:88-156, mergeImports: on every import graph the merger     *)
(* keeps the promise of ImportSemantics.  A file's declarations reach the  *)
(* program once, after those of the files it imports unless these import   *)
(* it in turn; the merge succeeds exactly when every file that is reached  *)
(* can be found and parsed, and then it has emitted all of them.           *)
THEOREM MergerImplements == Spec => Implements
<1>1. Init => Abstract!AbsInit
  <2> SUFFICES ASSUME Init PROVE Abstract!AbsInit
    OBVIOUS
  <2>1. stack = <<>> /\ program = <<>> /\ input \in Inputs /\ status = "parse"
    BY DEF Init
  <2>2. Emitted = <<>>
    <3>1. <<>> \o <<>> = <<>>
      BY EmptySeq, ConcatEmptySeq
    <3>2. Emitted = program \o Gathered(<<>>)[Len(<<>>)]
      BY <2>1 DEF Emitted
    <3> QED
      BY <2>1, <3>1, <3>2, NothingGathered
  <2> QED
    BY <2>1, <2>2 DEF Abstract!AbsInit
<1>2. MergeInv /\ [Next]_vars => MergeInv' /\ [Abstract!AbsNext]_(Abstract!absVars)
  BY MergeNext, StepRefines DEF Step
<1> QED
  BY <1>1, <1>2, MergeInit, PTL DEF Spec, Implements, Abstract!AbsSpec
=============================================================================
