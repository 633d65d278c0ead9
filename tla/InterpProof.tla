----------------------------- MODULE InterpProof -----------------------------
(***************************************************************************)
(* For every program: the interpreter pops exactly the scopes it pushed,   *)
(* the Binding* of an assignment stays valid while its value is evaluated, *)
(* and nothing is printed after an error.                                  *)
(*                                                                         *)
(* The argument: the frames of the C++ stack are disciplined.  A call      *)
(* frame owns a scope exactly from the moment its body is executed, so a   *)
(* statement can only stand on a call frame that owns one, and a signal    *)
(* can only reach such a frame.                                            *)
(*                                                                         *)
(* At the end, the checked operations of src/common/numeric.hpp that its   *)
(* arithmetic stands on, for every width of int64_t and every pair of      *)
(* operands: they refuse exactly the pairs whose result does not fit, and  *)
(* what they compute on the way fits as well, so the guard against signed  *)
(* overflow does not itself overflow.                                      *)
(***************************************************************************)
EXTENDS Interp, FiniteSetTheorems, SequenceTheorems, WellFoundedInduction, TLAPS

(* A sequence, whatever it holds.                                          *)
IsSeq(s) == s \in Seq({s[i] : i \in DOMAIN s})

Last(s) == s[Len(s)]
ButLast(s) == SubSeq(s, 1, Len(s) - 1)

IsFrame(f) ==
  /\ f = [node |-> f.node, at |-> f.at, vals |-> f.vals, slot |-> f.slot]
  /\ f.node \in Nodes
  /\ f.at \in Nat

(* The frames among the first n that own a scope.                          *)
Owners(k, n) == {i \in 1..n : OwnsScope(k[i])}
Count(k, n) == Cardinality(Owners(k, n))

(* A statement runs above a call only when the call is in its body.        *)
InBody(f) == f.node.op = "call" => OwnsScope(f)
Stands(g, f) == g.node.op \in Statements => InBody(f)

(* The binding a frame holds is there, in a scope pushed before the frame. *)
Holds(k, i, s) ==
  k[i].node.op \in {"assign", "setindex"} =>
    k[i].slot \in 1..Count(k, i) /\ k[i].node.name \in DOMAIN s[k[i].slot]

(* The discipline of the stack k and the scopes s.                         *)
Disciplined(k, s) ==
  /\ IsSeq(k) /\ IsSeq(s)
  /\ \A i \in 1..Len(k) : IsFrame(k[i]) /\ Holds(k, i, s)
  /\ \A i \in 1..Len(k) - 1 : Stands(k[i + 1], k[i])
  /\ Len(s) = Count(k, Len(k))

SignalKinds == {"None", "Return", "Break", "Continue", "Error"}

IInv ==
  /\ Disciplined(kont, scopes)
  /\ ctl.do \in {"eval", "exec"} => ctl.node \in Nodes
  /\ ctl.do \in {"exec", "signal"} /\ kont # <<>> => InBody(Top)
  /\ ctl.do = "signal" => ctl.sig \in SignalKinds
  /\ ctl.do = "apply" =>
       kont # <<>> /\ Top.at <= Len(Top.node.args) /\ (Top.vals # <<>> => ~HasError)

-----------------------------------------------------------------------------
(* Sequences.                                                              *)
LEMMA OwnSeq ==
  ASSUME NEW S, NEW s \in Seq(S)
  PROVE  IsSeq(s)
<1> DEFINE R == {s[i] : i \in DOMAIN s}
<1>1. s \in [1..Len(s) -> R] /\ Len(s) \in Nat
  BY LenProperties
<1> QED
  BY <1>1 DEF IsSeq

LEMMA SeqShape ==
  ASSUME NEW s, IsSeq(s)
  PROVE  Len(s) \in Nat /\ DOMAIN s = 1..Len(s) /\ (s = <<>> <=> Len(s) = 0)
<1>1. Len(s) \in Nat /\ DOMAIN s = 1..Len(s)
  BY LenProperties DEF IsSeq
<1>2. s = <<>> <=> Len(s) = 0
  BY EmptySeq DEF IsSeq
<1> QED
  BY <1>1, <1>2

LEMMA Appended ==
  ASSUME NEW s, IsSeq(s), NEW x
  PROVE  /\ IsSeq(Append(s, x))
         /\ Len(Append(s, x)) = Len(s) + 1
         /\ \A i \in 1..Len(s) : Append(s, x)[i] = s[i]
         /\ Append(s, x)[Len(s) + 1] = x
<1> DEFINE R == {s[i] : i \in DOMAIN s} \cup {x}
<1>1. s \in Seq(R)
  BY DEF IsSeq
<1>2. /\ Append(s, x) \in Seq(R)
      /\ Len(Append(s, x)) = Len(s) + 1
      /\ \A i \in 1..Len(s) : Append(s, x)[i] = s[i]
      /\ Append(s, x)[Len(s) + 1] = x
  <2> HIDE DEF R
  <2>1. x \in R
    BY DEF R
  <2> QED
    BY <1>1, <2>1, AppendProperties
<1> QED
  BY <1>2, OwnSeq

LEMMA Shortened ==
  ASSUME NEW s, IsSeq(s), s # <<>>
  PROVE  /\ IsSeq(ButLast(s))
         /\ Len(ButLast(s)) = Len(s) - 1
         /\ \A i \in 1..Len(s) - 1 : ButLast(s)[i] = s[i]
<1> DEFINE R == {s[i] : i \in DOMAIN s}
<1>1. Len(s) \in Nat \ {0} /\ DOMAIN s = 1..Len(s)
  BY SeqShape
<1>2. \A i \in 1..Len(s) - 1 : s[i] \in R
  BY <1>1
<1>3. /\ ButLast(s) \in Seq(R)
      /\ Len(ButLast(s)) = Len(s) - 1
      /\ \A i \in 1..Len(s) - 1 : ButLast(s)[i] = s[i]
  BY <1>1, <1>2, SubSeqProperties DEF ButLast
<1> QED
  BY <1>3, OwnSeq

LEMMA Replaced ==
  ASSUME NEW s, IsSeq(s), NEW n \in 1..Len(s), NEW x
  PROVE  /\ IsSeq([s EXCEPT ![n] = x])
         /\ Len([s EXCEPT ![n] = x]) = Len(s)
         /\ \A i \in 1..Len(s) : [s EXCEPT ![n] = x][i] = IF i = n THEN x ELSE s[i]
<1> DEFINE R == {s[i] : i \in DOMAIN s} \cup {x}
<1>1. s \in Seq(R)
  BY DEF IsSeq
<1>2. /\ [s EXCEPT ![n] = x] \in Seq(R)
      /\ Len([s EXCEPT ![n] = x]) = Len(s)
      /\ \A i \in 1..Len(s) : [s EXCEPT ![n] = x][i] = IF i = n THEN x ELSE s[i]
  BY <1>1, ExceptSeq
<1> QED
  BY <1>2, OwnSeq

-----------------------------------------------------------------------------
(* Counting the frames that own a scope.                                   *)
LEMMA OwnersFinite ==
  ASSUME NEW k, NEW n \in Nat
  PROVE  IsFiniteSet(Owners(k, n)) /\ Count(k, n) \in Nat
<1>1. IsFiniteSet(1..n) /\ Owners(k, n) \in SUBSET (1..n)
  BY FS_Interval DEF Owners
<1> QED
  BY <1>1, FS_Subset, FS_CardinalityType DEF Count

LEMMA CountNext ==
  ASSUME NEW k, NEW n \in Nat
  PROVE  Count(k, n + 1) = Count(k, n) + IF OwnsScope(k[n + 1]) THEN 1 ELSE 0
<1>1. Owners(k, n + 1) = IF OwnsScope(k[n + 1]) THEN Owners(k, n) \cup {n + 1} ELSE Owners(k, n)
  BY DEF Owners
<1>2. n + 1 \notin Owners(k, n)
  BY DEF Owners
<1> QED
  BY <1>1, <1>2, OwnersFinite, FS_AddElement DEF Count

LEMMA CountMonotone ==
  ASSUME NEW k, NEW m \in Nat, NEW n \in Nat, m <= n
  PROVE  Count(k, m) <= Count(k, n)
<1>1. Owners(k, m) \in SUBSET Owners(k, n)
  BY DEF Owners
<1> QED
  BY <1>1, OwnersFinite, FS_Subset DEF Count

LEMMA CountAgrees ==
  ASSUME NEW k, NEW l, NEW n \in Nat, \A i \in 1..n : k[i] = l[i]
  PROVE  Count(k, n) = Count(l, n)
<1>1. Owners(k, n) = Owners(l, n)
  BY DEF Owners
<1> QED
  BY <1>1 DEF Count

-----------------------------------------------------------------------------
(* What the steps do to a disciplined stack: call a function that owns no  *)
(* scope, or one that pushes a scope.                                      *)
LEMMA PushPlain ==
  ASSUME NEW k, NEW s, Disciplined(k, s), NEW f, IsFrame(f), ~OwnsScope(f),
         k # <<>> => Stands(f, Last(k)),
         f.node.op \in {"assign", "setindex"} =>
           f.slot \in 1..Len(s) /\ f.node.name \in DOMAIN s[f.slot]
  PROVE  Disciplined(Append(k, f), s)
<1> DEFINE l == Append(k, f)
           n == Len(k)
<1>1. /\ n \in Nat /\ (k = <<>> <=> n = 0)
      /\ IsSeq(l) /\ Len(l) = n + 1 /\ l[n + 1] = f
      /\ \A i \in 1..n : l[i] = k[i]
  BY SeqShape, Appended DEF Disciplined
<1> HIDE DEF l
<1>2. \A i \in 0..n : Count(l, i) = Count(k, i)
  <2> TAKE i \in 0..n
  <2>1. i \in Nat /\ \A j \in 1..i : l[j] = k[j]
    BY <1>1
  <2> QED
    BY <2>1, CountAgrees
<1>3. Count(l, n + 1) = Count(k, n)
  <2>1. Count(l, n) = Count(k, n)
    BY <1>1, <1>2
  <2>2. ~OwnsScope(l[n + 1])
    BY <1>1
  <2>3. Count(l, n + 1) = Count(l, n) + 0 /\ Count(l, n) \in Nat
    BY <1>1, <2>2, CountNext, OwnersFinite
  <2> QED
    BY <2>1, <2>3
<1>4. \A i \in 1..Len(l) : IsFrame(l[i]) /\ Holds(l, i, s)
  BY <1>1, <1>2, <1>3 DEF Disciplined, Holds
<1>5. \A i \in 1..Len(l) - 1 : Stands(l[i + 1], l[i])
  <2>1. ASSUME NEW i \in 1..n PROVE Stands(l[i + 1], l[i])
    <3>1. CASE i = n
      BY <1>1, <2>1, <3>1 DEF Last
    <3>2. CASE i < n
      <4>1. i \in 1..n - 1 /\ i + 1 \in 1..n
        BY <1>1, <2>1, <3>2
      <4>2. Stands(k[i + 1], k[i])
        BY <4>1 DEF Disciplined
      <4> QED
        BY <1>1, <2>1, <4>1, <4>2
    <3> QED
      BY <1>1, <2>1, <3>1, <3>2
  <2> QED
    BY <1>1, <2>1
<1> QED
  BY <1>1, <1>3, <1>4, <1>5 DEF Disciplined, l

LEMMA PushOwner ==
  ASSUME NEW k, NEW s, Disciplined(k, s), NEW f, IsFrame(f), OwnsScope(f), NEW x,
         k # <<>> => Stands(f, Last(k))
  PROVE  Disciplined(Append(k, f), Append(s, x))
<1> DEFINE l == Append(k, f)
           t == Append(s, x)
           n == Len(k)
<1>1. /\ n \in Nat /\ (k = <<>> <=> n = 0)
      /\ IsSeq(l) /\ Len(l) = n + 1 /\ l[n + 1] = f
      /\ \A i \in 1..n : l[i] = k[i]
  BY SeqShape, Appended DEF Disciplined
<1>2. /\ Len(s) = Count(k, n)
      /\ IsSeq(t) /\ Len(t) = Len(s) + 1
      /\ \A i \in 1..Len(s) : t[i] = s[i]
  BY Appended DEF Disciplined
<1> HIDE DEF l, t
<1>3. \A i \in 0..n : Count(l, i) = Count(k, i) /\ Count(k, i) \in Nat /\ Count(k, i) <= Len(s)
  <2> TAKE i \in 0..n
  <2>1. i \in Nat /\ i <= n /\ n \in Nat
    BY <1>1
  <2>2. \A j \in 1..i : l[j] = k[j]
    BY <1>1, <2>1
  <2>3. Count(l, i) = Count(k, i)
    BY <2>1, <2>2, CountAgrees
  <2> QED
    BY <1>2, <2>1, <2>3, OwnersFinite, CountMonotone
<1>4. Count(l, n + 1) = Len(t)
  <2>1. Count(l, n) = Count(k, n)
    BY <1>1, <1>3
  <2> QED
    BY <1>1, <1>2, <2>1, CountNext
<1>5. \A i \in 1..Len(l) : IsFrame(l[i]) /\ Holds(l, i, t)
  <2>1. f.node.op \notin {"assign", "setindex"}
    BY DEF OwnsScope
  <2>2. \A i \in 1..n : 1..Count(k, i) \subseteq 1..Len(s)
    BY <1>3
  <2> QED
    BY <1>1, <1>2, <1>3, <2>1, <2>2 DEF Disciplined, Holds
<1>6. \A i \in 1..Len(l) - 1 : Stands(l[i + 1], l[i])
  <2>1. ASSUME NEW i \in 1..n PROVE Stands(l[i + 1], l[i])
    <3>1. CASE i = n
      BY <1>1, <2>1, <3>1 DEF Last
    <3>2. CASE i < n
      <4>1. i \in 1..n - 1 /\ i + 1 \in 1..n
        BY <1>1, <2>1, <3>2
      <4>2. Stands(k[i + 1], k[i])
        BY <4>1 DEF Disciplined
      <4> QED
        BY <1>1, <2>1, <4>1, <4>2
    <3> QED
      BY <1>1, <2>1, <3>1, <3>2
  <2> QED
    BY <1>1, <2>1
<1> QED
  BY <1>1, <1>2, <1>4, <1>5, <1>6 DEF Disciplined, l, t

(* A function returns; the scope it owns, if it does, is popped.           *)
LEMMA Popping ==
  ASSUME NEW k, NEW s, Disciplined(k, s), k # <<>>
  PROVE  /\ Disciplined(ButLast(k), IF OwnsScope(Last(k)) THEN ButLast(s) ELSE s)
         /\ ButLast(k) # <<>> => Stands(Last(k), Last(ButLast(k)))
<1> DEFINE l == ButLast(k)
           t == IF OwnsScope(Last(k)) THEN ButLast(s) ELSE s
           n == Len(k) - 1
<1>1. /\ n \in Nat /\ Len(k) = n + 1
      /\ IsSeq(l) /\ Len(l) = n /\ (l = <<>> <=> n = 0)
      /\ \A i \in 1..n : l[i] = k[i]
  <2>1. IsSeq(k)
    BY DEF Disciplined
  <2>2. Len(k) \in Nat /\ Len(k) # 0
    BY <2>1, SeqShape
  <2>3. IsSeq(l) /\ Len(l) = n /\ \A i \in 1..n : l[i] = k[i]
    BY <2>1, Shortened
  <2> HIDE DEF l
  <2> QED
    BY <2>2, <2>3, SeqShape
<1>2. /\ Len(s) = Count(k, n) + IF OwnsScope(Last(k)) THEN 1 ELSE 0
      /\ Count(k, n) \in Nat
  BY <1>1, CountNext, OwnersFinite DEF Disciplined, Last
<1>3. /\ IsSeq(t) /\ Len(t) = Count(k, n)
      /\ \A i \in 1..Len(t) : t[i] = s[i]
  <2>1. CASE OwnsScope(Last(k))
    <3>1. IsSeq(s) /\ s # <<>>
      BY <1>2, <2>1, SeqShape DEF Disciplined
    <3> QED
      BY <1>2, <2>1, <3>1, Shortened
  <2>2. CASE ~OwnsScope(Last(k))
    BY <1>2, <2>2 DEF Disciplined
  <2> QED
    BY <2>1, <2>2
<1> HIDE DEF l, t
<1>4. \A i \in 0..n : Count(l, i) = Count(k, i) /\ Count(k, i) \in Nat /\ Count(k, i) <= Len(t)
  <2> TAKE i \in 0..n
  <2>1. i \in Nat /\ i <= n /\ n \in Nat
    BY <1>1
  <2>2. \A j \in 1..i : l[j] = k[j]
    BY <1>1, <2>1
  <2>3. Count(l, i) = Count(k, i)
    BY <2>1, <2>2, CountAgrees
  <2> QED
    BY <1>3, <2>1, <2>3, OwnersFinite, CountMonotone
<1>5. \A i \in 1..Len(l) : IsFrame(l[i]) /\ Holds(l, i, t)
  <2>1. \A i \in 1..n : 1..Count(k, i) \subseteq 1..Len(t)
    BY <1>3, <1>4
  <2> QED
    BY <1>1, <1>3, <1>4, <2>1 DEF Disciplined, Holds
<1>6. \A i \in 1..Len(l) - 1 : Stands(l[i + 1], l[i])
  BY <1>1 DEF Disciplined
<1>7. l # <<>> => Stands(Last(k), Last(l))
  BY <1>1 DEF Disciplined, Last
<1> QED
  BY <1>1, <1>3, <1>4, <1>5, <1>6, <1>7 DEF Disciplined, l, t

(* Replacing the last element is dropping it and appending.                *)
LEMMA ReplacedLast ==
  ASSUME NEW s, IsSeq(s), s # <<>>, NEW x
  PROVE  /\ [s EXCEPT ![Len(s)] = x] = Append(ButLast(s), x)
         /\ [s EXCEPT ![Len(s)] = x] # <<>>
         /\ Last([s EXCEPT ![Len(s)] = x]) = x
<1> DEFINE a == [s EXCEPT ![Len(s)] = x]
           b == Append(ButLast(s), x)
<1>1. Len(s) \in Nat \ {0}
  BY SeqShape
<1>2. /\ IsSeq(a) /\ Len(a) = Len(s)
      /\ \A i \in 1..Len(s) : a[i] = IF i = Len(s) THEN x ELSE s[i]
  BY <1>1, Replaced
<1>3. /\ IsSeq(b) /\ Len(b) = Len(s)
      /\ \A i \in 1..Len(s) - 1 : b[i] = s[i]
      /\ b[Len(s)] = x
  <2> DEFINE c == ButLast(s)
  <2>1. IsSeq(c) /\ Len(c) = Len(s) - 1 /\ \A i \in 1..Len(s) - 1 : c[i] = s[i]
    BY Shortened
  <2> HIDE DEF c
  <2>2. /\ IsSeq(Append(c, x)) /\ Len(Append(c, x)) = Len(c) + 1
        /\ \A i \in 1..Len(c) : Append(c, x)[i] = c[i]
        /\ Append(c, x)[Len(c) + 1] = x
    BY <2>1, Appended
  <2> QED
    BY <1>1, <2>1, <2>2 DEF c
<1> HIDE DEF a, b
<1>4. \A i \in 1..Len(s) : a[i] = b[i]
  BY <1>1, <1>2, <1>3
<1>5. a \in Seq({a[i] : i \in DOMAIN a} \cup {b[i] : i \in DOMAIN b})
      /\ b \in Seq({a[i] : i \in DOMAIN a} \cup {b[i] : i \in DOMAIN b})
  BY <1>2, <1>3 DEF IsSeq
<1>6. a = b
  BY <1>2, <1>3, <1>4, <1>5, SeqEqual
<1>7. a # <<>> /\ Last(a) = x
  BY <1>1, <1>2, SeqShape DEF Last
<1> QED
  BY <1>6, <1>7 DEF a, b

(* A scope gains a name or a binding gains a value.                        *)
LEMMA Rebinding ==
  ASSUME NEW k, NEW s, Disciplined(k, s), NEW t, IsSeq(t), Len(t) = Len(s),
         \A i \in 1..Len(s) : DOMAIN s[i] \subseteq DOMAIN t[i]
  PROVE  Disciplined(k, t)
<1>1. ASSUME NEW i \in 1..Len(k) PROVE Holds(k, i, t)
  <2>1. Holds(k, i, s) /\ Len(k) \in Nat /\ Len(s) = Count(k, Len(k))
    BY <1>1, SeqShape DEF Disciplined
  <2>2. Count(k, i) <= Len(s) /\ Count(k, i) \in Nat /\ Len(s) \in Nat
    BY <1>1, <2>1, CountMonotone, OwnersFinite
  <2> QED
    BY <2>1, <2>2 DEF Holds
<1> QED
  BY <1>1 DEF Disciplined

(* The function at the top goes on.                                        *)
LEMMA Continuing ==
  ASSUME NEW k, NEW s, Disciplined(k, s), k # <<>>,
         NEW g, IsFrame(g), g.node = Last(k).node, g.slot = Last(k).slot,
         OwnsScope(g) <=> OwnsScope(Last(k))
  PROVE  Disciplined([k EXCEPT ![Len(k)] = g], s)
<1> DEFINE l == ButLast(k)
           n == Len(k)
<1>1. [k EXCEPT ![n] = g] = Append(l, g)
  BY ReplacedLast DEF Disciplined
<1>2. l # <<>> => Stands(g, Last(l))
  BY Popping DEF Stands
<1>3. CASE OwnsScope(g)
  <2>1. Disciplined(l, ButLast(s))
    BY <1>3, Popping
  <2>2. n \in Nat \ {0} /\ Len(s) = Count(k, n)
    BY SeqShape DEF Disciplined
  <2>3. Count(k, n) = Count(k, n - 1) + 1 /\ Count(k, n - 1) \in Nat
    <3>1. n - 1 \in Nat /\ (n - 1) + 1 = n /\ OwnsScope(k[n])
      BY <1>3, <2>2 DEF Last
    <3>2. Count(k, (n - 1) + 1) = Count(k, n - 1) + 1
      BY <3>1, CountNext
    <3> QED
      BY <3>1, <3>2, OwnersFinite
  <2>4. s # <<>> /\ IsSeq(s)
    BY <2>2, <2>3, SeqShape DEF Disciplined
  <2>5. Append(ButLast(s), Last(s)) = [s EXCEPT ![Len(s)] = Last(s)]
    BY <2>4, ReplacedLast
  <2> DEFINE t == [s EXCEPT ![Len(s)] = Last(s)]
  <2>6. Disciplined(Append(l, g), t)
    <3>1. Disciplined(Append(l, g), Append(ButLast(s), Last(s)))
      BY <1>2, <1>3, <2>1, PushOwner
    <3> QED
      BY <2>5, <3>1
  <2>7. Len(t) = Len(s) /\ \A i \in 1..Len(s) : t[i] = s[i]
    <3>1. Len(s) \in 1..Len(s)
      BY <2>4, SeqShape
    <3> QED
      BY <2>4, <3>1, Replaced DEF Last
  <2> HIDE DEF t
  <2>8. Disciplined(Append(l, g), s)
    BY <2>4, <2>6, <2>7, Rebinding
  <2> QED
    BY <1>1, <2>8
<1>4. CASE ~OwnsScope(g)
  <2>1. Disciplined(l, s)
    BY <1>4, Popping
  <2>2. n \in Nat \ {0} /\ Len(s) = Count(k, n) /\ Holds(k, n, s)
    BY SeqShape DEF Disciplined
  <2>3. g.node.op \in {"assign", "setindex"} =>
          g.slot \in 1..Len(s) /\ g.node.name \in DOMAIN s[g.slot]
    BY <2>2 DEF Holds, Last
  <2> QED
    BY <1>1, <1>2, <1>4, <2>1, <2>3, PushPlain
<1> QED
  BY <1>3, <1>4

(* callFunction pushes the scope of the callee.                            *)
LEMMA EnteringBody ==
  ASSUME NEW k, NEW s, Disciplined(k, s), k # <<>>,
         NEW g, IsFrame(g), g.node = Last(k).node,
         OwnsScope(g), ~OwnsScope(Last(k)), NEW x
  PROVE  Disciplined([k EXCEPT ![Len(k)] = g], Append(s, x))
<1>1. [k EXCEPT ![Len(k)] = g] = Append(ButLast(k), g)
  BY ReplacedLast DEF Disciplined
<1>2. ButLast(k) # <<>> => Stands(g, Last(ButLast(k)))
  BY Popping DEF Stands
<1>3. Disciplined(ButLast(k), s)
  BY Popping
<1>4. Disciplined(Append(ButLast(k), g), Append(s, x))
  BY <1>2, <1>3, PushOwner
<1> QED
  BY <1>1, <1>4

-----------------------------------------------------------------------------
(* The nodes of the AST.                                                   *)
LEMMA NodeFacts ==
  ASSUME NEW e \in Nodes
  PROVE  /\ e.args \in Seq(Nodes) /\ Len(e.args) \in Nat
         /\ \A i \in 1..Len(e.args) : e.args[i] \in Nodes
         /\ e.args # <<>> => e.args[1] \in Nodes
         /\ e.op \in {"assign", "setindex"} => e.args # <<>>
         /\ e.op \in Strict \cup Logic \cup Loops \cup {"index", "setindex"} => Len(e.args) = 2
         /\ e.op = "assign" => Len(e.args) = 1
<1>1. /\ e.args \in Seq(Nodes)
      /\ e.op \in Strict \cup Logic \cup Loops \cup {"index", "setindex"} => Len(e.args) = 2
      /\ e.op = "assign" => Len(e.args) = 1
  BY InterpAssumption
<1>2. Len(e.args) \in Nat /\ \A i \in 1..Len(e.args) : e.args[i] \in Nodes
  BY <1>1, LenProperties, ElementOfSeq
<1>3. e.args # <<>> => e.args[1] \in Nodes
  BY <1>1, <1>2, EmptySeq
<1>4. e.op = "setindex" => Len(e.args) = 2
  BY <1>1
<1>5. e.op \in {"assign", "setindex"} => e.args # <<>>
  <2>1. e.args = <<>> => Len(e.args) = 0
    BY EmptySeq
  <2>2. e.op \in {"assign", "setindex"} => Len(e.args) = 1 \/ Len(e.args) = 2
    BY <1>1, <1>4
  <2> QED
    BY <2>1, <2>2
<1> QED
  BY <1>1, <1>2, <1>3, <1>5

LEMMA ControlFacts ==
  ASSUME NEW e, NEW v, NEW sig
  PROVE  /\ Eval(e).do = "eval" /\ Eval(e).node = e
         /\ Exec(e).do = "exec" /\ Exec(e).node = e
         /\ Apply.do = "apply" /\ Returns(v).do = "value" /\ Signals(sig, v).do = "signal"
         /\ Signals(sig, v).sig = sig
BY DEF Eval, Exec, Apply, Returns, Signals, Control

LEMMA FrameFacts ==
  ASSUME NEW e \in Nodes, NEW at \in Nat, NEW slot
  PROVE  /\ IsFrame(Frame(e, at, slot))
         /\ Frame(e, at, slot).node = e /\ Frame(e, at, slot).at = at
         /\ Frame(e, at, slot).slot = slot /\ Frame(e, at, slot).vals = <<>>
BY DEF Frame, IsFrame

LEMMA TopFacts ==
  ASSUME IInv, kont # <<>>
  PROVE  /\ IsFrame(Top) /\ Top.node \in Nodes /\ Top.at \in Nat
         /\ Top = Last(kont) /\ Below = ButLast(kont)
<1>1. Len(kont) \in Nat \ {0}
  BY SeqShape DEF IInv, Disciplined
<1> QED
  BY <1>1 DEF IInv, Disciplined, IsFrame, Top, Last, Below, ButLast

(* How a step may leave the stack, and the control it needs.               *)
LEMMA Staying ==
  ASSUME IInv, kont' = kont, scopes' = scopes, ctl'.do \in {"value", "signal"},
         ctl'.do = "signal" => ctl.do = "exec" /\ ctl'.sig \in SignalKinds
  PROVE  IInv'
<1>1. kont # <<>> /\ ctl'.do = "signal" => InBody(Top)
  BY DEF IInv
<1> QED
  BY <1>1 DEF IInv, Top

LEMMA Calling ==
  ASSUME IInv, NEW f, IsFrame(f), ~OwnsScope(f),
         kont # <<>> => Stands(f, Top),
         f.node.op \in {"assign", "setindex"} =>
           f.slot \in 1..Len(scopes) /\ f.node.name \in DOMAIN scopes[f.slot],
         kont' = Append(kont, f), scopes' = scopes,
         \/ ctl'.do = "eval" /\ ctl'.node \in Nodes
         \/ ctl'.do = "apply" /\ f.at <= Len(f.node.args) /\ f.vals = <<>>
  PROVE  IInv'
<1>1. Disciplined(kont, scopes) /\ (kont # <<>> => Stands(f, Last(kont)))
  BY DEF IInv, Top, Last
<1>2. Disciplined(kont', scopes')
  BY <1>1, PushPlain
<1>3. kont' # <<>> /\ Top' = f
  <2>1. IsSeq(kont)
    BY <1>1 DEF Disciplined
  <2>2. /\ IsSeq(kont') /\ Len(kont') = Len(kont) + 1 /\ kont'[Len(kont) + 1] = f
        /\ Len(kont) \in Nat
    BY <2>1, SeqShape, Appended
  <2>3. kont' = <<>> <=> Len(kont') = 0
    BY <2>2, SeqShape
  <2> QED
    BY <2>2, <2>3 DEF Top
<1> QED
  BY <1>2, <1>3 DEF IInv

LEMMA GoingOn ==
  ASSUME IInv, kont # <<>>,
         NEW g, IsFrame(g), g.node = Top.node, g.slot = Top.slot,
         OwnsScope(g) <=> OwnsScope(Top),
         kont' = [kont EXCEPT ![Len(kont)] = g], scopes' = scopes,
         \/ ctl'.do \in {"eval", "exec"} /\ ctl'.node \in Nodes
         \/ ctl'.do = "apply" /\ g.at <= Len(g.node.args) /\ ~HasError',
         ctl'.do = "exec" => InBody(g)
  PROVE  IInv'
<1>1. Disciplined(kont', scopes')
  BY Continuing DEF IInv, Top, Last
<1>2. kont' # <<>> /\ Top' = g
  BY ReplacedLast DEF IInv, Disciplined, Top, Last
<1> QED
  BY <1>1, <1>2 DEF IInv

LEMMA Delivering ==
  ASSUME IInv, kont # <<>>, kont' = Below,
         scopes' = IF OwnsScope(Top) THEN Popped ELSE scopes,
         ctl'.do = "value"
  PROVE  IInv'
<1>1. Disciplined(kont', scopes')
  BY TopFacts, Popping DEF IInv, Popped, ButLast
<1> QED
  BY <1>1 DEF IInv

LEMMA Leaving ==
  ASSUME IInv, kont # <<>>, Top.node.op \in Statements, kont' = Below,
         scopes' = IF OwnsScope(Top) THEN Popped ELSE scopes,
         \/ ctl'.do = "signal" /\ ctl'.sig \in SignalKinds
         \/ ctl'.do = "exec" /\ ctl'.node \in Nodes
  PROVE  IInv'
<1>1. Disciplined(kont', scopes')
  BY TopFacts, Popping DEF IInv, Popped, ButLast
<1>2. kont' # <<>> => InBody(Last(kont'))
  BY TopFacts, Popping DEF IInv, Stands
<1>3. Top' = Last(kont')
  BY DEF Top, Last
<1> QED
  BY <1>1, <1>2, <1>3 DEF IInv

-----------------------------------------------------------------------------
(* A name that is found is in the scope it is found in.                    *)
LEMMA Largest ==
  ASSUME NEW n \in Nat, NEW S \in SUBSET (1..n), S # {}
  PROVE  \E m \in S : \A j \in S : j <= m
<1> DEFINE T == {t \in Nat : n - t \in S}
           R == {r \in Nat \X Nat : r[1] < r[2]}
<1>1. T \subseteq Nat
  OBVIOUS
<1>2. ASSUME NEW j \in S PROVE n - j \in T /\ j \in Int
  OBVIOUS
<1>3. IsWellFoundedOn(R, Nat)
  BY NatLessThanWellFounded DEF OpToRel
<1>4. PICK x \in T : \A y \in T : ~(<<y, x>> \in R)
  <2>1. T # {}
    BY <1>2
  <2> HIDE DEF R, T
  <2> QED
    BY <1>1, <1>3, <2>1, WFMin
<1>5. n - x \in S
  BY <1>4
<1>6. ASSUME NEW j \in S PROVE j <= n - x
  <2>1. n - j \in Nat /\ n - j \in T /\ x \in Nat /\ j \in Int
    BY <1>2, <1>4
  <2>2. ~(n - j < x)
    BY <1>4, <2>1
  <2> QED
    BY <2>1, <2>2
<1> QED
  BY <1>5, <1>6

LEMMA SlotFound ==
  ASSUME IInv, NEW x, Slot(x) # 0
  PROVE  Slot(x) \in DOMAIN scopes /\ x \in DOMAIN scopes[Slot(x)]
<1> DEFINE found == {i \in DOMAIN scopes : x \in DOMAIN scopes[i]}
<1>1. found # {} /\ Slot(x) = CHOOSE i \in found : \A j \in found : j <= i
  BY DEF Slot
<1>2. DOMAIN scopes = 1..Len(scopes) /\ Len(scopes) \in Nat
  BY SeqShape DEF IInv, Disciplined
<1>3. found \in SUBSET (1..Len(scopes))
  BY <1>2
<1>4. \E i \in found : \A j \in found : j <= i
  <2> HIDE DEF found
  <2> QED
    BY <1>1, <1>2, <1>3, Largest
<1>5. Slot(x) \in found
  <2> HIDE DEF found
  <2> QED
    BY <1>1, <1>4
<1> QED
  BY <1>5

(* The frame at the top with new operands.                                 *)
Moved(a, vs) == [node |-> Top.node, at |-> a, vals |-> vs, slot |-> Top.slot]

LEMMA NewTop ==
  ASSUME IInv, kont # <<>>, NEW a \in Nat, NEW vs
  PROVE  /\ IsFrame(Moved(a, vs)) /\ Moved(a, vs).node = Top.node /\ Moved(a, vs).at = a
         /\ Moved(a, vs).slot = Top.slot /\ Moved(a, vs).vals = vs
         /\ [kont EXCEPT ![Len(kont)].at = a, ![Len(kont)].vals = vs]
              = [kont EXCEPT ![Len(kont)] = Moved(a, vs)]
         /\ [kont EXCEPT ![Len(kont)].at = a] = [kont EXCEPT ![Len(kont)] = Moved(a, Top.vals)]
<1> DEFINE u == [Top EXCEPT !.at = a]
<1>1. Top = [node |-> Top.node, at |-> Top.at, vals |-> Top.vals, slot |-> Top.slot]
  BY TopFacts DEF IsFrame
<1>2. u = Moved(a, Top.vals)
  BY <1>1 DEF Moved
<1>3. [Top EXCEPT !.at = a, !.vals = vs] = [u EXCEPT !.vals = vs]
  OBVIOUS
<1>4. [u EXCEPT !.vals = vs] = Moved(a, vs)
  <2> HIDE DEF u
  <2> QED
    BY <1>2 DEF Moved
<1>5. Len(kont) \in DOMAIN kont
  BY SeqShape DEF IInv, Disciplined
<1>6. [kont EXCEPT ![Len(kont)].at = a, ![Len(kont)].vals = vs]
        = [kont EXCEPT ![Len(kont)] = [Top EXCEPT !.at = a, !.vals = vs]]
  BY <1>5 DEF Top
<1>7. [kont EXCEPT ![Len(kont)].at = a] = [kont EXCEPT ![Len(kont)] = u]
  BY DEF Top
<1>8. IsFrame(Moved(a, vs))
  BY TopFacts DEF IsFrame, Moved
<1>9. [Top EXCEPT !.at = a, !.vals = vs] = Moved(a, vs)
  BY <1>3, <1>4
<1> QED
  <2> HIDE DEF u
  <2> QED
    BY <1>2, <1>6, <1>7, <1>8, <1>9 DEF Moved

(* Evaluating a further operand of an expression or statement.             *)
LEMMA TakingNext ==
  ASSUME IInv, kont # <<>>, Top.node.op # "block", Top.at + 1 \in 1..Len(Top.node.args),
         NEW v, NextOperand(v), scopes' = scopes
  PROVE  IInv'
<1> DEFINE g == Moved(Top.at + 1, Append(Top.vals, v))
<1>1. Top.at \in Nat /\ Top.node \in Nodes
  BY TopFacts
<1>2. Len(Top.node.args) \in Nat /\ Top.node.args[Top.at + 1] \in Nodes
  BY <1>1, NodeFacts
<1>3. kont' = [kont EXCEPT ![Len(kont)].at = Top.at + 1, ![Len(kont)].vals = Append(Top.vals, v)]
  BY DEF NextOperand, Top
<1>4. /\ IsFrame(g) /\ g.node = Top.node /\ g.slot = Top.slot /\ g.at = Top.at + 1
      /\ kont' = [kont EXCEPT ![Len(kont)] = g]
  <2>1. Top.at + 1 \in Nat
    BY <1>1
  <2> DEFINE a == Top.at + 1
             vs == Append(Top.vals, v)
  <2> HIDE DEF a, vs
  <2>2. a \in Nat /\ a = Top.at + 1 /\ g = Moved(a, vs)
    BY <2>1 DEF a, vs
  <2>3. kont' = [kont EXCEPT ![Len(kont)].at = a, ![Len(kont)].vals = vs]
    BY <1>3 DEF a, vs
  <2>4. [kont EXCEPT ![Len(kont)].at = a, ![Len(kont)].vals = vs]
          = [kont EXCEPT ![Len(kont)] = Moved(a, vs)]
    BY <2>2, NewTop
  <2>5. /\ IsFrame(Moved(a, vs)) /\ Moved(a, vs).node = Top.node
        /\ Moved(a, vs).slot = Top.slot /\ Moved(a, vs).at = a
    BY <2>2, NewTop
  <2>6. kont' = [kont EXCEPT ![Len(kont)] = g]
    BY <2>2, <2>3, <2>4
  <2> QED
    BY <2>2, <2>5, <2>6
<1>5. ctl'.do = "eval" /\ ctl'.node \in Nodes
  BY <1>2 DEF NextOperand, Eval, Control
<1> HIDE DEF g
<1>6. OwnsScope(g) <=> OwnsScope(Top)
  BY <1>1, <1>2, <1>4 DEF OwnsScope
<1> QED
  BY <1>4, <1>5, <1>6, GoingOn

-----------------------------------------------------------------------------
(* The steps of the interpreter.                                           *)
LEMMA StepRun ==
  ASSUME IInv, Start \/ Finish
  PROVE  IInv'
<1>1. CASE Start
  <2> DEFINE f == Frame(Call(kEntry, <<>>), 0, 0)
  <2>1. CASE kEntry \in DOMAIN program.funcs
    <3>1. kont' = Append(kont, f) /\ ctl'.do = "apply" /\ scopes' = scopes
      BY <1>1, <2>1 DEF Start, Push, Apply, Control
    <3>2. Call(kEntry, <<>>) \in Nodes
      BY InterpAssumption
    <3>3. IsFrame(f) /\ f.node = Call(kEntry, <<>>) /\ f.at = 0 /\ f.vals = <<>>
      BY <3>2, FrameFacts
    <3>4. f.node.op = "call" /\ Len(f.node.args) = 0
      BY <3>3 DEF Call, Node
    <3> HIDE DEF f
    <3>5. ~OwnsScope(f) /\ f.node.op \notin Statements
      BY <3>3, <3>4 DEF OwnsScope, Statements, Loops
    <3> QED
      BY <3>1, <3>3, <3>4, <3>5, Calling DEF Stands
  <2>2. CASE kEntry \notin DOMAIN program.funcs
    <3>1. kont' = kont /\ scopes' = scopes /\ ctl' = Returns(NullV)
      BY <1>1, <2>2 DEF Start
    <3> QED
      BY <3>1, ControlFacts, Staying
  <2> QED
    BY <2>1, <2>2
<1>2. CASE Finish
  <2>1. /\ ctl.do = "value" /\ ctl' = ctl /\ kont' = kont /\ scopes' = scopes
    BY <1>2 DEF Finish
  <2> QED
    BY <2>1, Staying
<1> QED
  BY <1>1, <1>2

LEMMA StepLeaf ==
  ASSUME IInv, EvalLiteral \/ EvalIdentifier \/ EvalMinLiteral
  PROVE  IInv'
<1>1. kont' = kont /\ scopes' = scopes /\ ctl'.do = "value"
  <2>1. CASE EvalLiteral
    BY <2>1, ControlFacts DEF EvalLiteral
  <2>2. CASE EvalIdentifier
    <3>1. kont' = kont /\ scopes' = scopes /\ \E v : ctl' = Returns(v)
      BY <2>2 DEF EvalIdentifier
    <3> QED
      BY <3>1, ControlFacts
  <2>3. CASE EvalMinLiteral
    BY <2>3, ControlFacts DEF EvalMinLiteral
  <2> QED
    BY <2>1, <2>2, <2>3
<1> QED
  BY <1>1, Staying

(* An operator, access, literal or call is entered.                        *)
LEMMA StepEnterExpression ==
  ASSUME IInv, EnterExpression
  PROVE  IInv'
<1>1. /\ ctl.do = "eval" /\ ctl.node \in Nodes /\ scopes' = scopes
      /\ ctl.node.op \in Expressions
  BY DEF EnterExpression, AtExpr, IInv
<1>2. CASE OperandProblem(ctl.node, 1) # ""
  <2>1. kont' = kont /\ scopes' = scopes /\ ctl' = Returns(NullV)
    BY <1>2 DEF EnterExpression
  <2> QED
    BY <2>1, ControlFacts, Staying
<1>3. ASSUME NEW at \in {0, 1}, kont' = Append(kont, Frame(ctl.node, at, 0)),
             \/ ctl'.do = "eval" /\ ctl'.node \in Nodes /\ ctl.node.args # <<>>
             \/ ctl'.do = "apply" /\ at = 0
      PROVE  IInv'
  <2> DEFINE f == Frame(ctl.node, at, 0)
  <2>1. IsFrame(f) /\ f.node = ctl.node /\ f.at = at /\ f.vals = <<>>
    BY <1>1, <1>3, FrameFacts
  <2> HIDE DEF f
  <2>0. Len(ctl.node.args) \in Nat /\ (ctl.node.args # <<>> => Len(ctl.node.args) >= 1)
    BY <1>1, NodeFacts
  <2>2. f.node.op \notin Statements /\ f.node.op \notin {"assign", "setindex", "block"}
    BY <1>1, <2>1 DEF Expressions, Statements, Loops, Strict, Logic, Unary, Arithmetic,
                      Comparison, Equality
  <2>3. ~OwnsScope(f) /\ Stands(f, Top)
    BY <1>3, <2>0, <2>1, <2>2 DEF OwnsScope, Stands
  <2>4. ctl'.do = "apply" => f.at <= Len(f.node.args)
    BY <1>3, <2>0, <2>1
  <2>5. kont' = Append(kont, f)
    BY <1>3 DEF f
  <2> QED
    BY <1>1, <1>3, <2>1, <2>2, <2>3, <2>4, <2>5, Calling
<1>4. CASE OperandProblem(ctl.node, 1) = "" /\ ctl.node.args = <<>>
  <2>1. kont' = Append(kont, Frame(ctl.node, 0, 0)) /\ ctl' = Apply
    BY <1>4 DEF EnterExpression, Push
  <2>2. ctl'.do = "apply"
    BY <2>1 DEF Apply, Control
  <2> QED
    BY <1>3, <2>1, <2>2
<1>5. CASE OperandProblem(ctl.node, 1) = "" /\ ctl.node.args # <<>>
  <2>1. kont' = Append(kont, Frame(ctl.node, 1, 0)) /\ ctl' = Eval(ctl.node.args[1])
    BY <1>5 DEF EnterExpression, Push
  <2>2. ctl'.do = "eval" /\ ctl'.node \in Nodes
    BY <1>1, <1>5, <2>1, NodeFacts DEF Eval, Control
  <2> QED
    BY <1>3, <1>5, <2>1, <2>2
<1> QED
  BY <1>2, <1>4, <1>5

(* An operand of an operator or access: the next one, or the result.       *)
LEMMA DeliveringTop ==
  ASSUME IInv, kont # <<>>, ~OwnsScope(Top), NEW o, Deliver(o), scopes' = scopes
  PROVE  IInv'
<1>1. kont' = Below /\ ctl' = Returns(o.val)
  BY DEF Deliver
<1> QED
  BY <1>1, ControlFacts, Delivering

LEMMA StepOperands ==
  ASSUME IInv,
         \/ LeftOperand \/ BinaryDone \/ LogicLeft \/ LogicRight \/ UnaryDone
         \/ FieldDone \/ IndexBase \/ IndexDone
  PROVE  IInv'
<1> DEFINE ops == Strict \cup Logic \cup Unary \cup {"field", "index"}
<1>1. kont # <<>> /\ Top.node.op \in ops /\ scopes' = scopes
  BY DEF LeftOperand, BinaryDone, LogicLeft, LogicRight, UnaryDone, FieldDone, IndexBase,
         IndexDone, AtValue
<1>2. Top.node.op \notin {"block", "call"}
  BY <1>1 DEF Strict, Logic, Unary, Arithmetic, Comparison, Equality
<1>3. ~OwnsScope(Top)
  BY <1>2 DEF OwnsScope
<1>4. ASSUME Top.node.op \in Strict \cup Logic \cup {"index"}, Top.at = 1, NextOperand(ctl.val)
      PROVE  IInv'
  <2>1. Len(Top.node.args) = 2
    BY <1>1, <1>4, TopFacts, NodeFacts
  <2>2. Top.at + 1 \in 1..Len(Top.node.args) /\ Top.node.op # "block"
    BY <1>2, <1>4, <2>1
  <2> QED
    BY <1>1, <1>4, <2>2, TakingNext
<1>5. CASE LeftOperand
  BY <1>4, <1>5 DEF LeftOperand, AtValue
<1>6. CASE BinaryDone
  BY <1>1, <1>3, <1>6, DeliveringTop DEF BinaryDone
<1>7. CASE LogicLeft
  <2>1. \/ Top.node.op \in Logic /\ Top.at = 1 /\ NextOperand(ctl.val)
        \/ \E o : Deliver(o)
    BY <1>7 DEF LogicLeft, AtValue
  <2> QED
    BY <1>1, <1>3, <1>4, <2>1, DeliveringTop
<1>8. CASE LogicRight
  BY <1>1, <1>3, <1>8, DeliveringTop DEF LogicRight
<1>9. CASE UnaryDone
  BY <1>1, <1>3, <1>9, DeliveringTop DEF UnaryDone
<1>10. CASE FieldDone
  BY <1>1, <1>3, <1>10, DeliveringTop DEF FieldDone
<1>11. CASE IndexBase
  <2>1. \/ Top.node.op = "index" /\ Top.at = 1 /\ NextOperand(ctl.val)
        \/ \E o : Deliver(o)
    BY <1>11 DEF IndexBase, AtValue
  <2> QED
    BY <1>1, <1>3, <1>4, <2>1, DeliveringTop
<1>12. CASE IndexDone
  BY <1>1, <1>3, <1>12, DeliveringTop DEF IndexDone
<1> QED
  BY <1>5, <1>6, <1>7, <1>8, <1>9, <1>10, <1>11, <1>12

(* An argument, element or initialiser: apply only without an error.       *)
LEMMA StepOperandDone ==
  ASSUME IInv, OperandDone
  PROVE  IInv'
<1>1. /\ kont # <<>> /\ Top.node.op \in {"call", "array", "struct"}
      /\ Top.at <= Len(Top.node.args) /\ scopes' = scopes
  BY DEF OperandDone, AtValue
<1>2. /\ Top.at \in Nat /\ Top.node \in Nodes /\ IsFrame(Top)
      /\ Len(Top.node.args) \in Nat
  BY <1>1, TopFacts, NodeFacts
<1>3. ~OwnsScope(Top)
  BY <1>1, <1>2 DEF OwnsScope
<1> DEFINE v == Convert(ctl.val, OperandType(Top.node, Top.at))
<1> HIDE DEF v
<1>4. \/ \E o : Deliver(o)
      \/ /\ Top.at = Len(Top.node.args) /\ ~HasError /\ errors' = errors
         /\ kont' = [kont EXCEPT ![Len(kont)].vals = Append(@, v)] /\ ctl' = Apply
      \/ Top.at # Len(Top.node.args) /\ NextOperand(v)
  BY DEF OperandDone, v
<1>5. ASSUME NEW o, Deliver(o) PROVE IInv'
  BY <1>1, <1>3, <1>5, DeliveringTop
<1>6. CASE /\ Top.at = Len(Top.node.args) /\ ~HasError /\ errors' = errors
           /\ kont' = [kont EXCEPT ![Len(kont)].vals = Append(@, v)] /\ ctl' = Apply
  <2> DEFINE ws == Append(Top.vals, v)
             g == Moved(Top.at, ws)
  <2>0. Top = [node |-> Top.node, at |-> Top.at, vals |-> Top.vals, slot |-> Top.slot]
    BY <1>2 DEF IsFrame
  <2>1. kont' = [kont EXCEPT ![Len(kont)] = g]
    <3>1. kont' = [kont EXCEPT ![Len(kont)] = [Top EXCEPT !.vals = ws]]
      BY <1>6 DEF Top
    <3>2. [Top EXCEPT !.vals = ws] = g
      <4> HIDE DEF ws
      <4> QED
        BY <2>0 DEF Moved
    <3> QED
      BY <3>1, <3>2
  <2> HIDE DEF ws
  <2>2. IsFrame(g) /\ g.node = Top.node /\ g.slot = Top.slot /\ g.at = Top.at
    BY <1>1, <1>2, NewTop
  <2> HIDE DEF g
  <2>3. ~OwnsScope(g)
    BY <1>1, <1>2, <2>2 DEF OwnsScope
  <2>4. ctl'.do = "apply" /\ g.at <= Len(g.node.args) /\ ~HasError'
    BY <1>1, <1>6, <2>2, ControlFacts DEF HasError
  <2> QED
    BY <1>1, <1>3, <2>1, <2>2, <2>3, <2>4, GoingOn
<1>7. CASE Top.at # Len(Top.node.args) /\ NextOperand(v)
  <2>1. Top.at + 1 \in 1..Len(Top.node.args)
    BY <1>1, <1>2, <1>7
  <2> QED
    BY <1>1, <1>7, <2>1, TakingNext
<1> QED
  BY <1>4, <1>5, <1>6, <1>7

(* An object is built, a line printed, a function called.                  *)
LEMMA StepApply ==
  ASSUME IInv, program \in Programs, Allocate \/ CallPrint \/ CallFunction
  PROVE  IInv'
<1>1. ctl.do = "apply" /\ Top.node.op \in {"array", "struct", "call"}
  BY DEF Allocate, CallPrint, CallFunction
<1>2. kont # <<>> /\ Top.at <= Len(Top.node.args)
  BY <1>1 DEF IInv
<1>3. /\ Top.at \in Nat /\ Top.node \in Nodes /\ IsFrame(Top)
      /\ Len(Top.node.args) \in Nat
  BY <1>2, TopFacts, NodeFacts
<1>4. ~OwnsScope(Top)
  BY <1>1, <1>2, <1>3 DEF OwnsScope
<1>5. ASSUME NEW o, Deliver(o), scopes' = scopes PROVE IInv'
  BY <1>2, <1>4, <1>5, DeliveringTop
<1>6. CASE Allocate
  <2>1. scopes' = scopes /\ \E o : Deliver(o)
    BY <1>6 DEF Allocate
  <2> QED
    BY <1>5, <2>1
<1>7. CASE CallPrint
  <2>1. scopes' = scopes /\ \E o : Deliver(o)
    BY <1>7 DEF CallPrint
  <2> QED
    BY <1>5, <2>1
<1>8. CASE CallFunction
  <2>1. CASE CallProblem(Top.node.name, Top.vals) # ""
    BY <1>5, <1>8, <2>1 DEF CallFunction
  <2>2. CASE CallProblem(Top.node.name, Top.vals) = ""
    <3> DEFINE a == Len(Top.node.args) + 1
               g == Moved(a, Top.vals)
               x == Parameters(Callee(Top.node.name).params, Top.vals)
               body == Callee(Top.node.name).body
    <3> HIDE DEF a, x, body
    <3>1. /\ kont' = [kont EXCEPT ![Len(kont)].at = a]
          /\ scopes' = Append(scopes, x) /\ ctl' = Exec(body) /\ Top.node.op = "call"
      BY <1>8, <2>2 DEF CallFunction, Pushed, a, x, body
    <3>2. a \in Nat /\ a > Len(Top.node.args)
      BY <1>3 DEF a
    <3>3. /\ IsFrame(g) /\ g.node = Top.node /\ g.at = a
          /\ [kont EXCEPT ![Len(kont)].at = a] = [kont EXCEPT ![Len(kont)] = g]
      BY <1>2, <3>2, NewTop
    <3> HIDE DEF g
    <3>4. kont' = [kont EXCEPT ![Len(kont)] = g]
      BY <3>1, <3>3
    <3>5. OwnsScope(g)
      BY <3>1, <3>2, <3>3 DEF OwnsScope
    <3>6. body \in Nodes
      <4>1. Top.node.name \in DOMAIN program.funcs
        BY <2>2 DEF CallProblem
      <4> QED
        BY <4>1, InterpAssumption DEF body, Callee
    <3>7. Disciplined(kont', scopes')
      <4>1. Disciplined(kont, scopes) /\ Top = Last(kont)
        BY <1>2, TopFacts DEF IInv
      <4>2. Disciplined([kont EXCEPT ![Len(kont)] = g], Append(scopes, x))
        BY <1>2, <1>4, <3>3, <3>5, <4>1, EnteringBody
      <4> QED
        BY <3>1, <3>4, <4>2
    <3>8. Top' = g
      BY <1>2, <3>4, ReplacedLast DEF IInv, Disciplined, Top, Last
    <3> QED
      BY <3>1, <3>5, <3>6, <3>7, <3>8, ControlFacts DEF IInv, InBody
  <2> QED
    BY <2>1, <2>2
<1> QED
  BY <1>6, <1>7, <1>8

(* A call returns: its frame owns a scope, because a signal reached it.    *)
LEMMA StepCallReturns ==
  ASSUME IInv, CallReturns
  PROVE  IInv'
<1>1. kont # <<>> /\ Top.node.op = "call" /\ ctl.do = "signal" /\ scopes' = Popped
  BY DEF CallReturns, AtSignal
<1>2. OwnsScope(Top)
  BY <1>1 DEF IInv, InBody
<1>3. \E o : Deliver(o)
  <2>1. CASE ctl.sig = "Return"
    BY <2>1 DEF CallReturns
  <2>2. CASE ctl.sig \in {"None", "Error"}
    BY <2>2 DEF CallReturns
  <2>3. CASE ctl.sig \in {"Break", "Continue"}
    BY <2>3 DEF CallReturns
  <2> QED
    BY <1>1, <2>1, <2>2, <2>3 DEF IInv, SignalKinds
<1>4. PICK o : Deliver(o)
  BY <1>3
<1>5. kont' = Below /\ ctl' = Returns(o.val)
  BY <1>4 DEF Deliver
<1> QED
  BY <1>1, <1>2, <1>5, ControlFacts, Delivering

(* A statement is entered.                                                 *)
LEMMA StepEnterStatement ==
  ASSUME IInv, Jumps \/ EnterStatement \/ EnterAssignment \/ EnterBlock
  PROVE  IInv'
<1>1. ctl.do = "exec" /\ ctl.node \in Nodes
  BY DEF Jumps, EnterStatement, EnterAssignment, EnterBlock, AtStmt, IInv
<1>2. kont # <<>> => InBody(Top)
  BY <1>1 DEF IInv
<1>3. Len(ctl.node.args) \in Nat
  BY <1>1, NodeFacts
<1>4. CASE Jumps
  <2>1. kont' = kont /\ scopes' = scopes /\ \E sig \in SignalKinds : ctl' = Signals(sig, NullV)
    BY <1>4 DEF Jumps, AtStmt, SignalKinds
  <2>2. ctl'.do = "signal" /\ ctl'.sig \in SignalKinds
    BY <2>1, ControlFacts
  <2> QED
    BY <1>1, <2>1, <2>2, Staying
<1>5. ASSUME NEW slot, kont' = Append(kont, Frame(ctl.node, 1, slot)), scopes' = scopes,
             ctl' = Eval(ctl.node.args[1]), ctl.node.args # <<>>,
             ctl.node.op \notin {"call", "block"},
             ctl.node.op \in {"assign", "setindex"} =>
               slot \in 1..Len(scopes) /\ ctl.node.name \in DOMAIN scopes[slot]
      PROVE  IInv'
  <2> DEFINE f == Frame(ctl.node, 1, slot)
  <2>1. IsFrame(f) /\ f.node = ctl.node /\ f.slot = slot
    BY <1>1, FrameFacts
  <2>2. ctl'.do = "eval" /\ ctl'.node \in Nodes
    <3>1. ctl'.do = "eval" /\ ctl'.node = ctl.node.args[1]
      BY <1>5, ControlFacts
    <3>2. ctl.node.args[1] \in Nodes
      BY <1>1, <1>5, NodeFacts
    <3> QED
      BY <3>1, <3>2
  <2>3. kont' = Append(kont, f)
    BY <1>5
  <2> HIDE DEF f
  <2>4. ~OwnsScope(f)
    BY <1>5, <2>1 DEF OwnsScope
  <2>5. kont # <<>> => Stands(f, Top)
    BY <1>2 DEF Stands
  <2> QED
    BY <1>5, <2>1, <2>2, <2>3, <2>4, <2>5, Calling
<1>6. CASE EnterStatement
  <2>1. /\ kont' = Append(kont, Frame(ctl.node, 1, 0)) /\ scopes' = scopes
        /\ ctl' = Eval(ctl.node.args[1]) /\ ctl.node.args # <<>>
        /\ ctl.node.op \in Loops \cup {"decl", "if", "return", "expr"}
    BY <1>6 DEF EnterStatement, AtStmt, Push
  <2>2. ctl.node.op \notin {"call", "block", "assign", "setindex"}
    BY <2>1 DEF Loops
  <2> QED
    BY <1>5, <2>1, <2>2
<1>7. CASE EnterAssignment
  <2>1. scopes' = scopes /\ ctl.node.op \in {"assign", "setindex"}
    BY <1>7 DEF EnterAssignment, AtStmt
  <2>2. CASE TargetProblem(ctl.node) # ""
    <3>1. kont' = kont /\ ctl' = Signals("Error", NullV)
      BY <1>7, <2>2 DEF EnterAssignment
    <3>2. ctl'.do = "signal" /\ ctl'.sig \in SignalKinds
      BY <3>1, ControlFacts DEF SignalKinds
    <3> QED
      BY <1>1, <2>1, <3>1, <3>2, Staying
  <2>3. CASE TargetProblem(ctl.node) = ""
    <3> DEFINE slot == Slot(ctl.node.name)
    <3>1. /\ kont' = Append(kont, Frame(ctl.node, 1, slot))
          /\ ctl' = Eval(ctl.node.args[1])
      BY <1>7, <2>3 DEF EnterAssignment, Push
    <3>2. slot # 0
      BY <2>3 DEF TargetProblem
    <3>3. slot \in DOMAIN scopes /\ ctl.node.name \in DOMAIN scopes[slot]
      BY <3>2, SlotFound
    <3>4. slot \in 1..Len(scopes)
      BY <3>3, SeqShape DEF IInv, Disciplined
    <3>5. ctl.node.args # <<>>
      BY <1>1, <2>1, NodeFacts, EmptySeq
    <3> HIDE DEF slot
    <3> QED
      BY <1>5, <2>1, <3>1, <3>3, <3>4, <3>5
  <2> QED
    BY <2>2, <2>3
<1>8. CASE EnterBlock
  <2> DEFINE f == Frame(ctl.node, 0, 0)
  <2>1. /\ kont' = Append(kont, f) /\ scopes' = Append(scopes, <<>>)
        /\ ctl' = Signals("None", NullV) /\ ctl.node.op = "block"
    BY <1>8 DEF EnterBlock, AtStmt, Push, Pushed
  <2>2. IsFrame(f) /\ f.node = ctl.node
    BY <1>1, FrameFacts
  <2> HIDE DEF f
  <2>3. OwnsScope(f)
    BY <2>1, <2>2 DEF OwnsScope
  <2>4. Disciplined(kont, scopes) /\ (kont # <<>> => Stands(f, Last(kont)))
    BY <1>2 DEF IInv, Stands, Top, Last
  <2>5. Disciplined(kont', scopes')
    BY <2>1, <2>2, <2>3, <2>4, PushOwner
  <2>6. Top' = f
    <3>1. IsSeq(kont)
      BY <2>4 DEF Disciplined
    <3>2. Len(Append(kont, f)) = Len(kont) + 1 /\ Append(kont, f)[Len(kont) + 1] = f
      BY <3>1, Appended
    <3> QED
      BY <2>1, <3>2 DEF Top
  <2>7. InBody(Top') /\ ctl'.do = "signal" /\ ctl'.sig \in SignalKinds
    BY <2>1, <2>2, <2>6, ControlFacts DEF InBody, SignalKinds
  <2>8. InBody(Top)'
    BY <2>7 DEF InBody, OwnsScope
  <2> QED
    BY <2>5, <2>7, <2>8 DEF IInv
<1> QED
  BY <1>4, <1>6, <1>7, <1>8

(* A statement of a block, and the end of the block.                       *)
LEMMA StepBlock ==
  ASSUME IInv, BlockNext \/ BlockEnds
  PROVE  IInv'
<1>1. kont # <<>> /\ Top.node.op = "block" /\ ctl.do = "signal"
  BY DEF BlockNext, BlockEnds, AtSignal
<1>2. OwnsScope(Top) /\ Top.at \in Nat /\ Len(Top.node.args) \in Nat /\ Top.node \in Nodes
  BY <1>1, TopFacts, NodeFacts DEF OwnsScope
<1>3. CASE BlockNext
  <2> DEFINE a == Top.at + 1
             g == Moved(a, Top.vals)
  <2> HIDE DEF a
  <2>1. /\ Top.at < Len(Top.node.args) /\ scopes' = scopes
        /\ kont' = [kont EXCEPT ![Len(kont)].at = a] /\ ctl' = Exec(Top.node.args[a])
    BY <1>3 DEF BlockNext, Top, a
  <2>2. a \in Nat /\ a \in 1..Len(Top.node.args)
    BY <1>2, <2>1 DEF a
  <2>3. IsFrame(g) /\ g.node = Top.node /\ g.slot = Top.slot
    <3>1. IsFrame(g)
      BY <1>1, <2>2, NewTop
    <3> QED
      BY <3>1 DEF Moved
  <2>4. kont' = [kont EXCEPT ![Len(kont)] = g]
    <3>1. [kont EXCEPT ![Len(kont)].at = a] = [kont EXCEPT ![Len(kont)] = g]
      BY <1>1, <2>2, NewTop
    <3> QED
      BY <2>1, <3>1
  <2> HIDE DEF g
  <2>5. ctl'.do = "exec" /\ ctl'.node \in Nodes
    <3>1. Top.node.args[a] \in Nodes
      BY <1>2, <2>2, NodeFacts
    <3> QED
      BY <2>1, <3>1, ControlFacts
  <2>6. OwnsScope(g) /\ InBody(g)
    BY <1>1, <2>3 DEF OwnsScope, InBody
  <2> QED
    BY <1>1, <1>2, <2>1, <2>3, <2>4, <2>5, <2>6, GoingOn
<1>4. CASE BlockEnds
  <2>1. scopes' = Popped /\ kont' = Below /\ ctl' = ctl
    BY <1>4 DEF BlockEnds, Leave
  <2>2. ctl'.do = "signal" /\ ctl'.sig \in SignalKinds
    BY <1>1, <2>1 DEF IInv
  <2>3. Top.node.op \in Statements
    BY <1>1 DEF Statements
  <2> QED
    BY <1>1, <1>2, <2>1, <2>2, <2>3, Leaving
<1> QED
  BY <1>3, <1>4

(* A statement other than a block ends in the scopes it found.             *)
LEMMA LeavingTop ==
  ASSUME IInv, kont # <<>>, Top.node.op \in Statements \ {"block"},
         NEW sig \in SignalKinds, NEW v, Leave(Signals(sig, v)), scopes' = scopes
  PROVE  IInv'
<1>1. Top.node.op \notin {"block", "call"}
  BY DEF Statements, Loops
<1>2. ~OwnsScope(Top)
  BY <1>1 DEF OwnsScope
<1>3. kont' = Below /\ ctl'.do = "signal" /\ ctl'.sig \in SignalKinds
  BY ControlFacts DEF Leave
<1> QED
  BY <1>2, <1>3, Leaving

LEMMA StepDeclarationDone ==
  ASSUME IInv, DeclarationDone
  PROVE  IInv'
<1>1. kont # <<>> /\ Top.node.op \in Statements \ {"block"} /\ Top.node.op \notin {"block", "call"}
  BY DEF DeclarationDone, AtValue, Statements
<1>2. CASE scopes' = scopes
  <2>1. \E sig \in SignalKinds : Leave(Signals(sig, NullV))
    BY DEF DeclarationDone, Abort, SignalKinds
  <2> QED
    BY <1>1, <1>2, <2>1, LeavingTop
<1>3. CASE scopes' # scopes
  <2> DEFINE n == Len(scopes)
             x == Top.node.name
             b == Binding(Convert(ctl.val, Top.node.type), Top.node.type, Top.node.const)
             top == [y \in DOMAIN scopes[n] \cup {x} |-> IF y = x THEN b ELSE scopes[n][y]]
  <2>1. scopes' = [scopes EXCEPT ![n] = top] /\ Leave(Signals("None", NullV))
    BY <1>3 DEF DeclarationDone, Declare, Abort
  <2>2. DOMAIN scopes[n] \subseteq DOMAIN top
    OBVIOUS
  <2> HIDE DEF top
  <2>3. IsSeq(scopes) /\ n \in Nat /\ DOMAIN scopes = 1..n
    BY SeqShape DEF IInv, Disciplined
  <2>4. CASE n = 0
    <3>1. scopes' = scopes
      <4>1. scopes = <<>>
        BY <2>3, <2>4, SeqShape
      <4> QED
        BY <2>1, <2>3, <2>4, <4>1
    <3> QED
      BY <1>3, <3>1
  <2>5. CASE n # 0
    <3> DEFINE t == [scopes EXCEPT ![n] = top]
    <3>1. /\ IsSeq(t) /\ Len(t) = n
          /\ \A i \in 1..n : t[i] = IF i = n THEN top ELSE scopes[i]
      <4>1. n \in 1..Len(scopes)
        BY <2>3, <2>5
      <4> HIDE DEF n
      <4> QED
        BY <2>3, <4>1, Replaced DEF n
    <3> HIDE DEF t
    <3>2. \A i \in 1..n : DOMAIN scopes[i] \subseteq DOMAIN t[i]
      BY <2>2, <3>1
    <3>3. ~OwnsScope(Top)
      BY <1>1 DEF OwnsScope
    <3>4. Disciplined(Below, scopes) /\ (Below # <<>> => InBody(Last(Below)))
      BY <1>1, <3>3, TopFacts, Popping DEF IInv, Stands
    <3>5. Disciplined(kont', scopes')
      <4>1. Disciplined(Below, t)
        BY <3>1, <3>2, <3>4, Rebinding
      <4> QED
        BY <2>1, <4>1 DEF Leave, t
    <3>6. kont' # <<>> => InBody(Top')
      BY <2>1, <3>4 DEF Leave, Top, Last
    <3>7. ctl'.do = "signal" /\ ctl'.sig \in SignalKinds
      BY <2>1, ControlFacts DEF Leave, SignalKinds
    <3> QED
      BY <3>5, <3>6, <3>7 DEF IInv, InBody, OwnsScope
  <2> QED
    BY <2>4, <2>5
<1> QED
  BY <1>2, <1>3

(* A value is written through the Binding* an assignment holds.            *)
LEMMA StepAssignmentDone ==
  ASSUME IInv, AssignmentDone
  PROVE  IInv'
<1>1. kont # <<>> /\ Top.node.op = "assign"
  BY DEF AssignmentDone, AtValue
<1>2. /\ Len(kont) \in 1..Len(kont) /\ Top = kont[Len(kont)]
  BY <1>1, SeqShape DEF IInv, Disciplined, Top
<1>3. Holds(kont, Len(kont), scopes) /\ IsSeq(scopes) /\ Len(scopes) = Count(kont, Len(kont))
  BY <1>2 DEF IInv, Disciplined
<1> DEFINE n == Top.slot
           x == Top.node.name
           b == [scopes[n][x] EXCEPT !.val = Convert(ctl.val, scopes[n][x].type)]
           top == [scopes[n] EXCEPT ![x] = b]
           t == [scopes EXCEPT ![n] = top]
<1>4. n \in 1..Len(scopes)
  BY <1>1, <1>2, <1>3 DEF Holds
<1>5. scopes' = t
  BY DEF AssignmentDone
<1>6. DOMAIN top = DOMAIN scopes[n]
  OBVIOUS
<1>7. IsSeq(t) /\ Len(t) = Len(scopes) /\ \A i \in 1..Len(scopes) : t[i] = IF i = n THEN top ELSE scopes[i]
  <2>1. PICK m : m = n
    OBVIOUS
  <2>2. PICK u : u = top
    OBVIOUS
  <2> HIDE DEF top, n
  <2>3. IsSeq(scopes) /\ m \in 1..Len(scopes)
    BY <1>3, <1>4, <2>1
  <2>4. /\ IsSeq([scopes EXCEPT ![m] = u]) /\ Len([scopes EXCEPT ![m] = u]) = Len(scopes)
        /\ \A i \in 1..Len(scopes) : [scopes EXCEPT ![m] = u][i] = IF i = m THEN u ELSE scopes[i]
    BY <2>3, Replaced
  <2> QED
    BY <2>1, <2>2, <2>4
<1> HIDE DEF top
<1>8. \A i \in 1..Len(scopes) : DOMAIN scopes[i] \subseteq DOMAIN t[i]
  <2> HIDE DEF t
  <2> QED
    BY <1>6, <1>7
<1>9. Top.node.op \notin {"block", "call"} /\ Top.node.op \in Statements
  BY <1>1 DEF Statements
<1>10. Disciplined(Below, scopes) /\ (Below # <<>> => InBody(Last(Below)))
  <2>1. ~OwnsScope(Top)
    BY <1>9 DEF OwnsScope
  <2> QED
    BY <1>1, <1>9, <2>1, TopFacts, Popping DEF IInv, Stands
<1> HIDE DEF t
<1>11. Disciplined(Below, t)
  BY <1>7, <1>8, <1>10, Rebinding
<1>12. kont' = Below /\ ctl'.do = "signal" /\ ctl'.sig \in SignalKinds
  BY ControlFacts DEF AssignmentDone, Leave, Outcome, SignalKinds
<1>13. kont' # <<>> => InBody(Top')
  BY <1>10, <1>12 DEF Top, Last
<1> QED
  BY <1>5, <1>11, <1>12, <1>13 DEF IInv, InBody, OwnsScope

LEMMA StepSetIndex ==
  ASSUME IInv, SetIndexChecked \/ SetIndexDone
  PROVE  IInv'
<1>1. kont # <<>> /\ Top.node.op = "setindex" /\ scopes' = scopes
  BY DEF SetIndexChecked, SetIndexDone, AtValue
<1>2. Top.node.op \in Statements \ {"block"} /\ Top.node.op \notin {"block", "call"}
  BY <1>1 DEF Statements
<1>3. CASE SetIndexDone
  <2>1. \E sig \in SignalKinds : Leave(Signals(sig, NullV))
    BY <1>3 DEF SetIndexDone, Outcome, SignalKinds
  <2> QED
    BY <1>1, <1>2, <2>1, LeavingTop
<1>4. CASE SetIndexChecked
  <2> DEFINE target == scopes[Top.slot][Top.node.name].val
             vs == <<ctl.val, target>>
             a == 2
             g == Moved(a, vs)
  <2>1. CASE \E msg : Abort(msg)
    <3>1. Leave(Signals("Error", NullV))
      BY <2>1 DEF Abort
    <3>2. "Error" \in SignalKinds
      BY DEF SignalKinds
    <3> QED
      BY <1>1, <1>2, <3>1, <3>2, LeavingTop
  <2>2. CASE ~\E msg : Abort(msg)
    <3>1. /\ kont' = [kont EXCEPT ![Len(kont)].at = a, ![Len(kont)].vals = vs]
          /\ ctl' = Eval(Top.node.args[2])
      BY <1>4, <2>2 DEF SetIndexChecked
    <3>2. a \in Nat
      OBVIOUS
    <3> HIDE DEF a, vs
    <3>3. [kont EXCEPT ![Len(kont)].at = a, ![Len(kont)].vals = vs]
            = [kont EXCEPT ![Len(kont)] = g]
      BY <1>1, <3>2, NewTop
    <3>4. IsFrame(g) /\ g.node = Top.node /\ g.slot = Top.slot
      BY <1>1, <3>2, NewTop
    <3> HIDE DEF g
    <3>5. Top.node.args[2] \in Nodes
      <4>1. Top.node \in Nodes
        BY <1>1, TopFacts
      <4>2. Len(Top.node.args) = 2
        BY <1>1, <4>1, NodeFacts
      <4>3. 2 \in 1..Len(Top.node.args)
        BY <4>2
      <4> QED
        BY <4>1, <4>3, NodeFacts
    <3>6. ctl'.do = "eval" /\ ctl'.node \in Nodes
      BY <3>1, <3>5, ControlFacts
    <3>7. OwnsScope(g) <=> OwnsScope(Top)
      BY <1>2, <3>4 DEF OwnsScope
    <3>8. kont' = [kont EXCEPT ![Len(kont)] = g]
      BY <3>1, <3>3
    <3> QED
      BY <1>1, <3>4, <3>6, <3>7, <3>8, GoingOn
  <2> QED
    BY <2>1, <2>2
<1> QED
  BY <1>3, <1>4

LEMMA StepBranches ==
  ASSUME IInv, IfDecides \/ ReturnDone \/ ExpressionDone
  PROVE  IInv'
<1>1. kont # <<>> /\ Top.node.op \in {"if", "return", "expr"} /\ scopes' = scopes
  BY DEF IfDecides, ReturnDone, ExpressionDone, AtValue
<1>2. Top.node.op \in Statements \ {"block"} /\ Top.node.op \notin {"block", "call"}
  BY <1>1 DEF Statements
<1>3. CASE ReturnDone
  <2>1. Leave(Signals("Return", ctl.val)) /\ "Return" \in SignalKinds
    BY <1>3 DEF ReturnDone, SignalKinds
  <2> QED
    BY <1>1, <1>2, <2>1, LeavingTop
<1>4. CASE ExpressionDone
  <2>1. \E sig \in SignalKinds : Leave(Signals(sig, NullV))
    BY <1>4 DEF ExpressionDone, Outcome, SignalKinds
  <2> QED
    BY <1>1, <1>2, <2>1, LeavingTop
<1>5. CASE IfDecides
  <2> DEFINE branch == IF Truth(ctl.val) THEN 2 ELSE 3
  <2>1. \/ \E sig \in SignalKinds : Leave(Signals(sig, NullV))
        \/ branch <= Len(Top.node.args) /\ Leave(Exec(Top.node.args[branch]))
    BY <1>5 DEF IfDecides, Abort, SignalKinds
  <2>2. branch \in Nat \ {0}
    OBVIOUS
  <2> HIDE DEF branch
  <2>3. CASE branch <= Len(Top.node.args) /\ Leave(Exec(Top.node.args[branch]))
    <3>1. Top.node \in Nodes
      BY <1>1, TopFacts
    <3>2. branch \in 1..Len(Top.node.args)
      BY <2>2, <2>3, <3>1, NodeFacts
    <3>3. Top.node.args[branch] \in Nodes
      BY <3>1, <3>2, NodeFacts
    <3>4. kont' = Below /\ ctl' = Exec(Top.node.args[branch])
      BY <2>3 DEF Leave
    <3>5. ctl'.do = "exec" /\ ctl'.node \in Nodes
      BY <3>3, <3>4, ControlFacts
    <3>6. ~OwnsScope(Top)
      BY <1>2 DEF OwnsScope
    <3> QED
      BY <1>1, <1>2, <3>4, <3>5, <3>6, Leaving
  <2> QED
    BY <1>1, <1>2, <2>1, <2>3, LeavingTop
<1> QED
  BY <1>3, <1>4, <1>5

(* A loop evaluates its condition, runs its body, or ends.                 *)
LEMMA StepLoop ==
  ASSUME IInv, LoopDecides \/ LoopBodyDone
  PROVE  IInv'
<1>1. kont # <<>> /\ Top.node.op \in Loops /\ scopes' = scopes
  BY DEF LoopDecides, LoopBodyDone, AtValue, AtSignal
<1>2. Top.node.op \in Statements \ {"block"} /\ Top.node.op \notin {"block", "call"}
  BY <1>1 DEF Statements, Loops
<1>3. Top.node.args[1] \in Nodes /\ Top.node.args[2] \in Nodes
  <2>1. Top.node \in Nodes
    BY <1>1, TopFacts
  <2>2. Len(Top.node.args) = 2
    BY <1>1, <2>1, NodeFacts
  <2>3. 1 \in 1..Len(Top.node.args) /\ 2 \in 1..Len(Top.node.args)
    BY <2>2
  <2> QED
    BY <2>1, <2>3, NodeFacts
<1>4. ASSUME NEW a \in {1, 2}, kont' = [kont EXCEPT ![Len(kont)].at = a],
             ctl' \in {Eval(Top.node.args[a]), Exec(Top.node.args[a])}
      PROVE  IInv'
  <2> DEFINE g == Moved(a, Top.vals)
  <2>1. a \in Nat
    BY <1>4
  <2>2. IsFrame(g)
    BY <1>1, <2>1, NewTop
  <2>3. [kont EXCEPT ![Len(kont)].at = a] = [kont EXCEPT ![Len(kont)] = g]
    BY <1>1, <2>1, NewTop
  <2>4. g.node = Top.node /\ g.slot = Top.slot
    BY DEF Moved
  <2> HIDE DEF g
  <2>5. kont' = [kont EXCEPT ![Len(kont)] = g]
    BY <1>4, <2>3
  <2>6. Top.node.args[a] \in Nodes
    BY <1>3, <1>4
  <2>7. ctl'.do \in {"eval", "exec"} /\ ctl'.node \in Nodes
    BY <1>4, <2>6, ControlFacts
  <2>8. (OwnsScope(g) <=> OwnsScope(Top)) /\ InBody(g)
    BY <1>2, <2>4 DEF OwnsScope, InBody
  <2> QED
    BY <1>1, <2>2, <2>4, <2>5, <2>7, <2>8, GoingOn
<1>5. ASSUME NEW sig \in SignalKinds, NEW v, Leave(Signals(sig, v)) PROVE IInv'
  BY <1>1, <1>2, <1>5, LeavingTop
<1>6. CASE LoopDecides
  <2>1. \/ \E sig \in SignalKinds : Leave(Signals(sig, NullV))
        \/ /\ kont' = [kont EXCEPT ![Len(kont)].at = 2]
           /\ ctl' = Exec(Top.node.args[2])
    BY <1>6 DEF LoopDecides, Abort, SignalKinds
  <2> QED
    BY <1>4, <1>5, <2>1
<1>7. CASE LoopBodyDone
  <2>1. ctl.do = "signal" /\ ctl.sig \in SignalKinds
    BY <1>7 DEF LoopBodyDone, AtSignal, IInv
  <2>2. CASE ctl.sig \in {"None", "Continue"}
    <3>1. kont' = [kont EXCEPT ![Len(kont)].at = 1] /\ ctl' = Eval(Top.node.args[1])
      BY <1>7, <2>2 DEF LoopBodyDone
    <3> QED
      BY <1>4, <3>1
  <2>3. CASE ctl.sig = "Break"
    <3>1. Leave(Signals("None", NullV)) /\ "None" \in SignalKinds
      BY <1>7, <2>3 DEF LoopBodyDone, SignalKinds
    <3> QED
      BY <1>5, <3>1
  <2>4. CASE ctl.sig \in {"Return", "Error"}
    <3>1. kont' = Below /\ ctl' = ctl
      BY <1>7, <2>4 DEF LoopBodyDone, Leave
    <3>2. ~OwnsScope(Top)
      BY <1>2 DEF OwnsScope
    <3>3. ctl'.do = "signal" /\ ctl'.sig \in SignalKinds
      BY <2>1, <3>1
    <3> QED
      BY <1>1, <1>2, <3>1, <3>2, <3>3, Leaving
  <2> QED
    BY <2>1, <2>2, <2>3, <2>4 DEF SignalKinds
<1> QED
  BY <1>6, <1>7

-----------------------------------------------------------------------------
(* The discipline holds of every state of every run.                       *)
LEMMA Initially ==
  ASSUME Init
  PROVE  IInv /\ program \in Programs
<1>1. kont = <<>> /\ scopes = <<>> /\ ctl.do = "start" /\ program \in Programs
  BY DEF Init, Control
<1>2. IsSeq(<<>>) /\ Len(<<>>) = 0
  BY EmptySeq, OwnSeq
<1>3. Count(<<>>, 0) = 0
  <2>1. Owners(<<>>, 0) = {}
    BY DEF Owners
  <2> QED
    BY <2>1, FS_EmptySet DEF Count
<1>4. Disciplined(<<>>, <<>>)
  BY <1>2, <1>3 DEF Disciplined
<1> QED
  BY <1>1, <1>4 DEF IInv

LEMMA Inductive ==
  ASSUME IInv, program \in Programs, [Next]_vars
  PROVE  IInv' /\ program' \in Programs
<1>1. CASE Next
  <2>1. program' = program
    BY <1>1 DEF Next, Start, Finish, EvalLiteral, EvalIdentifier, EvalMinLiteral, EnterExpression,
                LeftOperand, BinaryDone, LogicLeft, LogicRight, UnaryDone, FieldDone, IndexBase,
                IndexDone, OperandDone, Allocate, CallPrint, CallFunction, CallReturns, Jumps,
                EnterStatement, EnterAssignment, EnterBlock, BlockNext, BlockEnds,
                DeclarationDone, AssignmentDone, SetIndexChecked, SetIndexDone, IfDecides,
                LoopDecides, LoopBodyDone, ReturnDone, ExpressionDone, Silent
  <2>2. IInv'
    BY <1>1, StepRun, StepLeaf, StepEnterExpression, StepOperands, StepOperandDone, StepApply,
       StepCallReturns, StepEnterStatement, StepBlock, StepDeclarationDone, StepAssignmentDone,
       StepSetIndex, StepBranches, StepLoop DEF Next
  <2> QED
    BY <2>1, <2>2
<1>2. CASE UNCHANGED vars
  BY <1>2 DEF vars, IInv, Top, HasError, InBody, OwnsScope
<1> QED
  BY <1>1, <1>2

LEMMA Discipline == Spec => [](IInv /\ program \in Programs)
<1>1. Init => IInv /\ program \in Programs
  BY Initially
<1>2. IInv /\ program \in Programs /\ [Next]_vars => (IInv /\ program \in Programs)'
  BY Inductive
<1> QED
  BY <1>1, <1>2, PTL DEF Spec

(* executeBlock and callFunction leave scopes_ as they found it, on every  *)
(* path out of them.                                                       *)
THEOREM ScopesAreBalanced == Spec => []ScopesBalanced
<1>1. IInv => ScopesBalanced
  BY DEF IInv, Disciplined, ScopesBalanced, OwnedUpTo, Count, Owners
<1> QED
  BY <1>1, Discipline, PTL

(* The Binding* that an assignment holds while its value is evaluated      *)
(* never dangles.                                                          *)
THEOREM BindingsStayLive == Spec => []HeldBindingsLive
<1>1. ASSUME IInv, NEW k \in DOMAIN kont, kont[k].node.op \in {"assign", "setindex"}
      PROVE  /\ kont[k].slot \in DOMAIN scopes /\ kont[k].slot <= OwnedUpTo(k)
             /\ kont[k].node.name \in DOMAIN scopes[kont[k].slot]
  <2>1. /\ k \in 1..Len(kont) /\ Len(kont) \in Nat /\ DOMAIN scopes = 1..Len(scopes)
        /\ Holds(kont, k, scopes) /\ Len(scopes) = Count(kont, Len(kont))
    BY <1>1, SeqShape DEF IInv, Disciplined
  <2>2. kont[k].slot \in 1..Count(kont, k) /\ kont[k].node.name \in DOMAIN scopes[kont[k].slot]
    BY <1>1, <2>1 DEF Holds
  <2>3. Count(kont, k) <= Len(scopes) /\ Count(kont, k) \in Nat /\ Len(scopes) \in Nat
    BY <2>1, CountMonotone, OwnersFinite
  <2>4. OwnedUpTo(k) = Count(kont, k)
    BY DEF OwnedUpTo, Count, Owners
  <2> QED
    BY <2>1, <2>2, <2>3, <2>4
<1>2. IInv => HeldBindingsLive
  BY <1>1 DEF HeldBindingsLive
<1> QED
  BY <1>2, Discipline, PTL

(* After the first error nothing is printed: print is called only when its *)
(* argument was evaluated without one.                                     *)
THEOREM NothingPrintedAfterFault == Spec => SilentAfterFault
<1>1. ASSUME IInv, [Next]_vars PROVE [HasError => out' = out]_vars
  <2>1. CASE CallPrint
    <3>1. CASE Top.vals = <<>>
      BY <2>1, <3>1 DEF CallPrint
    <3>2. CASE Top.vals # <<>>
      <4>1. ctl.do = "apply"
        BY <2>1 DEF CallPrint
      <4>2. ctl.do = "apply" => (Top.vals # <<>> => ~HasError)
        BY <1>1 DEF IInv
      <4>3. ~HasError
        BY <3>2, <4>1, <4>2
      <4> QED
        BY <4>3
    <3> QED
      BY <3>1, <3>2
  <2>2. CASE Next /\ ~CallPrint
    BY <2>2 DEF Next, Start, Finish, EvalLiteral, EvalIdentifier, EvalMinLiteral, EnterExpression,
                LeftOperand, BinaryDone, LogicLeft, LogicRight, UnaryDone, FieldDone, IndexBase,
                IndexDone, OperandDone, Allocate, CallFunction, CallReturns, Jumps,
                EnterStatement, EnterAssignment, EnterBlock, BlockNext, BlockEnds,
                DeclarationDone, AssignmentDone, SetIndexChecked, SetIndexDone, IfDecides,
                LoopDecides, LoopBodyDone, ReturnDone, ExpressionDone, Silent
  <2>3. CASE UNCHANGED vars
    BY <2>3
  <2> QED
    BY <1>1, <2>1, <2>2, <2>3
<1>2. IInv /\ [Next]_vars => [HasError => out' = out]_vars
  BY <1>1
<1> QED
  BY <1>2, Discipline, PTL DEF Spec, SilentAfterFault

-----------------------------------------------------------------------------
(* run() returns once: nothing is evaluated, and nothing reported, after   *)
(* the result was made from the errors.                                    *)
Reported ==
  /\ FailureReported
  /\ result.done => ctl.do = "value" /\ kont = <<>>
  /\ ~result.done => result = Running

(* Every task of the interpreter but the two of run() itself finds itself  *)
(* in an active evaluation and leaves the result alone.                    *)
LEMMA Evaluating ==
  ASSUME Next, ~Start, ~Finish
  PROVE  ~(ctl.do = "value" /\ kont = <<>>) /\ result' = result
<1>1. CASE EvalLiteral \/ EvalIdentifier \/ EvalMinLiteral \/ EnterExpression \/ EnterStatement
           \/ EnterAssignment \/ EnterBlock \/ Jumps
  BY <1>1, Zenon DEF EvalLiteral, EvalIdentifier, EvalMinLiteral, EnterExpression, EnterStatement,
              EnterAssignment, EnterBlock, Jumps, AtExpr, AtStmt, Silent
<1>2. CASE LeftOperand \/ BinaryDone \/ LogicLeft \/ LogicRight \/ UnaryDone \/ FieldDone
           \/ IndexBase \/ IndexDone \/ OperandDone
  BY <1>2, Zenon DEF LeftOperand, BinaryDone, LogicLeft, LogicRight, UnaryDone, FieldDone, IndexBase,
              IndexDone, OperandDone, AtValue, Silent
<1>3. CASE Allocate \/ CallPrint \/ CallFunction \/ CallReturns \/ BlockNext \/ BlockEnds
  BY <1>3, Zenon DEF Allocate, CallPrint, CallFunction, CallReturns, BlockNext, BlockEnds, AtValue,
              AtSignal, Silent
<1>4. CASE DeclarationDone \/ AssignmentDone \/ SetIndexChecked \/ SetIndexDone \/ IfDecides
           \/ LoopDecides \/ LoopBodyDone \/ ReturnDone \/ ExpressionDone
  BY <1>4, Zenon DEF DeclarationDone, AssignmentDone, SetIndexChecked, SetIndexDone, IfDecides,
              LoopDecides, LoopBodyDone, ReturnDone, ExpressionDone, AtValue, AtSignal, Silent
<1> QED
  BY <1>1, <1>2, <1>3, <1>4 DEF Next

(* A run that reported an error never succeeds, whatever its entry         *)
(* function still delivers; one without errors does.                       *)
THEOREM FaultsAreReported == Spec => []FailureReported
<1>1. Init => Reported
  BY DEF Init, Reported, FailureReported, Running
<1>2. ASSUME Reported, [Next]_vars PROVE Reported'
  <2>1. CASE Start
    <3>1. ctl.do = "start" /\ result' = result /\ ~result.done
      BY <1>2, <2>1, Zenon DEF Start, Silent, Reported, Running
    <3> QED
      BY <1>2, <3>1 DEF Reported, FailureReported
  <2>2. CASE Finish
    <3> DEFINE bad == ctl.val.kind \notin {"Int", "Bool", "Null"}
    <3>1. ctl' = ctl /\ kont' = kont /\ ctl.do = "value" /\ kont = <<>>
      BY <2>2, Zenon DEF Finish
    <3>2. CASE HasError \/ bad
      <4>1. result' = Finished(FALSE, 1)
        BY <2>2, <3>2, Zenon DEF Finish
      <4>2. errors' # <<>>
        <5>1. CASE HasError
          <6>1. errors' = errors
            BY <2>2, <5>1, Zenon DEF Finish
          <6> QED
            BY <5>1, <6>1 DEF HasError
        <5>2. CASE ~HasError
          <6>1. errors' = <<"Entry function must return int/bool/null">>
            BY <2>2, <3>2, <5>2, Zenon DEF Finish
          <6> QED
            BY <6>1
        <5> QED
          BY <5>1, <5>2
      <4> QED
        BY <3>1, <4>1, <4>2 DEF Reported, FailureReported, HasError, Finished
    <3>3. CASE ~HasError /\ ~bad
      <4>1. PICK exit : errors' = errors /\ result' = Finished(TRUE, exit)
        BY <2>2, <3>3 DEF Finish
      <4> QED
        BY <3>1, <3>3, <4>1 DEF Reported, FailureReported, HasError, Finished
    <3> QED
      BY <3>2, <3>3
  <2>3. CASE Next /\ ~Start /\ ~Finish
    <3>1. ~(ctl.do = "value" /\ kont = <<>>) /\ result' = result
      BY <2>3, Evaluating
    <3> QED
      BY <1>2, <3>1 DEF Reported, FailureReported
  <2>4. CASE UNCHANGED vars
    BY <1>2, <2>4 DEF vars, Reported, FailureReported, HasError
  <2> QED
    BY <1>2, <2>1, <2>2, <2>3, <2>4
<1>3. Reported => FailureReported
  BY DEF Reported
<1> QED
  BY <1>1, <1>2, <1>3, PTL DEF Spec

-----------------------------------------------------------------------------
(* numeric::add succeeds exactly when the sum is an int64_t, and the       *)
(* difference it compares with is always one.                              *)
THEOREM AddExact ==
  ASSUME NEW a \in Int64, NEW b \in Int64
  PROVE  /\ AddFits(a, b) <=> a + b \in Int64
         /\ b > 0 => INT64_MAX - b \in Int64
         /\ b < 0 => INT64_MIN - b \in Int64
BY NumericAssumption DEF AddFits, Int64, INT64_MAX, INT64_MIN

(* numeric::sub succeeds exactly when the difference is an int64_t, and    *)
(* the sum it compares with is always one.                                 *)
THEOREM SubExact ==
  ASSUME NEW a \in Int64, NEW b \in Int64
  PROVE  /\ SubFits(a, b) <=> a - b \in Int64
         /\ b < 0 => INT64_MAX + b \in Int64
         /\ b > 0 => INT64_MIN + b \in Int64
BY NumericAssumption DEF SubFits, Int64, INT64_MAX, INT64_MIN

-----------------------------------------------------------------------------
(* A product grows with a factor.                                          *)
LEMMA ProductMonotone ==
  ASSUME NEW x \in Int, NEW y \in Int, NEW c \in Nat, x <= y
  PROVE  x * c <= y * c
<1>1. \E d \in Nat : y = x + d
  BY y - x \in Nat
<1>2. PICK d \in Nat : y = x + d
  BY <1>1
<1>3. y * c = x * c + d * c
  BY <1>2
<1>4. d * c >= 0
  OBVIOUS
<1> QED
  BY <1>3, <1>4

(* Division with remainder, for a positive divisor.                        *)
LEMMA Division ==
  ASSUME NEW m \in Int, NEW d \in Nat \ {0}
  PROVE  /\ m \div d \in Int
         /\ (m \div d) * d <= m
         /\ m < (m \div d + 1) * d
OBVIOUS

(* The remainder that goes with it.                                        *)
LEMMA Remainder ==
  ASSUME NEW m \in Int, NEW d \in Nat \ {0}
  PROVE  m % d \in 0..d - 1 /\ m \div d \in Int /\ m = (m \div d) * d + (m % d)
OBVIOUS

LEMMA ProductOfSuccessor ==
  ASSUME NEW x \in Int, NEW c \in Int
  PROVE  (x + 1) * c = x * c + c
OBVIOUS

(* Comparing with a quotient is comparing with the product.                *)
LEMMA Bound ==
  ASSUME NEW x \in Int, NEW m \in Int, NEW d \in Nat \ {0}
  PROVE  x > m \div d <=> x * d > m
<1>1. CASE x > m \div d
  <2>1. (m \div d + 1) * d <= x * d
    BY <1>1, Division, ProductMonotone
  <2> QED
    BY <1>1, <2>1, Division
<1>2. CASE x <= m \div d
  <2>1. x * d <= (m \div d) * d
    BY <1>2, Division, ProductMonotone
  <2> QED
    BY <1>2, <2>1, Division
<1> QED
  BY <1>1, <1>2, Division

(* numeric::mul succeeds exactly when the product is an int64_t.           *)
THEOREM MulExact ==
  ASSUME NEW a \in Int64, NEW b \in Int64
  PROVE  MulFits(a, b) <=> a * b \in Int64
<1> USE NumericAssumption DEF Int64, INT64_MAX, INT64_MIN
<1>1. CASE a > 0 /\ b > 0
  <2>1. a > INT64_MAX \div b <=> a * b > INT64_MAX
    BY <1>1, Bound
  <2>2. a * b >= 0 /\ a * b \in Int
    BY <1>1
  <2> QED
    BY <1>1, <2>1, <2>2 DEF MulFits, Quotient
<1>2. CASE a > 0 /\ b <= 0
  <2>1. -b > Half \div a <=> (-b) * a > Half
    BY <1>2, Bound
  <2>2. (-b) * a = -(a * b) /\ (-b) * a >= 0 /\ a * b \in Int
    BY <1>2
  <2>3. Quotient(INT64_MIN, a) = -(Half \div a) /\ Half \div a \in Int
    BY <1>2, Division DEF Quotient
  <2> QED
    BY <1>2, <2>1, <2>2, <2>3 DEF MulFits
<1>3. CASE a < 0 /\ b > 0
  <2>1. -a > Half \div b <=> (-a) * b > Half
    BY <1>3, Bound
  <2>2. (-a) * b = -(a * b) /\ (-a) * b >= 0 /\ a * b \in Int
    BY <1>3
  <2>3. Quotient(INT64_MIN, b) = -(Half \div b) /\ Half \div b \in Int
    BY <1>3, Division DEF Quotient
  <2> QED
    BY <1>3, <2>1, <2>2, <2>3 DEF MulFits
<1>4. CASE a < 0 /\ b < 0
  <2>1. -a > INT64_MAX \div (-b) <=> (-a) * (-b) > INT64_MAX
    BY <1>4, Bound
  <2>2. (-a) * (-b) = a * b /\ a * b >= 0 /\ a * b \in Int
    BY <1>4
  <2>3. /\ Quotient(INT64_MAX, b) = -(INT64_MAX \div (-b))
        /\ INT64_MAX \div (-b) \in Int
    BY <1>4, Division DEF Quotient
  <2> QED
    BY <1>4, <2>1, <2>2, <2>3 DEF MulFits
<1>5. CASE a = 0 \/ (a < 0 /\ b = 0)
  <2>1. a * b = 0
    BY <1>5
  <2> QED
    BY <1>5, <2>1 DEF MulFits
<1> QED
  BY <1>1, <1>2, <1>3, <1>4, <1>5

(* The quotient of C++ is an int64_t except for the pair DivFits excludes. *)
THEOREM DivExact ==
  ASSUME NEW a \in Int64, NEW b \in Int64, b # 0
  PROVE  DivFits(a, b) <=> Quotient(a, b) \in Int64
<1> USE NumericAssumption DEF Int64, INT64_MAX, INT64_MIN
<1>0. ASSUME NEW m \in Nat, NEW d \in Nat \ {0}
      PROVE  /\ m \div d \in 0..m
             /\ d > 1 /\ m > 0 => m \div d < m
             /\ m \div 1 = m
  <2>1. m \div d >= 0
    BY <1>0
  <2>2. m \div d <= m /\ (d > 1 /\ m > 0 => m \div d < m)
    <3>1. (m \div d) * 1 <= (m \div d) * d /\ (d > 1 => (m \div d) * 2 <= (m \div d) * d)
      BY <2>1, Division, ProductMonotone
    <3> QED
      BY <2>1, <3>1, Division
  <2> QED
    BY <2>1, <2>2, Division
<1>1. CASE b > 0
  <2>1. CASE a >= 0
    BY <1>0, <1>1, <2>1 DEF DivFits, Quotient
  <2>2. CASE a < 0
    <3>1. (-a) \div b \in 0..-a
      BY <1>0, <1>1, <2>2
    <3> QED
      BY <1>1, <2>2, <3>1 DEF DivFits, Quotient
  <2> QED
    BY <2>1, <2>2
<1>2. CASE b < 0
  <2>1. CASE a >= 0
    <3>1. a \div (-b) \in 0..a
      BY <1>0, <1>2, <2>1
    <3> QED
      BY <1>2, <2>1, <3>1 DEF DivFits, Quotient
  <2>2. CASE a < 0
    <3>1. (-a) \div (-b) \in 0..-a /\ (-b > 1 => (-a) \div (-b) < -a) /\ (-a) \div 1 = -a
      BY <1>0, <1>2, <2>2
    <3> QED
      BY <1>2, <2>2, <3>1 DEF DivFits, Quotient
  <2> QED
    BY <2>1, <2>2
<1> QED
  BY <1>1, <1>2

(* numeric::exitCode yields a 32-bit status that agrees with the value in  *)
(* its low 32 bits: they differ by a multiple of 2^32.                     *)
THEOREM ExitCodeCongruent ==
  ASSUME NEW value \in Int64
  PROVE  /\ ExitCode(value) \in -ExitHalf..ExitHalf - 1
         /\ \E k \in Int : value = ExitCode(value) + k * (2 * ExitHalf)
<1> DEFINE m == 2 * ExitHalf
           q == value \div m
           low == value % m
<1>1. value \in Int /\ m \in Nat \ {0} /\ ExitHalf \in Nat
  BY NumericAssumption DEF Int64, INT64_MAX, INT64_MIN
<1>2. low \in 0..m - 1 /\ q \in Int /\ value = q * m + low
  BY <1>1, Remainder
<1>3. (q + 1) * m = q * m + m
  <2> HIDE DEF m, q
  <2> QED
    BY <1>1, <1>2, ProductOfSuccessor
<1>4. ExitCode(value) = IF low <= ExitHalf - 1 THEN low ELSE low - m
  BY DEF ExitCode
<1> HIDE DEF m, low, q
<1>5. CASE low <= ExitHalf - 1
  <2>1. ExitCode(value) = low
    BY <1>4, <1>5
  <2> QED
    BY <1>1, <1>2, <1>5, <2>1 DEF m
<1>6. CASE low > ExitHalf - 1
  <2>1. ExitCode(value) = low - m
    BY <1>1, <1>2, <1>4, <1>6
  <2>2. value = ExitCode(value) + (q + 1) * m
    BY <1>1, <1>2, <1>3, <2>1
  <2>3. ExitCode(value) \in -ExitHalf..ExitHalf - 1
    BY <1>1, <1>2, <1>6, <2>1 DEF m
  <2> QED
    BY <1>2, <2>2, <2>3 DEF m
<1> QED
  BY <1>1, <1>2, <1>5, <1>6
=============================================================================
