----------------------------- MODULE ParserProof -----------------------------
(***************************************************************************)
(* For every grammar and every table that the assumptions of Parser allow, *)
(* and texts of any tokens and any length: a reduction finds its children  *)
(* and its goto, every action finds in a child what it takes, what is      *)
(* accepted is derived from Program by the rules that were reduced, and    *)
(* the trees on the stack hold the tokens in the order of the text.  No    *)
(* assumption is made on lookaheads or on how conflicts were settled.      *)
(*                                                                         *)
(* The argument: each entry of the stack was pushed for a symbol, holds a  *)
(* value of that symbol, and covers a piece of the text and a piece of the *)
(* reductions, next to the pieces of its neighbours.  An item whose dot    *)
(* has moved was in the state below with its dot one symbol back, so under *)
(* a complete item stand the symbols of its rule.                          *)
(*                                                                         *)
(* The order: an action keeps children in their places, opens some of them *)
(* to their parts, and drops only tokens of which the AST has no trace, so *)
(* the term it makes fits where its children stood.                        *)
(***************************************************************************)
EXTENDS Parser, SequenceTheorems, WellFoundedInduction, TLAPS

(* A sequence, whatever it holds.                                          *)
IsSeq(s) == s \in Seq({s[i] : i \in DOMAIN s})

(* What the rules derive: the least set that has every token and, for      *)
(* every rule, what it puts together of pieces of a text and of the        *)
(* reductions made for them, in this order, with its own reduction last.   *)
Pieces(m, n) ==
  {cuts \in [0..m -> 0..n] : /\ cuts[0] = 0 /\ cuts[m] = n
                             /\ \A k \in 1..m : cuts[k - 1] <= cuts[k]}
Splits(D, symbols, text, applied) ==
  \E b \in Pieces(Len(symbols), Len(text)), c \in Pieces(Len(symbols), Len(applied)) :
    \A k \in 1..Len(symbols) :
      <<symbols[k], SubSeq(text, b[k - 1] + 1, b[k]), SubSeq(applied, c[k - 1] + 1, c[k])>> \in D
Closed(D) ==
  /\ \A t \in Terminals : <<t, <<t>>, <<>>>> \in D
  /\ \A i \in DOMAIN GrammarRules : \A text \in Seq(Terminals), applied \in Seq(DOMAIN GrammarRules) :
       Splits(D, GrammarRules[i].rhs, text, applied) =>
         <<GrammarRules[i].lhs, text, Append(applied, i)>> \in D
Derives(symbol, text, applied) == \A D : Closed(D) => <<symbol, text, applied>> \in D

(* What parse() accepts is a program, and the rules it reduced derive it:  *)
(* the text, up to the ENDF that is still the lookahead.                   *)
AcceptsOnlyPrograms == result.success => Derives("Program", Front(read), reductions)

-----------------------------------------------------------------------------
(* The value of a symbol: a token knows its place in the text, any other   *)
(* symbol has what one of its rules made.                                  *)
Represents(value, symbol, text) ==
  IF symbol \in NonTerminals(GrammarRules)
  THEN \E i \in RulesOf(GrammarRules, symbol) : \E children, seen :
         value = applyAction(GrammarRules[i].act, children, seen)
  ELSE \E at \in 1..Len(text) : value = Value("Token", Leaf(at)) /\ text[at] = symbol

(* Entry k of a stack was pushed for a symbol, on the state below.         *)
Entered(st, text, rules, b, c, k, symbol) ==
  /\ Follows(st[k - 1].state, symbol, st[k].state)
  /\ Represents(st[k].value, symbol, text)
  /\ Derives(symbol, SubSeq(text, b[k - 1] + 1, b[k]), SubSeq(rules, c[k - 1] + 1, c[k]))

(* Where the pieces of the entries end, without a gap.                     *)
Ends(m, n) ==
  {b \in [1..m -> 0..n] : /\ b[1] = 0 /\ b[m] = n
                          /\ \A j, k \in 1..m : j <= k => b[j] <= b[k]}
Stacked(st, text, shifted, rules) ==
  \E b \in Ends(Len(st), shifted), c \in Ends(Len(st), Len(rules)) :
    \A k \in 2..Len(st) : \E symbol : Entered(st, text, rules, b, c, k, symbol)

Outcome ==
  \/ result = Parsing
  \/ result = Failure
  \/ \E root : /\ result = [done |-> TRUE, success |-> TRUE, root |-> root]
               /\ Made(root, {"Program"})
               /\ Derives("Program", Front(read), reductions)

IInv ==
  /\ vocabulary \in Vocabularies
  /\ IsSeq(stack) /\ IsSeq(read) /\ reductions \in Seq(DOMAIN GrammarRules)
  /\ stack # <<>> /\ stack[1].state = Start
  /\ lookahead # None => read # <<>> /\ lookahead = Last(read)
  /\ \A k \in 1..Shifted : read[k] \in Terminals
  /\ Stacked(stack, read, Shifted, reductions)
  /\ Outcome

-----------------------------------------------------------------------------
(* Sequences.                                                              *)
LEMMA OwnSeq ==
  ASSUME NEW S, NEW s \in Seq(S)
  PROVE  IsSeq(s)
<1> DEFINE R == {s[i] : i \in DOMAIN s}
<1>1. s \in [1..Len(s) -> R] /\ Len(s) \in Nat
  BY LenProperties
<1> QED
  BY <1>1 DEF IsSeq

(* Its length and its domain.                                              *)
LEMMA SeqShape ==
  ASSUME NEW s, IsSeq(s)
  PROVE  Len(s) \in Nat /\ DOMAIN s = 1..Len(s) /\ (s = <<>> <=> Len(s) = 0)
<1>1. Len(s) \in Nat /\ DOMAIN s = 1..Len(s)
  BY LenProperties DEF IsSeq
<1>2. s = <<>> <=> Len(s) = 0
  BY EmptySeq DEF IsSeq
<1> QED
  BY <1>1, <1>2

(* Append, element by element.                                             *)
LEMMA Appended ==
  ASSUME NEW s, IsSeq(s), NEW x
  PROVE  /\ IsSeq(Append(s, x)) /\ Append(s, x) # <<>>
         /\ Len(Append(s, x)) = Len(s) + 1
         /\ \A i \in 1..Len(s) : Append(s, x)[i] = s[i]
         /\ Append(s, x)[Len(s) + 1] = x
<1> DEFINE R == {s[i] : i \in DOMAIN s} \cup {x}
<1>1. s \in Seq(R)
  BY DEF IsSeq
<1>2. /\ Append(s, x) \in Seq(R)
      /\ Len(Append(s, x)) = Len(s) + 1
      /\ \A i \in 1..Len(s) : Append(s, x)[i] = s[i]
      /\ Append(s, x)[Len(s) + 1] = x
  <2> HIDE DEF R
  <2>1. x \in R
    BY DEF R
  <2> QED
    BY <1>1, <2>1, AppendProperties
<1>3. IsSeq(Append(s, x))
  BY <1>2, OwnSeq
<1> QED
  BY <1>2, <1>3, SeqShape

(* A piece of a sequence.                                                  *)
LEMMA Piece ==
  ASSUME NEW s, IsSeq(s), NEW m \in Nat, NEW n \in 0..Len(s), m <= n
  PROVE  /\ IsSeq(SubSeq(s, m + 1, n))
         /\ Len(SubSeq(s, m + 1, n)) = n - m
         /\ \A i \in 1..n - m : SubSeq(s, m + 1, n)[i] = s[m + i]
<1> DEFINE R == {s[i] : i \in DOMAIN s}
<1>1. Len(s) \in Nat /\ DOMAIN s = 1..Len(s)
  BY SeqShape
<1>2. \A i \in m + 1..n : s[i] \in R
  BY <1>1
<1>3. /\ SubSeq(s, m + 1, n) \in Seq(R)
      /\ Len(SubSeq(s, m + 1, n)) = IF m + 1 <= n THEN n - (m + 1) + 1 ELSE 0
      /\ \A i \in 1..n - (m + 1) + 1 : SubSeq(s, m + 1, n)[i] = s[m + 1 + i - 1]
  <2> HIDE DEF R
  <2> QED
    BY <1>1, <1>2, SubSeqProperties
<1>4. IsSeq(SubSeq(s, m + 1, n))
  BY <1>3, OwnSeq
<1>5. Len(SubSeq(s, m + 1, n)) = n - m
  BY <1>1, <1>3
<1>6. ASSUME NEW i \in 1..n - m PROVE SubSeq(s, m + 1, n)[i] = s[m + i]
  <2>1. i \in 1..n - (m + 1) + 1 /\ m + 1 + i - 1 = m + i
    BY <1>1
  <2> QED
    BY <1>3, <2>1
<1> QED
  BY <1>4, <1>5, <1>6

(* Sequences with the same elements are the same.                          *)
LEMMA SameSeq ==
  ASSUME NEW s, IsSeq(s), NEW t, IsSeq(t), Len(s) = Len(t), \A i \in 1..Len(s) : s[i] = t[i]
  PROVE  s = t
<1>1. DOMAIN s = 1..Len(s) /\ DOMAIN t = 1..Len(s) /\ s = [i \in DOMAIN s |-> s[i]] /\ t = [i \in DOMAIN t |-> t[i]]
  BY SeqShape DEF IsSeq
<1> QED
  BY <1>1

(* A piece of what was there is not changed by what is appended.           *)
LEMMA PieceOfPrefix ==
  ASSUME NEW s, IsSeq(s), NEW x, NEW m \in Nat, NEW n \in 0..Len(s), m <= n
  PROVE  SubSeq(Append(s, x), m + 1, n) = SubSeq(s, m + 1, n)
<1> DEFINE t == Append(s, x)
<1>1. IsSeq(t) /\ Len(t) = Len(s) + 1 /\ Len(s) \in Nat /\ \A i \in 1..Len(s) : t[i] = s[i]
  BY Appended, SeqShape
<1> HIDE DEF t
<1>2. /\ IsSeq(SubSeq(t, m + 1, n)) /\ Len(SubSeq(t, m + 1, n)) = n - m
      /\ \A i \in 1..n - m : SubSeq(t, m + 1, n)[i] = t[m + i]
  BY <1>1, Piece
<1>3. /\ IsSeq(SubSeq(s, m + 1, n)) /\ Len(SubSeq(s, m + 1, n)) = n - m
      /\ \A i \in 1..n - m : SubSeq(s, m + 1, n)[i] = s[m + i]
  BY Piece
<1>4. \A i \in 1..n - m : t[m + i] = s[m + i]
  BY <1>1
<1>5. SubSeq(t, m + 1, n) = SubSeq(s, m + 1, n)
  <2>1. \A i \in 1..Len(SubSeq(t, m + 1, n)) : SubSeq(t, m + 1, n)[i] = SubSeq(s, m + 1, n)[i]
    BY <1>2, <1>3, <1>4
  <2> QED
    BY <1>2, <1>3, <2>1, SameSeq
<1> QED
  BY <1>5 DEF t

(* A piece that reaches the end grows with what is appended.               *)
LEMMA PieceAtEnd ==
  ASSUME NEW s, IsSeq(s), NEW x, NEW m \in 0..Len(s)
  PROVE  SubSeq(Append(s, x), m + 1, Len(s) + 1) = Append(SubSeq(s, m + 1, Len(s)), x)
<1> DEFINE t == Append(s, x)  l == Len(s)  p == SubSeq(s, m + 1, l)
<1>1. IsSeq(t) /\ Len(t) = l + 1 /\ l \in Nat /\ (\A i \in 1..l : t[i] = s[i]) /\ t[l + 1] = x
  BY Appended, SeqShape
<1>2. IsSeq(p) /\ Len(p) = l - m /\ \A i \in 1..l - m : p[i] = s[m + i]
  BY <1>1, Piece
<1> HIDE DEF t, p, l
<1>3. /\ IsSeq(Append(p, x)) /\ Len(Append(p, x)) = l - m + 1
      /\ (\A i \in 1..l - m : Append(p, x)[i] = p[i]) /\ Append(p, x)[l - m + 1] = x
  BY <1>2, Appended
<1>4. m \in 0..l
  BY DEF l
<1>5. /\ IsSeq(SubSeq(t, m + 1, l + 1)) /\ Len(SubSeq(t, m + 1, l + 1)) = l + 1 - m
      /\ \A i \in 1..l + 1 - m : SubSeq(t, m + 1, l + 1)[i] = t[m + i]
  <2>1. m \in Nat /\ l + 1 \in 0..Len(t) /\ m <= l + 1
    BY <1>1, <1>4
  <2> QED
    BY <1>1, <2>1, Piece
<1>6. \A i \in 1..l + 1 - m : t[m + i] = Append(p, x)[i]
  <2> TAKE i \in 1..l + 1 - m
  <2>0. i <= l - m \/ i = l - m + 1
    BY <1>1, <1>4
  <2>1. CASE i <= l - m
    <3>1. i \in 1..l - m /\ m + i \in 1..l
      BY <2>1, <1>1, <1>4
    <3> QED
      BY <3>1, <1>1, <1>2, <1>3
  <2>2. CASE i = l - m + 1
    <3>1. m + i = l + 1
      BY <2>2, <1>1, <1>4
    <3> QED
      BY <2>2, <3>1, <1>1, <1>3
  <2> QED
    BY <2>0, <2>1, <2>2
<1>7. Len(SubSeq(t, m + 1, l + 1)) = Len(Append(p, x))
  BY <1>1, <1>3, <1>4, <1>5
<1>8. SubSeq(t, m + 1, l + 1) = Append(p, x)
  <2>1. \A i \in 1..Len(SubSeq(t, m + 1, l + 1)) : SubSeq(t, m + 1, l + 1)[i] = Append(p, x)[i]
    BY <1>5, <1>6
  <2> QED
    BY <1>3, <1>5, <1>7, <2>1, SameSeq
<1> QED
  BY <1>8 DEF t, p, l

(* A piece of a piece.                                                     *)
LEMMA PieceOfPiece ==
  ASSUME NEW s, IsSeq(s), NEW m \in Nat, NEW n \in 0..Len(s), NEW i \in m..n, NEW j \in i..n
  PROVE  SubSeq(SubSeq(s, m + 1, n), i - m + 1, j - m) = SubSeq(s, i + 1, j)
<1> DEFINE p == SubSeq(s, m + 1, n)
<1>0. Len(s) \in Nat /\ i \in Nat /\ j \in 0..Len(s) /\ i <= j /\ m <= n /\ i - m \in Nat /\ j - m \in 0..n - m
  BY SeqShape
<1>1. IsSeq(p) /\ Len(p) = n - m /\ \A k \in 1..n - m : p[k] = s[m + k]
  BY <1>0, Piece
<1> HIDE DEF p
<1>2. /\ IsSeq(SubSeq(p, i - m + 1, j - m)) /\ Len(SubSeq(p, i - m + 1, j - m)) = (j - m) - (i - m)
      /\ \A k \in 1..(j - m) - (i - m) : SubSeq(p, i - m + 1, j - m)[k] = p[i - m + k]
  <2> DEFINE u == i - m  v == j - m
  <2>1. u \in Nat /\ v \in 0..Len(p) /\ u <= v
    BY <1>0, <1>1
  <2> HIDE DEF u, v
  <2>2. /\ IsSeq(SubSeq(p, u + 1, v)) /\ Len(SubSeq(p, u + 1, v)) = v - u
        /\ \A k \in 1..v - u : SubSeq(p, u + 1, v)[k] = p[u + k]
    BY <1>1, <2>1, Piece
  <2> QED
    BY <2>2 DEF u, v
<1>3. /\ IsSeq(SubSeq(s, i + 1, j)) /\ Len(SubSeq(s, i + 1, j)) = j - i
      /\ \A k \in 1..j - i : SubSeq(s, i + 1, j)[k] = s[i + k]
  BY <1>0, Piece
<1>4. (j - m) - (i - m) = j - i
  BY <1>0
<1>5. \A k \in 1..j - i : p[i - m + k] = s[i + k]
  <2> TAKE k \in 1..j - i
  <2>1. i - m + k \in 1..n - m /\ m + (i - m + k) = i + k
    BY <1>0
  <2> QED
    BY <1>1, <2>1
<1>6. \A k \in 1..Len(SubSeq(p, i - m + 1, j - m)) : SubSeq(p, i - m + 1, j - m)[k] = SubSeq(s, i + 1, j)[k]
  BY <1>2, <1>3, <1>4, <1>5
<1>7. SubSeq(p, i - m + 1, j - m) = SubSeq(s, i + 1, j)
  BY <1>2, <1>3, <1>4, <1>6, SameSeq
<1> QED
  BY <1>7 DEF p

-----------------------------------------------------------------------------
(* What the rules derive.                                                  *)
(* A derived text consists of tokens, and its derivation of rules.         *)
LEMMA DerivedTexts ==
  ASSUME NEW symbol, NEW text, NEW applied, Derives(symbol, text, applied)
  PROVE  text \in Seq(Terminals) /\ applied \in Seq(DOMAIN GrammarRules)
<1> DEFINE D == (Terminals \cup NonTerminals(GrammarRules)) \X Seq(Terminals) \X Seq(DOMAIN GrammarRules)
<1>1. \A t \in Terminals : <<t, <<t>>, <<>>>> \in D
  <2> TAKE t \in Terminals
  <2>1. <<t>> \in Seq(Terminals) /\ <<>> \in Seq(DOMAIN GrammarRules)
    BY EmptySeq
  <2> QED
    BY <2>1
<1>2. ASSUME NEW i \in DOMAIN GrammarRules, NEW t \in Seq(Terminals), NEW a \in Seq(DOMAIN GrammarRules)
      PROVE  <<GrammarRules[i].lhs, t, Append(a, i)>> \in D
  <2>1. GrammarRules[i].lhs \in NonTerminals(GrammarRules)
    BY DEF NonTerminals
  <2>2. Append(a, i) \in Seq(DOMAIN GrammarRules)
    BY AppendProperties
  <2> QED
    BY <2>1, <2>2
<1>3. Closed(D)
  <2> HIDE DEF D
  <2> QED
    BY <1>1, <1>2 DEF Closed
<1>4. <<symbol, text, applied>> \in D
  BY <1>3 DEF Derives
<1> QED
  BY <1>4

(* A token is no left side.                                                *)
LEMMA TokensHaveNoRule ==
  ASSUME NEW t \in Terminals
  PROVE  t \notin NonTerminals(GrammarRules)
<1> DEFINE N == NonTerminals(GrammarRules)
           U == UNION {Symbols(GrammarRules[i]) : i \in DOMAIN GrammarRules}
<1>1. Terminals = U \ N
  BY DEF Terminals, TokensOf
<1> HIDE DEF N, U
<1>2. t \notin N
  BY <1>1
<1> QED
  BY <1>2 DEF N

(* A token derives itself, with no reduction.                              *)
LEMMA DeriveToken ==
  ASSUME NEW t \in Terminals
  PROVE  Derives(t, <<t>>, <<>>)
BY DEF Derives, Closed

(* The cuts of a rule: the ends of its children, from where they begin.    *)
LEMMA Cuts ==
  ASSUME NEW n \in Nat, NEW s \in Nat, NEW b \in Ends(n, s), NEW l \in Nat, l < n
  PROVE  /\ b[n - l] \in 0..s
         /\ [k \in 0..l |-> b[n - l + k] - b[n - l]] \in Pieces(l, s - b[n - l])
         /\ \A k \in 1..l : /\ b[n - l + k - 1] \in b[n - l]..s
                           /\ b[n - l + k] \in b[n - l + k - 1]..s
<1>1. /\ b \in [1..n -> 0..s] /\ b[n] = s
      /\ \A j, k \in 1..n : j <= k => b[j] <= b[k]
  BY DEF Ends
<1>2. \A k \in 0..l : n - l + k \in 1..n
  OBVIOUS
<1>3. n - l \in 1..n /\ n - l + 0 = n - l /\ n - l + l = n
  OBVIOUS
<1>4. ASSUME NEW k \in 0..l PROVE b[n - l + k] \in b[n - l]..s
  <2>1. n - l + k \in 1..n /\ n - l <= n - l + k
    BY <1>2
  <2> QED
    BY <1>1, <1>3, <2>1
<1>5. ASSUME NEW k \in 1..l
      PROVE  /\ b[n - l + k - 1] \in b[n - l]..s
             /\ b[n - l + k] \in b[n - l + k - 1]..s
  <2>1. k - 1 \in 0..l /\ k \in 0..l /\ n - l + (k - 1) = n - l + k - 1
    OBVIOUS
  <2>2. n - l + k - 1 \in 1..n /\ n - l + k \in 1..n /\ n - l + k - 1 <= n - l + k
    BY <1>2, <2>1
  <2>3. b[n - l + k - 1] \in b[n - l]..s /\ b[n - l + k] \in b[n - l]..s
    BY <1>4, <2>1
  <2> QED
    BY <1>1, <2>2, <2>3
<1> DEFINE cuts == [k \in 0..l |-> b[n - l + k] - b[n - l]]
<1>6. b[n - l] \in 0..s
  BY <1>1, <1>3
<1>7. cuts \in [0..l -> 0..s - b[n - l]]
  <2>1. ASSUME NEW k \in 0..l PROVE b[n - l + k] - b[n - l] \in 0..s - b[n - l]
    BY <1>4, <1>6
  <2> QED
    BY <2>1
<1>8. cuts[0] = 0 /\ cuts[l] = s - b[n - l]
  BY <1>1, <1>3, <1>6
<1>9. ASSUME NEW k \in 1..l PROVE cuts[k - 1] <= cuts[k]
  <2>1. k - 1 \in 0..l /\ k \in 0..l /\ n - l + (k - 1) = n - l + k - 1
    OBVIOUS
  <2> QED
    BY <1>5, <1>6, <2>1
<1>10. cuts \in Pieces(l, s - b[n - l])
  <2> HIDE DEF cuts
  <2> QED
    BY <1>7, <1>8, <1>9 DEF Pieces
<1> QED
  BY <1>5, <1>6, <1>10

(* The children of a rule, side by side, are a text of its left side.      *)
LEMMA DeriveRule ==
  ASSUME NEW i \in DOMAIN GrammarRules, NEW text, IsSeq(text), NEW s \in 0..Len(text),
         \A k \in 1..s : text[k] \in Terminals,
         NEW rules \in Seq(DOMAIN GrammarRules),
         NEW n \in Nat, NEW b \in Ends(n, s), NEW c \in Ends(n, Len(rules)),
         Len(GrammarRules[i].rhs) < n,
         \A k \in 1..Len(GrammarRules[i].rhs) :
           Derives(GrammarRules[i].rhs[k],
                   SubSeq(text, b[n - Len(GrammarRules[i].rhs) + k - 1] + 1, b[n - Len(GrammarRules[i].rhs) + k]),
                   SubSeq(rules, c[n - Len(GrammarRules[i].rhs) + k - 1] + 1, c[n - Len(GrammarRules[i].rhs) + k]))
  PROVE  Derives(GrammarRules[i].lhs, SubSeq(text, b[n - Len(GrammarRules[i].rhs)] + 1, s),
                 Append(SubSeq(rules, c[n - Len(GrammarRules[i].rhs)] + 1, Len(rules)), i))
<1> DEFINE rhs == GrammarRules[i].rhs
           l == Len(rhs)
           base == n - l
           T == SubSeq(text, b[base] + 1, s)
           A == SubSeq(rules, c[base] + 1, Len(rules))
<1>1. l \in Nat
  BY GrammarAssumption, LenProperties
<1>2. Len(text) \in Nat /\ Len(rules) \in Nat /\ IsSeq(rules) /\ s \in Nat /\ l < n
  BY SeqShape, LenProperties, OwnSeq
<1>3. \A k \in 1..l : Derives(rhs[k], SubSeq(text, b[n - l + k - 1] + 1, b[n - l + k]),
                              SubSeq(rules, c[n - l + k - 1] + 1, c[n - l + k]))
  OBVIOUS
<1> HIDE DEF l, rhs
<1> DEFINE cutB == [k \in 0..l |-> b[n - l + k] - b[n - l]]
           cutC == [k \in 0..l |-> c[n - l + k] - c[n - l]]
<1>4. /\ b[base] \in 0..s
      /\ cutB \in Pieces(l, s - b[base])
      /\ \A k \in 1..l : /\ b[n - l + k - 1] \in b[base]..s
                        /\ b[n - l + k] \in b[n - l + k - 1]..s
  BY <1>1, <1>2, Cuts
<1>5. /\ c[base] \in 0..Len(rules)
      /\ cutC \in Pieces(l, Len(rules) - c[base])
      /\ \A k \in 1..l : /\ c[n - l + k - 1] \in c[base]..Len(rules)
                        /\ c[n - l + k] \in c[n - l + k - 1]..Len(rules)
  BY <1>1, <1>2, Cuts
<1>6. T \in Seq(Terminals) /\ Len(T) = s - b[base]
  <2>1. \A k \in b[base] + 1..s : text[k] \in Terminals
    BY <1>2, <1>4
  <2>2. T \in Seq(Terminals)
    BY <1>2, <1>4, <2>1, SubSeqProperties
  <2> QED
    BY <1>2, <1>4, <2>2, Piece
<1>7. A \in Seq(DOMAIN GrammarRules) /\ Len(A) = Len(rules) - c[base]
  <2>1. \A k \in c[base] + 1..Len(rules) : rules[k] \in DOMAIN GrammarRules
    BY <1>2, <1>5, ElementOfSeq
  <2>2. A \in Seq(DOMAIN GrammarRules)
    BY <1>2, <1>5, <2>1, SubSeqProperties
  <2> QED
    BY <1>2, <1>5, <2>2, Piece
<1>8. ASSUME NEW D, Closed(D)
      PROVE  <<GrammarRules[i].lhs, T, Append(A, i)>> \in D
  <2>1. ASSUME NEW k \in 1..l
        PROVE  <<rhs[k], SubSeq(T, cutB[k - 1] + 1, cutB[k]), SubSeq(A, cutC[k - 1] + 1, cutC[k])>> \in D
    <3>1. k - 1 \in 0..l /\ k \in 0..l /\ n - l + (k - 1) = n - l + k - 1
      BY <1>1, <1>2
    <3>2. SubSeq(T, b[n - l + k - 1] - b[base] + 1, b[n - l + k] - b[base])
            = SubSeq(text, b[n - l + k - 1] + 1, b[n - l + k])
      <4> DEFINE m == b[base]  u == b[n - l + k - 1]  v == b[n - l + k]
      <4>1. m \in Nat /\ u \in m..s /\ v \in u..s /\ s \in 0..Len(text)
        BY <1>2, <1>4
      <4> HIDE DEF m, u, v
      <4>2. SubSeq(SubSeq(text, m + 1, s), u - m + 1, v - m) = SubSeq(text, u + 1, v)
        BY <1>2, <4>1, PieceOfPiece
      <4> QED
        BY <4>2 DEF m, u, v
    <3>3. SubSeq(A, c[n - l + k - 1] - c[base] + 1, c[n - l + k] - c[base])
            = SubSeq(rules, c[n - l + k - 1] + 1, c[n - l + k])
      <4> DEFINE m == c[base]  u == c[n - l + k - 1]  v == c[n - l + k]
      <4>1. m \in Nat /\ u \in m..Len(rules) /\ v \in u..Len(rules) /\ Len(rules) \in 0..Len(rules)
        BY <1>2, <1>5
      <4> HIDE DEF m, u, v
      <4>2. SubSeq(SubSeq(rules, m + 1, Len(rules)), u - m + 1, v - m) = SubSeq(rules, u + 1, v)
        BY <1>2, <4>1, PieceOfPiece
      <4> QED
        BY <4>2 DEF m, u, v
    <3>4. /\ cutB[k - 1] = b[n - l + k - 1] - b[base] /\ cutB[k] = b[n - l + k] - b[base]
          /\ cutC[k - 1] = c[n - l + k - 1] - c[base] /\ cutC[k] = c[n - l + k] - c[base]
      BY <3>1
    <3>5. <<rhs[k], SubSeq(text, b[n - l + k - 1] + 1, b[n - l + k]),
            SubSeq(rules, c[n - l + k - 1] + 1, c[n - l + k])>> \in D
      BY <1>3, <1>8 DEF Derives
    <3> QED
      BY <3>2, <3>3, <3>4, <3>5
  <2>2. cutB \in Pieces(l, Len(T)) /\ cutC \in Pieces(l, Len(A))
    BY <1>4, <1>5, <1>6, <1>7
  <2>3. Splits(D, rhs, T, A)
    <3> HIDE DEF cutB, cutC, T, A
    <3> QED
      BY <2>1, <2>2 DEF Splits, l
  <2> QED
    BY <1>6, <1>7, <1>8, <2>3 DEF Closed, rhs
<1> QED
  BY <1>8 DEF Derives, l, rhs

-----------------------------------------------------------------------------
(* Where a set of numbers begins: the form induction takes below.          *)
LEMMA Least ==
  ASSUME NEW S \in SUBSET Nat, S # {}
  PROVE  \E k \in S : \A j \in S : k <= j
<1> DEFINE R == {r \in Nat \X Nat : r[1] < r[2]}
<1>1. IsWellFoundedOn(R, Nat)
  BY NatLessThanWellFounded DEF OpToRel
<1>2. PICK k \in S : \A j \in S : ~(<<j, k>> \in R)
  <2> HIDE DEF R
  <2> QED
    BY <1>1, WFMin
<1>3. ASSUME NEW j \in S PROVE k <= j
  <2>1. j \in Nat /\ k \in Nat /\ ~(<<j, k>> \in R)
    BY <1>2
  <2> QED
    BY <2>1
<1> QED
  BY <1>3

(* A stack whose entries follow each other from the start.                 *)
Chained(st) ==
  /\ IsSeq(st) /\ st # <<>> /\ st[1].state = Start
  /\ \A k \in 2..Len(st) : \E symbol : Follows(st[k - 1].state, symbol, st[k].state)

(* All states of such a stack are the table's, the start only below.       *)
LEMMA ChainedStates ==
  ASSUME NEW st, Chained(st), NEW k \in 1..Len(st)
  PROVE  st[k].state \in States /\ (st[k].state = Start => k = 1)
<1>1. CASE k = 1
  BY <1>1, TablesAssumption DEF Chained
<1>2. CASE k # 1
  <2>1. k \in 2..Len(st)
    BY <1>2, SeqShape DEF Chained
  <2> QED
    BY <1>2, <2>1 DEF Chained, Follows
<1> QED
  BY <1>1, <1>2

(* Under an item stand the states that its dot has come from.              *)
LEMMA UnderItem ==
  ASSUME NEW st, Chained(st), NEW i, NEW m \in Nat, <<i, m>> \in ItemSets[st[Len(st)].state]
  PROVE  /\ m < Len(st)
         /\ \A j \in 0..m : <<i, j>> \in ItemSets[st[Len(st) - m + j].state]
<1> DEFINE n == Len(st)
           Reached(k) == k < n /\ <<i, m - k>> \in ItemSets[st[n - k].state]
           Bad == {k \in Nat : k <= m /\ ~Reached(k)}
<1>1. n \in Nat /\ n # 0
  BY SeqShape DEF Chained
<1>2. Reached(0)
  BY <1>1
<1>3. ASSUME NEW k \in Nat, k # 0, k <= m, Reached(k - 1)
      PROVE  Reached(k)
  <2>1. /\ k - 1 < n /\ m - (k - 1) \in Nat /\ m - (k - 1) > 0 /\ n - (k - 1) \in 1..n
        /\ <<i, m - (k - 1)>> \in ItemSets[st[n - (k - 1)].state]
    BY <1>1, <1>3
  <2>2. n - (k - 1) # 1
    <3> SUFFICES ASSUME n - (k - 1) = 1 PROVE FALSE
      OBVIOUS
    <3>1. <<i, m - (k - 1)>> \in ItemSets[Start]
      BY <2>1 DEF Chained
    <3>2. <<i, m - (k - 1)>>[2] = 0
      BY <3>1, TablesAssumption
    <3> QED
      BY <2>1, <3>2
  <2>3. n - (k - 1) \in 2..n /\ n - (k - 1) - 1 = n - k /\ k < n /\ m - (k - 1) - 1 = m - k
    BY <1>1, <2>1, <2>2
  <2>4. PICK symbol : Follows(st[n - (k - 1) - 1].state, symbol, st[n - (k - 1)].state)
    BY <2>3 DEF Chained
  <2>5. <<i, m - (k - 1) - 1>> \in ItemSets[st[n - (k - 1) - 1].state]
    BY <2>1, <2>4 DEF Follows
  <2> QED
    BY <2>3, <2>5
<1>4. Bad = {}
  <2> SUFFICES ASSUME Bad # {} PROVE FALSE
    OBVIOUS
  <2>1. PICK k \in Bad : \A j \in Bad : k <= j
    <3>1. Bad \in SUBSET Nat
      OBVIOUS
    <3> HIDE DEF Bad
    <3> QED
      BY <3>1, Least
  <2>2. k \in Nat /\ k <= m /\ ~Reached(k)
    BY <2>1
  <2>3. k # 0
    BY <1>2, <2>2
  <2>4. k - 1 \in Nat /\ k - 1 <= m /\ ~(k <= k - 1)
    BY <2>2, <2>3
  <2>5. k - 1 \notin Bad
    BY <2>1, <2>4
  <2>6. Reached(k - 1)
    BY <2>4, <2>5
  <2> QED
    BY <1>3, <2>2, <2>3, <2>6
<1>5. ASSUME NEW k \in 0..m PROVE Reached(k)
  <2>1. k \in Nat /\ k <= m
    OBVIOUS
  <2>2. k \notin Bad
    <3> HIDE DEF Bad
    <3> QED
      BY <1>4
  <2> QED
    BY <2>1, <2>2
<1>6. m < n
  <2>1. m \in 0..m
    OBVIOUS
  <2> QED
    BY <1>5, <2>1
<1>7. ASSUME NEW j \in 0..m PROVE <<i, j>> \in ItemSets[st[n - m + j].state]
  <2>1. m - j \in 0..m /\ m - (m - j) = j /\ n - (m - j) = n - m + j
    BY <1>1
  <2>2. Reached(m - j)
    BY <1>5, <2>1
  <2> QED
    BY <2>1, <2>2
<1> QED
  BY <1>6, <1>7

-----------------------------------------------------------------------------
(* Stacks.                                                                 *)
LEMMA StackedChained ==
  ASSUME NEW st, IsSeq(st), st # <<>>, st[1].state = Start, NEW text, NEW s, NEW rules, Stacked(st, text, s, rules)
  PROVE  Chained(st)
BY DEF Stacked, Entered, Chained

(* Reading on changes nothing on the stack.                                *)
LEMMA Reading ==
  ASSUME NEW st, NEW text, IsSeq(text), NEW s \in 0..Len(text), NEW rules, NEW x, Stacked(st, text, s, rules)
  PROVE  Stacked(st, Append(text, x), s, rules)
<1>0. Len(text) \in Nat
  BY SeqShape
<1>1. PICK b \in Ends(Len(st), s), c \in Ends(Len(st), Len(rules)) :
         \A k \in 2..Len(st) : \E symbol : Entered(st, text, rules, b, c, k, symbol)
  BY DEF Stacked
<1>2. ASSUME NEW k \in 2..Len(st), NEW symbol, Entered(st, text, rules, b, c, k, symbol), Len(st) \in Nat
      PROVE  Entered(st, Append(text, x), rules, b, c, k, symbol)
  <2>1. Represents(st[k].value, symbol, Append(text, x))
    <3>1. Len(Append(text, x)) = Len(text) + 1 /\ \A at \in 1..Len(text) : Append(text, x)[at] = text[at]
      BY Appended
    <3>2. Represents(st[k].value, symbol, text)
      BY <1>2 DEF Entered
    <3>3. CASE symbol \in NonTerminals(GrammarRules)
      BY <3>2, <3>3 DEF Represents
    <3>4. CASE symbol \notin NonTerminals(GrammarRules)
      <4>1. PICK at \in 1..Len(text) : st[k].value = Value("Token", Leaf(at)) /\ text[at] = symbol
        BY <3>2, <3>4 DEF Represents
      <4>2. at \in 1..Len(Append(text, x)) /\ Append(text, x)[at] = symbol
        BY <1>0, <3>1, <4>1
      <4> QED
        BY <3>4, <4>1, <4>2 DEF Represents
    <3> QED
      BY <3>3, <3>4
  <2>2. SubSeq(Append(text, x), b[k - 1] + 1, b[k]) = SubSeq(text, b[k - 1] + 1, b[k])
    <3>1. k - 1 \in 1..Len(st) /\ k \in 1..Len(st) /\ k - 1 <= k
      BY <1>2
    <3>2. b[k - 1] \in 0..s /\ b[k] \in 0..s /\ b[k - 1] <= b[k]
      BY <3>1 DEF Ends
    <3>3. b[k - 1] \in Nat /\ b[k] \in 0..Len(text)
      BY <1>0, <3>2
    <3> QED
      BY <3>2, <3>3, PieceOfPrefix
  <2> QED
    BY <1>2, <2>1, <2>2 DEF Entered
<1>3. ASSUME NEW k \in 2..Len(st) PROVE \E symbol : Entered(st, Append(text, x), rules, b, c, k, symbol)
  <2>1. Len(st) \in Nat
    OBVIOUS
  <2> QED
    BY <1>1, <1>2, <2>1
<1> QED
  BY <1>1, <1>3 DEF Stacked

(* Where the pieces of a stack's entries end; reductions that go on.       *)
Cut(st, text, s, rules, b, c) ==
  /\ b \in Ends(Len(st), s) /\ c \in Ends(Len(st), Len(rules))
  /\ \A k \in 2..Len(st) : \E symbol : Entered(st, text, rules, b, c, k, symbol)
Continued(rules, more) ==
  /\ Len(rules) \in Nat /\ Len(more) \in Nat /\ Len(rules) <= Len(more)
  /\ \A u \in Nat, v \in 0..Len(rules) : u <= v => SubSeq(more, u + 1, v) = SubSeq(rules, u + 1, v)

(* An entry is pushed on what is left of a stack: its piece reaches from   *)
(* there to the end of what is shifted and of what is reduced.             *)
LEMMA Pushing ==
  ASSUME NEW st, IsSeq(st), NEW text, NEW s \in Nat, NEW rules, NEW b, NEW c, Cut(st, text, s, rules, b, c),
         NEW p \in 1..Len(st), NEW entry, NEW symbol, NEW t \in Nat, s <= t, NEW more, Continued(rules, more),
         Follows(st[p].state, symbol, entry.state), Represents(entry.value, symbol, text),
         Derives(symbol, SubSeq(text, b[p] + 1, t), SubSeq(more, c[p] + 1, Len(more)))
  PROVE  Stacked(Append(SubSeq(st, 1, p), entry), text, t, more)
<1> DEFINE new == Append(SubSeq(st, 1, p), entry)
           b2 == [k \in 1..p + 1 |-> IF k = p + 1 THEN t ELSE b[k]]
           c2 == [k \in 1..p + 1 |-> IF k = p + 1 THEN Len(more) ELSE c[k]]
<1>a. /\ Len(rules) \in Nat /\ Len(more) \in Nat /\ Len(rules) <= Len(more)
      /\ \A u \in Nat, v \in 0..Len(rules) : u <= v => SubSeq(more, u + 1, v) = SubSeq(rules, u + 1, v)
  BY DEF Continued
<1>b. /\ b \in Ends(Len(st), s) /\ c \in Ends(Len(st), Len(rules))
      /\ \A k \in 2..Len(st) : \E x : Entered(st, text, rules, b, c, k, x)
  BY DEF Cut
<1>0. Len(st) \in Nat /\ p \in Nat
  BY SeqShape
<1>1. IsSeq(SubSeq(st, 1, p)) /\ Len(SubSeq(st, 1, p)) = p /\ \A k \in 1..p : SubSeq(st, 1, p)[k] = st[k]
  <2>1. /\ IsSeq(SubSeq(st, 0 + 1, p)) /\ Len(SubSeq(st, 0 + 1, p)) = p - 0
        /\ \A k \in 1..p - 0 : SubSeq(st, 0 + 1, p)[k] = st[0 + k]
    <3>1. 0 \in Nat /\ p \in 0..Len(st) /\ 0 <= p
      BY <1>0
    <3> QED
      BY <3>1, Piece
  <2>2. 0 + 1 = 1 /\ p - 0 = p /\ \A k \in 1..p : 0 + k = k
    BY <1>0
  <2> QED
    BY <2>1, <2>2
<1>2. Len(new) = p + 1 /\ new[p + 1] = entry /\ \A k \in 1..p : new[k] = st[k]
  BY <1>1, Appended
<1>3. /\ b \in [1..Len(st) -> 0..s] /\ b[1] = 0 /\ \A j, k \in 1..Len(st) : j <= k => b[j] <= b[k]
      /\ c \in [1..Len(st) -> 0..Len(rules)] /\ c[1] = 0 /\ \A j, k \in 1..Len(st) : j <= k => c[j] <= c[k]
  BY <1>b DEF Ends
<1>4. b2 \in Ends(p + 1, t)
  <2>1. b2 \in [1..p + 1 -> 0..t]
    BY <1>0, <1>3
  <2>2. b2[1] = 0 /\ b2[p + 1] = t
    BY <1>0, <1>3
  <2>3. ASSUME NEW j \in 1..p + 1, NEW k \in 1..p + 1, j <= k PROVE b2[j] <= b2[k]
    <3>1. CASE k = p + 1
      <4>1. b2[k] = t /\ b2[j] \in 0..t /\ t \in Nat
        BY <2>1, <3>1
      <4> QED
        BY <4>1
    <3>2. CASE k # p + 1
      <4>1. j # p + 1 /\ j \in 1..Len(st) /\ k \in 1..Len(st)
        BY <1>0, <2>3, <3>2
      <4>2. b2[j] = b[j] /\ b2[k] = b[k]
        BY <3>2, <4>1
      <4> QED
        BY <1>3, <2>3, <4>1, <4>2
    <3> QED
      BY <3>1, <3>2
  <2> HIDE DEF b2
  <2> QED
    BY <2>1, <2>2, <2>3 DEF Ends
<1>5. c2 \in Ends(p + 1, Len(more))
  <2>1. c2 \in [1..p + 1 -> 0..Len(more)]
    BY <1>a, <1>0, <1>3
  <2>2. c2[1] = 0 /\ c2[p + 1] = Len(more)
    BY <1>0, <1>3
  <2>3. \A j, k \in 1..p + 1 : j <= k => c2[j] <= c2[k]
    BY <1>a, <1>0, <1>3
  <2> HIDE DEF c2
  <2> QED
    BY <2>1, <2>2, <2>3 DEF Ends
<1> HIDE DEF new
<1>6. ASSUME NEW k \in 2..p + 1 PROVE \E x : Entered(new, text, more, b2, c2, k, x)
  <2>1. CASE k = p + 1
    <3>1. p \in 1..p + 1 /\ p # p + 1 /\ k - 1 = p /\ p + 1 \in 1..p + 1
      BY <1>0, <2>1
    <3>2. b2[k - 1] = b[p] /\ b2[k] = t /\ c2[k - 1] = c[p] /\ c2[k] = Len(more)
      BY <2>1, <3>1
    <3>3. new[k - 1] = st[p] /\ new[k] = entry
      BY <1>0, <1>2, <2>1, <3>1
    <3>4. Entered(new, text, more, b2, c2, k, symbol)
      BY <3>2, <3>3 DEF Entered
    <3> QED
      BY <3>4
  <2>2. CASE k # p + 1
    <3>1. /\ k \in 1..p /\ k - 1 \in 1..p /\ k \in 2..Len(st) /\ k - 1 # p + 1 /\ k \in 1..p + 1 /\ k - 1 \in 1..p + 1
          /\ k - 1 \in 1..Len(st) /\ k \in 1..Len(st) /\ k - 1 <= k
      BY <1>0, <2>2
    <3>2. b2[k - 1] = b[k - 1] /\ b2[k] = b[k] /\ c2[k - 1] = c[k - 1] /\ c2[k] = c[k]
      BY <2>2, <3>1
    <3>3. new[k - 1] = st[k - 1] /\ new[k] = st[k]
      BY <1>2, <3>1
    <3>4. PICK x : Entered(st, text, rules, b, c, k, x)
      BY <1>b, <3>1
    <3>5. c[k - 1] \in Nat /\ c[k] \in 0..Len(rules) /\ c[k - 1] <= c[k]
      <4>1. c[k - 1] \in 0..Len(rules) /\ c[k] \in 0..Len(rules)
        BY <1>3, <3>1
      <4>2. c[k - 1] <= c[k]
        BY <1>3, <3>1
      <4> QED
        BY <1>a, <4>1, <4>2
    <3>6. SubSeq(more, c[k - 1] + 1, c[k]) = SubSeq(rules, c[k - 1] + 1, c[k])
      BY <1>a, <3>5
    <3>7. Entered(new, text, more, b2, c2, k, x)
      BY <3>2, <3>3, <3>4, <3>6 DEF Entered
    <3> QED
      BY <3>7
  <2> QED
    BY <2>1, <2>2
<1>7. Stacked(new, text, t, more)
  <2> HIDE DEF b2, c2
  <2> QED
    BY <1>2, <1>4, <1>5, <1>6 DEF Stacked
<1> QED
  BY <1>7 DEF new

-----------------------------------------------------------------------------
(* The cell that a step acts on.                                           *)
LEMMA CellFacts ==
  ASSUME IInv, NEW kind, kind # "error", NEW entry \in Decision(kind)
  PROVE  /\ ~result.done /\ result = Parsing /\ lookahead # None
         /\ lookahead \in Terminals /\ entry.do = kind
         /\ Len(stack) \in Nat \ {0} /\ Top = stack[Len(stack)] /\ Top.state \in States
         /\ Chained(stack) /\ Justified(Top.state, lookahead, entry)
         /\ Len(read) \in Nat \ {0} /\ lookahead = read[Len(read)] /\ Shifted = Len(read) - 1
<1>1. ~result.done /\ lookahead # None /\ entry = Cell /\ entry.do = kind
  BY DEF Decision
<1>2. result = Parsing
  BY <1>1 DEF IInv, Outcome, Failure
<1>3. Len(stack) \in Nat \ {0} /\ Top = stack[Len(stack)] /\ Chained(stack)
  BY SeqShape, StackedChained DEF IInv, Top, Last
<1>4. Top.state \in States
  BY <1>3, ChainedStates
<1>5. lookahead \in DOMAIN ActionTable[Top.state] /\ entry = ActionTable[Top.state][lookahead]
  BY <1>1 DEF Cell, Entry
<1>6. lookahead \in Terminals /\ Justified(Top.state, lookahead, entry)
  BY <1>4, <1>5, TablesAssumption
<1>7. Len(read) \in Nat \ {0} /\ lookahead = read[Len(read)] /\ Shifted = Len(read) - 1
  BY <1>1, SeqShape DEF IInv, Last, Shifted
<1> QED
  BY <1>1, <1>2, <1>3, <1>4, <1>6, <1>7

(* A reduction finds its children and its goto.                            *)
LEMMA ReduceFacts ==
  ASSUME IInv, NEW entry \in Decision("reduce"), NEW l, l = Len(GrammarRules[entry.to].rhs)
  PROVE  /\ entry.to \in DOMAIN GrammarRules /\ l \in Nat /\ l < Len(stack)
         /\ DOMAIN GrammarRules[entry.to].rhs = 1..l
         /\ \A k \in 1..l : \A symbol :
              Follows(stack[Len(stack) - l + k - 1].state, symbol, stack[Len(stack) - l + k].state) =>
                symbol = GrammarRules[entry.to].rhs[k]
         /\ RowUnder(Popped(l)) = GotoTable[stack[Len(stack) - l].state]
         /\ GrammarRules[entry.to].lhs \in DOMAIN GotoTable[stack[Len(stack) - l].state]
         /\ Follows(stack[Len(stack) - l].state, GrammarRules[entry.to].lhs,
                    GotoTable[stack[Len(stack) - l].state][GrammarRules[entry.to].lhs])
<1> DEFINE n == Len(stack)
           rule == GrammarRules[entry.to]
<1>1. /\ n \in Nat \ {0} /\ Top = stack[n] /\ Top.state \in States /\ Chained(stack)
      /\ Justified(Top.state, lookahead, entry) /\ entry.do = "reduce"
  BY CellFacts
<1>2. /\ entry.to \in DOMAIN GrammarRules /\ entry.to # 1
      /\ <<entry.to, l>> \in ItemSets[stack[n].state]
  BY <1>1 DEF Justified
<1>3. l \in Nat /\ DOMAIN rule.rhs = 1..l
  BY <1>2, GrammarAssumption, LenProperties
<1>4. l < n /\ \A j \in 0..l : <<entry.to, j>> \in ItemSets[stack[n - l + j].state]
  BY <1>1, <1>2, <1>3, UnderItem
<1>5. ASSUME NEW k \in 1..l, NEW symbol, Follows(stack[n - l + k - 1].state, symbol, stack[n - l + k].state)
      PROVE  symbol = rule.rhs[k]
  <2>1. k \in 0..l /\ k > 0
    BY <1>3
  <2>2. <<entry.to, k>> \in ItemSets[stack[n - l + k].state]
    BY <1>4, <2>1
  <2> QED
    BY <1>5, <2>1, <2>2 DEF Follows
<1>6. n - l \in 1..n /\ n - l + 0 = n - l
  BY <1>1, <1>3, <1>4
<1>7. IsSeq(Popped(l)) /\ Len(Popped(l)) = n - l /\ \A k \in 1..n - l : Popped(l)[k] = stack[k]
  <2>1. /\ IsSeq(SubSeq(stack, 0 + 1, n - l)) /\ Len(SubSeq(stack, 0 + 1, n - l)) = n - l - 0
        /\ \A k \in 1..n - l - 0 : SubSeq(stack, 0 + 1, n - l)[k] = stack[0 + k]
    <3>1. 0 \in Nat /\ n - l \in 0..Len(stack) /\ 0 <= n - l /\ IsSeq(stack)
      BY <1>6 DEF IInv
    <3> QED
      BY <3>1, Piece
  <2>2. 0 + 1 = 1 /\ n - l - 0 = n - l /\ \A k \in 1..n - l : 0 + k = k
    BY <1>6
  <2> QED
    BY <2>1, <2>2 DEF Popped
<1>8. Popped(l) # <<>> /\ RowUnder(Popped(l)) = GotoTable[stack[n - l].state]
  <2>1. Popped(l) # <<>>
    <3>1. Len(Popped(l)) # 0
      BY <1>6, <1>7
    <3> QED
      BY <1>7, <3>1, SeqShape
  <2>2. Last(Popped(l)) = stack[n - l]
    BY <1>6, <1>7 DEF Last
  <2> QED
    BY <2>1, <2>2 DEF RowUnder
<1>9. stack[n - l].state \in States
  BY <1>1, <1>6, ChainedStates
<1>10. rule.lhs \in DOMAIN GotoTable[stack[n - l].state]
  <2>1. <<entry.to, 0>> \in ItemSets[stack[n - l].state]
    <3>1. 0 \in 0..l
      BY <1>3
    <3> QED
      BY <1>4, <1>6, <3>1
  <2>2. Continues(stack[n - l].state, <<entry.to, 0>>)
    BY <1>9, <2>1, TablesAssumption
  <2> QED
    BY <1>2, <2>2 DEF Continues
<1>11. Follows(stack[n - l].state, rule.lhs, GotoTable[stack[n - l].state][rule.lhs])
  BY <1>9, <1>10, TablesAssumption
<1> QED
  BY <1>1, <1>2, <1>3, <1>4, <1>5, <1>8, <1>10, <1>11

-----------------------------------------------------------------------------
(* The steps.                                                              *)
LEMMA Initially == Init => IInv
<1> SUFFICES ASSUME Init PROVE IInv
  OBVIOUS
<1> DEFINE e == [state |-> Start, value |-> Empty]
<1>1. /\ stack = <<e>> /\ read = <<>> /\ reductions = <<>> /\ lookahead = None /\ result = Parsing
      /\ vocabulary \in Vocabularies
  BY DEF Init
<1>2. IsSeq(stack) /\ Len(stack) = 1 /\ stack # <<>> /\ stack[1] = e
  <2> HIDE DEF e
  <2>1. stack \in Seq({e}) /\ Len(stack) = 1 /\ stack[1] = e
    BY <1>1
  <2> QED
    BY <2>1, OwnSeq, SeqShape
<1>3. IsSeq(read) /\ Len(read) = 0 /\ reductions \in Seq(DOMAIN GrammarRules) /\ Len(reductions) = 0
  BY <1>1, EmptySeq, OwnSeq
<1>4. Shifted = 0
  BY <1>1, <1>3 DEF Shifted
<1>5. Stacked(stack, read, Shifted, reductions)
  <2> DEFINE b == [k \in 1..1 |-> 0]
  <2>1. b \in Ends(1, 0)
    BY DEF Ends
  <2>2. 2..1 = {}
    OBVIOUS
  <2> QED
    BY <1>2, <1>3, <1>4, <2>1, <2>2 DEF Stacked
<1> QED
  BY <1>1, <1>2, <1>3, <1>4, <1>5 DEF IInv, Outcome

(* A token delivered is not part of any piece yet.                         *)
LEMMA StepEnsureLookahead ==
  ASSUME IInv, EnsureLookahead
  PROVE  IInv' /\ UNCHANGED <<stack, reductions, result>>
<1>1. PICK token \in Deliverable : lookahead' = token /\ read' = Append(read, token)
  BY DEF EnsureLookahead
<1>2. /\ ~result.done /\ lookahead = None
      /\ vocabulary' = vocabulary /\ stack' = stack /\ result' = result /\ reductions' = reductions
  BY DEF EnsureLookahead
<1>3. token # None
  <2>1. token \in vocabulary.tokens \cup {"ENDF"}
    BY DEF Deliverable
  <2> QED
    BY <2>1, VocabulariesAssumption DEF IInv, None
<1>4. Len(read) \in Nat /\ Shifted = Len(read) /\ IsSeq(read)
  BY <1>2, SeqShape DEF IInv, Shifted
<1>5. /\ IsSeq(read') /\ read' # <<>> /\ Len(read') = Len(read) + 1 /\ read'[Len(read) + 1] = token
      /\ \A k \in 1..Len(read) : read'[k] = read[k]
  BY <1>1, <1>4, Appended
<1>6. lookahead' # None /\ lookahead' = Last(read') /\ Shifted' = Len(read)
  BY <1>1, <1>3, <1>4, <1>5 DEF Last, Shifted
<1>7. Stacked(stack', read', Shifted', reductions')
  <2>1. Stacked(stack, read, Len(read), reductions)
    BY <1>4 DEF IInv
  <2>2. Len(read) \in 0..Len(read)
    BY <1>4
  <2>3. Stacked(stack, Append(read, token), Len(read), reductions)
    BY <1>4, <2>1, <2>2, Reading
  <2> QED
    BY <1>1, <1>2, <1>6, <2>3
<1>8. Outcome'
  BY <1>2 DEF IInv, Outcome, Failure
<1>9. \A k \in 1..Shifted' : read'[k] \in Terminals
  BY <1>4, <1>5, <1>6 DEF IInv
<1> QED
  BY <1>2, <1>5, <1>6, <1>7, <1>8, <1>9 DEF IInv

(* Shifting pushes the lookahead with a piece of its own.                  *)
LEMMA StepShift ==
  ASSUME IInv, ShiftToken
  PROVE  IInv' /\ UNCHANGED result
<1>1. PICK entry \in Decision("shift") :
         stack' = Append(stack, [state |-> entry.to, value |-> Value("Token", Leaf(Len(read)))])
  BY DEF ShiftToken
<1>2. /\ lookahead' = None /\ vocabulary' = vocabulary /\ read' = read
      /\ result' = result /\ reductions' = reductions
  BY DEF ShiftToken
<1>3. /\ result = Parsing /\ lookahead # None /\ lookahead \in Terminals /\ entry.do = "shift"
      /\ Len(stack) \in Nat \ {0} /\ Top = stack[Len(stack)]
      /\ Justified(Top.state, lookahead, entry)
      /\ Len(read) \in Nat \ {0} /\ lookahead = read[Len(read)] /\ Shifted = Len(read) - 1
  BY CellFacts
<1> DEFINE n == Len(stack)
           new == [state |-> entry.to, value |-> Value("Token", Leaf(Len(read)))]
<1>4. IsSeq(stack) /\ IsSeq(read) /\ reductions \in Seq(DOMAIN GrammarRules)
  BY DEF IInv
<1>5. /\ IsSeq(stack') /\ stack' # <<>> /\ Len(stack') = n + 1
      /\ \A k \in 1..n : stack'[k] = stack[k]
  BY <1>1, <1>4, Appended
<1>6. Shifted' = Len(read)
  BY <1>2 DEF Shifted
<1>7. PICK b \in Ends(n, Len(read) - 1), c \in Ends(n, Len(reductions)) :
         \A k \in 2..n : \E symbol : Entered(stack, read, reductions, b, c, k, symbol)
  BY <1>3 DEF IInv, Stacked
<1>8. b[n] = Len(read) - 1 /\ c[n] = Len(reductions) /\ Len(reductions) \in Nat
  BY <1>4, <1>7, LenProperties DEF Ends
<1>9. SubSeq(read, b[n] + 1, Len(read)) = <<lookahead>> /\ SubSeq(reductions, c[n] + 1, Len(reductions)) = <<>>
  <2> DEFINE m == Len(read) - 1
             p == SubSeq(read, m + 1, Len(read))
  <2>0. m \in Nat /\ Len(read) \in 0..Len(read) /\ m <= Len(read) /\ Len(read) - m = 1 /\ m + 1 = Len(read)
    BY <1>3
  <2>1. IsSeq(p) /\ Len(p) = 1 /\ \A k \in 1..1 : p[k] = read[m + k]
    <3> HIDE DEF m
    <3>1. /\ IsSeq(p) /\ Len(p) = Len(read) - m
          /\ \A k \in 1..Len(read) - m : p[k] = read[m + k]
      BY <1>4, <2>0, Piece
    <3> QED
      BY <2>0, <3>1
  <2>2. p[1] = lookahead
    BY <1>3, <2>0, <2>1
  <2> HIDE DEF p
  <2>3. p = <<lookahead>>
    <3>1. <<lookahead>> \in Seq({lookahead}) /\ Len(<<lookahead>>) = 1 /\ <<lookahead>>[1] = lookahead
      OBVIOUS
    <3>2. IsSeq(<<lookahead>>)
      BY <3>1, OwnSeq
    <3> QED
      BY <2>1, <2>2, <3>1, <3>2, SameSeq
  <2>4. SubSeq(reductions, Len(reductions) + 1, Len(reductions)) = <<>>
    BY <1>8, SubSeqEmpty
  <2> QED
    BY <1>8, <2>3, <2>4 DEF p
<1>10. Derives(lookahead, SubSeq(read, b[n] + 1, Len(read)), SubSeq(reductions, c[n] + 1, Len(reductions)))
  BY <1>3, <1>9, DeriveToken
<1>11. Follows(stack[n].state, lookahead, new.state)
  BY <1>3 DEF Justified
<1>12. Represents(new.value, lookahead, read)
  <2>1. lookahead \notin NonTerminals(GrammarRules)
    BY <1>3, TokensHaveNoRule
  <2>2. Len(read) \in 1..Len(read)
    BY <1>3
  <2> QED
    BY <1>3, <2>1, <2>2 DEF Represents
<1>13. Stacked(Append(SubSeq(stack, 1, n), new), read, Len(read), reductions)
  <2>1. n \in 1..n /\ Len(read) - 1 \in Nat /\ Len(read) \in Nat /\ Len(read) - 1 <= Len(read)
    BY <1>3
  <2>2. Continued(reductions, reductions)
    BY <1>8 DEF Continued
  <2>3. Cut(stack, read, Len(read) - 1, reductions, b, c)
    BY <1>7 DEF Cut
  <2> HIDE DEF new
  <2> QED
    BY <1>4, <1>10, <1>11, <1>12, <2>1, <2>2, <2>3, Pushing
<1>14. SubSeq(stack, 1, n) = stack
  BY <1>4, SubSeqFull DEF IsSeq
<1>15. Stacked(stack', read', Shifted', reductions')
  BY <1>1, <1>2, <1>6, <1>13, <1>14
<1>16. \A k \in 1..Shifted' : read'[k] \in Terminals
  BY <1>2, <1>3, <1>6 DEF IInv
<1>17. stack'[1].state = Start
  BY <1>3, <1>5 DEF IInv
<1>18. Outcome'
  BY <1>2, <1>3 DEF Outcome
<1> QED
  BY <1>2, <1>4, <1>5, <1>15, <1>16, <1>17, <1>18 DEF IInv

(* Reducing joins the pieces of the children into one of the left side.    *)
LEMMA StepReduce ==
  ASSUME IInv, ReduceRule
  PROVE  IInv' /\ UNCHANGED result
<1>1. PICK entry \in Decision("reduce") :
         /\ \E rule \in {GrammarRules[entry.to]} : \E base \in {Popped(Len(rule.rhs))} :
              \E row \in {RowUnder(base)} :
                Goto(rule, base, row, PerformReduction(rule, Children(Len(rule.rhs))))
         /\ reductions' = Append(reductions, entry.to)
  BY DEF ReduceRule
<1>2. vocabulary' = vocabulary /\ read' = read /\ lookahead' = lookahead
  BY DEF ReduceRule
<1>3. /\ ~result.done /\ result = Parsing /\ lookahead # None
      /\ Len(stack) \in Nat \ {0} /\ Chained(stack)
      /\ Len(read) \in Nat \ {0} /\ Shifted = Len(read) - 1
  BY CellFacts
<1>4. PICK rule : rule = GrammarRules[entry.to]
  OBVIOUS
<1>5. PICK l : l = Len(rule.rhs)
  OBVIOUS
<1>6. PICK n : n = Len(stack)
  OBVIOUS
<1>7. PICK value : value = PerformReduction(rule, Children(l))
  OBVIOUS
<1>8. PICK to : to = GotoTable[stack[n - l].state][rule.lhs]
  OBVIOUS
<1>9. /\ entry.to \in DOMAIN GrammarRules /\ l \in Nat /\ n \in Nat /\ l < n
      /\ \A k \in 1..l : \A symbol :
           Follows(stack[n - l + k - 1].state, symbol, stack[n - l + k].state) => symbol = rule.rhs[k]
      /\ RowUnder(Popped(l)) = GotoTable[stack[n - l].state]
      /\ rule.lhs \in DOMAIN GotoTable[stack[n - l].state]
      /\ Follows(stack[n - l].state, rule.lhs, to)
  <2>1. /\ entry.to \in DOMAIN GrammarRules /\ l \in Nat /\ l < Len(stack)
        /\ \A k \in 1..l : \A symbol :
             Follows(stack[Len(stack) - l + k - 1].state, symbol, stack[Len(stack) - l + k].state) =>
               symbol = GrammarRules[entry.to].rhs[k]
        /\ RowUnder(Popped(l)) = GotoTable[stack[Len(stack) - l].state]
        /\ GrammarRules[entry.to].lhs \in DOMAIN GotoTable[stack[Len(stack) - l].state]
        /\ Follows(stack[Len(stack) - l].state, GrammarRules[entry.to].lhs,
                   GotoTable[stack[Len(stack) - l].state][GrammarRules[entry.to].lhs])
    BY <1>4, <1>5, ReduceFacts
  <2> QED
    BY <1>3, <1>4, <1>6, <1>8, <2>1
<1>10. Goto(rule, Popped(l), RowUnder(Popped(l)), value)
  BY <1>1, <1>4, <1>5, <1>7
<1>11. stack' = Append(Popped(l), [state |-> to, value |-> value]) /\ result' = result
  BY <1>8, <1>9, <1>10 DEF Goto
<1>12. IsSeq(stack) /\ IsSeq(read) /\ reductions \in Seq(DOMAIN GrammarRules) /\ Len(reductions) \in Nat /\ IsSeq(reductions)
  BY LenProperties, OwnSeq DEF IInv
<1>13. /\ reductions' \in Seq(DOMAIN GrammarRules) /\ reductions' = Append(reductions, entry.to)
       /\ Len(reductions') = Len(reductions) + 1
  BY <1>1, <1>9, <1>12, AppendProperties
<1>14. Shifted' = Shifted /\ Shifted \in 0..Len(read) /\ Shifted \in Nat
  BY <1>2, <1>3 DEF Shifted
<1>15. PICK b \in Ends(n, Shifted), c \in Ends(n, Len(reductions)) :
          \A k \in 2..n : \E symbol : Entered(stack, read, reductions, b, c, k, symbol)
  BY <1>6 DEF IInv, Stacked
<1>16. n - l \in 1..n
  BY <1>9
<1>17. ASSUME NEW k \in 1..l
       PROVE  Entered(stack, read, reductions, b, c, n - l + k, rule.rhs[k])
  <2>1. n - l + k \in 2..n
    BY <1>9
  <2>2. PICK symbol : Entered(stack, read, reductions, b, c, n - l + k, symbol)
    BY <1>15, <2>1
  <2>3. Follows(stack[n - l + k - 1].state, symbol, stack[n - l + k].state)
    <3>1. (n - l + k) - 1 = n - l + k - 1
      BY <1>9
    <3> QED
      BY <2>2, <3>1 DEF Entered
  <2>4. symbol = rule.rhs[k]
    BY <1>9, <2>3
  <2> QED
    BY <2>2, <2>4
<1>18. Derives(rule.lhs, SubSeq(read, b[n - l] + 1, Shifted),
               Append(SubSeq(reductions, c[n - l] + 1, Len(reductions)), entry.to))
  <2>1. ASSUME NEW k \in 1..l
        PROVE  Derives(rule.rhs[k], SubSeq(read, b[n - l + k - 1] + 1, b[n - l + k]),
                       SubSeq(reductions, c[n - l + k - 1] + 1, c[n - l + k]))
    <3>1. Entered(stack, read, reductions, b, c, n - l + k, rule.rhs[k])
      BY <1>17
    <3>2. (n - l + k) - 1 = n - l + k - 1
      BY <1>9
    <3> QED
      BY <3>1, <3>2 DEF Entered
  <2>2. \A k \in 1..Shifted : read[k] \in Terminals
    BY DEF IInv
  <2> QED
    BY <1>4, <1>5, <1>9, <1>12, <1>14, <1>15, <2>1, <2>2, DeriveRule
<1>19. Append(SubSeq(reductions, c[n - l] + 1, Len(reductions)), entry.to)
         = SubSeq(reductions', c[n - l] + 1, Len(reductions'))
  <2>1. c[n - l] \in 0..Len(reductions)
    BY <1>15, <1>16 DEF Ends
  <2> QED
    BY <1>12, <1>13, <2>1, PieceAtEnd
<1>20. Represents(value, rule.lhs, read)
  <2>1. rule.lhs \in NonTerminals(GrammarRules) /\ entry.to \in RulesOf(GrammarRules, rule.lhs)
    BY <1>4, <1>9 DEF NonTerminals, RulesOf
  <2>2. value = applyAction(GrammarRules[entry.to].act, Children(l), read)
    BY <1>4, <1>7 DEF PerformReduction
  <2> QED
    BY <2>1, <2>2 DEF Represents
<1>21. \A u \in Nat, v \in 0..Len(reductions) : u <= v => SubSeq(reductions', u + 1, v) = SubSeq(reductions, u + 1, v)
  BY <1>12, <1>13, PieceOfPrefix
<1> DEFINE new == [state |-> to, value |-> value]
<1>22. Stacked(Append(SubSeq(stack, 1, n - l), new), read, Shifted, reductions')
  <2>1. new.state = to /\ new.value = value
    OBVIOUS
  <2>2. Shifted <= Shifted /\ Len(reductions') \in Nat /\ Len(reductions) <= Len(reductions')
    BY <1>12, <1>13, <1>14
  <2>3. Derives(rule.lhs, SubSeq(read, b[n - l] + 1, Shifted), SubSeq(reductions', c[n - l] + 1, Len(reductions')))
    BY <1>18, <1>19
  <2>4. n - l \in 1..Len(stack)
    BY <1>6, <1>16
  <2> HIDE DEF new
  <2>5. Follows(stack[n - l].state, rule.lhs, new.state) /\ Represents(new.value, rule.lhs, read)
    BY <1>9, <1>20, <2>1
  <2>6. Cut(stack, read, Shifted, reductions, b, c)
    BY <1>6, <1>15 DEF Cut
  <2>7. Continued(reductions, reductions')
    BY <1>12, <1>21, <2>2 DEF Continued
  <2> QED
    BY <1>12, <1>14, <2>2, <2>3, <2>4, <2>5, <2>6, <2>7, Pushing
<1>23. Stacked(stack', read', Shifted', reductions')
  <2>1. Popped(l) = SubSeq(stack, 1, n - l)
    BY <1>6 DEF Popped
  <2> QED
    BY <1>2, <1>11, <1>14, <1>22, <2>1
<1>24. IsSeq(stack') /\ stack' # <<>> /\ stack'[1].state = Start
  <2>1. IsSeq(Popped(l)) /\ Len(Popped(l)) = n - l /\ Popped(l)[1] = stack[1]
    <3>1. /\ IsSeq(SubSeq(stack, 0 + 1, n - l)) /\ Len(SubSeq(stack, 0 + 1, n - l)) = n - l - 0
          /\ \A k \in 1..n - l - 0 : SubSeq(stack, 0 + 1, n - l)[k] = stack[0 + k]
      <4>1. 0 \in Nat /\ n - l \in 0..Len(stack) /\ 0 <= n - l
        BY <1>6, <1>16
      <4> QED
        BY <1>12, <4>1, Piece
    <3>2. 0 + 1 = 1 /\ n - l - 0 = n - l /\ 1 \in 1..n - l
      BY <1>9, <1>16
    <3>3. SubSeq(stack, 1, n - l)[1] = stack[1]
      <4>1. 1 \in 1..n - l - 0 /\ 0 + 1 = 1
        BY <3>2
      <4>2. SubSeq(stack, 0 + 1, n - l)[1] = stack[0 + 1]
        BY <3>1, <4>1
      <4> QED
        BY <4>1, <4>2
    <3>4. Popped(l) = SubSeq(stack, 1, n - l)
      BY <1>6 DEF Popped
    <3> QED
      BY <3>1, <3>2, <3>3, <3>4
  <2>2. 1 \in 1..Len(Popped(l))
    BY <1>9, <1>16, <2>1
  <2> QED
    BY <1>11, <2>1, <2>2, Appended DEF IInv
<1>25. lookahead' # None => read' # <<>> /\ lookahead' = Last(read')
  BY <1>2 DEF IInv, Last
<1>26. \A k \in 1..Shifted' : read'[k] \in Terminals
  BY <1>2, <1>14 DEF IInv
<1>27. Outcome'
  BY <1>3, <1>11 DEF Outcome
<1> QED
  BY <1>2, <1>11, <1>12, <1>13, <1>23, <1>24, <1>25, <1>26, <1>27 DEF IInv

(* Accepting is done on the start and what was pushed for Program.         *)
LEMMA StepAccept ==
  ASSUME IInv, AcceptText
  PROVE  IInv' /\ UNCHANGED <<stack, reductions>>
<1>1. PICK entry : entry \in Decision("accept")
  BY DEF AcceptText
<1>2. /\ result' = Success(Top.value)
      /\ vocabulary' = vocabulary /\ read' = read /\ lookahead' = lookahead /\ stack' = stack /\ reductions' = reductions
  BY DEF AcceptText
<1>3. /\ Len(stack) \in Nat \ {0} /\ Top = stack[Len(stack)] /\ Top.state \in States
      /\ Chained(stack) /\ Justified(Top.state, lookahead, entry) /\ entry.do = "accept"
      /\ Len(read) \in Nat \ {0} /\ Shifted = Len(read) - 1
  BY <1>1, CellFacts
<1>4. PICK n : n = Len(stack)
  OBVIOUS
<1>5. <<1, 1>> \in ItemSets[stack[n].state]
  BY <1>3, <1>4 DEF Justified
<1>6. 1 < n /\ \A j \in 0..1 : <<1, j>> \in ItemSets[stack[n - 1 + j].state]
  BY <1>3, <1>4, <1>5, UnderItem
<1>7. n - 1 \in 1..n /\ <<1, 0>> \in ItemSets[stack[n - 1].state]
  <2>1. n - 1 + 0 = n - 1 /\ 0 \in 0..1
    BY <1>3, <1>4
  <2>2. <<1, 0>> \in ItemSets[stack[n - 1 + 0].state]
    BY <1>6, <2>1
  <2> QED
    BY <1>3, <1>4, <1>6, <2>1, <2>2
<1>8. n = 2
  <2>1. stack[n - 1].state \in States
    BY <1>3, <1>4, <1>7, ChainedStates
  <2>2. Continues(stack[n - 1].state, <<1, 0>>)
    BY <1>7, <2>1, TablesAssumption
  <2>3. stack[n - 1].state = Start
    BY <2>2 DEF Continues
  <2>4. n - 1 = 1
    BY <1>3, <1>4, <1>7, <2>3, ChainedStates
  <2> QED
    <3>1. n \in Nat
      BY <1>3, <1>4
    <3> QED
      BY <2>4, <3>1
<1>9. PICK b \in Ends(2, Shifted), c \in Ends(2, Len(reductions)) :
         \E x : Entered(stack, read, reductions, b, c, 2, x)
  <2>1. Len(stack) = 2 /\ 2 \in 2..2
    BY <1>4, <1>8
  <2>2. Stacked(stack, read, Shifted, reductions)
    BY DEF IInv
  <2> QED
    BY <2>1, <2>2 DEF Stacked
<1>9a. PICK symbol : Entered(stack, read, reductions, b, c, 2, symbol)
  BY <1>9
<1>10. symbol = "Program"
  <2>1. Follows(stack[1].state, symbol, stack[2].state)
    BY <1>9a DEF Entered
  <2>2. GrammarRules[1].rhs[1] = symbol
    <3>1. <<1, 1>> \in ItemSets[stack[2].state] /\ <<1, 1>>[1] = 1 /\ <<1, 1>>[2] = 1 /\ 1 > 0
      BY <1>5, <1>8
    <3>2. \A item \in ItemSets[stack[2].state] :
            item[2] > 0 => GrammarRules[item[1]].rhs[item[2]] = symbol
      BY <2>1 DEF Follows
    <3> QED
      BY <3>1, <3>2
  <2> QED
    BY <2>2, GrammarAssumption
<1>11. Derives("Program", Front(read), reductions)
  <2>1. b[1] = 0 /\ b[2] = Len(read) - 1 /\ c[1] = 0 /\ c[2] = Len(reductions)
    BY <1>3, <1>9 DEF Ends
  <2>2. Derives("Program", SubSeq(read, 0 + 1, Len(read) - 1), SubSeq(reductions, 0 + 1, Len(reductions)))
    BY <1>9a, <1>10, <2>1 DEF Entered
  <2>3. SubSeq(reductions, 1, Len(reductions)) = reductions
    BY SubSeqFull DEF IInv
  <2> QED
    <3>1. 0 + 1 = 1
      OBVIOUS
    <3> QED
      BY <2>2, <2>3, <3>1 DEF Front
<1>12. Represents(Top.value, "Program", read)
  BY <1>3, <1>4, <1>8, <1>9a, <1>10 DEF Entered
<1>13. PICK i \in RulesOf(GrammarRules, "Program") :
          \E children, seen : Top.value = applyAction(GrammarRules[i].act, children, seen)
  BY <1>12, GrammarAssumption DEF Represents
<1>14. GrammarRules[i].act.makes = "node" /\ GrammarRules[i].act.node = "Program" /\ GrammarRules[i].act.gives \in Nodes
  BY GrammarAssumption
<1>13a. PICK children, seen : Top.value = applyAction(GrammarRules[i].act, children, seen)
  BY <1>13
<1>15. Top.value.holds \in Nodes /\ Made(Top.value.term, {"Program"})
  <2> DEFINE act == GrammarRules[i].act
             parts == [k \in DOMAIN act.keeps |-> TakeFrom(children[act.keeps[k]], act.takes[act.keeps[k]])]
  <2>1. act.node \notin DOMAIN OperatorAt
    BY <1>14 DEF OperatorAt
  <2>2. Top.value = Value(act.gives, Node(act.node, parts))
    <3> HIDE DEF parts
    <3> QED
      BY <1>13a, <1>14, <2>1 DEF applyAction, parts
  <2> HIDE DEF parts
  <2> QED
    BY <1>14, <2>2 DEF Value, Node, Made
<1>16. result' = [done |-> TRUE, success |-> TRUE, root |-> Top.value.term]
  BY <1>2, <1>15 DEF Success, TakeFrom, Holds
<1>17. Outcome'
  BY <1>2, <1>11, <1>15, <1>16 DEF Outcome, Made, Derives
<1>18. Shifted' = Shifted
  BY <1>2 DEF Shifted
<1> QED
  BY <1>2, <1>17, <1>18 DEF IInv

(* Refusing leaves everything in its place.                                *)
LEMMA StepRefuse ==
  ASSUME IInv, RefuseText
  PROVE  IInv' /\ UNCHANGED <<stack, reductions>>
<1>1. /\ result' = Failure
      /\ vocabulary' = vocabulary /\ read' = read /\ lookahead' = lookahead /\ stack' = stack /\ reductions' = reductions
  BY DEF RefuseText
<1>2. Outcome'
  BY <1>1 DEF Outcome
<1>3. Shifted' = Shifted
  BY <1>1 DEF Shifted
<1> QED
  BY <1>1, <1>2, <1>3 DEF IInv

(* Every step of parse() preserves the invariant.                          *)
LEMMA Inductive == IInv /\ [Next]_vars => IInv'
<1> SUFFICES ASSUME IInv, [Next]_vars PROVE IInv'
  OBVIOUS
<1>1. CASE EnsureLookahead
  BY <1>1, StepEnsureLookahead
<1>2. CASE ShiftToken
  BY <1>2, StepShift
<1>3. CASE ReduceRule
  BY <1>3, StepReduce
<1>4. CASE AcceptText
  BY <1>4, StepAccept
<1>5. CASE RefuseText
  BY <1>5, StepRefuse
<1>6. CASE UNCHANGED vars
  BY <1>6 DEF vars, IInv, Shifted, Outcome, Last, Front
<1> QED
  BY <1>1, <1>2, <1>3, <1>4, <1>5, <1>6 DEF Next

-----------------------------------------------------------------------------
(* What a child holds is given by its symbol, and an operator is one of    *)
(* the tokens that have a meaning (actions.cpp through parser.cpp:96).     *)
LEMMA ChildrenRepresent ==
  ASSUME IInv, NEW entry \in Decision("reduce"), NEW l, l = Len(GrammarRules[entry.to].rhs)
  PROVE  /\ DOMAIN Children(l) = 1..l
         /\ \A k \in 1..l : Represents(Children(l)[k], GrammarRules[entry.to].rhs[k], read)
<1>1. PICK n : n = Len(stack)
  OBVIOUS
<1>2. /\ entry.to \in DOMAIN GrammarRules /\ l \in Nat /\ n \in Nat /\ l < n
      /\ \A k \in 1..l : \A symbol :
           Follows(stack[n - l + k - 1].state, symbol, stack[n - l + k].state) =>
             symbol = GrammarRules[entry.to].rhs[k]
  BY <1>1, ReduceFacts, SeqShape DEF IInv
<1>3. PICK b \in Ends(n, Shifted), c \in Ends(n, Len(reductions)) :
         \A k \in 2..n : \E symbol : Entered(stack, read, reductions, b, c, k, symbol)
  BY <1>1 DEF IInv, Stacked
<1>4. ASSUME NEW k \in 1..l PROVE Represents(Children(l)[k], GrammarRules[entry.to].rhs[k], read)
  <2>1. n - l + k \in 2..n /\ (n - l + k) - 1 = n - l + k - 1
    BY <1>2
  <2>2. PICK symbol : Entered(stack, read, reductions, b, c, n - l + k, symbol)
    BY <1>3, <2>1
  <2>3. symbol = GrammarRules[entry.to].rhs[k]
    BY <1>2, <2>1, <2>2 DEF Entered
  <2>4. Children(l)[k] = stack[n - l + k].value
    BY <1>1 DEF Children
  <2> QED
    BY <2>2, <2>3, <2>4 DEF Entered
<1> QED
  BY <1>4 DEF Children

(* What a value holds is what a rule of its symbol gives.                  *)
LEMMA RepresentedHolds ==
  ASSUME NEW value, NEW symbol, NEW text, Represents(value, symbol, text)
  PROVE  value.holds \in Given(symbol)
<1>1. CASE symbol \in NonTerminals(GrammarRules)
  <2>1. PICK i \in RulesOf(GrammarRules, symbol) :
               \E children, seen : value = applyAction(GrammarRules[i].act, children, seen)
    BY <1>1 DEF Represents
  <2>2. PICK children, seen : value = applyAction(GrammarRules[i].act, children, seen)
    BY <2>1
  <2>3. value.holds = GrammarRules[i].act.gives
    BY <2>2 DEF applyAction, Value
  <2> QED
    BY <1>1, <2>1, <2>3 DEF Given
<1>2. CASE symbol \notin NonTerminals(GrammarRules)
  BY <1>2 DEF Represents, Given, Value
<1> QED
  BY <1>1, <1>2

(* An action takes from its children what they hold.                       *)
LEMMA ReducesWhatItHolds ==
  ASSUME IInv, NEW entry \in Decision("reduce"), NEW rule, rule = GrammarRules[entry.to],
         NEW child, child = Children(Len(rule.rhs))
  PROVE  /\ Len(rule.act.takes) = Len(rule.rhs)
         /\ \A i \in DOMAIN child : Holds(child[i], rule.act.takes[i])
         /\ rule.act.node \in DOMAIN OperatorAt =>
              read[child[OperatorAt[rule.act.node]].term.at] \in DOMAIN MeaningsOf(rule.act.node)
<1>1. PICK l : l = Len(rule.rhs)
  OBVIOUS
<1>2. entry.to \in DOMAIN GrammarRules /\ DOMAIN rule.rhs = 1..l
  BY <1>1, ReduceFacts
<1>3. TakesAgree(rule) /\ OperatorsAgree(rule)
  BY <1>2, GrammarAssumption
<1>4. DOMAIN child = 1..l /\ \A k \in 1..l : Represents(child[k], rule.rhs[k], read)
  BY <1>1, ChildrenRepresent
<1>5. ASSUME NEW k \in 1..l PROVE Holds(child[k], rule.act.takes[k])
  <2>1. child[k].holds \in Given(rule.rhs[k])
    BY <1>4, RepresentedHolds
  <2>2. Holds(Value(child[k].holds, Null), rule.act.takes[k])
    BY <1>2, <1>3, <2>1 DEF TakesAgree
  <2> QED
    BY <2>2 DEF Holds, Value
<1>6. ASSUME rule.act.node \in DOMAIN OperatorAt
      PROVE  read[child[OperatorAt[rule.act.node]].term.at] \in DOMAIN MeaningsOf(rule.act.node)
  <2>1. PICK k : k = OperatorAt[rule.act.node]
    OBVIOUS
  <2>2. k \in 1..l /\ rule.rhs[k] \in Terminals /\ rule.rhs[k] \in DOMAIN MeaningsOf(rule.act.node)
    BY <1>2, <1>3, <1>6, <2>1 DEF OperatorsAgree
  <2>3. rule.rhs[k] \notin NonTerminals(GrammarRules)
    BY <2>2, TokensHaveNoRule
  <2>4. PICK at \in 1..Len(read) : child[k] = Value("Token", Leaf(at)) /\ read[at] = rule.rhs[k]
    BY <1>4, <2>2, <2>3 DEF Represents
  <2>5. child[k].term.at = at
    BY <2>4 DEF Value, Leaf
  <2> QED
    BY <2>1, <2>2, <2>4, <2>5
<1> QED
  BY <1>1, <1>3, <1>4, <1>5, <1>6 DEF TakesAgree

(* Every action finds in each child the alternative it takes, every        *)
(* operator it looks up has a meaning, and what parse() delivers is a      *)
(* program: take<T> never answers an empty value (actions.cpp).            *)
THEOREM ParserTakesWhatItHolds == Spec => []TakesWhatItHolds
<1>1. IInv => TakesWhatItHolds
  <2> SUFFICES ASSUME IInv PROVE TakesWhatItHolds
    OBVIOUS
  <2>1. result.success => Made(result.root, {"Program"})
    BY DEF IInv, Outcome, Parsing, Failure
  <2> QED
    BY <2>1, ReducesWhatItHolds DEF TakesWhatItHolds
<1> QED
  BY <1>1, Initially, Inductive, PTL DEF Spec

(* parse() fails only at an empty cell of the table: a reduction is never  *)
(* short of children and always finds its goto (parser.cpp:85).            *)
THEOREM ParserFailsOnlyAtACell == Spec => FailsOnlyAtACell
<1>1. IInv /\ [Next]_vars => [result' = Failure => UNCHANGED <<stack, reductions>>]_vars
  <2> SUFFICES ASSUME IInv, Next, result' = Failure PROVE UNCHANGED <<stack, reductions>>
    OBVIOUS
  <2>1. CASE EnsureLookahead
    BY <2>1, StepEnsureLookahead
  <2>2. CASE ShiftToken
    <3>1. ~result.done
      BY <2>2 DEF ShiftToken, Decision
    <3> QED
      BY <2>2, <3>1, StepShift DEF Failure
  <2>3. CASE ReduceRule
    <3>1. ~result.done
      BY <2>3 DEF ReduceRule, Decision
    <3> QED
      BY <2>3, <3>1, StepReduce DEF Failure
  <2>4. CASE AcceptText
    BY <2>4, StepAccept
  <2>5. CASE RefuseText
    BY <2>5, StepRefuse
  <2> QED
    BY <2>1, <2>2, <2>3, <2>4, <2>5 DEF Next
<1> QED
  BY <1>1, Initially, Inductive, PTL DEF Spec, FailsOnlyAtACell

(* What parse() accepts is a program, derived by the rules it reduced, in  *)
(* their order (parser.cpp:29): for texts of any length.                   *)
THEOREM ParserAcceptsOnlyPrograms == Spec => []AcceptsOnlyPrograms
<1>1. IInv => AcceptsOnlyPrograms
  BY DEF IInv, Outcome, AcceptsOnlyPrograms, Parsing, Failure
<1> QED
  BY <1>1, Initially, Inductive, PTL DEF Spec
-----------------------------------------------------------------------------
(* Trees: a path of n steps from a term to one of its parts, and on.       *)
Path(t, n, u) ==
  \E c : c[0] = t /\ c[n] = u /\ \A m \in 1..n : c[m] \in Range(Parts(c[m - 1]))
InTree(t, u) == \E n \in Nat : Path(t, n, u)
HasToken(t, p) == \E u : InTree(t, u) /\ u.kind \in Tokenlike /\ u.at = p
Shallow(t, h) == \A u : ~Path(t, h, u)

(* A path without a step stays.                                            *)
LEMMA NoStep ==
  ASSUME NEW t, NEW u
  PROVE  Path(t, 0, u) <=> u = t
<1>1. ASSUME Path(t, 0, u) PROVE u = t
  BY <1>1 DEF Path
<1>2. Path(t, 0, t)
  <2> DEFINE c == [m \in 0..0 |-> t]
  <2>1. c[0] = t /\ 1..0 = {}
    OBVIOUS
  <2> QED
    BY <2>1 DEF Path
<1> QED
  BY <1>1, <1>2

(* Two paths, one after the other.                                         *)
LEMMA JoinedPaths ==
  ASSUME NEW t, NEW m \in Nat, NEW u, NEW n \in Nat, NEW v, Path(t, m, u), Path(u, n, v)
  PROVE  Path(t, m + n, v)
<1>1. PICK c : c[0] = t /\ c[m] = u /\ \A k \in 1..m : c[k] \in Range(Parts(c[k - 1]))
  BY DEF Path
<1>2. PICK d : d[0] = u /\ d[n] = v /\ \A k \in 1..n : d[k] \in Range(Parts(d[k - 1]))
  BY DEF Path
<1> DEFINE e == [k \in 0..m + n |-> IF k <= m THEN c[k] ELSE d[k - m]]
<1>3. e[0] = t
  BY <1>1
<1>4. e[m + n] = v
  <2>1. CASE n = 0
    BY <2>1, <1>1, <1>2
  <2>2. CASE n # 0
    BY <2>2, <1>2
  <2> QED
    BY <2>1, <2>2
<1>5. ASSUME NEW k \in 1..m + n PROVE e[k] \in Range(Parts(e[k - 1]))
  <2>1. CASE k <= m
    <3>1. k \in 1..m /\ e[k] = c[k] /\ e[k - 1] = c[k - 1]
      BY <2>1
    <3> QED
      BY <3>1, <1>1
  <2>2. CASE k = m + 1
    <3>0. k - m = 1 /\ k - 1 = m /\ ~(k <= m) /\ m \in 0..m + n /\ m <= m
      BY <2>2
    <3>1. e[k] = d[1] /\ e[k - 1] = d[0] /\ 1 \in 1..n /\ 1 - 1 = 0
      <4>1. e[k] = d[k - m] /\ e[m] = c[m]
        BY <3>0
      <4> HIDE DEF e
      <4> QED
        BY <3>0, <4>1, <1>1, <1>2
    <3>2. d[1] \in Range(Parts(d[1 - 1]))
      BY <1>2, <3>1
    <3> QED
      BY <3>1, <3>2
  <2>3. CASE k > m + 1
    <3>1. k - m \in 1..n /\ e[k] = d[k - m] /\ e[k - 1] = d[k - m - 1]
      <4>1. k - 1 - m = k - m - 1
        OBVIOUS
      <4> QED
        BY <2>3, <4>1
    <3> QED
      BY <3>1, <1>2
  <2> QED
    BY <2>1, <2>2, <2>3
<1> HIDE DEF e
<1> QED
  BY <1>3, <1>4, <1>5 DEF Path

(* A path taken apart.                                                     *)
LEMMA PartedPath ==
  ASSUME NEW t, NEW m \in Nat, NEW n \in Nat, NEW v, Path(t, m + n, v)
  PROVE  \E u : Path(t, m, u) /\ Path(u, n, v)
<1>1. PICK c : c[0] = t /\ c[m + n] = v /\ \A k \in 1..m + n : c[k] \in Range(Parts(c[k - 1]))
  BY DEF Path
<1>2. Path(t, m, c[m])
  <2>1. \A k \in 1..m : c[k] \in Range(Parts(c[k - 1]))
    BY <1>1
  <2> QED
    BY <1>1, <2>1 DEF Path
<1>3. Path(c[m], n, v)
  <2> DEFINE d == [k \in 0..n |-> c[m + k]]
  <2>1. d[0] = c[m] /\ d[n] = v
    BY <1>1
  <2>2. ASSUME NEW k \in 1..n PROVE d[k] \in Range(Parts(d[k - 1]))
    <3>1. m + k \in 1..m + n /\ m + k - 1 = m + (k - 1) /\ d[k] = c[m + k] /\ d[k - 1] = c[m + (k - 1)]
      OBVIOUS
    <3> QED
      BY <1>1, <3>1
  <2> HIDE DEF d
  <2> QED
    BY <2>1, <2>2 DEF Path
<1> QED
  BY <1>2, <1>3

(* One step leads to a part.                                               *)
LEMMA OneStep ==
  ASSUME NEW t, NEW u
  PROVE  Path(t, 1, u) <=> u \in Range(Parts(t))
<1>1. ASSUME Path(t, 1, u) PROVE u \in Range(Parts(t))
  <2>1. PICK c : c[0] = t /\ c[1] = u /\ \A k \in 1..1 : c[k] \in Range(Parts(c[k - 1]))
    BY <1>1 DEF Path
  <2>2. 1 \in 1..1 /\ 1 - 1 = 0
    OBVIOUS
  <2>3. c[1] \in Range(Parts(c[1 - 1]))
    BY <2>1, <2>2
  <2> QED
    BY <2>1, <2>2, <2>3
<1>2. ASSUME u \in Range(Parts(t)) PROVE Path(t, 1, u)
  <2> DEFINE c == [k \in 0..1 |-> IF k = 0 THEN t ELSE u]
  <2>1. c[0] = t /\ c[1] = u
    OBVIOUS
  <2>2. ASSUME NEW k \in 1..1 PROVE c[k] \in Range(Parts(c[k - 1]))
    <3>1. k = 1 /\ c[k] = u /\ c[k - 1] = t
      OBVIOUS
    <3> QED
      BY <1>2, <3>1
  <2> HIDE DEF c
  <2> QED
    BY <2>1, <2>2 DEF Path
<1> QED
  BY <1>1, <1>2

(* The tree of a term: itself, and the trees of its parts.                 *)
LEMMA TreeItself ==
  ASSUME NEW t
  PROVE  InTree(t, t)
BY NoStep DEF InTree

(* What stands in the tree of a part stands in the tree.                   *)
LEMMA TreeOfPart ==
  ASSUME NEW t, NEW x \in Range(Parts(t)), NEW u, InTree(x, u)
  PROVE  InTree(t, u)
<1>1. PICK n \in Nat : Path(x, n, u)
  BY DEF InTree
<1>2. Path(t, 1, x)
  BY OneStep
<1>3. Path(t, 1 + n, u)
  BY <1>1, <1>2, JoinedPaths
<1> QED
  BY <1>3 DEF InTree

(* What stands in a tree is its root, or stands in the tree of a part.     *)
LEMMA TreeSplits ==
  ASSUME NEW t, NEW u, InTree(t, u), u # t
  PROVE  \E x \in Range(Parts(t)) : InTree(x, u)
<1>1. PICK n \in Nat : Path(t, n, u)
  BY DEF InTree
<1>2. n # 0
  BY <1>1, NoStep
<1>3. n - 1 \in Nat /\ Path(t, 1 + (n - 1), u)
  BY <1>1, <1>2
<1>4. PICK x : Path(t, 1, x) /\ Path(x, n - 1, u)
  <2> DEFINE k == n - 1
  <2>1. k \in Nat /\ Path(t, 1 + k, u)
    BY <1>3
  <2> HIDE DEF k
  <2>2. \E x : Path(t, 1, x) /\ Path(x, k, u)
    BY <2>1, PartedPath
  <2> QED
    BY <2>2 DEF k
<1> QED
  BY <1>3, <1>4, OneStep DEF InTree

(* Trees in a tree.                                                        *)
LEMMA TreeInTree ==
  ASSUME NEW t, NEW u, InTree(t, u), NEW v, InTree(u, v)
  PROVE  InTree(t, v)
<1>1. PICK m \in Nat, n \in Nat : Path(t, m, u) /\ Path(u, n, v)
  BY DEF InTree
<1>2. Path(t, m + n, v) /\ m + n \in Nat
  BY <1>1, JoinedPaths
<1> QED
  BY <1>2 DEF InTree

(* Where there is no long path there is no longer one.                     *)
LEMMA ShallowStays ==
  ASSUME NEW t, NEW h \in Nat, Shallow(t, h), NEW n \in Nat, h <= n
  PROVE  Shallow(t, n)
<1> SUFFICES ASSUME NEW u, Path(t, n, u) PROVE FALSE
  BY DEF Shallow
<1> DEFINE k == n - h
<1>1. k \in Nat /\ Path(t, h + k, u)
  <2>1. h + k = n
    OBVIOUS
  <2> QED
    BY <2>1
<1> HIDE DEF k
<1> QED
  BY <1>1, PartedPath DEF Shallow

(* What stands in a shallow tree is shallow.                               *)
LEMMA ShallowInside ==
  ASSUME NEW t, NEW h \in Nat, Shallow(t, h), NEW u, InTree(t, u)
  PROVE  Shallow(u, h)
<1> SUFFICES ASSUME NEW v, Path(u, h, v) PROVE FALSE
  BY DEF Shallow
<1>1. PICK m \in Nat : Path(t, m, u)
  BY DEF InTree
<1>2. Path(t, m + h, v) /\ m + h \in Nat /\ h <= m + h
  BY <1>1, JoinedPaths
<1> QED
  BY <1>2, ShallowStays DEF Shallow

(* A node stands one level above its parts.                                *)
LEMMA ShallowNode ==
  ASSUME NEW t, NEW h \in Nat, \A x \in Range(Parts(t)) : Shallow(x, h)
  PROVE  Shallow(t, h + 1)
<1> SUFFICES ASSUME NEW u, Path(t, h + 1, u) PROVE FALSE
  BY DEF Shallow
<1>1. Path(t, 1 + h, u)
  <2>1. h + 1 = 1 + h
    OBVIOUS
  <2> QED
    BY <2>1
<1>2. PICK x : Path(t, 1, x) /\ Path(x, h, u)
  BY <1>1, PartedPath
<1> QED
  BY <1>2, OneStep DEF Shallow

(* The tokens of a term without parts, and of one with parts.              *)
LEMMA TokensOfLeaf ==
  ASSUME NEW t, Parts(t) = <<>>, NEW p
  PROVE  HasToken(t, p) <=> t.kind \in Tokenlike /\ t.at = p
<1>1. Range(Parts(t)) = {}
  BY DEF Range
<1>2. \A u : InTree(t, u) <=> u = t
  BY <1>1, TreeItself, TreeSplits
<1> QED
  BY <1>2 DEF HasToken

(* A node, a list and a null pointer have the tokens of their parts.       *)
LEMMA TokensOfNode ==
  ASSUME NEW t, t.kind \notin Tokenlike, NEW p
  PROVE  HasToken(t, p) <=> \E x \in Range(Parts(t)) : HasToken(x, p)
<1>1. ASSUME HasToken(t, p) PROVE \E x \in Range(Parts(t)) : HasToken(x, p)
  <2>1. PICK u : InTree(t, u) /\ u.kind \in Tokenlike /\ u.at = p
    BY <1>1 DEF HasToken
  <2>2. u # t
    BY <2>1
  <2>3. PICK x \in Range(Parts(t)) : InTree(x, u)
    BY <2>1, <2>2, TreeSplits
  <2> QED
    BY <2>1, <2>3 DEF HasToken
<1>2. ASSUME NEW x \in Range(Parts(t)), HasToken(x, p) PROVE HasToken(t, p)
  <2>1. PICK u : InTree(x, u) /\ u.kind \in Tokenlike /\ u.at = p
    BY <1>2 DEF HasToken
  <2> QED
    BY <2>1, TreeOfPart DEF HasToken
<1> QED
  BY <1>1, <1>2

-----------------------------------------------------------------------------
(* Below collects the trees, level by level.                               *)
Levels(g, terms) == g = [n \in Nat |-> IF n = 0 THEN terms ELSE g[n - 1] \cup Opened(g[n - 1])]
LevelsTo(g, terms, k) ==
  g[0] = terms /\ \A n \in 1..k : g[n] = g[n - 1] \cup Opened(g[n - 1])

(* Two functions that collect the levels agree.                            *)
LEMMA LevelsAgree ==
  ASSUME NEW terms, NEW k \in Nat, NEW g, LevelsTo(g, terms, k), NEW h, LevelsTo(h, terms, k)
  PROVE  g[k] = h[k]
<1> DEFINE Bad == {n \in Nat : n <= k /\ g[n] # h[n]}
<1> SUFFICES ASSUME Bad # {} PROVE FALSE
  OBVIOUS
<1>1. PICK n \in Bad : \A j \in Bad : n <= j
  <2>1. Bad \in SUBSET Nat
    OBVIOUS
  <2> HIDE DEF Bad
  <2> QED
    BY <2>1, Least
<1>2. n \in Nat /\ n <= k /\ g[n] # h[n]
  BY <1>1
<1>3. n # 0
  BY <1>2 DEF LevelsTo
<1>4. n - 1 \in Nat /\ n - 1 <= k /\ ~(n <= n - 1) /\ n \in 1..k
  BY <1>2, <1>3
<1>5. g[n - 1] = h[n - 1]
  BY <1>1, <1>4
<1>6. /\ g[n] = g[n - 1] \cup Opened(g[n - 1])
      /\ h[n] = h[n - 1] \cup Opened(h[n - 1])
  BY <1>4 DEF LevelsTo
<1> QED
  BY <1>2, <1>5, <1>6

(* There is one up to any depth.                                           *)
LEMMA LevelsReach ==
  ASSUME NEW terms, NEW k \in Nat
  PROVE  \E g : LevelsTo(g, terms, k)
<1> DEFINE Bad == {n \in Nat : ~\E g : LevelsTo(g, terms, n)}
<1> SUFFICES ASSUME Bad # {} PROVE FALSE
  OBVIOUS
<1>1. PICK n \in Bad : \A j \in Bad : n <= j
  <2>1. Bad \in SUBSET Nat
    OBVIOUS
  <2> HIDE DEF Bad
  <2> QED
    BY <2>1, Least
<1>2. n \in Nat /\ ~\E g : LevelsTo(g, terms, n)
  BY <1>1
<1>3. n # 0
  <2> SUFFICES ASSUME n = 0 PROVE FALSE
    OBVIOUS
  <2> DEFINE g == [m \in 0..0 |-> terms]
  <2>1. g[0] = terms /\ 1..0 = {}
    OBVIOUS
  <2> HIDE DEF g
  <2>2. LevelsTo(g, terms, 0)
    BY <2>1 DEF LevelsTo
  <2> QED
    BY <1>2, <2>2
<1>4. n - 1 \in Nat /\ ~(n <= n - 1)
  BY <1>2, <1>3
<1>5. PICK g : LevelsTo(g, terms, n - 1)
  BY <1>1, <1>4
<1> DEFINE h == [m \in 0..n |-> IF m = n THEN g[n - 1] \cup Opened(g[n - 1]) ELSE g[m]]
<1>6. h[0] = terms
  BY <1>2, <1>3, <1>5 DEF LevelsTo
<1>7. ASSUME NEW m \in 1..n PROVE h[m] = h[m - 1] \cup Opened(h[m - 1])
  <2>1. m - 1 \in 0..n /\ m - 1 # n /\ m \in 0..n /\ h[m - 1] = g[m - 1]
    BY <1>2
  <2>2. CASE m = n
    BY <2>1, <2>2
  <2>3. CASE m # n
    <3>1. m \in 1..n - 1 /\ h[m] = g[m]
      BY <1>2, <2>1, <2>3
    <3>2. g[m] = g[m - 1] \cup Opened(g[m - 1])
      BY <1>5, <3>1 DEF LevelsTo
    <3> QED
      BY <2>1, <3>1, <3>2
  <2> QED
    BY <2>2, <2>3
<1> HIDE DEF h
<1>8. LevelsTo(h, terms, n)
  BY <1>6, <1>7 DEF LevelsTo
<1> QED
  BY <1>2, <1>8

(* There is one for all depths: the function that Below defines exists.    *)
LEMMA LevelsExist ==
  ASSUME NEW terms
  PROVE  \E g : Levels(g, terms)
<1> DEFINE G(k) == CHOOSE g : LevelsTo(g, terms, k)
           f == [k \in Nat |-> G(k)[k]]
<1>1. ASSUME NEW k \in Nat PROVE LevelsTo(G(k), terms, k)
  BY LevelsReach
<1>2. f[0] = terms
  <2>1. LevelsTo(G(0), terms, 0) /\ 0 \in Nat
    BY <1>1
  <2> HIDE DEF G
  <2> QED
    BY <2>1 DEF LevelsTo
<1>3. ASSUME NEW k \in Nat, k # 0 PROVE f[k] = f[k - 1] \cup Opened(f[k - 1])
  <2>1. k - 1 \in Nat /\ LevelsTo(G(k), terms, k) /\ LevelsTo(G(k - 1), terms, k - 1) /\ k \in 1..k
    BY <1>1, <1>3
  <2> HIDE DEF G
  <2>2. f[k] = G(k)[k] /\ f[k - 1] = G(k - 1)[k - 1]
    BY <2>1
  <2>3. LevelsTo(G(k), terms, k - 1)
    <3>1. \A n \in 1..k - 1 : n \in 1..k
      BY <2>1
    <3> QED
      BY <2>1, <3>1 DEF LevelsTo
  <2>4. G(k)[k - 1] = G(k - 1)[k - 1]
    BY <2>1, <2>3, LevelsAgree
  <2>5. G(k)[k] = G(k)[k - 1] \cup Opened(G(k)[k - 1])
    BY <2>1 DEF LevelsTo
  <2> HIDE DEF f
  <2> QED
    BY <2>2, <2>4, <2>5
<1>4. f = [k \in Nat |-> IF k = 0 THEN terms ELSE f[k - 1] \cup Opened(f[k - 1])]
  <2> DEFINE e == [k \in Nat |-> IF k = 0 THEN terms ELSE f[k - 1] \cup Opened(f[k - 1])]
  <2>1. \A k \in Nat : f[k] = e[k]
    <3> TAKE k \in Nat
    <3>1. e[k] = IF k = 0 THEN terms ELSE f[k - 1] \cup Opened(f[k - 1])
      OBVIOUS
    <3> HIDE DEF e, f
    <3> QED
      BY <1>2, <1>3, <3>1
  <2>2. f = [k \in Nat |-> f[k]] /\ e = [k \in Nat |-> e[k]]
    OBVIOUS
  <2> HIDE DEF e, f
  <2>3. f = e
    BY <2>1, <2>2
  <2> QED
    BY <2>3 DEF e
<1> HIDE DEF f
<1> QED
  BY <1>4 DEF Levels

(* So Below takes one level more with every step.                          *)
LEMMA BelowUnfolds ==
  ASSUME NEW terms
  PROVE  /\ Below(terms, 0) = terms
         /\ \A n \in Nat : Below(terms, n + 1) = Below(terms, n) \cup Opened(Below(terms, n))
<1> DEFINE g == CHOOSE g : Levels(g, terms)
<1>1. Levels(g, terms)
  BY LevelsExist
<1>2. \A n : Below(terms, n) = g[n]
  BY DEF Below, Levels
<1> HIDE DEF g
<1>3. ASSUME NEW n \in Nat PROVE g[n] = IF n = 0 THEN terms ELSE g[n - 1] \cup Opened(g[n - 1])
  BY <1>1 DEF Levels
<1>4. g[0] = terms
  <2>1. 0 \in Nat
    OBVIOUS
  <2> QED
    BY <1>3, <2>1
<1>5. ASSUME NEW n \in Nat PROVE g[n + 1] = g[n] \cup Opened(g[n])
  <2> DEFINE m == n + 1
  <2>1. m \in Nat /\ m # 0 /\ m - 1 = n
    OBVIOUS
  <2> HIDE DEF m
  <2>2. g[m] = g[m - 1] \cup Opened(g[m - 1])
    BY <1>3, <2>1
  <2> QED
    BY <2>1, <2>2 DEF m
<1> QED
  BY <1>2, <1>4, <1>5

(* What is collected to a depth is what a path as long leads to.           *)
LEMMA BelowPaths ==
  ASSUME NEW terms, NEW depth \in Nat, NEW u
  PROVE  u \in Below(terms, depth) <=> \E t \in terms : \E m \in 0..depth : Path(t, m, u)
<1> DEFINE Good(n) == \A v : v \in Below(terms, n) <=> \E t \in terms : \E m \in 0..n : Path(t, m, v)
           Bad == {n \in Nat : ~Good(n)}
<1>1. Good(0)
  <2> SUFFICES ASSUME NEW v PROVE v \in Below(terms, 0) <=> \E t \in terms : \E m \in 0..0 : Path(t, m, v)
    OBVIOUS
  <2>1. \A t : (\E m \in 0..0 : Path(t, m, v)) <=> v = t
    <3>1. 0..0 = {0}
      OBVIOUS
    <3> QED
      BY <3>1, NoStep
  <2> QED
    BY <2>1, BelowUnfolds
<1>2. ASSUME NEW n \in Nat, Good(n) PROVE Good(n + 1)
  <2> SUFFICES ASSUME NEW v
      PROVE v \in Below(terms, n + 1) <=> \E t \in terms : \E m \in 0..n + 1 : Path(t, m, v)
    OBVIOUS
  <2>1. Below(terms, n + 1) = Below(terms, n) \cup Opened(Below(terms, n))
    BY BelowUnfolds
  <2>2. ASSUME v \in Below(terms, n) PROVE \E t \in terms : \E m \in 0..n + 1 : Path(t, m, v)
    <3>1. PICK t \in terms, m \in 0..n : Path(t, m, v)
      BY <1>2, <2>2
    <3>2. m \in 0..n + 1
      OBVIOUS
    <3> QED
      BY <3>1, <3>2
  <2>3. ASSUME v \in Opened(Below(terms, n)) PROVE \E t \in terms : \E m \in 0..n + 1 : Path(t, m, v)
    <3>1. PICK x \in Below(terms, n) : v \in Range(Parts(x))
      BY <2>3 DEF Opened
    <3>2. PICK t \in terms, m \in 0..n : Path(t, m, x)
      BY <1>2
    <3>3. Path(x, 1, v)
      BY <3>1, OneStep
    <3>4. m + 1 \in 0..n + 1 /\ m \in Nat /\ 1 \in Nat
      OBVIOUS
    <3>5. Path(t, m + 1, v)
      BY <3>2, <3>3, <3>4, JoinedPaths
    <3> QED
      BY <3>4, <3>5
  <2>4. ASSUME NEW t \in terms, NEW m \in 0..n + 1, Path(t, m, v) PROVE v \in Below(terms, n + 1)
    <3>1. CASE m <= n
      <4>1. m \in 0..n
        BY <3>1
      <4> QED
        BY <1>2, <2>1, <2>4, <4>1
    <3>2. CASE m = n + 1
      <4>1. PICK x : Path(t, n, x) /\ Path(x, 1, v)
        BY <2>4, <3>2, PartedPath
      <4>2. n \in 0..n
        OBVIOUS
      <4>3. x \in Below(terms, n)
        BY <1>2, <4>1, <4>2
      <4>4. v \in Range(Parts(x))
        BY <4>1, OneStep
      <4> QED
        BY <2>1, <4>3, <4>4 DEF Opened
    <3> QED
      BY <3>1, <3>2
  <2> QED
    BY <2>1, <2>2, <2>3, <2>4
<1>3. Bad = {}
  <2> SUFFICES ASSUME Bad # {} PROVE FALSE
    OBVIOUS
  <2>1. PICK n \in Bad : \A j \in Bad : n <= j
    <3>1. Bad \in SUBSET Nat
      OBVIOUS
    <3> HIDE DEF Bad
    <3> QED
      BY <3>1, Least
  <2>2. n \in Nat /\ ~Good(n)
    BY <2>1
  <2> HIDE DEF Good
  <2>3. n # 0
    BY <1>1, <2>2
  <2>4. n - 1 \in Nat /\ ~(n <= n - 1) /\ (n - 1) + 1 = n
    BY <2>2, <2>3
  <2>5. Good(n - 1)
    BY <2>1, <2>4
  <2>6. Good((n - 1) + 1)
    BY <1>2, <2>4, <2>5
  <2> QED
    BY <2>2, <2>4, <2>6
<1>4. Good(depth)
  <2>1. depth \notin Bad
    <3> HIDE DEF Bad
    <3> QED
      BY <1>3
  <2> QED
    BY <2>1
<1> QED
  BY <1>4

(* At a depth that no tree exceeds, these are the trees and their tokens.  *)
LEMMA BelowTrees ==
  ASSUME NEW terms, NEW depth \in Nat, \A t \in terms : Shallow(t, depth), NEW u
  PROVE  u \in Below(terms, depth) <=> \E t \in terms : InTree(t, u)
<1>1. ASSUME u \in Below(terms, depth) PROVE \E t \in terms : InTree(t, u)
  <2>1. PICK t \in terms, m \in 0..depth : Path(t, m, u)
    BY <1>1, BelowPaths
  <2>2. m \in Nat
    OBVIOUS
  <2> QED
    BY <2>1, <2>2 DEF InTree
<1>2. ASSUME NEW t \in terms, InTree(t, u) PROVE u \in Below(terms, depth)
  <2>1. PICK m \in Nat : Path(t, m, u)
    BY <1>2 DEF InTree
  <2>2. ~(depth <= m)
    BY <2>1, ShallowStays DEF Shallow
  <2>3. m \in 0..depth
    BY <2>2
  <2> QED
    BY <2>1, <2>3, BelowPaths
<1> QED
  BY <1>1, <1>2

(* Positions are those of the tokens in the trees.                         *)
LEMMA PositionsAre ==
  ASSUME NEW terms, NEW depth \in Nat, \A t \in terms : Shallow(t, depth), NEW p
  PROVE  p \in Positions(terms, depth) <=> \E t \in terms : HasToken(t, p)
<1>1. \A u : u \in Below(terms, depth) <=> \E t \in terms : InTree(t, u)
  BY BelowTrees
<1>2. p \in Positions(terms, depth) <=> \E u : u \in Below(terms, depth) /\ u.kind \in Tokenlike /\ u.at = p
  BY DEF Positions
<1> QED
  BY <1>1, <1>2 DEF HasToken

-----------------------------------------------------------------------------
(* Order.                                                                  *)
(* Every token in a term of the sequence is before those of later terms.   *)
Sorted(P) ==
  /\ IsSeq(P)
  /\ \A i, j \in DOMAIN P : i < j => \A p, q : HasToken(P[i], p) /\ HasToken(P[j], q) => p < q
Whole(t, h) == Shallow(t, h) /\ \A u : InTree(t, u) => Sorted(Parts(u))

(* The terms of a sequence, and every node in them, have the tokens of the *)
(* first s places of a text in its order, and miss none that is kept.      *)
Arranged(P, text, s, h) ==
  /\ Sorted(P)
  /\ \A i \in DOMAIN P : Whole(P[i], h) /\ \A p : HasToken(P[i], p) => p \in 1..s
  /\ \A p \in 1..s : text[p] \notin Dropped => \E i \in DOMAIN P : HasToken(P[i], p)

Fits(x, y, h) == Whole(x, h) /\ \A p : HasToken(x, p) => HasToken(y, p)
Joined(H, m, P) == [q \in 1..m + Len(P) |-> IF q <= m THEN H[q] ELSE P[q - m]]

(* A function on 1..n is a sequence.                                       *)
LEMMA FunctionIsSeq ==
  ASSUME NEW n \in Nat, NEW Q, Q = [i \in 1..n |-> Q[i]]
  PROVE  IsSeq(Q) /\ Len(Q) = n /\ DOMAIN Q = 1..n
<1> DEFINE R == {Q[i] : i \in 1..n}
<1>1. DOMAIN Q = 1..n
  BY DOMAIN Q = DOMAIN [i \in 1..n |-> Q[i]]
<1>2. \A i \in 1..n : Q[i] \in R
  OBVIOUS
<1> HIDE DEF R
<1>3. Q \in [1..n -> R]
  BY <1>2
<1>4. Q \in Seq(R) /\ Len(Q) = n
  BY <1>3
<1> QED
  BY <1>1, <1>4, OwnSeq

Joins(J, H, m, P) ==
  /\ IsSeq(J) /\ Len(J) = m + Len(P) /\ DOMAIN J = 1..m + Len(P)
  /\ \A i \in 1..m : J[i] = H[i]
  /\ \A i \in 1..Len(P) : J[m + i] = P[i]

(* A sequence with its end replaced.                                       *)
LEMMA JoinedShape ==
  ASSUME NEW H, NEW m \in Nat, NEW P, IsSeq(P)
  PROVE  Joins(Joined(H, m, P), H, m, P)
<1>1. Len(P) \in Nat /\ m + Len(P) \in Nat
  BY SeqShape
<1>2. Joined(H, m, P) = [q \in 1..m + Len(P) |-> Joined(H, m, P)[q]]
  BY DEF Joined
<1>3. \A i \in 1..m : Joined(H, m, P)[i] = H[i]
  BY <1>1 DEF Joined
<1>4. ASSUME NEW i \in 1..Len(P) PROVE Joined(H, m, P)[m + i] = P[i]
  <2>1. m + i \in 1..m + Len(P) /\ ~(m + i <= m) /\ (m + i) - m = i
    BY <1>1
  <2>2. Joined(H, m, P)[m + i] = P[(m + i) - m]
    BY <2>1 DEF Joined
  <2> QED
    BY <2>1, <2>2
<1>5. IsSeq(Joined(H, m, P)) /\ Len(Joined(H, m, P)) = m + Len(P) /\ DOMAIN Joined(H, m, P) = 1..m + Len(P)
  <2> DEFINE Q == Joined(H, m, P)  n == m + Len(P)
  <2>1. n \in Nat /\ Q = [q \in 1..n |-> Q[q]]
    BY <1>1, <1>2
  <2> HIDE DEF Q, n
  <2>2. IsSeq(Q) /\ Len(Q) = n /\ DOMAIN Q = 1..n
    BY <2>1, FunctionIsSeq
  <2> QED
    BY <2>2 DEF Q, n
<1> QED
  BY <1>3, <1>4, <1>5 DEF Joins

(* The end of a sequence replaced by terms that fit in those that stood    *)
(* there, in the same order, and take over their tokens.                   *)
LEMMA Spliced ==
  ASSUME NEW H, NEW text, NEW s \in Nat, NEW h \in Nat, Arranged(H, text, s, h),
         NEW m \in 0..Len(H), NEW P, IsSeq(P), NEW f,
         \A q \in 1..Len(P) : f[q] \in m + 1..Len(H) /\ Fits(P[q], H[f[q]], h),
         \A q, r \in 1..Len(P) : q < r =>
            \/ f[q] < f[r]
            \/ f[q] = f[r] /\ \A a, b : HasToken(P[q], a) /\ HasToken(P[r], b) => a < b,
         \A k \in m + 1..Len(H), p \in 1..s : HasToken(H[k], p) /\ text[p] \notin Dropped =>
            \E q \in 1..Len(P) : HasToken(P[q], p)
  PROVE  Arranged(Joined(H, m, P), text, s, h)
<1> DEFINE J == Joined(H, m, P)  l == Len(P)
<1>0. /\ IsSeq(H) /\ Len(H) \in Nat /\ DOMAIN H = 1..Len(H) /\ l \in Nat /\ m \in Nat
      /\ \A i, j \in 1..Len(H) : i < j => \A p, q : HasToken(H[i], p) /\ HasToken(H[j], q) => p < q
      /\ \A i \in 1..Len(H) : Whole(H[i], h) /\ \A p : HasToken(H[i], p) => p \in 1..s
  BY SeqShape DEF Arranged, Sorted
<1>1. /\ IsSeq(J) /\ DOMAIN J = 1..m + l
      /\ \A i \in 1..m : J[i] = H[i]
      /\ \A i \in 1..l : J[m + i] = P[i]
  <2>1. Joins(J, H, m, P)
    BY <1>0, JoinedShape
  <2> QED
    BY <2>1 DEF Joins
<1> DEFINE g == [i \in 1..m + l |-> IF i <= m THEN i ELSE f[i - m]]
<1>2. ASSUME NEW i \in 1..m + l
      PROVE  /\ g[i] \in 1..Len(H) /\ Fits(J[i], H[g[i]], h)
             /\ i <= m => g[i] = i
             /\ i > m => i - m \in 1..l /\ g[i] = f[i - m] /\ J[i] = P[i - m] /\ g[i] > m
  <2>1. CASE i <= m
    <3>1. i \in 1..m /\ i \in 1..Len(H) /\ g[i] = i /\ J[i] = H[i] /\ ~(i > m)
      BY <1>0, <1>1, <2>1
    <3> HIDE DEF J, g
    <3>2. Fits(H[i], H[i], h)
      BY <1>0, <3>1 DEF Fits
    <3> QED
      BY <2>1, <3>1, <3>2
  <2>2. CASE i > m
    <3>1. i - m \in 1..l /\ m + (i - m) = i /\ ~(i <= m) /\ g[i] = f[i - m]
      BY <1>0, <2>2
    <3> HIDE DEF J, g
    <3>2. J[i] = P[i - m]
      BY <1>1, <3>1
    <3>3. f[i - m] \in m + 1..Len(H) /\ Fits(P[i - m], H[f[i - m]], h)
      BY <3>1
    <3>4. f[i - m] \in 1..Len(H) /\ f[i - m] > m
      BY <1>0, <3>3
    <3> QED
      BY <2>2, <3>1, <3>2, <3>3, <3>4
  <2> QED
    BY <1>0, <2>1, <2>2
<1> HIDE DEF J, g
<1>3. ASSUME NEW i \in 1..m + l, NEW j \in 1..m + l, i < j, NEW p, NEW q, HasToken(J[i], p), HasToken(J[j], q)
      PROVE  p < q
  <2>1. HasToken(H[g[i]], p) /\ HasToken(H[g[j]], q) /\ g[i] \in 1..Len(H) /\ g[j] \in 1..Len(H)
    BY <1>2, <1>3 DEF Fits
  <2>2. CASE g[i] < g[j]
    BY <1>0, <2>1, <2>2
  <2>3. CASE ~(g[i] < g[j])
    <3>1. i > m /\ j > m
      <4>1. CASE i <= m
        <5>1. CASE j <= m
          BY <1>2, <1>3, <2>3, <4>1, <5>1
        <5>2. CASE j > m
          BY <1>0, <1>2, <1>3, <2>3, <4>1, <5>2
        <5> QED
          BY <1>0, <5>1, <5>2
      <4>2. CASE i > m
        BY <1>0, <1>3, <4>2
      <4> QED
        BY <1>0, <4>1, <4>2
    <3>2. /\ i - m \in 1..l /\ j - m \in 1..l /\ i - m < j - m
          /\ g[i] = f[i - m] /\ g[j] = f[j - m] /\ J[i] = P[i - m] /\ J[j] = P[j - m]
      BY <1>0, <1>2, <1>3, <3>1
    <3>3. \A a, b : HasToken(P[i - m], a) /\ HasToken(P[j - m], b) => a < b
      BY <2>3, <3>2
    <3> QED
      BY <1>3, <3>2, <3>3
  <2> QED
    BY <2>2, <2>3
<1>4. ASSUME NEW i \in 1..m + l PROVE Whole(J[i], h) /\ \A p : HasToken(J[i], p) => p \in 1..s
  BY <1>0, <1>2 DEF Fits
<1>5. ASSUME NEW p \in 1..s, text[p] \notin Dropped PROVE \E i \in 1..m + l : HasToken(J[i], p)
  <2>1. PICK k \in 1..Len(H) : HasToken(H[k], p)
    BY <1>0, <1>5 DEF Arranged
  <2>2. CASE k <= m
    <3>1. k \in 1..m /\ k \in 1..m + l
      BY <1>0, <2>2
    <3> QED
      BY <1>1, <2>1, <3>1
  <2>3. CASE k > m
    <3>1. k \in m + 1..Len(H)
      BY <1>0, <2>3
    <3>2. PICK q \in 1..Len(P) : HasToken(P[q], p)
      BY <1>5, <2>1, <3>1
    <3>3. m + q \in 1..m + l /\ J[m + q] = P[q]
      BY <1>0, <1>1
    <3> QED
      BY <3>2, <3>3
  <2> QED
    BY <1>0, <2>2, <2>3
<1>6. Sorted(J)
  BY <1>1, <1>3 DEF Sorted
<1>7. Arranged(J, text, s, h)
  BY <1>1, <1>4, <1>5, <1>6 DEF Arranged
<1> QED
  BY <1>7 DEF J

(* A bound on the depth may grow.                                          *)
LEMMA DeeperStill ==
  ASSUME NEW P, NEW text, NEW s, NEW h \in Nat, Arranged(P, text, s, h)
  PROVE  Arranged(P, text, s, h + 1)
<1>1. \A t : Whole(t, h) => Whole(t, h + 1)
  <2>1. h + 1 \in Nat /\ h <= h + 1
    OBVIOUS
  <2> QED
    BY <2>1, ShallowStays DEF Whole
<1> QED
  BY <1>1 DEF Arranged

(* The terms at the end of a sequence become the parts of one.             *)
LEMMA Gathering ==
  ASSUME NEW H, NEW m \in Nat, NEW P, IsSeq(P), NEW text, NEW s, NEW h \in Nat,
         Arranged(Joined(H, m, P), text, s, h), NEW t, t.kind \notin Tokenlike, Parts(t) = P
  PROVE  Arranged(Joined(H, m, <<t>>), text, s, h + 1)
<1> DEFINE J == Joined(H, m, P)  N == Joined(H, m, <<t>>)  l == Len(P)
<1>0. l \in Nat /\ DOMAIN P = 1..l /\ Range(P) = {P[i] : i \in 1..l}
  BY SeqShape DEF Range
<1>1. /\ DOMAIN J = 1..m + l /\ (\A i \in 1..m : J[i] = H[i]) /\ \A i \in 1..l : J[m + i] = P[i]
  <2>1. Joins(J, H, m, P)
    BY JoinedShape
  <2> QED
    BY <2>1 DEF Joins
<1>2. /\ IsSeq(N) /\ DOMAIN N = 1..m + 1 /\ (\A i \in 1..m : N[i] = H[i]) /\ N[m + 1] = t
  <2>1. <<t>> \in Seq({t}) /\ Len(<<t>>) = 1 /\ <<t>>[1] = t /\ 1 \in 1..1
    OBVIOUS
  <2>2. IsSeq(<<t>>)
    BY <2>1, OwnSeq
  <2>3. Joins(N, H, m, <<t>>)
    BY <2>2, JoinedShape
  <2> QED
    BY <2>1, <2>3 DEF Joins
<1> HIDE DEF J, N
<1>3. Arranged(J, text, s, h + 1) /\ Arranged(J, text, s, h)
  BY DeeperStill DEF J
<1>4. /\ \A i, j \in 1..m + l : i < j => \A p, q : HasToken(J[i], p) /\ HasToken(J[j], q) => p < q
      /\ \A i \in 1..m + l : Whole(J[i], h + 1) /\ Whole(J[i], h) /\ \A p : HasToken(J[i], p) => p \in 1..s
      /\ \A p \in 1..s : text[p] \notin Dropped => \E i \in 1..m + l : HasToken(J[i], p)
  BY <1>1, <1>3 DEF Arranged, Sorted
<1>5. \A i \in 1..l : m + i \in 1..m + l
  BY <1>0
<1>6. \A p : HasToken(t, p) <=> \E i \in 1..l : HasToken(P[i], p)
  <2> TAKE p
  <2>1. HasToken(t, p) <=> \E x \in Range(P) : HasToken(x, p)
    BY TokensOfNode
  <2> QED
    BY <1>0, <2>1
<1>7. Sorted(P)
  <2> SUFFICES ASSUME NEW i \in 1..l, NEW j \in 1..l, i < j, NEW p, NEW q, HasToken(P[i], p), HasToken(P[j], q)
      PROVE p < q
    BY <1>0 DEF Sorted
  <2>1. m + i < m + j /\ m + i \in 1..m + l /\ m + j \in 1..m + l
    BY <1>0
  <2>2. HasToken(J[m + i], p) /\ HasToken(J[m + j], q)
    BY <1>1
  <2> QED
    BY <1>4, <2>1, <2>2
<1>8. Whole(t, h + 1)
  <2>1. \A x \in Range(Parts(t)) : Whole(x, h)
    BY <1>0, <1>1, <1>4, <1>5
  <2>2. Shallow(t, h + 1)
    BY <2>1, ShallowNode DEF Whole
  <2>3. ASSUME NEW u, InTree(t, u) PROVE Sorted(Parts(u))
    <3>1. CASE u = t
      BY <1>7, <3>1
    <3>2. CASE u # t
      <4>1. PICK x \in Range(Parts(t)) : InTree(x, u)
        BY <2>3, <3>2, TreeSplits
      <4> QED
        BY <2>1, <4>1 DEF Whole
    <3> QED
      BY <3>1, <3>2
  <2> QED
    BY <2>2, <2>3 DEF Whole
<1>9. ASSUME NEW i \in 1..m + 1, NEW j \in 1..m + 1, i < j, NEW p, NEW q, HasToken(N[i], p), HasToken(N[j], q)
      PROVE  p < q
  <2>1. i \in 1..m /\ N[i] = H[i] /\ J[i] = H[i] /\ i \in 1..m + l
    <3>1. i \in 1..m /\ i \in 1..m + l
      BY <1>0, <1>9
    <3> QED
      BY <1>1, <1>2, <3>1
  <2>2. CASE j = m + 1
    <3>1. HasToken(t, q)
      BY <1>2, <1>9, <2>2
    <3>2. PICK k \in 1..l : HasToken(P[k], q)
      BY <1>6, <3>1
    <3>3. i < m + k /\ m + k \in 1..m + l /\ J[m + k] = P[k]
      BY <1>0, <1>1, <2>1
    <3> QED
      BY <1>4, <1>9, <2>1, <3>2, <3>3
  <2>3. CASE j # m + 1
    <3>1. j \in 1..m /\ j \in 1..m + l
      BY <1>0, <2>3
    <3>2. N[j] = H[j] /\ J[j] = H[j]
      BY <1>1, <1>2, <3>1
    <3> QED
      BY <1>4, <1>9, <2>1, <3>1, <3>2
  <2> QED
    BY <2>2, <2>3
<1>10. ASSUME NEW i \in 1..m + 1 PROVE Whole(N[i], h + 1) /\ \A p : HasToken(N[i], p) => p \in 1..s
  <2>1. CASE i = m + 1
    <3>1. ASSUME NEW p, HasToken(t, p) PROVE p \in 1..s
      <4>1. PICK k \in 1..l : HasToken(P[k], p)
        BY <1>6, <3>1
      <4> QED
        BY <1>1, <1>4, <1>5, <4>1
    <3> QED
      BY <1>2, <1>8, <2>1, <3>1
  <2>2. CASE i # m + 1
    <3>1. i \in 1..m /\ i \in 1..m + l
      BY <1>0, <2>2
    <3> QED
      BY <1>1, <1>2, <1>4, <3>1
  <2> QED
    BY <2>1, <2>2
<1>11. ASSUME NEW p \in 1..s, text[p] \notin Dropped PROVE \E i \in 1..m + 1 : HasToken(N[i], p)
  <2>1. PICK k \in 1..m + l : HasToken(J[k], p)
    BY <1>4, <1>11
  <2>2. CASE k <= m
    <3>1. k \in 1..m /\ k \in 1..m + 1
      BY <2>2
    <3> QED
      BY <1>1, <1>2, <2>1, <3>1
  <2>3. CASE k > m
    <3>1. k - m \in 1..l /\ m + (k - m) = k
      BY <1>0, <2>3
    <3>2. HasToken(P[k - m], p)
      BY <1>1, <2>1, <3>1
    <3>3. HasToken(N[m + 1], p) /\ m + 1 \in 1..m + 1
      BY <1>2, <1>6, <3>1, <3>2
    <3> QED
      BY <3>3
  <2> QED
    BY <2>2, <2>3
<1>12. Sorted(N)
  BY <1>2, <1>9 DEF Sorted
<1>13. Arranged(N, text, s, h + 1)
  BY <1>2, <1>10, <1>11, <1>12 DEF Arranged
<1> QED
  BY <1>13 DEF N

-----------------------------------------------------------------------------
(* Sequences joined to one: every element comes from a place in a piece,   *)
(* and the places follow each other.                                       *)
LEMMA Concatenated ==
  ASSUME NEW s, IsSeq(s), NEW t, IsSeq(t)
  PROVE  /\ IsSeq(s \o t) /\ Len(s \o t) = Len(s) + Len(t)
         /\ \A i \in 1..Len(s) : (s \o t)[i] = s[i]
         /\ \A i \in Len(s) + 1..Len(s) + Len(t) : (s \o t)[i] = t[i - Len(s)]
<1> DEFINE R == {s[i] : i \in DOMAIN s} \cup {t[i] : i \in DOMAIN t}
<1>1. s \in Seq(R) /\ t \in Seq(R)
  BY DEF IsSeq
<1> HIDE DEF R
<1>2. s \o t \in Seq(R)
  BY <1>1, ConcatProperties
<1>3. Len(s \o t) = Len(s) + Len(t)
  BY <1>1, ConcatProperties
<1>4. ASSUME NEW i \in 1..Len(s) PROVE (s \o t)[i] = s[i]
  BY <1>1
<1>5. ASSUME NEW i \in Len(s) + 1..Len(s) + Len(t) PROVE (s \o t)[i] = t[i - Len(s)]
  BY <1>1
<1> QED
  BY <1>2, <1>3, <1>4, <1>5, OwnSeq

From(Q, ss, k, a, w) ==
  /\ \A q \in 1..Len(Q) : a[q] \in 1..k /\ w[q] \in 1..Len(ss[a[q]]) /\ Q[q] = ss[a[q]][w[q]]
  /\ \A q, r \in 1..Len(Q) : q < r => a[q] < a[r] \/ (a[q] = a[r] /\ w[q] < w[r])
  /\ \A i \in 1..k : \A j \in 1..Len(ss[i]) : \E q \in 1..Len(Q) : a[q] = i /\ w[q] = j
Collected(Q, ss, k) == IsSeq(Q) /\ \E a, w : From(Q, ss, k, a, w)

(* One more piece.                                                         *)
LEMMA CollectMore ==
  ASSUME NEW ss, NEW k \in Nat, k # 0, NEW Q, Collected(Q, ss, k - 1), IsSeq(ss[k])
  PROVE  Collected(Q \o ss[k], ss, k)
<1> DEFINE l == Len(Q)  e == Len(ss[k])  N == Q \o ss[k]
<1>1. PICK a, w : From(Q, ss, k - 1, a, w)
  BY DEF Collected
<1>2. l \in Nat /\ e \in Nat /\ IsSeq(Q)
  BY SeqShape DEF Collected
<1>3. /\ IsSeq(N) /\ Len(N) = l + e
      /\ \A q \in 1..l : N[q] = Q[q]
      /\ \A q \in l + 1..l + e : N[q] = ss[k][q - l]
  BY <1>2, Concatenated
<1> DEFINE b == [q \in 1..l + e |-> IF q <= l THEN a[q] ELSE k]
           v == [q \in 1..l + e |-> IF q <= l THEN w[q] ELSE q - l]
<1>4. ASSUME NEW q \in 1..l + e
      PROVE  /\ q <= l => q \in 1..l /\ b[q] = a[q] /\ v[q] = w[q] /\ N[q] = Q[q]
             /\ q > l => q - l \in 1..e /\ b[q] = k /\ v[q] = q - l /\ N[q] = ss[k][q - l]
  <2>1. ASSUME q <= l PROVE q \in 1..l /\ b[q] = a[q] /\ v[q] = w[q]
    BY <1>2, <2>1
  <2>2. ASSUME q > l PROVE q - l \in 1..e /\ q \in l + 1..l + e /\ b[q] = k /\ v[q] = q - l
    BY <1>2, <2>2
  <2> HIDE DEF N, b, v
  <2> QED
    BY <1>3, <2>1, <2>2
<1> HIDE DEF b, v, N
<1>5. ASSUME NEW q \in 1..l + e
      PROVE  b[q] \in 1..k /\ v[q] \in 1..Len(ss[b[q]]) /\ N[q] = ss[b[q]][v[q]]
  <2>1. CASE q <= l
    <3>1. q \in 1..l /\ b[q] = a[q] /\ v[q] = w[q] /\ N[q] = Q[q]
      BY <1>4, <2>1
    <3>2. a[q] \in 1..k - 1 /\ w[q] \in 1..Len(ss[a[q]]) /\ Q[q] = ss[a[q]][w[q]]
      BY <1>1, <3>1 DEF From
    <3>3. a[q] \in 1..k
      BY <3>2
    <3> QED
      BY <3>1, <3>2, <3>3
  <2>2. CASE q > l
    <3>1. q - l \in 1..e /\ b[q] = k /\ v[q] = q - l /\ N[q] = ss[k][q - l]
      BY <1>4, <2>2
    <3>2. k \in 1..k
      OBVIOUS
    <3> QED
      BY <3>1, <3>2
  <2> QED
    BY <1>2, <2>1, <2>2
<1>6. ASSUME NEW q \in 1..l + e, NEW r \in 1..l + e, q < r
      PROVE  b[q] < b[r] \/ (b[q] = b[r] /\ v[q] < v[r])
  <2>1. CASE r <= l
    <3>1. /\ q \in 1..l /\ r \in 1..l /\ b[q] = a[q] /\ v[q] = w[q] /\ b[r] = a[r] /\ v[r] = w[r]
      <4>1. q <= l
        BY <1>2, <1>6, <2>1
      <4> QED
        BY <1>4, <2>1, <4>1
    <3> QED
      BY <1>1, <1>6, <3>1 DEF From
  <2>2. CASE r > l /\ q <= l
    <3>1. q \in 1..l /\ b[q] = a[q] /\ b[r] = k
      BY <1>4, <2>2
    <3>2. a[q] \in 1..k - 1
      BY <1>1, <3>1 DEF From
    <3> QED
      BY <3>1, <3>2
  <2>3. CASE r > l /\ q > l
    <3>1. b[q] = k /\ b[r] = k /\ v[q] = q - l /\ v[r] = r - l
      BY <1>4, <2>3
    <3> QED
      BY <1>2, <1>6, <3>1
  <2> QED
    BY <1>2, <2>1, <2>2, <2>3
<1>7. ASSUME NEW i \in 1..k, NEW j \in 1..Len(ss[i])
      PROVE  \E q \in 1..l + e : b[q] = i /\ v[q] = j
  <2>1. CASE i = k
    <3>1. j \in 1..e
      BY <2>1
    <3>2. l + j \in 1..l + e /\ l + j > l /\ (l + j) - l = j
      BY <1>2, <3>1
    <3>3. b[l + j] = k /\ v[l + j] = (l + j) - l
      BY <1>4, <3>2
    <3> QED
      BY <2>1, <3>2, <3>3
  <2>2. CASE i # k
    <3>1. i \in 1..k - 1
      BY <2>2
    <3>2. PICK q \in 1..l : a[q] = i /\ w[q] = j
      BY <1>1, <3>1 DEF From
    <3>3. q \in 1..l + e /\ q <= l
      BY <1>2
    <3>4. b[q] = a[q] /\ v[q] = w[q]
      BY <1>4, <3>3
    <3> QED
      BY <3>2, <3>3, <3>4
  <2> QED
    BY <2>1, <2>2
<1>8. From(N, ss, k, b, v)
  <2> HIDE DEF l, e
  <2> QED
    BY <1>3, <1>5, <1>6, <1>7 DEF From
<1> QED
  BY <1>3, <1>8 DEF Collected, N

(* The recursion of FlattenSeq has a solution on every sequence.           *)
Flattens(g, ss, n) == g = [i \in 1..n |-> IF i = 1 THEN ss[i] ELSE g[i-1] \o ss[i]]

(* There is one for every length.                                          *)
LEMMA FlattenExists ==
  ASSUME NEW ss, NEW n \in Nat
  PROVE  \E g : Flattens(g, ss, n)
<1> DEFINE Bad == {k \in Nat : ~\E g : Flattens(g, ss, k)}
<1> SUFFICES ASSUME Bad # {} PROVE FALSE
  OBVIOUS
<1>1. PICK k \in Bad : \A j \in Bad : k <= j
  <2>1. Bad \in SUBSET Nat
    OBVIOUS
  <2> HIDE DEF Bad
  <2> QED
    BY <2>1, Least
<1>2. k \in Nat /\ ~\E g : Flattens(g, ss, k)
  BY <1>1
<1>3. k # 0
  <2>1. Flattens([i \in 1..0 |-> <<>>], ss, 0)
    BY DEF Flattens
  <2> QED
    BY <1>2, <2>1
<1>4. k - 1 \in Nat /\ ~(k <= k - 1)
  BY <1>2, <1>3
<1>5. PICK g : Flattens(g, ss, k - 1)
  BY <1>1, <1>4
<1> DEFINE h == [i \in 1..k |-> IF i = k THEN (IF k = 1 THEN ss[k] ELSE g[k - 1] \o ss[k]) ELSE g[i]]
<1>6. ASSUME NEW i \in 1..k - 1 PROVE h[i] = g[i] /\ g[i] = IF i = 1 THEN ss[i] ELSE g[i - 1] \o ss[i]
  <2>1. i \in 1..k /\ i # k
    BY <1>2
  <2>2. h[i] = g[i]
    BY <2>1
  <2> HIDE DEF h
  <2>3. g[i] = IF i = 1 THEN ss[i] ELSE g[i - 1] \o ss[i]
    BY <1>5 DEF Flattens
  <2> QED
    BY <2>2, <2>3
<1>7. ASSUME NEW i \in 1..k PROVE h[i] = IF i = 1 THEN ss[i] ELSE h[i - 1] \o ss[i]
  <2>1. CASE i = k
    <3>1. h[k] = IF k = 1 THEN ss[k] ELSE g[k - 1] \o ss[k]
      BY <1>2, <1>3
    <3>2. k # 1 => k - 1 \in 1..k - 1
      BY <1>2, <1>3
    <3> HIDE DEF h
    <3>3. k # 1 => h[k - 1] = g[k - 1]
      BY <1>6, <3>2
    <3> QED
      BY <2>1, <3>1, <3>3
  <2>2. CASE i # k
    <3>1. i \in 1..k - 1 /\ (i # 1 => i - 1 \in 1..k - 1)
      BY <1>2, <2>2
    <3> HIDE DEF h
    <3> QED
      BY <1>6, <3>1
  <2> QED
    BY <2>1, <2>2
<1>8. h = [i \in 1..k |-> h[i]]
  OBVIOUS
<1> HIDE DEF h
<1>9. Flattens(h, ss, k)
  BY <1>7, <1>8 DEF Flattens
<1> QED
  BY <1>2, <1>9

(* FlattenSeq joins the pieces of a sequence, one after the other.         *)
LEMMA FlattenCollects ==
  ASSUME NEW ss, IsSeq(ss), \A i \in 1..Len(ss) : IsSeq(ss[i])
  PROVE  Collected(FlattenSeq(ss), ss, Len(ss))
<1> DEFINE n == Len(ss)
<1>0. n \in Nat
  BY SeqShape
<1>a. IsSeq(<<>>) /\ Len(<<>>) = 0
  BY EmptySeq, OwnSeq
<1>b. Collected(<<>>, ss, 0)
  <2>1. 1..0 = {}
    OBVIOUS
  <2>2. From(<<>>, ss, 0, <<>>, <<>>)
    BY <1>a, <2>1 DEF From
  <2> QED
    BY <1>a, <2>2 DEF Collected
<1>1. CASE n = 0
  <2>1. FlattenSeq(ss) = <<>>
    BY <1>1, SeqShape DEF FlattenSeq
  <2> QED
    BY <1>1, <1>b, <2>1
<1>2. CASE n # 0
  <2> DEFINE g == CHOOSE g : Flattens(g, ss, Len(ss))
  <2>1. Flattens(g, ss, Len(ss))
    BY <1>0, FlattenExists
  <2>2. FlattenSeq(ss) = g[Len(ss)]
    BY <1>2 DEF FlattenSeq, Flattens
  <2> HIDE DEF g
  <2>3. \A k \in 1..n : g[k] = IF k = 1 THEN ss[k] ELSE g[k - 1] \o ss[k]
    BY <2>1 DEF Flattens
  <2> DEFINE Bad == {k \in Nat : k \in 1..n /\ ~Collected(g[k], ss, k)}
  <2>4. Bad = {}
    <3> SUFFICES ASSUME Bad # {} PROVE FALSE
      OBVIOUS
    <3>1. PICK k \in Bad : \A j \in Bad : k <= j
      <4>1. Bad \in SUBSET Nat
        OBVIOUS
      <4> HIDE DEF Bad
      <4> QED
        BY <4>1, Least
    <3>2. k \in Nat /\ k # 0 /\ k \in 1..n /\ ~Collected(g[k], ss, k) /\ IsSeq(ss[k])
      BY <3>1
    <3>3. CASE k = 1
      <4>1. g[k] = <<>> \o ss[k]
        <5>1. ss[k] \in Seq({ss[k][i] : i \in DOMAIN ss[k]})
          BY <3>2 DEF IsSeq
        <5> QED
          BY <2>3, <3>2, <3>3, <5>1, ConcatEmptySeq
      <4>2. Collected(<<>>, ss, k - 1)
        <5>1. k - 1 = 0
          BY <3>3
        <5> QED
          BY <1>b, <5>1
      <4> QED
        BY <3>2, <4>1, <4>2, CollectMore
    <3>4. CASE k # 1
      <4>1. k - 1 \in Nat /\ k - 1 \in 1..n /\ ~(k <= k - 1)
        BY <1>0, <3>2, <3>4
      <4>2. Collected(g[k - 1], ss, k - 1)
        BY <3>1, <4>1
      <4>3. g[k] = g[k - 1] \o ss[k]
        BY <2>3, <3>2, <3>4
      <4> QED
        BY <3>2, <4>2, <4>3, CollectMore
    <3> QED
      BY <3>3, <3>4
  <2>5. n \in Nat /\ n \in 1..n
    BY <1>0, <1>2
  <2>6. Collected(g[n], ss, n)
    <3>1. n \notin Bad
      <4> HIDE DEF Bad
      <4> QED
        BY <2>4
    <3> QED
      BY <2>5, <3>1
  <2> QED
    BY <2>2, <2>6
<1> QED
  BY <1>1, <1>2

-----------------------------------------------------------------------------
(* What an action makes.                                                   *)
(*                                                                         *)
(* A term opened: what takes its place holds its tokens, in their order.   *)
Opening(E, x, h) ==
  /\ IsSeq(E)
  /\ \A i \in 1..Len(E) : Fits(E[i], x, h)
  /\ \A i, j \in 1..Len(E) : i < j => \A p, q : HasToken(E[i], p) /\ HasToken(E[j], q) => p < q
  /\ \A p : HasToken(x, p) => \E i \in 1..Len(E) : HasToken(E[i], p)

(* A sequence of one.                                                      *)
LEMMA Single ==
  ASSUME NEW x
  PROVE  IsSeq(<<x>>) /\ Len(<<x>>) = 1 /\ <<x>>[1] = x /\ 1 \in 1..1
<1>1. <<x>> \in Seq({x}) /\ Len(<<x>>) = 1 /\ <<x>>[1] = x /\ 1 \in 1..1
  OBVIOUS
<1> QED
  BY <1>1, OwnSeq

(* A term is replaced by one with the same tokens.                         *)
LEMMA OpenedAsOne ==
  ASSUME NEW x, NEW h, NEW y, Whole(y, h), \A p : HasToken(x, p) <=> HasToken(y, p)
  PROVE  Opening(<<y>>, x, h)
<1>1. IsSeq(<<y>>) /\ Len(<<y>>) = 1 /\ <<y>>[1] = y
  BY Single
<1>2. \A i \in 1..1 : i = 1
  OBVIOUS
<1>3. \A i, j \in 1..1 : ~(i < j)
  OBVIOUS
<1>4. 1 \in 1..1
  OBVIOUS
<1>5. Fits(y, x, h)
  BY DEF Fits
<1> QED
  BY <1>1, <1>2, <1>3, <1>4, <1>5 DEF Opening

(* A node, a list or a null pointer is replaced by its parts.              *)
LEMMA OpenedAsParts ==
  ASSUME NEW x, NEW h \in Nat, Whole(x, h), x.kind \notin Tokenlike
  PROVE  Opening(Parts(x), x, h)
<1> DEFINE E == Parts(x)
<1>1. Sorted(E)
  BY TreeItself DEF Whole
<1>2. IsSeq(E) /\ DOMAIN E = 1..Len(E) /\ Range(E) = {E[i] : i \in 1..Len(E)}
  BY <1>1, SeqShape DEF Sorted, Range
<1>3. \A p : HasToken(x, p) <=> \E y \in Range(E) : HasToken(y, p)
  BY TokensOfNode
<1>4. ASSUME NEW y \in Range(E) PROVE Fits(y, x, h)
  <2>1. InTree(x, y)
    BY TreeOfPart, TreeItself
  <2>2. Shallow(y, h)
    BY <2>1, ShallowInside DEF Whole
  <2>3. \A u : InTree(y, u) => Sorted(Parts(u))
    BY TreeOfPart DEF Whole
  <2> QED
    BY <1>3, <2>2, <2>3 DEF Fits, Whole
<1> HIDE DEF E
<1>5. \A i \in 1..Len(E) : Fits(E[i], x, h)
  BY <1>2, <1>4
<1>6. \A i, j \in 1..Len(E) : i < j => \A p, q : HasToken(E[i], p) /\ HasToken(E[j], q) => p < q
  BY <1>1, <1>2 DEF Sorted
<1>7. \A p : HasToken(x, p) => \E i \in 1..Len(E) : HasToken(E[i], p)
  BY <1>2, <1>3
<1>8. Opening(E, x, h)
  BY <1>2, <1>5, <1>6, <1>7 DEF Opening
<1> QED
  BY <1>8 DEF E

(* A term without parts.                                                   *)
LEMMA WholeLeaf ==
  ASSUME NEW t, Parts(t) = <<>>, NEW h \in Nat, h # 0
  PROVE  Whole(t, h)
<1>1. Range(Parts(t)) = {}
  BY DEF Range
<1>2. \A u : InTree(t, u) => u = t
  BY <1>1, TreeSplits
<1>3. Sorted(Parts(t))
  <2>1. IsSeq(<<>>) /\ Len(<<>>) = 0
    BY EmptySeq, OwnSeq
  <2>2. DOMAIN <<>> = 1..0 /\ 1..0 = {}
    BY <2>1, SeqShape
  <2> QED
    BY <2>1, <2>2 DEF Sorted
<1>4. Shallow(t, h)
  <2>1. Shallow(t, 1)
    BY <1>1, OneStep DEF Shallow
  <2>2. 1 \in Nat /\ 1 <= h
    OBVIOUS
  <2> QED
    BY <2>1, <2>2, ShallowStays
<1> QED
  BY <1>2, <1>3, <1>4 DEF Whole

(* The elements one by one.                                                *)
LEMMA CollectOnes ==
  ASSUME NEW P, IsSeq(P), NEW ss, \A i \in 1..Len(P) : ss[i] = <<P[i]>>
  PROVE  Collected(P, ss, Len(P))
<1> DEFINE n == Len(P)
           a == [q \in 1..n |-> q]
           w == [q \in 1..n |-> 1]
<1>0. n \in Nat
  BY SeqShape
<1>1. ASSUME NEW q \in 1..n PROVE a[q] \in 1..n /\ w[q] \in 1..Len(ss[a[q]]) /\ P[q] = ss[a[q]][w[q]]
  <2>1. a[q] = q /\ w[q] = 1
    OBVIOUS
  <2>2. Len(ss[q]) = 1 /\ ss[q][1] = P[q] /\ 1 \in 1..1
    BY Single
  <2> HIDE DEF a, w
  <2> QED
    BY <2>1, <2>2
<1>2. \A q, r \in 1..n : q < r => a[q] < a[r]
  OBVIOUS
<1>3. ASSUME NEW i \in 1..n, NEW j \in 1..Len(ss[i]) PROVE a[i] = i /\ w[i] = j
  <2>1. Len(ss[i]) = 1
    BY Single
  <2> QED
    BY <2>1
<1>4. From(P, ss, n, a, w)
  <2> HIDE DEF a, w
  <2> QED
    BY <1>1, <1>2, <1>3 DEF From
<1> QED
  BY <1>4 DEF Collected

(* Some of the last terms of a sequence, opened one after the other, stand *)
(* for all of them when the others hold no token that is kept.             *)
LEMMA Reopened ==
  ASSUME NEW H, NEW text, NEW s \in Nat, NEW h \in Nat, Arranged(H, text, s, h),
         NEW m \in 0..Len(H), NEW n \in Nat, NEW at,
         \A i \in 1..n : at[i] \in m + 1..Len(H),
         \A i, j \in 1..n : i < j => at[i] < at[j],
         \A k \in m + 1..Len(H), p \in 1..s : HasToken(H[k], p) /\ text[p] \notin Dropped =>
            \E i \in 1..n : at[i] = k,
         NEW ss, \A i \in 1..n : Opening(ss[i], H[at[i]], h),
         NEW P, Collected(P, ss, n)
  PROVE  Arranged(Joined(H, m, P), text, s, h)
<1>1. IsSeq(P) /\ \E a, w : From(P, ss, n, a, w)
  BY DEF Collected
<1>2. PICK a, w : From(P, ss, n, a, w)
  BY <1>1
<1> DEFINE l == Len(P)  f == [q \in 1..l |-> at[a[q]]]
<1>3. /\ \A q \in 1..l : a[q] \in 1..n /\ w[q] \in 1..Len(ss[a[q]]) /\ P[q] = ss[a[q]][w[q]]
      /\ \A q, r \in 1..l : q < r => a[q] < a[r] \/ (a[q] = a[r] /\ w[q] < w[r])
      /\ \A i \in 1..n : \A j \in 1..Len(ss[i]) : \E q \in 1..l : a[q] = i /\ w[q] = j
  BY <1>2 DEF From
<1>4. \A q \in 1..l : f[q] = at[a[q]]
  OBVIOUS
<1> HIDE DEF f, l
<1>5. ASSUME NEW q \in 1..l PROVE f[q] \in m + 1..Len(H) /\ Fits(P[q], H[f[q]], h)
  <2>1. a[q] \in 1..n /\ w[q] \in 1..Len(ss[a[q]]) /\ P[q] = ss[a[q]][w[q]] /\ f[q] = at[a[q]]
    BY <1>3, <1>4
  <2>2. Opening(ss[a[q]], H[at[a[q]]], h)
    BY <2>1
  <2>3. Fits(ss[a[q]][w[q]], H[at[a[q]]], h)
    BY <2>1, <2>2 DEF Opening
  <2> QED
    BY <2>1, <2>3
<1>6. ASSUME NEW q \in 1..l, NEW r \in 1..l, q < r
      PROVE  \/ f[q] < f[r]
             \/ f[q] = f[r] /\ \A c, d : HasToken(P[q], c) /\ HasToken(P[r], d) => c < d
  <2>1. /\ a[q] \in 1..n /\ w[q] \in 1..Len(ss[a[q]]) /\ P[q] = ss[a[q]][w[q]] /\ f[q] = at[a[q]]
        /\ a[r] \in 1..n /\ w[r] \in 1..Len(ss[a[r]]) /\ P[r] = ss[a[r]][w[r]] /\ f[r] = at[a[r]]
    BY <1>3, <1>4
  <2>2. a[q] < a[r] \/ (a[q] = a[r] /\ w[q] < w[r])
    BY <1>3, <1>6
  <2>3. CASE a[q] < a[r]
    BY <2>1, <2>3
  <2>4. CASE a[q] = a[r] /\ w[q] < w[r]
    <3>1. Opening(ss[a[q]], H[at[a[q]]], h)
      BY <2>1
    <3>2. PICK E : E = ss[a[q]]
      OBVIOUS
    <3>3. w[q] \in 1..Len(E) /\ w[r] \in 1..Len(E) /\ P[q] = E[w[q]] /\ P[r] = E[w[r]]
      BY <2>1, <2>4, <3>2
    <3>4. \A i, j \in 1..Len(E) : i < j => \A c, d : HasToken(E[i], c) /\ HasToken(E[j], d) => c < d
      BY <3>1, <3>2 DEF Opening
    <3>5. \A c, d : HasToken(E[w[q]], c) /\ HasToken(E[w[r]], d) => c < d
      BY <2>4, <3>3, <3>4
    <3> QED
      BY <2>1, <2>4, <3>3, <3>5
  <2> QED
    BY <2>2, <2>3, <2>4
<1>7. ASSUME NEW k \in m + 1..Len(H), NEW p \in 1..s, HasToken(H[k], p), text[p] \notin Dropped
      PROVE  \E q \in 1..l : HasToken(P[q], p)
  <2>1. PICK i \in 1..n : at[i] = k
    BY <1>7
  <2>2. Opening(ss[i], H[k], h)
    BY <2>1
  <2>3. PICK j \in 1..Len(ss[i]) : HasToken(ss[i][j], p)
    BY <1>7, <2>2 DEF Opening
  <2>4. PICK q \in 1..l : a[q] = i /\ w[q] = j
    BY <1>3
  <2> QED
    BY <1>3, <2>3, <2>4
<1> QED
  BY <1>1, <1>5, <1>6, <1>7, Spliced DEF l

(* The children of a rule, as the last terms of a sequence.                *)
Standing(child, H, m, rule, text) ==
  /\ Len(H) = m + Len(rule.rhs) /\ DOMAIN child = 1..Len(rule.rhs)
  /\ \A k \in 1..Len(rule.rhs) :
       /\ Holds(child[k], rule.act.takes[k]) /\ child[k].term = H[m + k]
       /\ rule.rhs[k] \in Terminals =>
            \E at \in 1..Len(text) : child[k].term = Leaf(at) /\ text[at] = rule.rhs[k]

(* What an action takes from the children it keeps (the parts of           *)
(* applyAction).                                                           *)
Taken(act, child) == [i \in DOMAIN act.keeps |-> TakeFrom(child[act.keeps[i]], act.takes[act.keeps[i]])]

(* There is one for each child that is kept: what the child holds.         *)
LEMMA TakenShape ==
  ASSUME NEW r \in DOMAIN GrammarRules, NEW rule, rule = GrammarRules[r],
         NEW child, NEW H, NEW m \in Nat, NEW text, Standing(child, H, m, rule, text)
  PROVE  /\ IsSeq(Taken(rule.act, child)) /\ Len(Taken(rule.act, child)) = Len(rule.act.keeps)
         /\ Len(rule.act.keeps) \in Nat /\ DOMAIN rule.act.keeps = 1..Len(rule.act.keeps)
         /\ Len(rule.rhs) \in Nat /\ DOMAIN rule.rhs = 1..Len(rule.rhs)
         /\ \A i \in 1..Len(rule.act.keeps) :
              /\ rule.act.keeps[i] \in 1..Len(rule.rhs)
              /\ Taken(rule.act, child)[i] = child[rule.act.keeps[i]].term
<1> DEFINE keeps == rule.act.keeps  K == Taken(rule.act, child)  e == Len(keeps)
<1>1. KeepsAgree(rule)
  BY ActionsAssumption
<1>2. Len(rule.rhs) \in Nat /\ DOMAIN rule.rhs = 1..Len(rule.rhs)
  BY GrammarAssumption, LenProperties
<1>3. keeps \in Seq(DOMAIN rule.rhs)
  BY <1>1 DEF KeepsAgree
<1>4. e \in Nat /\ DOMAIN keeps = 1..e /\ \A i \in 1..e : keeps[i] \in 1..Len(rule.rhs)
  BY <1>2, <1>3, LenProperties
<1>5. K = [i \in 1..e |-> K[i]]
  BY <1>4 DEF Taken
<1>6. ASSUME NEW i \in 1..e PROVE K[i] = child[keeps[i]].term
  <2>1. K[i] = TakeFrom(child[keeps[i]], rule.act.takes[keeps[i]])
    BY <1>4 DEF Taken
  <2>2. Holds(child[keeps[i]], rule.act.takes[keeps[i]])
    BY <1>4 DEF Standing
  <2> QED
    BY <2>1, <2>2 DEF TakeFrom
<1> HIDE DEF K
<1>7. IsSeq(K) /\ Len(K) = e
  BY <1>4, <1>5, FunctionIsSeq
<1> QED
  BY <1>2, <1>4, <1>6, <1>7 DEF K

(* What an action takes, opened, stands for all the children: the others   *)
(* are tokens of which the AST has no trace.                               *)
LEMMA KeptInOrder ==
  ASSUME NEW r \in DOMAIN GrammarRules, NEW rule, rule = GrammarRules[r],
         NEW text, NEW s \in Nat, NEW h \in Nat, NEW H, Arranged(H, text, s, h),
         NEW child, NEW m \in Nat, Standing(child, H, m, rule, text),
         NEW ss, \A i \in 1..Len(rule.act.keeps) : Opening(ss[i], Taken(rule.act, child)[i], h),
         NEW P, Collected(P, ss, Len(rule.act.keeps))
  PROVE  Arranged(Joined(H, m, P), text, s, h)
<1> DEFINE keeps == rule.act.keeps  K == Taken(rule.act, child)  e == Len(keeps)  l == Len(rule.rhs)
           at == [i \in 1..e |-> m + keeps[i]]
<1>1. /\ e \in Nat /\ l \in Nat /\ DOMAIN keeps = 1..e /\ DOMAIN rule.rhs = 1..l
      /\ \A i \in 1..e : keeps[i] \in 1..l /\ K[i] = child[keeps[i]].term
  BY TakenShape
<1>2. /\ Len(H) = m + l
      /\ \A k \in 1..l : child[k].term = H[m + k]
      /\ \A k \in 1..l : rule.rhs[k] \in Terminals =>
           \E p \in 1..Len(text) : child[k].term = Leaf(p) /\ text[p] = rule.rhs[k]
  BY DEF Standing
<1>3. /\ \A i, j \in 1..e : i < j => keeps[i] < keeps[j]
      /\ \A k \in 1..l \ Range(keeps) : rule.rhs[k] \in Terminals \cap Dropped
  <2>1. KeepsAgree(rule)
    BY ActionsAssumption
  <2> QED
    BY <1>1, <2>1 DEF KeepsAgree
<1>4. ASSUME NEW i \in 1..e PROVE at[i] = m + keeps[i] /\ at[i] \in m + 1..Len(H) /\ K[i] = H[at[i]]
  <2>1. at[i] = m + keeps[i] /\ keeps[i] \in 1..l
    BY <1>1
  <2>2. at[i] \in m + 1..Len(H)
    BY <1>1, <1>2, <2>1
  <2> QED
    BY <1>1, <1>2, <2>1, <2>2
<1> HIDE DEF at
<1>5. ASSUME NEW i \in 1..e, NEW j \in 1..e, i < j PROVE at[i] < at[j]
  <2>1. keeps[i] \in 1..l /\ keeps[j] \in 1..l /\ keeps[i] < keeps[j]
    BY <1>1, <1>3, <1>5
  <2> QED
    BY <1>4, <2>1
<1>6. ASSUME NEW k \in m + 1..Len(H), NEW p \in 1..s, HasToken(H[k], p), text[p] \notin Dropped
      PROVE  \E i \in 1..e : at[i] = k
  <2>1. k - m \in 1..l /\ m + (k - m) = k
    BY <1>1, <1>2
  <2>2. CASE k - m \in Range(keeps)
    <3>1. PICK i \in 1..e : keeps[i] = k - m
      BY <1>1, <2>2 DEF Range
    <3> QED
      BY <1>4, <2>1, <3>1
  <2>3. CASE k - m \notin Range(keeps)
    <3>1. rule.rhs[k - m] \in Terminals /\ rule.rhs[k - m] \in Dropped
      BY <1>3, <2>1, <2>3
    <3>2. PICK q \in 1..Len(text) : child[k - m].term = Leaf(q) /\ text[q] = rule.rhs[k - m]
      BY <1>2, <2>1, <3>1
    <3>3. H[k] = Leaf(q)
      <4>1. child[k - m].term = H[m + (k - m)]
        BY <1>2, <2>1
      <4> QED
        BY <2>1, <3>2, <4>1
    <3>4. Parts(Leaf(q)) = <<>> /\ Leaf(q).at = q
      BY DEF Parts, Leaf
    <3>5. HasToken(Leaf(q), p)
      BY <1>6, <3>3
    <3>6. p = q
      BY <3>4, <3>5, TokensOfLeaf
    <3> QED
      BY <1>6, <3>1, <3>2, <3>6
  <2> QED
    BY <2>2, <2>3
<1>7. \A i \in 1..e : Opening(ss[i], H[at[i]], h)
  BY <1>4
<1>8. m \in 0..Len(H)
  BY <1>1, <1>2
<1> HIDE DEF e
<1>9. Collected(P, ss, e)
  BY DEF e
<1> QED
  BY <1>1, <1>4, <1>5, <1>6, <1>7, <1>8, <1>9, Reopened

(* A term built of what was taken and opened takes the place of the        *)
(* children.                                                               *)
LEMMA BuiltInOrder ==
  ASSUME NEW r \in DOMAIN GrammarRules, NEW rule, rule = GrammarRules[r],
         NEW text, NEW s \in Nat, NEW h \in Nat, NEW H, Arranged(H, text, s, h),
         NEW child, NEW m \in Nat, Standing(child, H, m, rule, text),
         NEW ss, \A i \in 1..Len(rule.act.keeps) : Opening(ss[i], Taken(rule.act, child)[i], h),
         NEW P, Collected(P, ss, Len(rule.act.keeps)),
         NEW t, t.kind \notin Tokenlike, Parts(t) = P
  PROVE  Arranged(Joined(H, m, <<t>>), text, s, h + 1)
<1>1. Arranged(Joined(H, m, P), text, s, h)
  BY KeptInOrder
<1>2. IsSeq(P)
  BY DEF Collected
<1> QED
  BY <1>1, <1>2, Gathering

(* Append joins a sequence of one.                                         *)
LEMMA AppendedIsJoined ==
  ASSUME NEW s, IsSeq(s), NEW x
  PROVE  Append(s, x) = s \o <<x>>
<1> DEFINE R == {s[i] : i \in DOMAIN s} \cup {x}
<1>1. s \in Seq(R) /\ x \in R
  BY DEF IsSeq
<1> HIDE DEF R
<1> QED
  BY <1>1, AppendIsConcat

(* Two sequences of one.                                                   *)
LEMMA TwoJoined ==
  ASSUME NEW x, NEW y
  PROVE  <<x>> \o <<y>> = <<x, y>>
<1> DEFINE J == <<x>> \o <<y>>  T == <<x, y>>
<1>1. IsSeq(<<x>>) /\ Len(<<x>>) = 1 /\ <<x>>[1] = x /\ IsSeq(<<y>>) /\ Len(<<y>>) = 1 /\ <<y>>[1] = y
  BY Single
<1>2. /\ IsSeq(J) /\ Len(J) = 1 + 1 /\ (\A i \in 1..1 : J[i] = x)
      /\ \A i \in 1 + 1..1 + 1 : J[i] = <<y>>[i - 1]
  <2>1. \A i \in 1..1 : <<x>>[i] = x
    BY <1>1
  <2> QED
    BY <1>1, <2>1, Concatenated
<1>3. Len(J) = 2 /\ J[1] = x /\ J[2] = y
  <2>1. 1 \in 1..1 /\ 2 \in 1 + 1..1 + 1 /\ 2 - 1 = 1 /\ 1 + 1 = 2
    OBVIOUS
  <2> HIDE DEF J
  <2> QED
    BY <1>1, <1>2, <2>1
<1>4. IsSeq(T) /\ Len(T) = 2 /\ T[1] = x /\ T[2] = y
  <2>1. T \in Seq({x, y}) /\ Len(T) = 2 /\ T[1] = x /\ T[2] = y
    OBVIOUS
  <2> QED
    BY <2>1, OwnSeq
<1> HIDE DEF J, T
<1>5. \A i \in 1..2 : i = 1 \/ i = 2
  OBVIOUS
<1>6. J = T
  BY <1>2, <1>3, <1>4, <1>5, SameSeq
<1> QED
  BY <1>6 DEF J, T

(* What every action makes has the tokens of its children, but for those   *)
(* that leave no trace, in their order (applyAction).                      *)
LEMMA ActionInOrder ==
  ASSUME NEW r \in DOMAIN GrammarRules, NEW rule, rule = GrammarRules[r],
         NEW text, NEW s \in Nat, NEW h \in Nat, h # 0, NEW H, Arranged(H, text, s, h),
         NEW child, NEW m \in Nat, Standing(child, H, m, rule, text), NEW seen
  PROVE  Arranged(Joined(H, m, <<applyAction(rule.act, child, seen).term>>), text, s, h + 1)
<1> DEFINE act == rule.act  K == Taken(act, child)  e == Len(act.keeps)
           made == applyAction(act, child, seen).term
<1>1. /\ IsSeq(K) /\ Len(K) = e /\ e \in Nat /\ DOMAIN act.keeps = 1..e
      /\ \A i \in 1..e : act.keeps[i] \in 1..Len(rule.rhs) /\ K[i] = child[act.keeps[i]].term
  BY TakenShape
<1>2. DOMAIN K = 1..e
  BY <1>1, SeqShape
<1>3. KeepsAgree(rule) /\ OperatorsAgree(rule)
  BY ActionsAssumption, GrammarAssumption
<1>4. act.makes \in {"child", "null", "sum", "list", "node"} /\ e \in Makes[act.makes]
  BY <1>3 DEF KeepsAgree, Makes
<1>5. /\ act.makes = "child" => made = K[1]
      /\ act.makes = "null" => made = Null
      /\ act.makes = "list" => made = ListOf(FlattenSeq([i \in 1..e |-> Elements(K[i])]))
      /\ act.makes = "sum" => made = appendSumVariant(K[1], K[2])
      /\ act.makes = "node" /\ act.node \in DOMAIN OperatorAt => made = Operation(act.node, K, seen)
      /\ act.makes = "node" /\ act.node \notin DOMAIN OperatorAt => made = Node(act.node, K)
  <2> DEFINE term == CASE act.makes = "child" -> K[1]
                       [] act.makes = "null" -> Null
                       [] act.makes = "list" -> ListOf(FlattenSeq([i \in DOMAIN K |-> Elements(K[i])]))
                       [] act.makes = "sum" -> appendSumVariant(K[1], K[2])
                       [] act.makes = "node" /\ act.node \in DOMAIN OperatorAt -> Operation(act.node, K, seen)
                       [] act.makes = "node" /\ act.node \notin DOMAIN OperatorAt -> Node(act.node, K)
  <2>1. applyAction(act, child, seen) = Value(act.gives, term)
    BY DEF applyAction, Taken
  <2>2. \A alternative, t : Value(alternative, t).term = t
    BY DEF Value
  <2>3. made = term
    <3> HIDE DEF term
    <3> QED
      BY <2>1, <2>2
  <2> HIDE DEF made, K
  <2> QED
    BY <1>2, <2>3
<1>6. ASSUME NEW i \in 1..e PROVE Whole(K[i], h)
  <2>1. Len(H) = m + Len(rule.rhs) /\ act.keeps[i] \in 1..Len(rule.rhs) /\ K[i] = H[m + act.keeps[i]]
    BY <1>1 DEF Standing
  <2>2. DOMAIN H = 1..Len(H) /\ Len(rule.rhs) \in Nat
    BY SeqShape, TakenShape DEF Arranged, Sorted
  <2>3. m + act.keeps[i] \in DOMAIN H
    BY <2>1, <2>2
  <2> QED
    BY <2>1, <2>3 DEF Arranged
<1> HIDE DEF K, e, made
<1>7. ASSUME NEW i \in 1..e PROVE Opening(<<K[i]>>, K[i], h)
  BY <1>6, OpenedAsOne
<1>8. ASSUME NEW ss, \A i \in 1..e : Opening(ss[i], K[i], h), NEW P, Collected(P, ss, e)
      PROVE  /\ Arranged(Joined(H, m, P), text, s, h)
             /\ \A t : t.kind \notin Tokenlike /\ Parts(t) = P => Arranged(Joined(H, m, <<t>>), text, s, h + 1)
  <2>1. (\A i \in 1..Len(act.keeps) : Opening(ss[i], Taken(act, child)[i], h)) /\ Collected(P, ss, Len(act.keeps))
    BY <1>8 DEF K, e
  <2> QED
    BY <2>1, KeptInOrder, BuiltInOrder
<1> DEFINE ones == [i \in 1..e |-> <<K[i]>>]
<1>9. Collected(K, ones, e) /\ \A i \in 1..e : Opening(ones[i], K[i], h)
  BY <1>1, <1>7, CollectOnes
<1> HIDE DEF ones
<1>10. CASE act.makes = "child"
  <2>1. e = 1
    BY <1>4, <1>10 DEF Makes
  <2>2. K = <<K[1]>>
    <3>1. IsSeq(<<K[1]>>) /\ Len(<<K[1]>>) = 1 /\ <<K[1]>>[1] = K[1]
      BY Single
    <3>2. Len(K) = 1 /\ \A i \in 1..1 : K[i] = <<K[1]>>[i]
      BY <1>1, <2>1, <3>1
    <3> QED
      BY <1>1, <3>1, <3>2, SameSeq
  <2>3. Arranged(Joined(H, m, K), text, s, h)
    BY <1>8, <1>9
  <2>4. Arranged(Joined(H, m, K), text, s, h + 1)
    BY <2>3, DeeperStill
  <2> QED
    BY <1>5, <1>10, <2>2, <2>4 DEF made
<1>11. CASE act.makes = "null"
  <2>1. e = 0
    BY <1>4, <1>11 DEF Makes
  <2>2. K = <<>>
    BY <1>1, <2>1, SeqShape
  <2>3. Null.kind \notin Tokenlike /\ Parts(Null) = <<>>
    BY DEF Null, Tokenlike, Parts
  <2> QED
    BY <1>5, <1>8, <1>9, <1>11, <2>2, <2>3 DEF made
<1>12. CASE act.makes = "list"
  <2> DEFINE ss == [i \in 1..e |-> Elements(K[i])]
  <2>1. ASSUME NEW i \in 1..e PROVE ss[i] = Elements(K[i]) /\ Opening(Elements(K[i]), K[i], h)
    <3>1. CASE K[i].kind = "list"
      <4>1. Elements(K[i]) = Parts(K[i]) /\ K[i].kind \notin Tokenlike
        BY <3>1 DEF Elements, Parts, Tokenlike
      <4> QED
        BY <1>6, <4>1, OpenedAsParts
    <3>2. CASE K[i].kind # "list"
      <4>1. Elements(K[i]) = <<K[i]>>
        BY <3>2 DEF Elements
      <4> QED
        BY <1>7, <4>1
    <3> QED
      BY <3>1, <3>2
  <2>2. ss = [i \in 1..e |-> ss[i]]
    OBVIOUS
  <2> HIDE DEF ss
  <2>3. IsSeq(ss) /\ Len(ss) = e
    BY <1>1, <2>2, FunctionIsSeq
  <2>4. \A i \in 1..Len(ss) : IsSeq(ss[i])
    BY <2>1, <2>3 DEF Opening
  <2>5. Collected(FlattenSeq(ss), ss, e)
    BY <2>3, <2>4, FlattenCollects
  <2>6. made = ListOf(FlattenSeq(ss))
    BY <1>5, <1>12 DEF ss
  <2>7. made.kind \notin Tokenlike /\ Parts(made) = FlattenSeq(ss)
    BY <2>6 DEF ListOf, Parts, Tokenlike
  <2> QED
    BY <1>8, <2>1, <2>5, <2>7 DEF made
<1>13. CASE act.makes = "sum"
  <2>1. e = 2 /\ 1 \in 1..e /\ 2 \in 1..e
    BY <1>4, <1>13 DEF Makes
  <2>2. \A i \in 1..e : i = 1 \/ i = 2
    BY <2>1
  <2>3. PICK E : /\ Opening(E, K[1], h)
                 /\ made.kind \notin Tokenlike /\ Parts(made) = E \o <<K[2]>>
    <3>1. made = appendSumVariant(K[1], K[2])
      BY <1>5, <1>13
    <3>2. \A P : Parts(Node("TypeSumExpr", P)) = P /\ Node("TypeSumExpr", P).kind \notin Tokenlike
      BY DEF Node, Parts, Tokenlike
    <3>3. CASE K[1] = Null
      <4>1. Parts(K[1]) = <<>> /\ K[1].kind \notin Tokenlike
        BY <3>3 DEF Null, Parts, Tokenlike
      <4>2. Opening(<<>>, K[1], h)
        BY <1>6, <2>1, <4>1, OpenedAsParts
      <4>3. <<>> \o <<K[2]>> = <<K[2]>>
        OBVIOUS
      <4>4. made = Node("TypeSumExpr", <<K[2]>>)
        BY <3>1, <3>3 DEF appendSumVariant
      <4> QED
        BY <3>2, <4>2, <4>3, <4>4
    <3>4. CASE K[1] # Null /\ IsSum(K[1])
      <4>1. K[1].parts = Parts(K[1]) /\ K[1].kind \notin Tokenlike
        BY <3>4 DEF IsSum, Parts, Tokenlike
      <4>2. Opening(K[1].parts, K[1], h)
        BY <1>6, <2>1, <4>1, OpenedAsParts
      <4>3. Append(K[1].parts, K[2]) = K[1].parts \o <<K[2]>>
        <5>1. IsSeq(K[1].parts)
          BY <4>2 DEF Opening
        <5> QED
          BY <5>1, AppendedIsJoined
      <4>4. made = Node("TypeSumExpr", Append(K[1].parts, K[2]))
        BY <3>1, <3>4 DEF appendSumVariant
      <4> QED
        BY <3>2, <4>2, <4>3, <4>4
    <3>5. CASE K[1] # Null /\ ~IsSum(K[1])
      <4>1. <<K[1]>> \o <<K[2]>> = <<K[1], K[2]>>
        BY TwoJoined
      <4>2. made = Node("TypeSumExpr", <<K[1], K[2]>>)
        BY <3>1, <3>5 DEF appendSumVariant
      <4> QED
        BY <1>7, <2>1, <3>2, <4>1, <4>2
    <3> QED
      BY <3>3, <3>4, <3>5
  <2> DEFINE ss == <<E, <<K[2]>>>>
  <2>4. ss[1] = E /\ ss[2] = <<K[2]>> /\ IsSeq(E) /\ IsSeq(<<K[2]>>)
    BY <2>3, Single DEF Opening
  <2> HIDE DEF ss
  <2>5. Collected(E, ss, 1)
    <3>1. IsSeq(<<>>) /\ Len(<<>>) = 0
      BY EmptySeq, OwnSeq
    <3>2. From(<<>>, ss, 0, <<>>, <<>>)
      <4>1. 1..0 = {}
        OBVIOUS
      <4> QED
        BY <3>1, <4>1 DEF From
    <3>3. PICK k : k = 1
      OBVIOUS
    <3>4. k \in Nat /\ k # 0 /\ k - 1 = 0
      BY <3>3
    <3>5. Collected(<<>>, ss, k - 1) /\ IsSeq(ss[k])
      BY <2>4, <3>1, <3>2, <3>3, <3>4 DEF Collected
    <3>6. Collected(<<>> \o ss[k], ss, k)
      BY <3>4, <3>5, CollectMore
    <3>7. <<>> \o E = E
      BY <2>4, ConcatEmptySeq DEF IsSeq
    <3> QED
      BY <2>4, <3>3, <3>6, <3>7
  <2>6. Collected(E \o <<K[2]>>, ss, 2)
    <3>1. 2 \in Nat /\ 2 # 0 /\ 2 - 1 = 1
      OBVIOUS
    <3>2. Collected(E \o ss[2], ss, 2)
      BY <2>4, <2>5, <3>1, CollectMore
    <3> QED
      BY <2>4, <3>2
  <2>7. \A i \in 1..e : Opening(ss[i], K[i], h)
    BY <1>7, <2>1, <2>2, <2>3, <2>4
  <2> QED
    BY <1>8, <2>1, <2>3, <2>6, <2>7 DEF made
<1>14. CASE act.makes = "node" /\ act.node \notin DOMAIN OperatorAt
  <2>1. made = Node(act.node, K)
    BY <1>5, <1>14
  <2>2. made.kind \notin Tokenlike /\ Parts(made) = K
    BY <2>1 DEF Node, Parts, Tokenlike
  <2> QED
    BY <1>8, <1>9, <2>2 DEF made
<1>15. CASE act.makes = "node" /\ act.node \in DOMAIN OperatorAt
  <2> DEFINE o == OperatorAt[act.node]
             op == [kind |-> "operator", at |-> K[o].at, op |-> Meaning(act.node, seen[K[o].at])]
             P == [K EXCEPT ![o] = op]
  <2>1. o \in 1..e /\ act.keeps[o] = o /\ o \in DOMAIN rule.rhs /\ rule.rhs[o] \in Terminals
    BY <1>1, <1>3, <1>15 DEF KeepsAgree, OperatorsAgree
  <2>2. PICK p : K[o] = Leaf(p)
    <3>1. K[o] = child[o].term /\ o \in 1..Len(rule.rhs)
      BY <1>1, <2>1
    <3> QED
      BY <2>1, <3>1 DEF Standing
  <2>3. made = Node(act.node, P)
    BY <1>5, <1>15 DEF Operation
  <2>4. made.kind \notin Tokenlike /\ Parts(made) = P
    BY <2>3 DEF Node, Parts, Tokenlike
  <2>5. P = [i \in 1..e |-> P[i]] /\ P[o] = op /\ \A i \in 1..e : i # o => P[i] = K[i]
    BY <1>2, <2>1
  <2>6. Opening(<<op>>, K[o], h)
    <3>1. K[o].kind = "token" /\ K[o].at = p /\ Parts(K[o]) = <<>>
      BY <2>2 DEF Leaf, Parts
    <3>2. op.kind = "operator" /\ op.at = p /\ Parts(op) = <<>>
      BY <3>1 DEF Parts
    <3> HIDE DEF op
    <3>3. Whole(op, h)
      BY <3>2, WholeLeaf
    <3>4. \A q : HasToken(K[o], q) <=> HasToken(op, q)
      <4> TAKE q
      <4>1. HasToken(K[o], q) <=> q = p
        BY <3>1, TokensOfLeaf DEF Tokenlike
      <4>2. HasToken(op, q) <=> q = p
        BY <3>2, TokensOfLeaf DEF Tokenlike
      <4> QED
        BY <4>1, <4>2
    <3> QED
      BY <3>3, <3>4, OpenedAsOne
  <2> HIDE DEF P, op, o
  <2>7. IsSeq(P) /\ Len(P) = e
    BY <1>1, <2>5, FunctionIsSeq
  <2> DEFINE ss == [i \in 1..e |-> <<P[i]>>]
  <2>8. ASSUME NEW i \in 1..e PROVE ss[i] = <<P[i]>> /\ Opening(<<P[i]>>, K[i], h)
    BY <1>7, <2>5, <2>6
  <2> HIDE DEF ss
  <2>9. Collected(P, ss, e)
    BY <2>7, <2>8, CollectOnes
  <2> QED
    BY <1>8, <2>4, <2>8, <2>9 DEF made
<1> QED
  BY <1>4, <1>10, <1>11, <1>12, <1>13, <1>14, <1>15 DEF made

-----------------------------------------------------------------------------
(* The invariant: the terms on the stack have the tokens of what is        *)
(* shifted, and no tree is deeper than there were reductions.              *)
OrderInv == Arranged(HeldTerms, read, Shifted, Len(reductions) + 1)

Terms(st) == [k \in DOMAIN st |-> st[k].value.term]

(* A term is pushed on what is left of a stack.                            *)
LEMMA TermsPushed ==
  ASSUME NEW st, IsSeq(st), NEW p \in 0..Len(st), NEW entry
  PROVE  /\ IsSeq(Terms(st)) /\ Len(Terms(st)) = Len(st)
         /\ Terms(Append(SubSeq(st, 1, p), entry)) = Joined(Terms(st), p, <<entry.value.term>>)
<1> DEFINE n == Len(st)  base == SubSeq(st, 1, p)  new == Append(base, entry)  t == entry.value.term
           A == Terms(new)  J == Joined(Terms(st), p, <<t>>)
<1>1. n \in Nat /\ DOMAIN st = 1..n /\ p \in Nat
  BY SeqShape
<1>2. IsSeq(base) /\ Len(base) = p /\ \A i \in 1..p : base[i] = st[i]
  <2>1. /\ IsSeq(SubSeq(st, 0 + 1, p)) /\ Len(SubSeq(st, 0 + 1, p)) = p - 0
        /\ \A i \in 1..p - 0 : SubSeq(st, 0 + 1, p)[i] = st[0 + i]
    <3>1. 0 \in Nat /\ p \in 0..Len(st) /\ 0 <= p
      BY <1>1
    <3> QED
      BY <3>1, Piece
  <2>2. 0 + 1 = 1 /\ p - 0 = p /\ \A i \in 1..p : 0 + i = i
    BY <1>1
  <2> QED
    BY <2>1, <2>2
<1> HIDE DEF base
<1>3. IsSeq(new) /\ Len(new) = p + 1 /\ (\A i \in 1..p : new[i] = base[i]) /\ new[p + 1] = entry
  BY <1>2, Appended
<1> HIDE DEF new
<1>4. DOMAIN new = 1..p + 1
  BY <1>3, SeqShape
<1>5. /\ A = [k \in 1..p + 1 |-> A[k]]
      /\ Terms(st) = [k \in 1..n |-> Terms(st)[k]] /\ \A k \in 1..n : Terms(st)[k] = st[k].value.term
  BY <1>1, <1>4 DEF Terms
<1>6. /\ IsSeq(J) /\ Len(J) = p + 1
      /\ (\A i \in 1..p : J[i] = Terms(st)[i]) /\ J[p + 1] = t
  <2>1. IsSeq(<<t>>) /\ Len(<<t>>) = 1 /\ <<t>>[1] = t /\ 1 \in 1..1
    BY Single
  <2>2. Joins(J, Terms(st), p, <<t>>)
    BY <1>1, <2>1, JoinedShape
  <2> QED
    BY <2>1, <2>2 DEF Joins
<1>7. ASSUME NEW i \in 1..p + 1 PROVE A[i] = J[i]
  <2>1. A[i] = new[i].value.term
    BY <1>4 DEF Terms
  <2>2. CASE i = p + 1
    BY <1>3, <1>6, <2>1, <2>2
  <2>3. CASE i # p + 1
    <3>1. i \in 1..p /\ i \in 1..n
      BY <1>1, <2>3
    <3>2. A[i] = st[i].value.term
      BY <1>2, <1>3, <2>1, <3>1
    <3>3. J[i] = st[i].value.term
      BY <1>5, <1>6, <3>1
    <3> QED
      BY <3>2, <3>3
  <2> QED
    BY <2>2, <2>3
<1> HIDE DEF A, J
<1>8. IsSeq(A) /\ Len(A) = p + 1 /\ IsSeq(Terms(st)) /\ Len(Terms(st)) = n
  <2>1. p + 1 \in Nat
    BY <1>1
  <2> QED
    BY <1>1, <1>5, <2>1, FunctionIsSeq
<1>9. A = J
  BY <1>6, <1>7, <1>8, SameSeq
<1> QED
  BY <1>8, <1>9 DEF A, J, new, base

(* A text of which more is read.                                           *)
LEMMA ReadOn ==
  ASSUME NEW P, NEW text, NEW s, NEW h, Arranged(P, text, s, h), NEW more, \A k \in 1..s : more[k] = text[k]
  PROVE  Arranged(P, more, s, h)
BY DEF Arranged

(* The next token comes after all the others.                              *)
LEMMA PushedInOrder ==
  ASSUME NEW H, NEW text, NEW s \in Nat, NEW h \in Nat, h # 0, Arranged(H, text, s, h)
  PROVE  Arranged(Joined(H, Len(H), <<Leaf(s + 1)>>), text, s + 1, h)
<1> DEFINE n == Len(H)  t == Leaf(s + 1)  J == Joined(H, n, <<t>>)
<1>1. /\ IsSeq(H) /\ n \in Nat /\ DOMAIN H = 1..n
      /\ \A i, j \in 1..n : i < j => \A p, q : HasToken(H[i], p) /\ HasToken(H[j], q) => p < q
      /\ \A i \in 1..n : Whole(H[i], h) /\ \A p : HasToken(H[i], p) => p \in 1..s
      /\ \A p \in 1..s : text[p] \notin Dropped => \E i \in 1..n : HasToken(H[i], p)
  BY SeqShape DEF Arranged, Sorted
<1>2. IsSeq(J) /\ DOMAIN J = 1..n + 1 /\ (\A i \in 1..n : J[i] = H[i]) /\ J[n + 1] = t
  <2>1. IsSeq(<<t>>) /\ Len(<<t>>) = 1 /\ <<t>>[1] = t /\ 1 \in 1..1
    BY Single
  <2>2. Joins(J, H, n, <<t>>)
    BY <1>1, <2>1, JoinedShape
  <2> QED
    BY <2>1, <2>2 DEF Joins
<1>3. t.kind = "token" /\ t.at = s + 1 /\ Parts(t) = <<>>
  BY DEF Leaf, Parts
<1> HIDE DEF J, t, n
<1>4. Whole(t, h) /\ \A p : HasToken(t, p) <=> p = s + 1
  BY <1>3, WholeLeaf, TokensOfLeaf DEF Tokenlike
<1>5. \A i \in 1..n + 1 : i = n + 1 \/ i \in 1..n
  BY <1>1
<1>6. ASSUME NEW i \in 1..n + 1 PROVE Whole(J[i], h) /\ \A p : HasToken(J[i], p) => p \in 1..s + 1
  <2>1. CASE i = n + 1
    <3>1. s + 1 \in 1..s + 1
      OBVIOUS
    <3> QED
      BY <1>2, <1>4, <2>1, <3>1
  <2>2. CASE i \in 1..n
    <3>1. \A p \in 1..s : p \in 1..s + 1
      OBVIOUS
    <3> QED
      BY <1>1, <1>2, <2>2, <3>1
  <2> QED
    BY <1>5, <2>1, <2>2
<1>7. ASSUME NEW i \in 1..n + 1, NEW j \in 1..n + 1, i < j, NEW p, NEW q, HasToken(J[i], p), HasToken(J[j], q)
      PROVE  p < q
  <2>1. i \in 1..n /\ HasToken(H[i], p)
    <3>1. i \in 1..n
      BY <1>1, <1>7
    <3> QED
      BY <1>2, <1>7, <3>1
  <2>2. CASE j = n + 1
    <3>1. q = s + 1 /\ p \in 1..s
      BY <1>1, <1>2, <1>4, <1>7, <2>1, <2>2
    <3> QED
      BY <3>1
  <2>3. CASE j \in 1..n
    BY <1>1, <1>2, <1>7, <2>1, <2>3
  <2> QED
    BY <1>5, <2>2, <2>3
<1>8. ASSUME NEW p \in 1..s + 1, text[p] \notin Dropped PROVE \E i \in 1..n + 1 : HasToken(J[i], p)
  <2>1. CASE p = s + 1
    <3>1. n + 1 \in 1..n + 1
      BY <1>1
    <3> QED
      BY <1>2, <1>4, <2>1, <3>1
  <2>2. CASE p # s + 1
    <3>1. p \in 1..s
      BY <2>2
    <3>2. PICK i \in 1..n : HasToken(H[i], p)
      BY <1>1, <1>8, <3>1
    <3>3. i \in 1..n + 1
      BY <1>1
    <3> QED
      BY <1>2, <3>2, <3>3
  <2> QED
    BY <2>1, <2>2
<1>9. Sorted(J)
  BY <1>2, <1>7 DEF Sorted
<1>10. Arranged(J, text, s + 1, h)
  BY <1>2, <1>6, <1>8, <1>9 DEF Arranged
<1> QED
  BY <1>10 DEF J, t, n

(* The steps: at first there is a null pointer and no token.               *)
LEMMA OrderInitially == Init => OrderInv
<1> SUFFICES ASSUME Init PROVE OrderInv
  OBVIOUS
<1> DEFINE e == [state |-> Start, value |-> Empty]
<1>1. stack = <<e>> /\ read = <<>> /\ reductions = <<>> /\ lookahead = None
  BY DEF Init
<1>2. IsSeq(stack) /\ Len(stack) = 1 /\ stack[1] = e
  <2> HIDE DEF e
  <2> QED
    BY <1>1, Single
<1>3. Len(read) = 0 /\ Len(reductions) = 0 /\ Shifted = 0
  BY <1>1, EmptySeq DEF Shifted
<1>4. DOMAIN stack = 1..1 /\ \A i \in 1..1 : i = 1
  <2>1. \A i \in 1..1 : i = 1
    OBVIOUS
  <2> QED
    BY <1>2, <2>1, SeqShape
<1>5. HeldTerms = [k \in 1..1 |-> HeldTerms[k]] /\ \A i \in 1..1 : HeldTerms[i] = Null
  BY <1>2, <1>4 DEF HeldTerms, Empty, Value
<1>6. IsSeq(HeldTerms) /\ DOMAIN HeldTerms = 1..1
  <2>1. 1 \in Nat
    OBVIOUS
  <2> QED
    BY <1>5, <2>1, FunctionIsSeq
<1>7. Parts(Null) = <<>> /\ Null.kind \notin Tokenlike
  BY DEF Null, Parts, Tokenlike
<1>8. Whole(Null, 1) /\ \A p : ~HasToken(Null, p)
  <2>1. 1 \in Nat /\ 1 # 0
    OBVIOUS
  <2> QED
    BY <1>7, <2>1, WholeLeaf, TokensOfLeaf
<1>9. Sorted(HeldTerms)
  BY <1>5, <1>6, <1>8 DEF Sorted
<1>10. 1..0 = {} /\ 0 + 1 = 1
  OBVIOUS
<1>11. Arranged(HeldTerms, read, 0, 1)
  BY <1>5, <1>6, <1>8, <1>9, <1>10 DEF Arranged
<1> QED
  BY <1>3, <1>10, <1>11 DEF OrderInv

(* A token delivered is on no value yet.                                   *)
LEMMA OrderEnsureLookahead ==
  ASSUME IInv, OrderInv, EnsureLookahead
  PROVE  OrderInv'
<1>1. PICK token : read' = Append(read, token)
  BY DEF EnsureLookahead
<1>2. lookahead = None /\ stack' = stack /\ reductions' = reductions
  BY DEF EnsureLookahead
<1>3. IInv'
  BY StepEnsureLookahead
<1>4. IsSeq(read) /\ Len(read) \in Nat /\ Shifted = Len(read)
  BY <1>2, SeqShape DEF IInv, Shifted
<1>5. Len(read') = Len(read) + 1 /\ \A k \in 1..Len(read) : read'[k] = read[k]
  BY <1>1, <1>4, Appended
<1>6. lookahead' # None
  <2>1. PICK t \in Deliverable : lookahead' = t
    BY DEF EnsureLookahead
  <2>2. t \in vocabulary.tokens \cup {"ENDF"}
    BY DEF Deliverable
  <2> QED
    BY <2>1, <2>2, VocabulariesAssumption DEF IInv, None
<1>7. Shifted' = Len(read)
  BY <1>4, <1>5, <1>6 DEF Shifted
<1>8. HeldTerms' = HeldTerms
  BY <1>2 DEF HeldTerms
<1>9. Arranged(HeldTerms, read', Shifted, Len(reductions) + 1)
  BY <1>4, <1>5, ReadOn DEF OrderInv
<1> QED
  BY <1>2, <1>4, <1>7, <1>8, <1>9 DEF OrderInv

(* A token shifted comes after all the others.                             *)
LEMMA OrderShift ==
  ASSUME IInv, OrderInv, ShiftToken
  PROVE  OrderInv'
<1>1. PICK entry \in Decision("shift") :
         stack' = Append(stack, [state |-> entry.to, value |-> Value("Token", Leaf(Len(read)))])
  BY DEF ShiftToken
<1>2. lookahead' = None /\ read' = read /\ reductions' = reductions
  BY DEF ShiftToken
<1>3. Len(read) \in Nat \ {0} /\ Shifted = Len(read) - 1
  BY CellFacts
<1>4. IsSeq(stack) /\ Len(stack) \in Nat /\ Len(reductions) \in Nat
  BY SeqShape, LenProperties DEF IInv
<1> DEFINE new == [state |-> entry.to, value |-> Value("Token", Leaf(Len(read)))]
           n == Len(stack)
<1>5. SubSeq(stack, 1, n) = stack
  BY <1>4, SubSeqFull DEF IsSeq
<1>6. new.value.term = Leaf(Len(read))
  BY DEF Value
<1>7. stack' = Append(SubSeq(stack, 1, n), new)
  BY <1>1, <1>5
<1> HIDE DEF new
<1>8. Len(Terms(stack)) = n /\ Terms(stack') = Joined(Terms(stack), n, <<Leaf(Len(read))>>)
  <2>1. n \in 0..Len(stack)
    BY <1>4
  <2> QED
    BY <1>4, <1>6, <1>7, <2>1, TermsPushed
<1>9. HeldTerms = Terms(stack) /\ HeldTerms' = Terms(stack')
  BY DEF HeldTerms, Terms
<1>10. Arranged(HeldTerms', read, Shifted + 1, Len(reductions) + 1)
  <2> DEFINE h == Len(reductions) + 1
  <2>1. h \in Nat /\ h # 0 /\ Shifted \in Nat /\ Shifted + 1 = Len(read)
    BY <1>3, <1>4
  <2>2. Arranged(HeldTerms, read, Shifted, h)
    BY DEF OrderInv
  <2> HIDE DEF h
  <2>3. Arranged(Joined(HeldTerms, Len(HeldTerms), <<Leaf(Shifted + 1)>>), read, Shifted + 1, h)
    BY <2>1, <2>2, PushedInOrder
  <2>4. Joined(HeldTerms, Len(HeldTerms), <<Leaf(Shifted + 1)>>) = HeldTerms'
    BY <1>8, <1>9, <2>1
  <2>5. Arranged(HeldTerms', read, Shifted + 1, h)
    BY <2>3, <2>4
  <2> QED
    BY <2>5 DEF h
<1>11. Shifted' = Shifted + 1
  BY <1>2, <1>3 DEF Shifted
<1> QED
  BY <1>2, <1>10, <1>11 DEF OrderInv

(* A reduction replaces the terms of its children by what its action made. *)
LEMMA OrderReduce ==
  ASSUME IInv, OrderInv, ReduceRule
  PROVE  OrderInv'
<1>1. PICK entry \in Decision("reduce") :
         /\ \E rule \in {GrammarRules[entry.to]} : \E base \in {Popped(Len(rule.rhs))} :
              \E row \in {RowUnder(base)} :
                Goto(rule, base, row, PerformReduction(rule, Children(Len(rule.rhs))))
         /\ reductions' = Append(reductions, entry.to)
  BY DEF ReduceRule
<1>2. read' = read /\ lookahead' = lookahead
  BY DEF ReduceRule
<1>3. Len(stack) \in Nat \ {0} /\ Len(read) \in Nat \ {0} /\ Shifted = Len(read) - 1
  BY CellFacts
<1>4. PICK rule : rule = GrammarRules[entry.to]
  OBVIOUS
<1>5. PICK l : l = Len(rule.rhs)
  OBVIOUS
<1>6. PICK n : n = Len(stack)
  OBVIOUS
<1>7. PICK value : value = PerformReduction(rule, Children(l))
  OBVIOUS
<1>8. /\ entry.to \in DOMAIN GrammarRules /\ l \in Nat /\ n \in Nat /\ l < n
      /\ RowUnder(Popped(l)) = GotoTable[stack[n - l].state]
      /\ rule.lhs \in DOMAIN GotoTable[stack[n - l].state]
  BY <1>3, <1>4, <1>5, <1>6, ReduceFacts
<1>9. Goto(rule, Popped(l), RowUnder(Popped(l)), value)
  BY <1>1, <1>4, <1>5, <1>7
<1>10. PICK new : stack' = Append(Popped(l), new) /\ new.value = value
  <2> DEFINE e == [state |-> GotoTable[stack[n - l].state][rule.lhs], value |-> value]
  <2>1. stack' = Append(Popped(l), e)
    BY <1>8, <1>9 DEF Goto
  <2>2. e.value = value
    OBVIOUS
  <2> HIDE DEF e
  <2> QED
    BY <2>1, <2>2
<1>11. IsSeq(stack) /\ n - l \in 0..Len(stack) /\ n - l \in Nat /\ Popped(l) = SubSeq(stack, 1, n - l)
  BY <1>6, <1>8 DEF IInv, Popped
<1>12. /\ IsSeq(Terms(stack)) /\ Len(Terms(stack)) = n
       /\ Terms(stack') = Joined(Terms(stack), n - l, <<value.term>>)
  BY <1>6, <1>10, <1>11, TermsPushed
<1>13. HeldTerms = Terms(stack) /\ HeldTerms' = Terms(stack')
  BY DEF HeldTerms, Terms
<1>14. PICK child : child = Children(l)
  OBVIOUS
<1>15. Standing(child, HeldTerms, n - l, rule, read)
  <2>1. DOMAIN child = 1..l /\ \A k \in 1..l : Represents(child[k], rule.rhs[k], read)
    BY <1>4, <1>5, <1>14, ChildrenRepresent
  <2>2. \A k \in 1..l : Holds(child[k], rule.act.takes[k])
    BY <1>4, <1>5, <1>14, <2>1, ReducesWhatItHolds
  <2>3. ASSUME NEW k \in 1..l PROVE child[k].term = HeldTerms[(n - l) + k]
    <3>1. child[k].term = stack[n - l + k].value.term
      BY <1>6, <1>14 DEF Children
    <3>2. n - l + k \in DOMAIN stack
      BY <1>6, <1>8, <1>11, SeqShape
    <3> QED
      BY <3>1, <3>2 DEF HeldTerms
  <2>4. ASSUME NEW k \in 1..l, rule.rhs[k] \in Terminals
        PROVE  \E at \in 1..Len(read) : child[k].term = Leaf(at) /\ read[at] = rule.rhs[k]
    <3>1. rule.rhs[k] \notin NonTerminals(GrammarRules)
      BY <2>4, TokensHaveNoRule
    <3> QED
      BY <2>1, <3>1 DEF Represents, Value
  <2>5. Len(HeldTerms) = (n - l) + l
    BY <1>8, <1>12, <1>13
  <2> QED
    BY <1>5, <2>1, <2>2, <2>3, <2>4, <2>5 DEF Standing
<1>16. Len(reductions) \in Nat /\ Len(reductions') = Len(reductions) + 1
  BY <1>1, <1>8, AppendProperties, LenProperties DEF IInv
<1>17. value = applyAction(rule.act, child, read)
  BY <1>7, <1>14 DEF PerformReduction
<1>18. Arranged(HeldTerms', read, Shifted, Len(reductions') + 1)
  <2> DEFINE h == Len(reductions) + 1  m == n - l
  <2>1. h \in Nat /\ h # 0 /\ Shifted \in Nat /\ m \in Nat /\ Len(reductions') = h
    BY <1>3, <1>11, <1>16
  <2>2. Arranged(HeldTerms, read, Shifted, h) /\ Standing(child, HeldTerms, m, rule, read)
    BY <1>15 DEF OrderInv
  <2>3. HeldTerms' = Joined(HeldTerms, m, <<value.term>>)
    BY <1>12, <1>13
  <2> HIDE DEF h, m
  <2>4. Arranged(Joined(HeldTerms, m, <<applyAction(rule.act, child, read).term>>), read, Shifted, h + 1)
    BY <1>4, <1>8, <2>1, <2>2, ActionInOrder
  <2> QED
    BY <1>17, <2>1, <2>3, <2>4
<1>19. Shifted' = Shifted
  BY <1>2 DEF Shifted
<1> QED
  BY <1>2, <1>18, <1>19 DEF OrderInv

(* Every step of parse() keeps the order.                                  *)
LEMMA OrderInductive == IInv /\ OrderInv /\ [Next]_vars => OrderInv'
<1> SUFFICES ASSUME IInv, OrderInv, [Next]_vars PROVE OrderInv'
  OBVIOUS
<1>1. CASE EnsureLookahead
  BY <1>1, OrderEnsureLookahead
<1>2. CASE ShiftToken
  BY <1>2, OrderShift
<1>3. CASE ReduceRule
  BY <1>3, OrderReduce
<1>4. CASE AcceptText
  BY <1>4 DEF AcceptText, OrderInv, HeldTerms, Shifted
<1>5. CASE RefuseText
  BY <1>5 DEF RefuseText, OrderInv, HeldTerms, Shifted
<1>6. CASE UNCHANGED vars
  BY <1>6 DEF vars, OrderInv, HeldTerms, Shifted
<1> QED
  BY <1>1, <1>2, <1>3, <1>4, <1>5, <1>6 DEF Next

(* What is sorted ascends.                                                 *)
LEMMA SortedAscends ==
  ASSUME NEW P, Sorted(P), NEW depth \in Nat, \A i \in DOMAIN P : Shallow(P[i], depth)
  PROVE  Ascending(P, depth)
<1>1. DOMAIN P = 1..Len(P) /\ Len(P) \in Nat
  BY SeqShape DEF Sorted
<1> SUFFICES ASSUME NEW j \in DOMAIN P, NEW q \in Positions({P[j]}, depth),
                    NEW p \in Positions({P[i] : i \in 1..(j - 1)}, depth)
             PROVE  p < q
  BY DEF Ascending
<1>2. \A i \in 1..(j - 1) : i \in DOMAIN P /\ i < j
  BY <1>1
<1>3. HasToken(P[j], q)
  <2>1. \A t \in {P[j]} : Shallow(t, depth)
    OBVIOUS
  <2>2. \E t \in {P[j]} : HasToken(t, q)
    BY <2>1, PositionsAre
  <2> QED
    BY <2>2
<1>4. PICK i \in 1..(j - 1) : HasToken(P[i], p)
  <2> DEFINE before == {P[i] : i \in 1..(j - 1)}
  <2>1. \A t \in before : Shallow(t, depth)
    BY <1>2
  <2> HIDE DEF before
  <2>2. p \in Positions(before, depth)
    BY DEF before
  <2>3. \E t \in before : HasToken(t, p)
    BY <2>1, <2>2, PositionsAre
  <2> QED
    BY <2>3 DEF before
<1> QED
  BY <1>2, <1>3, <1>4 DEF Sorted

(* The invariant says of every tree what SourceOrder says of the terms to  *)
(* a depth that no tree exceeds.                                           *)
LEMMA OrderIsOfSource == IInv /\ OrderInv => SourceOrder
<1> SUFFICES ASSUME IInv, OrderInv PROVE SourceOrder
  OBVIOUS
<1> DEFINE h == Len(reductions) + 1  H == HeldTerms  all == Below(Range(H), h)
<1>1. h \in Nat /\ h \in 0..h
  <2>1. Len(reductions) \in Nat
    BY LenProperties DEF IInv
  <2> QED
    BY <2>1
<1>2. Arranged(H, read, Shifted, h)
  BY DEF OrderInv
<1> HIDE DEF h, H
<1>3. /\ Sorted(H) /\ Range(H) = {H[i] : i \in DOMAIN H}
      /\ \A i \in DOMAIN H : Whole(H[i], h)
      /\ \A p \in 1..Shifted : read[p] \notin Dropped => \E i \in DOMAIN H : HasToken(H[i], p)
  BY <1>2 DEF Arranged, Range
<1>4. \A t \in Range(H) : Whole(t, h) /\ Shallow(t, h)
  BY <1>3 DEF Whole
<1>5. \A u : u \in all <=> \E t \in Range(H) : InTree(t, u)
  BY <1>1, <1>4, BelowTrees
<1> HIDE DEF all
<1>6. ASSUME NEW u \in Opened(all) PROVE u \in all
  <2>1. PICK x \in all : u \in Range(Parts(x))
    BY <1>6 DEF Opened
  <2>2. PICK t \in Range(H) : InTree(t, x)
    BY <1>5, <2>1
  <2>3. InTree(x, u)
    BY <2>1, TreeItself, TreeOfPart
  <2>4. InTree(t, u)
    BY <2>2, <2>3, TreeInTree
  <2> QED
    BY <1>5, <2>4
<1>7. Ascending(H, h)
  <2>1. \A i \in DOMAIN H : Shallow(H[i], h)
    BY <1>3 DEF Whole
  <2> QED
    BY <1>1, <1>3, <2>1, SortedAscends
<1>8. ASSUME NEW u \in all PROVE Ascending(Parts(u), h)
  <2>1. PICK t \in Range(H) : InTree(t, u)
    BY <1>5
  <2>2. Whole(t, h)
    BY <1>4
  <2>3. Sorted(Parts(u))
    BY <2>1, <2>2 DEF Whole
  <2>4. ASSUME NEW i \in DOMAIN Parts(u) PROVE Shallow(Parts(u)[i], h)
    <3>1. Parts(u)[i] \in Range(Parts(u))
      BY DEF Range
    <3>2. InTree(u, Parts(u)[i])
      BY <3>1, TreeItself, TreeOfPart
    <3>3. InTree(t, Parts(u)[i])
      BY <2>1, <3>2, TreeInTree
    <3> QED
      BY <1>1, <2>2, <3>3, ShallowInside DEF Whole
  <2> QED
    BY <1>1, <2>3, <2>4, SortedAscends
<1>9. {k \in 1..Shifted : read[k] \notin Dropped} \subseteq Positions(Range(H), h)
  <2> SUFFICES ASSUME NEW k \in 1..Shifted, read[k] \notin Dropped PROVE k \in Positions(Range(H), h)
    OBVIOUS
  <2>1. \E t \in Range(H) : HasToken(t, k)
    BY <1>3
  <2> QED
    BY <1>1, <1>4, <2>1, PositionsAre
<1>10. /\ Opened(all) \subseteq all
       /\ Ascending(H, h) /\ \A t \in all : Ascending(Parts(t), h)
       /\ {k \in 1..Shifted : read[k] \notin Dropped} \subseteq Positions(Range(H), h)
  BY <1>6, <1>7, <1>8, <1>9
<1>11. \E depth \in 0..h : \E every \in {Below(Range(H), depth)} :
         /\ Opened(every) \subseteq every
         /\ Ascending(H, depth) /\ \A t \in every : Ascending(Parts(t), depth)
         /\ {k \in 1..Shifted : read[k] \notin Dropped} \subseteq Positions(Range(H), depth)
  BY <1>1, <1>10 DEF all
<1> QED
  BY <1>11 DEF SourceOrder, H, h

(* Arguments, fields and statements come in the AST in the order of the    *)
(* text, each token that is kept once, and none is lost on the way         *)
(* (actions.cpp:644, parser.cpp:92): for texts of any length.              *)
THEOREM ParserKeepsOrder == Spec => []SourceOrder
BY Initially, Inductive, OrderInitially, OrderInductive, OrderIsOfSource, PTL DEF Spec
=============================================================================
