------------------------------ MODULE CliProofs ------------------------------
(***************************************************************************)
(* Proofs about Cli, for lines, words and commands of any size.            *)
(***************************************************************************)
EXTENDS Cli, SequenceTheorems, FiniteSetTheorems, NaturalsInduction,
        WellFoundedInduction, TLAPS

Characters == Letters \cup {Space}

Types ==
  /\ pc \in {"read", "name", "params", "execute", "overrun"}
  /\ line \in Seq(Characters) /\ Len(line) <= MaxLine
  /\ nextTokenIndex \in 0 .. MaxLine
  /\ cmd \in [name : Seq(Letters), params : Seq(Seq(Letters))]
  /\ Len(cmd.name) < TokenSize /\ Len(cmd.params) <= ParamSlots
  /\ tidy \in BOOLEAN

(* As long as no line had an empty token the index is set back with every  *)
(* line.                                                                   *)
Tidy ==
  tidy => /\ pc \in {"read", "name", "execute"} => nextTokenIndex = 0
          /\ pc \in {"name", "params", "execute"} => ~HasEmptyToken(line)

(* What has been taken of the line so far, up to position n, are the words *)
(* of its tail from a position on.                                         *)
Before(s, from, n) == {i \in WordStarts(s, from) : i <= n}

WordsUpTo(words, s, from, n) ==
  /\ Len(words) = Cardinality(Before(s, from, n))
  /\ \A k \in 1 .. Len(words) : words[k] = Words(s, from)[k]

InParams ==
  pc = "params" =>
    /\ cmd.name # <<>> /\ nextTokenIndex \in 1 .. Len(line)
    /\ nextTokenIndex = Len(line) \/ line[nextTokenIndex] = Space
    /\ \E from \in 1 .. nextTokenIndex :
         (tidy => from = 1) /\ WordsUpTo(Executed, line, from, nextTokenIndex)

InExecute ==
  pc = "execute" =>
    \/ cmd = NoCommand /\ (tidy => line = <<>>)
    \/ /\ cmd.name # <<>>
       /\ \E n \in 1 .. Len(line) : \E from \in 1 .. n :
            (tidy => from = 1 /\ n = Len(line)) /\ WordsUpTo(Executed, line, from, n)

IInv == Types /\ Tidy /\ InParams /\ InExecute /\ IndexLeftAtSeparator

-----------------------------------------------------------------------------
(* A set of naturals that is not empty has a least element.                *)
LEMMA HasLeast ==
  ASSUME NEW S, S \subseteq Nat, S # {}
  PROVE  \E x \in S : \A y \in S : x <= y
<1>1. PICK x \in S : \A y \in S : ~ (<<y, x>> \in OpToRel(<, Nat))
  BY WFMin, NatLessThanWellFounded
<1>2. \A y \in S : ~(y < x)
  BY <1>1 DEF OpToRel
<1> QED
  BY <1>2

(* The community module's Min of a set of naturals, which TokenEnd is.     *)
LEMMA MinIs ==
  ASSUME NEW S, S \subseteq Nat, S # {}
  PROVE  Min(S) \in S /\ \A y \in S : Min(S) <= y
BY HasLeast DEF Min

(* Max is the bound that belongs to the set.                               *)
LEMMA MaxIs ==
  ASSUME NEW S, NEW m \in S, \A y \in S : m >= y, S \subseteq Nat
  PROVE  Max(S) = m
<1>1. \E x \in S : \A y \in S : x >= y
  OBVIOUS
<1>2. Max(S) \in S /\ \A y \in S : Max(S) >= y
  BY <1>1 DEF Max
<1>3. Max(S) \in Nat /\ m \in Nat
  BY <1>2
<1> QED
  BY <1>2, <1>3

(* Counting the elements up to one of them gives its place: Nth finds the  *)
(* word start it is asked for.                                             *)
LEMMA NthIs ==
  ASSUME NEW N \in Nat, NEW S, S \subseteq 1 .. N, NEW i \in S
  PROVE  /\ Nth(S, Cardinality({k \in S : k <= i})) = i
         /\ Cardinality({k \in S : k <= i}) \in 1 .. Cardinality(S)
<1> DEFINE T(j) == {k \in S : k <= j}
<1>1. IsFiniteSet(S)
  <2>1. IsFiniteSet(1 .. N)
    BY FS_Interval
  <2> QED
    BY <2>1, FS_Subset
<1>2. \A j \in S : IsFiniteSet(T(j)) /\ Cardinality(T(j)) \in Nat
                   /\ Cardinality(T(j)) <= Cardinality(S)
  <2> TAKE j \in S
  <2>1. T(j) \subseteq S
    OBVIOUS
  <2> QED
    BY <1>1, <2>1, FS_Subset, FS_CardinalityType
<1>3. ASSUME NEW j \in S, NEW m \in S, j < m
      PROVE  Cardinality(T(j)) # Cardinality(T(m))
  <2>1. T(j) \subseteq T(m) /\ m \in T(m) /\ m \notin T(j)
    <3>1. \A k \in S : k \in Nat
      OBVIOUS
    <3>2. \A k \in S : k <= j => k <= m
      BY <1>3, <3>1
    <3>3. ~(m <= j) /\ m <= m
      BY <1>3, <3>1
    <3> QED
      BY <3>2, <3>3
  <2> QED
    BY <1>2, <2>1, FS_Subset
<1>4. \A j \in S : Cardinality(T(j)) = Cardinality(T(i)) => j = i
  <2> TAKE j \in S
  <2>1. j < i \/ i < j \/ i = j
    OBVIOUS
  <2> QED
    BY <1>3, <2>1
<1>5. Cardinality(T(i)) # 0
  <2>1. i \in T(i)
    OBVIOUS
  <2> QED
    BY <1>2, <2>1, FS_EmptySet
<1>6. Nth(S, Cardinality(T(i))) = i
  <2> DEFINE c == Cardinality(T(i))
  <2>1. \E j \in S : Cardinality(T(j)) = c
    OBVIOUS
  <2>2. Nth(S, c) \in S /\ Cardinality(T(Nth(S, c))) = c
    BY <2>1 DEF Nth
  <2> QED
    BY <1>4, <2>2
<1> QED
  BY <1>1, <1>2, <1>5, <1>6, FS_CardinalityType

(* What stringSplit finds behind its index, when the line goes on there:   *)
(* the characters up to the next separator or the end, none of them a      *)
(* separator, and an index just behind the separator.                      *)
LEMMA TokenIs ==
  ASSUME Types, ~AtEnd
  PROVE  /\ Len(line) \in Nat /\ nextTokenIndex \in Nat /\ nextTokenIndex < Len(line)
         /\ TokenEnd \in nextTokenIndex .. Len(line)
         /\ TokenEnd = Len(line) \/ line[TokenEnd + 1] = Space
         /\ \A k \in nextTokenIndex + 1 .. TokenEnd : line[k] \in Letters /\ line[k] # Space
         /\ Token \in Seq(Letters) /\ (Token = <<>> <=> TokenEnd = nextTokenIndex)
         /\ AfterToken \in nextTokenIndex .. Len(line)
         /\ AfterToken \in TokenEnd .. TokenEnd + 1
         /\ AfterToken = Len(line) \/ line[AfterToken] = Space
         /\ Token = <<>> => AfterToken = nextTokenIndex + 1 /\ line[AfterToken] = Space
<1>1. PICK L \in Nat : L = Len(line)
  BY DEF Types
<1>2. PICK n \in Nat : n = nextTokenIndex
  BY DEF Types
<1>3. n < L
  BY <1>1, <1>2 DEF AtEnd
<1> DEFINE S == {i \in n .. L : i = L \/ line[i + 1] = Space}
<1>4. PICK e : e = TokenEnd
  OBVIOUS
<1>5. e \in S /\ \A y \in S : e <= y
  <2>1. S \subseteq Nat /\ L \in S
    BY <1>3
  <2>2. e = Min(S)
    BY <1>1, <1>2, <1>4 DEF TokenEnd
  <2> HIDE DEF S
  <2> QED
    BY <2>1, <2>2, MinIs
<1>6. ASSUME NEW k \in n + 1 .. e PROVE line[k] \in Letters /\ line[k] # Space
  <2>1. k - 1 \in n .. L /\ k - 1 < e /\ k - 1 # L /\ (k - 1) + 1 = k /\ k \in 1 .. L
    BY <1>5
  <2>2. k - 1 \notin S
    BY <1>5, <2>1
  <2>3. line[k] # Space
    BY <2>1, <2>2
  <2>4. line[k] \in Characters
    BY <1>1, <2>1 DEF Types
  <2> QED
    BY <2>3, <2>4 DEF Characters
<1>7. Token \in Seq(Letters) /\ (Token = <<>> <=> e = n)
  <2>1. Token = SubSeq(line, n + 1, e)
    BY <1>2, <1>4 DEF Token
  <2>2. /\ Token \in Seq(Letters)
        /\ Len(Token) = IF n + 1 <= e THEN e - (n + 1) + 1 ELSE 0
    BY <1>5, <1>6, <2>1, SubSeqProperties
  <2>3. Len(Token) = e - n
    BY <1>5, <2>2
  <2> QED
    BY <1>5, <2>2, <2>3, EmptySeq
<1>8. AfterToken = IF e = L THEN e ELSE e + 1
  BY <1>1, <1>4 DEF AfterToken
<1>9. e \in n .. L /\ (e = L \/ line[e + 1] = Space)
  BY <1>5
<1>10. /\ AfterToken \in n .. L /\ AfterToken \in e .. e + 1
       /\ AfterToken = L \/ line[AfterToken] = Space
       /\ e = n => AfterToken = n + 1 /\ line[AfterToken] = Space
  BY <1>3, <1>8, <1>9
<1> HIDE DEF S
<1> QED
  BY <1>1, <1>2, <1>3, <1>4, <1>6, <1>7, <1>9, <1>10

(* The token is the word that starts where the index points.               *)
LEMMA WordHere ==
  ASSUME Types, ~AtEnd, Token # <<>>
  PROVE  WordAt(line, nextTokenIndex + 1) = Token
<1>1. PICK L \in Nat : L = Len(line)
  BY DEF Types
<1>2. PICK n \in Nat : n = nextTokenIndex
  BY DEF Types
<1>3. PICK e : e = TokenEnd
  OBVIOUS
<1>4. /\ n < L /\ e \in n + 1 .. L /\ (e = L \/ line[e + 1] = Space)
      /\ \A k \in n + 1 .. e : line[k] # Space
  BY <1>1, <1>2, <1>3, TokenIs
<1> DEFINE S == {j \in n + 1 .. L : \A k \in n + 1 .. j : line[k] # Space}
<1>5. e \in S /\ S \subseteq Nat
  BY <1>4
<1>6. \A y \in S : e >= y
  <2> SUFFICES ASSUME NEW y \in S, ~(e >= y) PROVE FALSE
    OBVIOUS
  <2>1. e + 1 \in n + 1 .. y /\ e # L
    BY <1>4
  <2> QED
    BY <1>4, <2>1
<1>7. Max(S) = e
  <2> HIDE DEF S
  <2> QED
    BY <1>5, <1>6, MaxIs
<1> QED
  BY <1>1, <1>2, <1>3, <1>7 DEF WordAt, Token

(* By taking a token stringSplit passes one start of a word, no more.      *)
LEMMA OneMore ==
  ASSUME Types, ~AtEnd, Token # <<>>, NEW from \in 1 .. nextTokenIndex + 1,
         from = nextTokenIndex + 1 \/ line[nextTokenIndex] = Space
  PROVE  /\ nextTokenIndex + 1 \in WordStarts(line, from)
         /\ Before(line, from, AfterToken) =
              Before(line, from, nextTokenIndex) \cup {nextTokenIndex + 1}
         /\ Before(line, from, AfterToken) = Before(line, from, nextTokenIndex + 1)
<1>1. PICK L \in Nat : L = Len(line)
  BY DEF Types
<1>2. PICK n \in Nat : n = nextTokenIndex
  BY DEF Types
<1>3. PICK e : e = TokenEnd
  OBVIOUS
<1>4. PICK m : m = AfterToken
  OBVIOUS
<1>5. /\ n < L /\ e \in n + 1 .. L /\ (e = L \/ line[e + 1] = Space)
      /\ \A k \in n + 1 .. e : line[k] # Space
      /\ m \in e .. e + 1 /\ m <= L
  BY <1>1, <1>2, <1>3, <1>4, TokenIs
<1>6. n + 1 \in WordStarts(line, from)
  BY <1>1, <1>2, <1>5 DEF WordStarts
<1>7. ASSUME NEW i \in WordStarts(line, from), i <= m PROVE i <= n + 1
  <2> SUFFICES ASSUME i > n + 1 PROVE FALSE
    BY <1>1, <1>2, <1>5 DEF WordStarts
  <2>1. i \in Nat /\ line[i] # Space /\ (i = from \/ line[i - 1] = Space)
    BY <1>2 DEF WordStarts
  <2>2. i # from /\ i - 1 \in n + 1 .. e
    BY <1>2, <1>5, <1>7, <2>1
  <2> QED
    BY <1>5, <2>1, <2>2
<1>8. \A i \in WordStarts(line, from) : i \in Nat
  BY <1>2 DEF WordStarts
<1>9. Before(line, from, m) = Before(line, from, n) \cup {n + 1}
  BY <1>5, <1>6, <1>7, <1>8 DEF Before
<1>10. Before(line, from, m) = Before(line, from, n + 1)
  BY <1>5, <1>6, <1>7, <1>8 DEF Before
<1> QED
  BY <1>2, <1>4, <1>6, <1>9, <1>10

(* The starts of the words of the line are finitely many positions of it.  *)
LEMMA StartsAre ==
  ASSUME Types, NEW from \in Nat \ {0}
  PROVE  /\ WordStarts(line, from) \subseteq 1 .. Len(line) /\ Len(line) \in Nat
         /\ IsFiniteSet(WordStarts(line, from))
         /\ \A n \in Int : /\ IsFiniteSet(Before(line, from, n))
                           /\ Cardinality(Before(line, from, n)) \in Nat
                           /\ Cardinality(Before(line, from, n)) <=
                                Cardinality(WordStarts(line, from))
         /\ Cardinality(WordStarts(line, from)) \in Nat
<1>1. PICK L \in Nat : L = Len(line)
  BY DEF Types
<1>2. WordStarts(line, from) \subseteq 1 .. L
  BY <1>1 DEF WordStarts
<1>3. IsFiniteSet(1 .. L)
  BY FS_Interval
<1>4. IsFiniteSet(WordStarts(line, from))
  BY <1>2, <1>3, FS_Subset
<1>5. \A n \in Int : Before(line, from, n) \subseteq WordStarts(line, from)
  BY DEF Before
<1> QED
  BY <1>1, <1>2, <1>4, <1>5, FS_Subset, FS_CardinalityType

(* A position in the line is one the index may have.                       *)
LEMMA InLine ==
  ASSUME Types, NEW m \in Nat, m <= Len(line)
  PROVE  m \in 0 .. MaxLine
<1>1. PICK L \in Nat : L = Len(line)
  BY DEF Types
<1>2. L <= MaxLine /\ m <= L
  BY <1>1 DEF Types
<1>3. MaxLine \in Nat
  BY CliAssumption
<1> QED
  BY <1>2, <1>3

(* A sequence with one element more.                                       *)
LEMMA AppendIs ==
  ASSUME NEW S, NEW s \in Seq(S), NEW e \in S
  PROVE  /\ Append(s, e) \in Seq(S) /\ Len(Append(s, e)) = Len(s) + 1
         /\ Append(s, e)[Len(s) + 1] = e
         /\ \A k \in 1 .. Len(s) : Append(s, e)[k] = s[k]
OBVIOUS

(* When what was taken so far are the words up to the index, it is so with *)
(* the token appended.                                                     *)
LEMMA WordAdded ==
  ASSUME Types, ~AtEnd, Token # <<>>, NEW from \in 1 .. nextTokenIndex + 1,
         from = nextTokenIndex + 1 \/ line[nextTokenIndex] = Space,
         NEW words \in Seq(Seq(Letters)),
         WordsUpTo(words, line, from, nextTokenIndex)
  PROVE  WordsUpTo(Append(words, Token), line, from, AfterToken)
<1>1. PICK n \in Nat : n = nextTokenIndex
  BY DEF Types
<1>2. PICK m \in Nat : m = AfterToken
  BY TokenIs
<1>3. PICK starts : starts = WordStarts(line, from)
  OBVIOUS
<1>4. PICK c \in Nat : c = Len(words) /\ c = Cardinality(Before(line, from, n))
  BY <1>1 DEF WordsUpTo
<1>5. /\ n + 1 \in starts
      /\ Before(line, from, m) = Before(line, from, n) \cup {n + 1}
      /\ Before(line, from, m) = {k \in starts : k <= n + 1}
  BY <1>1, <1>2, <1>3, OneMore DEF Before
<1>6. n + 1 \notin Before(line, from, n) /\ IsFiniteSet(Before(line, from, n))
  BY <1>1, StartsAre DEF Before
<1>7. Cardinality(Before(line, from, m)) = c + 1
  BY <1>4, <1>5, <1>6, FS_AddElement, ZenonT(30)
<1>8. Nth(starts, c + 1) = n + 1 /\ c + 1 \in 1 .. Cardinality(starts)
  <2>1. PICK L \in Nat : starts \subseteq 1 .. L
    BY <1>1, <1>3, StartsAre
  <2>2. /\ Nth(starts, Cardinality({k \in starts : k <= n + 1})) = n + 1
        /\ Cardinality({k \in starts : k <= n + 1}) \in 1 .. Cardinality(starts)
    BY <1>5, <2>1, NthIs
  <2> QED
    BY <1>5, <1>7, <2>2
<1>9. Words(line, from)[c + 1] = Token
  BY <1>1, <1>3, <1>8, WordHere DEF Words
<1>10. /\ Append(words, Token) \in Seq(Seq(Letters))
       /\ Len(Append(words, Token)) = c + 1
       /\ Append(words, Token)[c + 1] = Token
       /\ \A k \in 1 .. c : Append(words, Token)[k] = words[k]
  <2>1. PICK t \in Seq(Letters) : t = Token
    BY TokenIs
  <2>2. PICK S : S = Seq(Letters)
    OBVIOUS
  <2>3. t \in S /\ words \in Seq(S)
    BY <2>1, <2>2
  <2>4. /\ Append(words, t) \in Seq(S) /\ Len(Append(words, t)) = c + 1
        /\ Append(words, t)[c + 1] = t
        /\ \A k \in 1 .. c : Append(words, t)[k] = words[k]
    <3>1. /\ Append(words, t) \in Seq(S) /\ Len(Append(words, t)) = Len(words) + 1
          /\ Append(words, t)[Len(words) + 1] = t
          /\ \A k \in 1 .. Len(words) : Append(words, t)[k] = words[k]
      BY <2>3, AppendIs
    <3>2. c = Len(words)
      BY <1>4
    <3> QED
      BY <3>1, <3>2
  <2> QED
    BY <2>1, <2>2, <2>4
<1>11. ASSUME NEW k \in 1 .. c + 1
       PROVE  Append(words, Token)[k] = Words(line, from)[k]
  <2>1. k \in 1 .. c \/ k = c + 1
    OBVIOUS
  <2>2. CASE k \in 1 .. c
    BY <1>1, <1>4, <1>10, <2>2 DEF WordsUpTo
  <2> QED
    BY <1>9, <1>10, <2>1, <2>2
<1> QED
  BY <1>2, <1>7, <1>10, <1>11 DEF WordsUpTo

(* A name followed by parameters; a parameter more is a word more.         *)
LEMMA ExecutedIs ==
  ASSUME NEW w \in Seq(Letters), NEW ps \in Seq(Seq(Letters))
  PROVE  /\ <<w>> \o ps \in Seq(Seq(Letters))
         /\ Len(<<w>> \o ps) = 1 + Len(ps)
         /\ \A t \in Seq(Letters) : <<w>> \o Append(ps, t) = Append(<<w>> \o ps, t)
<1>1. PICK S : S = Seq(Letters)
  OBVIOUS
<1>2. w \in S /\ ps \in Seq(S) /\ <<w>> \in Seq(S) /\ Len(<<w>>) = 1 /\ <<w>>[1] = w
  BY <1>1
<1>3. PICK n \in Nat : n = Len(ps)
  BY <1>2
<1>4. ASSUME NEW q \in Seq(S)
      PROVE  /\ <<w>> \o q \in Seq(S) /\ Len(<<w>> \o q) = 1 + Len(q)
             /\ \A i \in 1 .. 1 + Len(q) :
                  (<<w>> \o q)[i] = IF i <= 1 THEN w ELSE q[i - 1]
  <2>1. /\ <<w>> \o q \in Seq(S) /\ Len(<<w>> \o q) = Len(<<w>>) + Len(q)
        /\ \A i \in 1 .. Len(<<w>>) + Len(q) :
             (<<w>> \o q)[i] = IF i <= Len(<<w>>) THEN <<w>>[i] ELSE q[i - Len(<<w>>)]
    BY <1>2, ConcatProperties
  <2>2. \A i \in 1 .. 1 + Len(q) : i <= 1 => i = 1
    BY <1>2
  <2> QED
    BY <1>2, <2>1, <2>2
<1>5. ASSUME NEW t \in S
      PROVE  <<w>> \o Append(ps, t) = Append(<<w>> \o ps, t)
  <2>1. PICK a : a = Append(ps, t)
    OBVIOUS
  <2>2. a \in Seq(S) /\ Len(a) = n + 1 /\ a[n + 1] = t /\ \A i \in 1 .. n : a[i] = ps[i]
    BY <1>2, <1>3, <2>1, AppendIs
  <2>3. PICK b : b = <<w>> \o ps
    OBVIOUS
  <2>4. b \in Seq(S) /\ Len(b) = n + 1
        /\ \A i \in 1 .. n + 1 : b[i] = IF i <= 1 THEN w ELSE ps[i - 1]
    BY <1>2, <1>3, <1>4, <2>3
  <2>5. PICK l : l = <<w>> \o a
    OBVIOUS
  <2>6. l \in Seq(S) /\ Len(l) = n + 2
        /\ \A i \in 1 .. n + 2 : l[i] = IF i <= 1 THEN w ELSE a[i - 1]
    BY <1>4, <2>2, <2>5
  <2>7. PICK r : r = Append(b, t)
    OBVIOUS
  <2>8. r \in Seq(S) /\ Len(r) = n + 2 /\ r[n + 2] = t
        /\ \A i \in 1 .. n + 1 : r[i] = b[i]
    <3>1. PICK m \in Nat : m = n + 1
      OBVIOUS
    <3>2. Len(b) = m /\ r \in Seq(S) /\ Len(r) = m + 1 /\ r[m + 1] = t
          /\ \A i \in 1 .. m : r[i] = b[i]
      BY <2>4, <2>7, <3>1, AppendIs
    <3>3. n + 2 = m + 1
      BY <3>1
    <3>4. Len(r) = n + 2 /\ r[n + 2] = t
      BY <3>2, <3>3
    <3>5. \A i \in 1 .. n + 1 : r[i] = b[i]
      BY <3>1, <3>2
    <3> QED
      BY <3>2, <3>4, <3>5
  <2>9. ASSUME NEW i \in 1 .. n + 2 PROVE l[i] = r[i]
    <3>1. CASE i = 1
      <4>1. 1 \in 1 .. n + 1 /\ 1 \in 1 .. n + 2 /\ 1 <= 1
        OBVIOUS
      <4>2. l[1] = w /\ r[1] = b[1] /\ b[1] = w
        BY <2>4, <2>6, <2>8, <4>1
      <4> QED
        BY <3>1, <4>2
    <3>2. CASE i = n + 2
      <4>1. i - 1 = n + 1 /\ ~(i <= 1)
        BY <3>2
      <4>2. l[i] = a[i - 1]
        BY <2>6, <4>1
      <4>3. a[i - 1] = t
        BY <2>2, <4>1
      <4>4. r[i] = t
        BY <2>8, <3>2
      <4> QED
        BY <4>2, <4>3, <4>4
    <3>3. CASE i \in 2 .. n + 1
      <4>1. i - 1 \in 1 .. n /\ i \in 1 .. n + 1 /\ ~(i <= 1)
        BY <3>3
      <4>2. l[i] = a[i - 1] /\ r[i] = b[i] /\ b[i] = ps[i - 1] /\ a[i - 1] = ps[i - 1]
        BY <2>2, <2>4, <2>6, <2>8, <4>1
      <4> QED
        BY <4>2
    <3>4. i = 1 \/ i = n + 2 \/ i \in 2 .. n + 1
      BY n \in Nat, i \in 1 .. n + 2
    <3> QED
      BY <3>1, <3>2, <3>3, <3>4
  <2>10. l = r
    BY <2>6, <2>8, <2>9, SeqEqual
  <2> QED
    BY <2>1, <2>3, <2>5, <2>7, <2>10
<1> QED
  BY <1>1, <1>2, <1>4, <1>5

-----------------------------------------------------------------------------
(* Nothing has been read when cliLoop begins.                              *)
LEMMA Starts == Init => IInv
<1> SUFFICES ASSUME Init PROVE IInv
  OBVIOUS
<1>1. Types
  BY CliAssumption DEF Init, Types, NoCommand
<1> QED
  BY <1>1 DEF Init, IInv, Tidy, InParams, InExecute, IndexLeftAtSeparator

(* A character or a backspace changes nothing but the line, which stays    *)
(* within its buffer.                                                      *)
LEMMA ReadStep ==
  ASSUME IInv, ReadCharacter \/ ReadBackspace
  PROVE  IInv'
<1>1. /\ pc = "read" /\ pc' = "read" /\ UNCHANGED <<nextTokenIndex, cmd, tidy>>
      /\ line \in Seq(Characters) /\ Len(line) < MaxLine /\ Len(line) \in Nat
  BY CliAssumption DEF ReadCharacter, ReadBackspace, LineFull, IInv, Types
<1>2. line' \in Seq(Characters) /\ Len(line') <= MaxLine
  <2>1. CASE ReadCharacter
    <3>1. PICK c \in Characters : line' = Append(line, c)
      BY <2>1 DEF ReadCharacter, Characters
    <3> QED
      BY <1>1, <3>1, CliAssumption
  <2>2. CASE ReadBackspace
    <3>1. line' = SubSeq(line, 1, Len(line) - 1) /\ line # <<>>
      BY <2>2 DEF ReadBackspace, Front
    <3>2. \A i \in 1 .. Len(line) - 1 : line[i] \in Characters
      BY <1>1
    <3>3. /\ line' \in Seq(Characters)
          /\ Len(line') = IF 1 <= Len(line) - 1 THEN (Len(line) - 1) - 1 + 1 ELSE 0
      BY <1>1, <3>1, <3>2, SubSeqProperties
    <3> QED
      BY <1>1, <3>3, CliAssumption
  <2> QED
    BY <2>1, <2>2
<1>3. Types' /\ Tidy'
  BY <1>1, <1>2 DEF IInv, Types, Tidy
<1> QED
  BY <1>1, <1>3 DEF IInv, InParams, InExecute, IndexLeftAtSeparator

(* A finished line is tidy only if it has no empty token.                  *)
LEMMA LineStep ==
  ASSUME IInv, ReadEnter \/ CutLine
  PROVE  IInv'
<1>1. PICK text : EndLine(text) /\ text \in {line, Front(line)} /\ pc = "read"
  BY DEF ReadEnter, CutLine
<1>2. /\ line' = text /\ pc' = "name" /\ tidy' = (tidy /\ ~HasEmptyToken(text))
      /\ UNCHANGED <<nextTokenIndex, cmd>>
  BY <1>1 DEF EndLine
<1>3. line \in Seq(Characters) /\ Len(line) <= MaxLine /\ Len(line) \in Nat
  BY DEF IInv, Types
<1>4. text \in Seq(Characters) /\ Len(text) <= MaxLine
  <2>1. CASE text = line
    BY <1>3, <2>1
  <2>2. CASE text = SubSeq(line, 1, Len(line) - 1)
    <3>1. \A i \in 1 .. Len(line) - 1 : line[i] \in Characters
      BY <1>3
    <3>2. /\ text \in Seq(Characters)
          /\ Len(text) = IF 1 <= Len(line) - 1 THEN (Len(line) - 1) - 1 + 1 ELSE 0
      BY <1>3, <2>2, <3>1, SubSeqProperties
    <3> QED
      BY <1>3, <3>2, CliAssumption
  <2> QED
    BY <1>1, <2>1, <2>2 DEF Front
<1>5. Types'
  <2>1. tidy' \in BOOLEAN
    BY <1>2 DEF HasEmptyToken, IInv, Types
  <2> QED
    BY <1>2, <1>4, <2>1 DEF IInv, Types
<1>6. Tidy'
  BY <1>1, <1>2 DEF IInv, Tidy, HasEmptyToken
<1> QED
  BY <1>2, <1>5, <1>6 DEF IInv, InParams, InExecute, IndexLeftAtSeparator

(* What stringSplit leaves when it fails.                                  *)
LEMMA Fails ==
  ASSUME IInv, SplitFails, line' = line
  PROVE  /\ nextTokenIndex' \in 0 .. MaxLine
         /\ nextTokenIndex' # 0 => /\ nextTokenIndex' <= Len(line)
                                   /\ line[nextTokenIndex'] = Space
                                   /\ nextTokenIndex' = nextTokenIndex + 1
                                   /\ nextTokenIndex < Len(line)
<1>1. CASE AtEnd /\ nextTokenIndex' = 0
  BY <1>1, CliAssumption
<1>2. CASE ~AtEnd /\ Token = <<>> /\ nextTokenIndex' = AfterToken
  <2>1. PICK m : m = AfterToken
    OBVIOUS
  <2>2. /\ m \in nextTokenIndex .. Len(line) /\ m = nextTokenIndex + 1
        /\ line[m] = Space /\ nextTokenIndex < Len(line) /\ Len(line) \in Nat
        /\ nextTokenIndex \in Nat
    BY <1>2, <2>1, TokenIs DEF IInv
  <2>3. Len(line) <= MaxLine
    BY DEF IInv, Types
  <2> QED
    BY <1>2, <2>1, <2>2, <2>3, CliAssumption
<1> QED
  BY <1>1, <1>2 DEF SplitFails

(* cliParse without a name: the line is empty, or an empty token stopped   *)
(* it and left the index behind the separator.                             *)
LEMMA ParseNothingStep ==
  ASSUME IInv, ParseNothing
  PROVE  IInv'
<1>1. /\ pc = "name" /\ SplitFails /\ cmd' = NoCommand /\ pc' = "execute"
      /\ UNCHANGED <<line, tidy>>
  BY DEF ParseNothing
<1>2. PICK m : m = nextTokenIndex'
  OBVIOUS
<1>3. /\ m \in 0 .. MaxLine
      /\ m # 0 => /\ m <= Len(line) /\ line[m] = Space
                  /\ m = nextTokenIndex + 1 /\ nextTokenIndex < Len(line)
  BY <1>1, <1>2, Fails
<1>4. ASSUME tidy PROVE m = 0 /\ line = <<>>
  <2>1. nextTokenIndex = 0 /\ ~HasEmptyToken(line)
    BY <1>1, <1>4 DEF IInv, Tidy
  <2>2. m = 0
    <3> SUFFICES ASSUME m # 0 PROVE FALSE
      OBVIOUS
    <3>1. m = 1 /\ line[1] = Space /\ 1 \in DOMAIN line
      BY <1>3, <2>1 DEF IInv, Types
    <3> QED
      BY <2>1, <3>1 DEF HasEmptyToken
  <2>3. AtEnd
    BY <1>1, <1>2, <2>1, <2>2, TokenIs DEF SplitFails, IInv
  <2> QED
    BY <2>1, <2>2, <2>3, EmptySeq DEF AtEnd, IInv, Types
<1>5. Types'
  BY <1>1, <1>2, <1>3, CliAssumption DEF IInv, Types, NoCommand
<1>6. Tidy'
  BY <1>1, <1>2, <1>4 DEF IInv, Tidy
<1>7. InParams' /\ InExecute'
  BY <1>1, <1>4 DEF InParams, InExecute
<1>8. IndexLeftAtSeparator'
  BY <1>1, <1>2, <1>3 DEF IndexLeftAtSeparator
<1> QED
  BY <1>5, <1>6, <1>7, <1>8 DEF IInv

(* The name is the first word of the line from the index on.               *)
LEMMA ParseNameStep ==
  ASSUME IInv, ParseName
  PROVE  IInv'
<1>1. /\ pc = "name" /\ pc' = "params" /\ UNCHANGED <<line, tidy>>
      /\ cmd' = [NoCommand EXCEPT !.name = Token]
      /\ ~AtEnd /\ Len(Token) \in 1 .. TokenSize - 1 /\ nextTokenIndex' = AfterToken
  BY DEF ParseName, SplitFinds
<1>2. PICK m : m = AfterToken
  OBVIOUS
<1>3. PICK t : t = Token
  OBVIOUS
<1>4. PICK n \in Nat : n = nextTokenIndex
  BY DEF IInv, Types
<1>5. /\ m \in n .. Len(line) /\ (m = Len(line) \/ line[m] = Space) /\ m >= n + 1
      /\ t \in Seq(Letters) /\ t # <<>> /\ Len(line) \in Nat
  <2>1. Token # <<>>
    BY <1>1, EmptySeq
  <2> QED
    BY <1>1, <1>2, <1>3, <1>4, <2>1, TokenIs DEF IInv
<1>6. cmd' = [name |-> t, params |-> <<>>] /\ Executed' = <<t>>
  <2>1. cmd' = [name |-> t, params |-> <<>>]
    BY <1>1, <1>3 DEF NoCommand
  <2>2. Executed' = <<t>> \o <<>>
    BY <2>1 DEF Executed
  <2>3. <<t>> \in Seq(Seq(Letters))
    BY <1>5
  <2> QED
    BY <2>1, <2>2, <2>3, ConcatEmptySeq
<1>7. WordsUpTo(<<t>>, line, n + 1, m)
  <2>1. Before(line, n + 1, n) = {}
    BY <1>5 DEF Before, WordStarts
  <2>2. WordsUpTo(<<>>, line, n + 1, n)
    BY <2>1, FS_EmptySet DEF WordsUpTo
  <2>3. Append(<<>>, t) = <<t>> /\ <<>> \in Seq(Seq(Letters)) /\ n + 1 \in 1 .. n + 1
    BY <1>5
  <2> QED
    BY <1>1, <1>2, <1>3, <1>4, <1>5, <2>2, <2>3, WordAdded DEF IInv
<1>8. tidy => n + 1 = 1
  BY <1>1, <1>4 DEF IInv, Tidy
<1>9. Types'
  <2>1. m \in 0 .. MaxLine
    <3>1. m \in Nat /\ m <= Len(line)
      BY <1>4, <1>5
    <3> QED
      BY <3>1, InLine DEF IInv
  <2>2. Len(t) < TokenSize
    BY <1>1, <1>3, <1>5, CliAssumption
  <2>3. cmd' \in [name : Seq(Letters), params : Seq(Seq(Letters))]
    <3>1. PICK S : S = Seq(Letters)
      OBVIOUS
    <3>2. <<>> \in Seq(S) /\ t \in S
      BY <1>5, <3>1
    <3> QED
      BY <1>6, <3>1, <3>2
  <2>4. cmd'.name = t /\ cmd'.params = <<>> /\ Len(<<>>) = 0
    BY <1>6
  <2>5. Len(cmd'.name) < TokenSize /\ Len(cmd'.params) <= ParamSlots
    BY <2>2, <2>4, CliAssumption
  <2> QED
    BY <1>1, <1>2, <2>1, <2>3, <2>5 DEF IInv, Types
<1>10. Tidy'
  BY <1>1 DEF IInv, Tidy
<1>11. InParams'
  <2>1. n + 1 \in 1 .. m /\ m \in 1 .. Len(line)
    BY <1>5
  <2>2. \E from \in 1 .. m : (tidy => from = 1) /\ WordsUpTo(<<t>>, line, from, m)
    BY <1>7, <1>8, <2>1
  <2> QED
    BY <1>1, <1>2, <1>5, <1>6, <2>1, <2>2 DEF InParams
<1>12. InExecute' /\ IndexLeftAtSeparator'
  BY <1>1 DEF InExecute, IndexLeftAtSeparator
<1> QED
  BY <1>9, <1>10, <1>11, <1>12 DEF IInv

(* A parameter is the next word of the line, and fits into its slot.       *)
LEMMA ParseParamStep ==
  ASSUME IInv, ParseParam
  PROVE  IInv'
<1>1. /\ pc = "params" /\ pc' = "params" /\ UNCHANGED <<line, tidy>>
      /\ Len(cmd.params) < ParamSlots
      /\ cmd' = [cmd EXCEPT !.params = Append(@, Token)]
      /\ ~AtEnd /\ Len(Token) \in 1 .. TokenSize - 1 /\ nextTokenIndex' = AfterToken
  BY DEF ParseParam, SplitFinds
<1>2. PICK m : m = AfterToken
  OBVIOUS
<1>3. PICK t : t = Token
  OBVIOUS
<1>4. PICK n : n = nextTokenIndex
  OBVIOUS
<1>5. PICK from \in 1 .. n :
        /\ cmd.name # <<>> /\ n \in 1 .. Len(line) /\ (n = Len(line) \/ line[n] = Space)
        /\ (tidy => from = 1) /\ WordsUpTo(Executed, line, from, n)
  BY <1>1, <1>4 DEF IInv, InParams
<1>6. /\ m \in n .. Len(line) /\ (m = Len(line) \/ line[m] = Space)
      /\ t \in Seq(Letters) /\ t # <<>> /\ Len(line) \in Nat /\ n \in Nat
      /\ line[n] = Space
  <2>1. Token # <<>>
    BY <1>1, EmptySeq
  <2> QED
    BY <1>1, <1>2, <1>3, <1>4, <1>5, <2>1, TokenIs DEF IInv
<1>7. /\ cmd.name \in Seq(Letters) /\ cmd.params \in Seq(Seq(Letters))
      /\ Len(cmd.params) \in Nat
      /\ cmd'.name = cmd.name /\ cmd'.params = Append(cmd.params, t)
      /\ cmd' \in [name : Seq(Letters), params : Seq(Seq(Letters))]
      /\ Len(cmd'.params) = Len(cmd.params) + 1
  <2>1. cmd \in [name : Seq(Letters), params : Seq(Seq(Letters))]
    BY DEF IInv, Types
  <2>2. PICK S : S = Seq(Letters)
    OBVIOUS
  <2>3. cmd \in [name : S, params : Seq(S)] /\ t \in S
    BY <1>6, <2>1, <2>2
  <2>4. Append(cmd.params, t) \in Seq(S) /\ Len(Append(cmd.params, t)) = Len(cmd.params) + 1
    BY <2>3, AppendIs
  <2>5. PICK ps : ps = Append(cmd.params, t)
    OBVIOUS
  <2>6. cmd' = [cmd EXCEPT !.params = ps] /\ ps \in Seq(S)
    BY <1>1, <1>3, <2>4, <2>5
  <2>7. /\ cmd'.name = cmd.name /\ cmd'.params = ps
        /\ cmd' \in [name : S, params : Seq(S)]
    BY <2>3, <2>6
  <2>8. Len(cmd'.params) = Len(cmd.params) + 1
    BY <2>4, <2>5, <2>7
  <2>9. Len(cmd.params) \in Nat
    BY <2>3
  <2> QED
    BY <2>2, <2>3, <2>5, <2>7, <2>8, <2>9
<1>8. Executed \in Seq(Seq(Letters)) /\ Executed' = Append(Executed, t)
  <2>1. PICK w \in Seq(Letters) : w = cmd.name
    BY <1>7
  <2>2. PICK ps \in Seq(Seq(Letters)) : ps = cmd.params
    BY <1>7
  <2>3. <<w>> \o ps \in Seq(Seq(Letters)) /\ <<w>> \o Append(ps, t) = Append(<<w>> \o ps, t)
    BY <1>6, ExecutedIs
  <2>4. Executed = <<w>> \o ps
    BY <2>1, <2>2 DEF Executed
  <2>5. Executed' = <<w>> \o Append(ps, t)
    BY <1>7, <2>1, <2>2 DEF Executed
  <2> QED
    BY <2>3, <2>4, <2>5
<1>9. WordsUpTo(Append(Executed, t), line, from, m)
  <2>1. from \in 1 .. n + 1
    BY <1>6
  <2> QED
    BY <1>1, <1>2, <1>3, <1>4, <1>5, <1>6, <1>8, <2>1, WordAdded DEF IInv
<1>10. Types'
  <2>1. m \in 0 .. MaxLine
    <3>1. m \in Nat /\ m <= Len(line)
      BY <1>6
    <3> QED
      BY <3>1, InLine DEF IInv
  <2>2. Len(cmd'.params) <= ParamSlots /\ Len(cmd'.name) < TokenSize
    BY <1>1, <1>7, CliAssumption DEF IInv, Types
  <2> QED
    BY <1>1, <1>2, <1>7, <2>1, <2>2 DEF IInv, Types
<1>11. Tidy'
  BY <1>1 DEF IInv, Tidy
<1>12. InParams'
  <2>1. from \in 1 .. m /\ m \in 1 .. Len(line)
    BY <1>5, <1>6
  <2>2. \E f \in 1 .. m : (tidy => f = 1) /\ WordsUpTo(Executed', line, f, m)
    BY <1>5, <1>8, <1>9, <2>1
  <2> QED
    BY <1>1, <1>2, <1>5, <1>6, <1>7, <2>1, <2>2 DEF InParams
<1>13. InExecute' /\ IndexLeftAtSeparator'
  BY <1>1 DEF InExecute, IndexLeftAtSeparator
<1> QED
  BY <1>10, <1>11, <1>12, <1>13 DEF IInv

(* Parsing ends at the end of the line or at an empty token; a tidy line   *)
(* has none, so all of it was taken.                                       *)
LEMMA ParseEndsStep ==
  ASSUME IInv, ParseEnds
  PROVE  IInv'
<1>1. /\ pc = "params" /\ pc' = "execute" /\ SplitFails /\ UNCHANGED <<line, cmd, tidy>>
  BY DEF ParseEnds
<1>2. PICK m : m = nextTokenIndex'
  OBVIOUS
<1>3. PICK n : n = nextTokenIndex
  OBVIOUS
<1>4. /\ m \in 0 .. MaxLine
      /\ m # 0 => m <= Len(line) /\ line[m] = Space /\ m = n + 1 /\ n < Len(line)
  BY <1>1, <1>2, <1>3, Fails
<1>5. PICK from \in 1 .. n :
        /\ cmd.name # <<>> /\ n \in 1 .. Len(line) /\ (n = Len(line) \/ line[n] = Space)
        /\ (tidy => from = 1) /\ WordsUpTo(Executed, line, from, n)
  BY <1>1, <1>3 DEF IInv, InParams
<1>6. Len(line) \in Nat /\ DOMAIN line = 1 .. Len(line)
  BY DEF IInv, Types
<1>7. ASSUME tidy PROVE m = 0 /\ n = Len(line)
  <2>1. ~HasEmptyToken(line)
    BY <1>1, <1>7 DEF IInv, Tidy
  <2>2. m = 0
    <3> SUFFICES ASSUME m # 0 PROVE FALSE
      OBVIOUS
    <3>1. m \in DOMAIN line /\ line[m] = Space /\ line[m - 1] = Space
      <4>1. /\ n \in Nat /\ n < Len(line) /\ m = n + 1 /\ m <= Len(line)
            /\ line[m] = Space /\ n \in 1 .. Len(line)
        <5>1. n \in 1 .. Len(line)
          BY <1>5
        <5>2. m <= Len(line) /\ line[m] = Space /\ m = n + 1 /\ n < Len(line)
          BY <1>4
        <5> QED
          BY <1>6, <5>1, <5>2
      <4>2. PICK L \in Nat : L = Len(line)
        BY <1>6
      <4>3. m - 1 = n /\ m \in 1 .. L /\ n # L
        BY <4>1, <4>2
      <4>4. line[n] = Space
        BY <1>5, <4>2, <4>3
      <4> QED
        BY <1>6, <4>1, <4>2, <4>3, <4>4
    <3> QED
      BY <2>1, <3>1 DEF HasEmptyToken
  <2>3. AtEnd
    <3>1. ~AtEnd /\ Token = <<>> => AfterToken = n + 1 /\ n \in Nat
      BY <1>3, TokenIs DEF IInv
    <3> QED
      BY <1>1, <1>2, <2>2, <3>1 DEF SplitFails
  <2> QED
    BY <1>3, <1>5, <1>6, <2>2, <2>3 DEF AtEnd
<1>8. Types'
  BY <1>1, <1>2, <1>4 DEF IInv, Types
<1>9. Tidy'
  BY <1>1, <1>2, <1>7 DEF IInv, Tidy
<1>10. InExecute'
  <2>1. Executed' = Executed
    BY <1>1 DEF Executed
  <2>2. \E k \in 1 .. Len(line) : \E f \in 1 .. k :
          (tidy => f = 1 /\ k = Len(line)) /\ WordsUpTo(Executed, line, f, k)
    BY <1>5, <1>7
  <2> QED
    BY <1>1, <1>5, <2>1, <2>2 DEF InExecute
<1>11. InParams' /\ IndexLeftAtSeparator'
  BY <1>1, <1>2, <1>4 DEF InParams, IndexLeftAtSeparator
<1> QED
  BY <1>8, <1>9, <1>10, <1>11 DEF IInv

(* Nothing is claimed about a command after a store outside its arrays.    *)
LEMMA StoreOutsideStep ==
  ASSUME IInv, StoreOutside
  PROVE  IInv'
<1>1. /\ pc' = "overrun" /\ nextTokenIndex' = AfterToken /\ ~AtEnd
      /\ UNCHANGED <<line, cmd, tidy>>
  BY DEF StoreOutside, TokenTooLong, SplitFinds
<1>2. PICK m : m = AfterToken
  OBVIOUS
<1>3. m \in 0 .. MaxLine
  <2>1. m \in Nat /\ m <= Len(line)
    BY <1>1, <1>2, TokenIs DEF IInv
  <2> QED
    BY <2>1, InLine DEF IInv
<1> QED
  BY <1>1, <1>2, <1>3 DEF IInv, Types, Tidy, InParams, InExecute, IndexLeftAtSeparator

(* The next line starts with an empty command, and with the index it       *)
(* finds.                                                                  *)
LEMMA ExecuteStep ==
  ASSUME IInv, Execute
  PROVE  IInv'
<1>1. /\ pc = "execute" /\ pc' = "read" /\ line' = <<>> /\ cmd' = NoCommand
      /\ UNCHANGED <<nextTokenIndex, tidy>>
  BY DEF Execute
<1>2. Types'
  BY <1>1, CliAssumption DEF IInv, Types, NoCommand
<1>3. Tidy'
  BY <1>1 DEF IInv, Tidy
<1> QED
  BY <1>1, <1>2, <1>3 DEF IInv, InParams, InExecute, IndexLeftAtSeparator

(* Every step of cliLoop keeps the inductive invariant.                    *)
LEMMA Steps == IInv /\ [Next]_vars => IInv'
<1> SUFFICES ASSUME IInv, [Next]_vars PROVE IInv'
  OBVIOUS
<1>1. CASE UNCHANGED vars
  BY <1>1 DEF vars, IInv, Types, Tidy, InParams, InExecute, Executed, IndexLeftAtSeparator
<1> QED
  BY <1>1, ReadStep, LineStep, ParseNothingStep, ParseNameStep, ParseParamStep,
     ParseEndsStep, StoreOutsideStep, ExecuteStep DEF Next

(* The inductive invariant holds as long as the command line runs.         *)
THEOREM Invariance == Spec => []IInv
<1>1. Init => IInv
  BY Starts
<1>2. IInv /\ [Next]_vars => IInv'
  BY Steps
<1> QED
  BY <1>1, <1>2, PTL DEF Spec

(* The line, the index and the command stay within the arrays of cliLoop.  *)
THEOREM TypeCorrect == Spec => []TypeOK
<1>1. IInv => TypeOK
  BY DEF IInv, Types, TypeOK, Text, Word, Characters
<1> QED
  BY <1>1, Invariance, PTL

(* The index stringSplit keeps between lines is zero or stands behind a    *)
(* separator of the line that left it.                                     *)
THEOREM IndexIsAtSeparator == Spec => []IndexLeftAtSeparator
<1>1. IInv => IndexLeftAtSeparator
  BY DEF IInv
<1> QED
  BY <1>1, Invariance, PTL

(* A command that was taken from a line is a beginning of its words.       *)
LEMMA Taken ==
  ASSUME IInv, NEW from \in Nat \ {0}, NEW n \in Nat, WordsUpTo(Executed, line, from, n)
  PROVE  /\ Executed \in Seq(Seq(Letters))
         /\ DOMAIN Words(line, from) = 1 .. Cardinality(WordStarts(line, from))
         /\ Cardinality(WordStarts(line, from)) \in Nat
         /\ Len(Executed) <= Cardinality(WordStarts(line, from))
         /\ n = Len(line) => Len(Executed) = Cardinality(WordStarts(line, from))
<1>1. Executed \in Seq(Seq(Letters))
  BY ExecutedIs DEF Executed, IInv, Types
<1>2. /\ Cardinality(WordStarts(line, from)) \in Nat
      /\ Len(Executed) <= Cardinality(WordStarts(line, from))
  BY StartsAre DEF IInv, WordsUpTo
<1>3. n = Len(line) => Before(line, from, n) = WordStarts(line, from)
  BY StartsAre DEF IInv, Before
<1> QED
  BY <1>1, <1>2, <1>3 DEF Words, WordsUpTo

(* Until a line with an empty token comes, cliParse gives                  *)
(* cliExecuteCommand exactly the words of the line.                        *)
THEOREM CommandIsTheLine == Spec => []CommandIsLine
<1>1. ASSUME IInv PROVE CommandIsLine
  <2> SUFFICES ASSUME tidy, pc = "execute"
               PROVE  IF line = <<>> THEN cmd = NoCommand ELSE Executed = Words(line, 1)
    BY DEF CommandIsLine
  <2>1. CASE cmd = NoCommand /\ line = <<>>
    BY <2>1
  <2>2. ASSUME NEW n \in 1 .. Len(line), n = Len(line), WordsUpTo(Executed, line, 1, n)
        PROVE  line # <<>> /\ Executed = Words(line, 1)
    <3>1. n \in Nat /\ Len(line) # 0
      BY <2>2
    <3>2. line # <<>>
      BY <3>1
    <3>3. PICK w : w = Words(line, 1)
      OBVIOUS
    <3>4. PICK e : e = Executed
      OBVIOUS
    <3>5. e \in Seq(Seq(Letters)) /\ DOMAIN w = 1 .. Len(e)
      BY <1>1, <2>2, <3>1, <3>3, <3>4, Taken
    <3>6. \A k \in 1 .. Len(e) : e[k] = w[k]
      BY <2>2, <3>3, <3>4 DEF WordsUpTo
    <3>7. w = [k \in DOMAIN w |-> w[k]]
      BY <3>3 DEF Words
    <3>8. e = [k \in 1 .. Len(e) |-> e[k]]
      BY <3>5, LenProperties
    <3> QED
      BY <3>2, <3>3, <3>4, <3>5, <3>6, <3>7, <3>8
  <2> QED
    BY <1>1, <2>1, <2>2 DEF IInv, InExecute
<1> QED
  BY <1>1, Invariance, PTL

(* Even after such lines a command is made of consecutive words of its own *)
(* line: the index may skip some, it never invents or mixes.               *)
THEOREM NothingIsInvented == Spec => []NothingInvented
<1>1. ASSUME IInv PROVE NothingInvented
  <2> SUFFICES ASSUME pc = "execute", cmd.name # <<>>
               PROVE  \E i \in 1 .. Len(line) : IsPrefix(Executed, Words(line, i))
    BY DEF NothingInvented
  <2>1. PICK n \in 1 .. Len(line) : \E from \in 1 .. n : WordsUpTo(Executed, line, from, n)
    BY <1>1 DEF IInv, InExecute, NoCommand
  <2>2. PICK from \in 1 .. n : WordsUpTo(Executed, line, from, n)
    BY <2>1
  <2>3. from \in Nat \ {0} /\ n \in Nat /\ from \in 1 .. Len(line)
    BY <1>1 DEF IInv, Types
  <2>4. PICK w : w = Words(line, from)
    OBVIOUS
  <2>5. PICK e : e = Executed
    OBVIOUS
  <2>6. PICK c : c = Cardinality(WordStarts(line, from))
    OBVIOUS
  <2>7. /\ e \in Seq(Seq(Letters)) /\ DOMAIN w = 1 .. c /\ c \in Nat /\ Len(e) <= c
        /\ \A k \in 1 .. Len(e) : e[k] = w[k]
    BY <1>1, <2>2, <2>3, <2>4, <2>5, <2>6, Taken DEF WordsUpTo
  <2>8. Len(w) = c
    BY <2>4, <2>6, <2>7 DEF Words
  <2>9. SubSeq(e, 1, Len(e)) = SubSeq(w, 1, Len(e))
    <3>1. \A k \in 1 .. Len(e) : e[k] \in Seq(Letters) /\ w[k] \in Seq(Letters)
      BY <2>7
    <3> QED
      BY <2>7, <3>1, SubSeqProperties, SeqEqual
  <2> QED
    BY <2>3, <2>4, <2>5, <2>7, <2>8, <2>9 DEF IsPrefix
<1> QED
  BY <1>1, Invariance, PTL
=============================================================================
