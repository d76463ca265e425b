---------------------------- MODULE TextsProofs -----------------------------
(***************************************************************************)
(* What Formats writes it reads, for every length of names and numbers;    *)
(* and what Paths looks for it finds, in trees of any size and depth.      *)
(***************************************************************************)
EXTENDS Formats, Paths, SequenceTheorems, FiniteSetTheorems, NaturalsInduction,
        WellFoundedInduction, TLAPS

-----------------------------------------------------------------------------
(* Loops.                                                                  *)

(* A non-empty set of natural numbers has a least element.                 *)
LEMMA HasLeast ==
  ASSUME NEW S, S \subseteq Nat, S # {}
  PROVE  \E x \in S : \A y \in S : x <= y
<1>1. PICK x \in S : \A y \in S : ~ (<<y, x>> \in OpToRel(<, Nat))
  BY WFMin, NatLessThanWellFounded
<1>2. \A y \in S : ~(y < x)
  BY <1>1 DEF OpToRel
<1> QED
  BY <1>2

(* A set with every number whose predecessors it has, has all numbers.     *)
LEMMA AllNumbers ==
  ASSUME NEW S, \A n \in Nat : (\A k \in 0 .. n - 1 : k \in S) => n \in S
  PROVE  Nat \subseteq S
<1>1. SUFFICES ASSUME Nat \ S # {} PROVE FALSE
  OBVIOUS
<1>2. PICK n \in Nat \ S : \A k \in Nat \ S : n <= k
  BY <1>1, HasLeast
<1>3. \A k \in 0 .. n - 1 : k \in S
  BY <1>2
<1> QED
  BY <1>2, <1>3

(* The first n values of a loop whose round i starts from an earlier one.  *)
Rounds(f, n, start, from, step) ==
  f[0] = start /\ \A i \in 1 .. n : f[i] = step[i][f[from[i]]]

(* Every such loop has a result.                                           *)
LEMMA LoopsEnd ==
  ASSUME NEW N \in Nat, NEW Q, NEW start \in Q, NEW step \in [1 .. N -> [Q -> Q]],
         NEW from \in [1 .. N -> Nat], \A i \in 1 .. N : from[i] < i
  PROVE  \E f \in [0 .. N -> Q] : Rounds(f, N, start, from, step)
<1> DEFINE Ends(n) == \E f \in [0 .. n -> Q] : Rounds(f, n, start, from, step)
           S == {n \in Nat : n <= N => Ends(n)}
<1>1. ASSUME NEW n \in Nat, \A k \in 0 .. n - 1 : k \in S
      PROVE  n \in S
  <2> SUFFICES ASSUME n <= N PROVE Ends(n)
    OBVIOUS
  <2>1. CASE n = 0
    <3> DEFINE f == [i \in 0 .. n |-> start]
    <3>1. f \in [0 .. n -> Q] /\ f[0] = start /\ 1 .. n = {}
      BY <2>1
    <3> HIDE DEF f
    <3> QED
      BY <3>1 DEF Rounds
  <2>2. CASE n # 0
    <3>1. n - 1 \in 0 .. n - 1 /\ n - 1 <= N
      BY <2>2
    <3>2. n - 1 \in S
      <4> HIDE DEF S
      <4> QED
        BY <1>1, <3>1
    <3>3. PICK g \in [0 .. n - 1 -> Q] : Rounds(g, n - 1, start, from, step)
      BY <3>1, <3>2
    <3> DEFINE f == [i \in 0 .. n |-> IF i < n THEN g[i] ELSE step[n][g[from[n]]]]
    <3>4. from[n] \in 0 .. n - 1 /\ step[n] \in [Q -> Q]
      BY <2>2
    <3>5. f \in [0 .. n -> Q]
      BY <2>2, <3>4
    <3>6. f[0] = start
      BY <2>2, <3>3 DEF Rounds
    <3>7. \A i \in 1 .. n : from[i] \in 0 .. n - 1 /\ i \in 0 .. n /\ from[i] \in 0 .. n
      OBVIOUS
    <3>8. \A i \in 1 .. n : f[i] = step[i][f[from[i]]]
      BY <2>2, <3>3, <3>7 DEF Rounds
    <3> HIDE DEF f
    <3> QED
      BY <3>5, <3>6, <3>8 DEF Rounds
  <2> QED
    BY <2>1, <2>2
<1>2. N \in S
  <2> HIDE DEF S
  <2> QED
    BY <1>1, AllNumbers
<1> QED
  BY <1>2

(* Loops that start alike and go on alike.                                 *)
Alongside(n, f, g) ==
  /\ n \in Nat /\ f[0] = g[0]
  /\ \A i \in 1 .. n : f[i - 1] = g[i - 1] => f[i] = g[i]

SameUpTo(n, f, g) == \A i \in 0 .. n : f[i] = g[i]

(* They are alike.                                                         *)
LEMMA LoopsAgree ==
  ASSUME NEW n, NEW f, NEW g, Alongside(n, f, g)
  PROVE  SameUpTo(n, f, g)
<1>1. n \in Nat /\ f[0] = g[0] /\ \A i \in 1 .. n : f[i - 1] = g[i - 1] => f[i] = g[i]
  BY DEF Alongside
<1> DEFINE S == {i \in Nat : i <= n => f[i] = g[i]}
<1>2. ASSUME NEW i \in Nat, \A k \in 0 .. i - 1 : k \in S
      PROVE  i \in S
  <2>1. CASE i = 0
    BY <1>1, <2>1
  <2>2. CASE i # 0
    <3>1. i - 1 \in 0 .. i - 1 /\ (i <= n => i \in 1 .. n /\ i - 1 <= n)
      BY <1>1, <2>2
    <3>2. i - 1 \in S
      <4> HIDE DEF S
      <4> QED
        BY <1>2, <3>1
    <3> QED
      BY <1>1, <3>1, <3>2
  <2> QED
    BY <2>1, <2>2
<1>3. Nat \subseteq S
  <2> HIDE DEF S
  <2> QED
    BY <1>2, AllNumbers
<1> QED
  BY <1>1, <1>3 DEF SameUpTo

-----------------------------------------------------------------------------
(* Names.                                                                  *)

(* The loop of NoSpaces, as the function it defines and round by round.    *)
KeptAll(kept, text) ==
  kept = [i \in 0 .. Len(text) |->
            IF i = 0 THEN <<>>
            ELSE IF text[i] = Padding THEN kept[i - 1] ELSE Append(kept[i - 1], text[i])]

Kept(kept, text) ==
  /\ kept[0] = <<>>
  /\ \A i \in 1 .. Len(text) :
       kept[i] = IF text[i] = Padding THEN kept[i - 1] ELSE Append(kept[i - 1], text[i])

(* NoSpaces is what its loop computes.                                     *)
LEMMA NoSpacesIs ==
  ASSUME NEW Chars, NEW text \in Seq(Chars)
  PROVE  \E kept : Kept(kept, text) /\ NoSpaces(text) = kept[Len(text)]
<1> DEFINE N == Len(text)
           Q == Seq(Chars)
           step == [i \in 1 .. N |-> [q \in Q |-> IF text[i] = Padding THEN q
                                                  ELSE Append(q, text[i])]]
           from == [i \in 1 .. N |-> i - 1]
<1>1. N \in Nat /\ <<>> \in Q /\ \A i \in 1 .. N : text[i] \in Chars
  OBVIOUS
<1>2. step \in [1 .. N -> [Q -> Q]]
  BY <1>1
<1>3. from \in [1 .. N -> Nat] /\ \A i \in 1 .. N : from[i] < i
  BY <1>1
<1>4. PICK f \in [0 .. N -> Q] : Rounds(f, N, <<>>, from, step)
  <2> HIDE DEF N, Q, step, from
  <2> QED
    BY <1>1, <1>2, <1>3, LoopsEnd
<1>5. \A i \in 0 .. N :
        f[i] = IF i = 0 THEN <<>>
               ELSE IF text[i] = Padding THEN f[i - 1] ELSE Append(f[i - 1], text[i])
  <2> TAKE i \in 0 .. N
  <2>1. CASE i = 0
    BY <1>4, <2>1 DEF Rounds
  <2>2. CASE i # 0
    <3>1. i \in 1 .. N /\ i - 1 \in 0 .. N
      BY <1>1, <2>2
    <3>2. f[i - 1] \in Q /\ from[i] = i - 1
      BY <3>1
    <3>3. f[i] = step[i][f[i - 1]]
      <4> HIDE DEF from, step, N, Q
      <4> QED
        BY <1>4, <3>1, <3>2 DEF Rounds
    <3> HIDE DEF from
    <3> QED
      BY <2>2, <3>1, <3>2, <3>3
  <2> QED
    BY <2>1, <2>2
<1>6. KeptAll(f, text)
  BY <1>5 DEF KeptAll
<1>7. PICK g : g = CHOOSE h : KeptAll(h, text)
  OBVIOUS
<1>8. KeptAll(g, text)
  BY <1>6, <1>7
<1>9. NoSpaces(text) = g[Len(text)]
  BY <1>7 DEF NoSpaces, KeptAll
<1>10. Kept(g, text)
  <2>1. \A i \in 0 .. N :
          g[i] = IF i = 0 THEN <<>>
                 ELSE IF text[i] = Padding THEN g[i - 1] ELSE Append(g[i - 1], text[i])
    BY <1>8, Zenon DEF KeptAll
  <2>2. 0 \in 0 .. N /\ \A i \in 1 .. N : i \in 0 .. N /\ i # 0
    BY <1>1
  <2> QED
    BY <2>1, <2>2, Zenon DEF Kept
<1> QED
  BY <1>9, <1>10

(* No space is left, and nothing is added.                                 *)
LEMMA NoSpaceLeft ==
  ASSUME NEW Chars, NEW text \in Seq(Chars)
  PROVE  NoSpaces(text) \in Seq(Chars \ {Padding}) /\ Len(NoSpaces(text)) <= Len(text)
<1>1. PICK kept : Kept(kept, text) /\ NoSpaces(text) = kept[Len(text)]
  BY NoSpacesIs
<1> DEFINE S == {n \in Nat : n <= Len(text) =>
                    kept[n] \in Seq(Chars \ {Padding}) /\ Len(kept[n]) <= n}
<1>2. ASSUME NEW n \in Nat, \A k \in 0 .. n - 1 : k \in S
      PROVE  n \in S
  <2> SUFFICES ASSUME n <= Len(text)
               PROVE  kept[n] \in Seq(Chars \ {Padding}) /\ Len(kept[n]) <= n
    OBVIOUS
  <2>1. CASE n = 0
    <3>1. kept[n] = <<>>
      BY <1>1, <2>1 DEF Kept
    <3> QED
      BY <2>1, <3>1
  <2>2. CASE n # 0
    <3>1. n - 1 \in 0 .. n - 1 /\ n \in 1 .. Len(text)
      BY <2>2
    <3>2. kept[n - 1] \in Seq(Chars \ {Padding}) /\ Len(kept[n - 1]) <= n - 1
      BY <1>2, <3>1
    <3>3. kept[n] = IF text[n] = Padding THEN kept[n - 1] ELSE Append(kept[n - 1], text[n])
      BY <1>1, <2>2, <3>1 DEF Kept
    <3> QED
      BY <3>1, <3>2, <3>3
  <2> QED
    BY <2>1, <2>2
<1>3. Len(text) \in S
  <2> HIDE DEF S
  <2>1. Nat \subseteq S
    BY <1>2, AllNumbers
  <2> QED
    BY <2>1
<1> QED
  BY <1>1, <1>3

(* What comes before the first space is kept, and spaces behind it are not.*)
LEMMA PaddingDropped ==
  ASSUME NEW Chars, NEW text \in Seq(Chars), NEW m \in 0 .. Len(text),
         \A k \in 1 .. m : text[k] # Padding,
         \A k \in m + 1 .. Len(text) : text[k] = Padding
  PROVE  /\ NoSpaces(text) \in Seq(Chars) /\ Len(NoSpaces(text)) = m
         /\ \A k \in 1 .. m : NoSpaces(text)[k] = text[k]
<1>1. PICK kept : Kept(kept, text) /\ NoSpaces(text) = kept[Len(text)]
  BY NoSpacesIs
<1> DEFINE Right(n) == /\ kept[n] \in Seq(Chars)
                       /\ Len(kept[n]) = IF n <= m THEN n ELSE m
                       /\ \A k \in 1 .. Len(kept[n]) : kept[n][k] = text[k]
           S == {n \in Nat : n <= Len(text) => Right(n)}
<1>2. ASSUME NEW n \in Nat, \A k \in 0 .. n - 1 : k \in S
      PROVE  n \in S
  <2> SUFFICES ASSUME n <= Len(text) PROVE Right(n)
    OBVIOUS
  <2>1. CASE n = 0
    <3>1. kept[n] = <<>>
      BY <1>1, <2>1 DEF Kept
    <3> QED
      BY <2>1, <3>1
  <2>2. CASE n # 0
    <3>1. n - 1 \in 0 .. n - 1 /\ n \in 1 .. Len(text) /\ text[n] \in Chars
      BY <2>2
    <3>2. Right(n - 1)
      BY <1>2, <3>1
    <3>3. kept[n] = IF text[n] = Padding THEN kept[n - 1] ELSE Append(kept[n - 1], text[n])
      BY <1>1, <2>2, <3>1 DEF Kept
    <3>4. CASE n <= m
      <4>1. kept[n] = Append(kept[n - 1], text[n]) /\ Len(kept[n - 1]) = n - 1
        BY <3>1, <3>2, <3>3, <3>4
      <4> QED
        BY <3>1, <3>2, <3>4, <4>1
    <3>5. CASE n > m
      <4>1. kept[n] = kept[n - 1] /\ Len(kept[n - 1]) = m
        BY <3>1, <3>2, <3>3, <3>5
      <4> QED
        BY <3>2, <3>5, <4>1
    <3> QED
      BY <3>4, <3>5
  <2> QED
    BY <2>1, <2>2
<1>3. Len(text) \in S
  <2> HIDE DEF S
  <2>1. Nat \subseteq S
    BY <1>2, AllNumbers
  <2> QED
    BY <2>1
<1> QED
  BY <1>1, <1>3

(* The first position of a character, if it has one.                       *)
LEMMA FirstIs ==
  ASSUME NEW Chars, NEW text \in Seq(Chars), NEW c
  PROVE  /\ FirstAt(c, text) \in 1 .. Len(text) + 1
         /\ FirstAt(c, text) <= Len(text) => text[FirstAt(c, text)] = c
         /\ \A k \in 1 .. FirstAt(c, text) - 1 : text[k] # c
<1> DEFINE S == {i \in 1 .. Len(text) : text[i] = c} \cup {Len(text) + 1}
           Fit(i) == /\ i <= Len(text) => text[i] = c
                     /\ \A k \in 1 .. i - 1 : text[k] # c
<1>1. S \subseteq Nat /\ S # {}
  OBVIOUS
<1>2. PICK i \in S : \A k \in S : i <= k
  <2> HIDE DEF S
  <2> QED
    BY <1>1, HasLeast
<1>3. i \in 1 .. Len(text) + 1 /\ (i <= Len(text) => text[i] = c)
  OBVIOUS
<1>4. \A k \in 1 .. i - 1 : text[k] # c
  <2> TAKE k \in 1 .. i - 1
  <2>1. k \in 1 .. Len(text) /\ ~(i <= k)
    BY <1>3
  <2> QED
    BY <1>2, <2>1
<1>5. Fit(i)
  BY <1>3, <1>4
<1>6. FirstAt(c, text) = CHOOSE j \in 1 .. Len(text) + 1 : Fit(j)
  BY DEF FirstAt
<1> HIDE DEF Fit
<1>7. FirstAt(c, text) \in 1 .. Len(text) + 1 /\ Fit(FirstAt(c, text))
  BY <1>3, <1>5, <1>6
<1> QED
  BY <1>7 DEF Fit

(* Spaces up to a size.                                                    *)
LEMMA PaddedIs ==
  ASSUME NEW Chars, NEW text \in Seq(Chars), NEW size \in Nat, Padding \in Chars
  PROVE  /\ Padded(text, size) \in Seq(Chars)
         /\ Len(Padded(text, size)) = IF Len(text) < size THEN size ELSE Len(text)
         /\ \A i \in 1 .. Len(Padded(text, size)) :
              Padded(text, size)[i] = IF i <= Len(text) THEN text[i] ELSE Padding
<1>1. PICK n \in Nat : n = IF Len(text) < size THEN size - Len(text) ELSE 0
  OBVIOUS
<1>2. PICK spaces : spaces = [i \in 1 .. n |-> Padding]
  OBVIOUS
<1>3. spaces \in Seq(Chars) /\ Len(spaces) = n /\ \A i \in 1 .. n : spaces[i] = Padding
  BY <1>2
<1>4. Padded(text, size) = text \o spaces
  BY <1>1, <1>2 DEF Padded
<1>5. /\ text \o spaces \in Seq(Chars) /\ Len(text \o spaces) = Len(text) + n
      /\ \A i \in 1 .. Len(text) + n :
           (text \o spaces)[i] = IF i <= Len(text) THEN text[i] ELSE spaces[i - Len(text)]
  BY <1>3, ConcatProperties
<1>6. \A i \in 1 .. Len(text) + n : ~(i <= Len(text)) => i - Len(text) \in 1 .. n
  OBVIOUS
<1> QED
  BY <1>1, <1>3, <1>4, <1>5, <1>6

(* A name whose first dot comes after n characters, in its two parts.      *)
Split(name, n, b, x) ==
  /\ n = FirstAt(Dot, name) - 1 /\ n <= Len(name)
  /\ n < Len(name) => name[n + 1] = Dot
  /\ Len(b) = n
  /\ \A i \in 1 .. n : b[i] = name[i] /\ name[i] # Dot
  /\ Len(x) = IF n < Len(name) THEN Len(name) - n - 1 ELSE 0
  /\ \A i \in 1 .. Len(x) : x[i] = name[n + 1 + i]

(* A name is its base, or its base, a dot and its extension.               *)
LEMMA PartsAre ==
  ASSUME NEW Chars, NEW name \in Seq(Chars)
  PROVE  /\ Base(name) \in Seq(Chars) /\ Extension(name) \in Seq(Chars)
         /\ \E n \in Nat : Split(name, n, Base(name), Extension(name))
<1>1. PICK n \in Nat : n = FirstAt(Dot, name) - 1
  BY FirstIs
<1>2. /\ n <= Len(name) /\ FirstAt(Dot, name) = n + 1
      /\ n < Len(name) => name[n + 1] = Dot
      /\ \A k \in 1 .. n : name[k] # Dot
  BY <1>1, FirstIs
<1>3. Base(name) = SubSeq(name, 1, n) /\ Extension(name) = SubSeq(name, n + 2, Len(name))
  <2>1. (n + 1) - 1 = n /\ (n + 1) + 1 = n + 2
    OBVIOUS
  <2> QED
    BY <1>2, <2>1 DEF Base, Extension
<1>4. /\ Base(name) \in Seq(Chars) /\ Len(Base(name)) = n
      /\ \A i \in 1 .. n : Base(name)[i] = name[i]
  BY <1>2, <1>3, SubSeqProperties
<1>5. /\ Extension(name) \in Seq(Chars)
      /\ Len(Extension(name)) = IF n < Len(name) THEN Len(name) - n - 1 ELSE 0
      /\ \A i \in 1 .. Len(Extension(name)) : Extension(name)[i] = name[n + 1 + i]
  <2>1. CASE n < Len(name)
    BY <1>3, <2>1, SubSeqProperties
  <2>2. CASE ~(n < Len(name))
    <3>1. Extension(name) = <<>>
      BY <1>2, <1>3, <2>2, SubSeqEmpty
    <3> QED
      BY <2>2, <3>1
  <2> QED
    BY <2>1, <2>2
<1> QED
  BY <1>1, <1>2, <1>4, <1>5 DEF Split

(* What is stored for a name.                                              *)
LEMMA StoredIs ==
  ASSUME NEW Chars, Padding \in Chars, NEW name \in Seq(Chars),
         BaseSize \in Nat, ExtSize \in Nat \ {0},
         NEW b, NEW x, b = Base(name), x = Extension(name)
  PROVE  /\ Stored(name).filename \in Seq(Chars) /\ Len(Stored(name).filename) = BaseSize
         /\ \A i \in 1 .. BaseSize :
              Stored(name).filename[i] = IF i <= Len(b) THEN b[i] ELSE Padding
         /\ Stored(name).ext \in Seq(Chars) /\ Len(Stored(name).ext) = ExtSize
         /\ Len(b) <= BaseSize => \A i \in 1 .. ExtSize :
              Stored(name).ext[i] = IF i <= Len(x) THEN x[i] ELSE Padding
         /\ Len(b) <= BaseSize /\ Len(x) <= ExtSize => ~Stored(name).beyond
<1> DEFINE padded == Padded(b, BaseSize)
           inner == padded \o x
           size  == BaseSize + ExtSize + 1
           bytes == Padded(inner, size)
<1>1. b \in Seq(Chars) /\ x \in Seq(Chars) /\ size \in Nat
  BY PartsAre
<1>2. PICK m \in Nat : m = IF Len(b) < BaseSize THEN BaseSize ELSE Len(b)
  BY <1>1
<1>3. /\ padded \in Seq(Chars) /\ Len(padded) = m
      /\ \A i \in 1 .. m : padded[i] = IF i <= Len(b) THEN b[i] ELSE Padding
  BY <1>1, <1>2, PaddedIs
<1> HIDE DEF padded
<1>4. /\ inner \in Seq(Chars) /\ Len(inner) = m + Len(x)
      /\ \A i \in 1 .. m + Len(x) : inner[i] = IF i <= m THEN padded[i] ELSE x[i - m]
  BY <1>1, <1>3, ConcatProperties
<1> HIDE DEF inner
<1>5. PICK N \in Nat : N = IF m + Len(x) < size THEN size ELSE m + Len(x)
  BY <1>1
<1>6. /\ bytes \in Seq(Chars) /\ Len(bytes) = N
      /\ \A i \in 1 .. N : bytes[i] = IF i <= m + Len(x) THEN inner[i] ELSE Padding
  <2> HIDE DEF size
  <2>1. /\ bytes \in Seq(Chars)
        /\ Len(bytes) = IF Len(inner) < size THEN size ELSE Len(inner)
        /\ \A i \in 1 .. Len(bytes) : bytes[i] = IF i <= Len(inner) THEN inner[i] ELSE Padding
    <3>1. ASSUME NEW t \in Seq(Chars), NEW k \in Nat
          PROVE  /\ Padded(t, k) \in Seq(Chars)
                 /\ Len(Padded(t, k)) = IF Len(t) < k THEN k ELSE Len(t)
                 /\ \A i \in 1 .. Len(Padded(t, k)) :
                      Padded(t, k)[i] = IF i <= Len(t) THEN t[i] ELSE Padding
      BY PaddedIs
    <3> QED
      BY <1>1, <1>4, <3>1
  <2>2. Len(bytes) = N
    BY <1>4, <1>5, <2>1, Zenon
  <2> QED
    BY <1>4, <2>1, <2>2, Zenon
<1>7. N >= BaseSize + ExtSize + 1
  BY <1>1, <1>5
<1>8. bytes = formatFat16FileName(name)
  BY DEF formatFat16FileName, inner, padded
<1> HIDE DEF bytes
<1>9. /\ Stored(name).filename = SubSeq(bytes, 1, BaseSize)
      /\ Stored(name).ext = SubSeq(bytes, BaseSize + 1, BaseSize + ExtSize)
      /\ Stored(name).beyond <=> Len(bytes) > BaseSize + ExtSize + 1
  BY <1>8 DEF Stored
<1>10. /\ SubSeq(bytes, 1, BaseSize) \in Seq(Chars)
       /\ Len(SubSeq(bytes, 1, BaseSize)) = BaseSize
       /\ \A i \in 1 .. BaseSize : SubSeq(bytes, 1, BaseSize)[i] = bytes[i]
  BY <1>6, <1>7, SubSeqProperties
<1>11. /\ SubSeq(bytes, BaseSize + 1, BaseSize + ExtSize) \in Seq(Chars)
       /\ Len(SubSeq(bytes, BaseSize + 1, BaseSize + ExtSize)) = ExtSize
       /\ \A i \in 1 .. ExtSize :
            SubSeq(bytes, BaseSize + 1, BaseSize + ExtSize)[i] = bytes[BaseSize + i]
  <2>1. PICK p \in Nat, q \in Nat : p = BaseSize + 1 /\ q = BaseSize + ExtSize
    OBVIOUS
  <2>2. p \in Int /\ q \in Int /\ p <= q /\ \A i \in p .. q : bytes[i] \in Chars
    BY <1>6, <1>7, <2>1
  <2>3. /\ SubSeq(bytes, p, q) \in Seq(Chars) /\ Len(SubSeq(bytes, p, q)) = q - p + 1
        /\ \A i \in 1 .. q - p + 1 : SubSeq(bytes, p, q)[i] = bytes[p + i - 1]
    BY <2>2, SubSeqProperties
  <2>4. q - p + 1 = ExtSize /\ \A i \in 1 .. ExtSize : p + i - 1 = BaseSize + i
    BY <2>1
  <2> QED
    BY <2>1, <2>3, <2>4
<1>12. \A i \in 1 .. BaseSize : bytes[i] = IF i <= Len(b) THEN b[i] ELSE Padding
  BY <1>1, <1>2, <1>3, <1>4, <1>6, <1>7, SMTT(30)
<1>13. ASSUME Len(b) <= BaseSize, NEW i \in 1 .. ExtSize
       PROVE  bytes[BaseSize + i] = IF i <= Len(x) THEN x[i] ELSE Padding
  <2>1. m = BaseSize /\ BaseSize + i \in 1 .. N /\ ~(BaseSize + i <= m)
        /\ (BaseSize + i) - m = i
    BY <1>1, <1>2, <1>7, <1>13, SMTT(30)
  <2> QED
    BY <1>1, <1>4, <1>6, <2>1
<1>14. Len(b) <= BaseSize /\ Len(x) <= ExtSize => ~(N > BaseSize + ExtSize + 1)
  BY <1>1, <1>2, <1>5
<1> QED
  BY <1>6, <1>9, <1>10, <1>11, <1>12, <1>13, <1>14

(* A name is listed as it was created if and only if it fits, and then     *)
(* nothing is stored behind it.                                            *)
THEOREM NamesReadBack ==
  ASSUME NEW Chars, NEW name \in Seq(Chars), BaseSize \in Nat, ExtSize \in Nat \ {0}
  PROVE  /\ (stringFat16Format(Stored(name)) = name) <=> Fits(name)
         /\ Fits(name) => ~Stored(name).beyond
<1> DEFINE C == Chars \cup {Padding, Dot}
           b == Base(name)
           x == Extension(name)
           file == Stored(name).filename
           ext == Stored(name).ext
           dotted == <<Dot>> \o NoSpaces(ext)
           result == stringFat16Format(Stored(name))
<1>1. name \in Seq(C) /\ Padding \in C /\ Dot \in C /\ Padding # Dot
  <2>1. Chars \subseteq C /\ Padding \in C /\ Dot \in C
    OBVIOUS
  <2>2. Padding # Dot
    BY DEF Padding, Dot
  <2> HIDE DEF C
  <2> QED
    BY <2>1, <2>2, SeqMonotonic
<1>2. b \in Seq(C) /\ x \in Seq(C) /\ \E n \in Nat : Split(name, n, b, x)
  <2> HIDE DEF C
  <2> QED
    BY <1>1, PartsAre
<1>3. PICK n \in Nat : Split(name, n, b, x)
  BY <1>2
<1>4. /\ n = FirstAt(Dot, name) - 1 /\ n <= Len(name)
      /\ n < Len(name) => name[n + 1] = Dot
      /\ b \in Seq(C) /\ Len(b) = n
      /\ \A i \in 1 .. n : b[i] = name[i] /\ name[i] # Dot
      /\ x \in Seq(C)
      /\ Len(x) = IF n < Len(name) THEN Len(name) - n - 1 ELSE 0
      /\ \A i \in 1 .. Len(x) : x[i] = name[n + 1 + i]
  <2> HIDE DEF C, b, x
  <2> QED
    BY <1>2, <1>3 DEF Split
<1>5. /\ file \in Seq(C) /\ Len(file) = BaseSize
      /\ \A i \in 1 .. BaseSize : file[i] = IF i <= n THEN b[i] ELSE Padding
      /\ ext \in Seq(C) /\ Len(ext) = ExtSize
      /\ n <= BaseSize => \A i \in 1 .. ExtSize :
           ext[i] = IF i <= Len(x) THEN x[i] ELSE Padding
      /\ n <= BaseSize /\ Len(x) <= ExtSize => ~Stored(name).beyond
  <2> HIDE DEF C, b, x
  <2>1. b = Base(name) /\ x = Extension(name)
    BY DEF b, x
  <2> QED
    BY <1>1, <1>4, <2>1, StoredIs
<1>6. result = NoSpaces(file) \o (IF ext[1] = Padding THEN <<>> ELSE dotted)
  BY DEF stringFat16Format
<1>7. Fits(name) <=> /\ n <= BaseSize /\ Len(x) <= ExtSize
                     /\ n + 1 # Len(name) /\ NoSpaces(name) = name
  <2>1. FirstAt(Dot, name) = n + 1
    BY <1>4, FirstIs
  <2> QED
    BY <1>4, <2>1 DEF Fits
<1> HIDE DEF C, b, x, file, ext, result
<1>8. NoSpaces(file) \in Seq(C \ {Padding}) /\ Len(NoSpaces(file)) <= BaseSize
  BY <1>5, NoSpaceLeft
<1>9. /\ dotted \in Seq(C \ {Padding}) /\ dotted[1] = Dot /\ Len(dotted) \in 1 .. 1 + ExtSize
      /\ dotted = <<Dot>> \o NoSpaces(ext)
  <2>1. NoSpaces(ext) \in Seq(C \ {Padding}) /\ Len(NoSpaces(ext)) <= ExtSize
    BY <1>5, NoSpaceLeft
  <2>2. <<Dot>> \in Seq(C \ {Padding}) /\ Len(<<Dot>>) = 1 /\ <<Dot>>[1] = Dot
    BY <1>1
  <2> QED
    BY <2>1, <2>2, ConcatProperties
<1> HIDE DEF dotted
<1>10. result \in Seq(C \ {Padding})
  <2>1. CASE ext[1] = Padding
    <3>1. result = NoSpaces(file)
      BY <1>6, <1>8, <2>1, ConcatEmptySeq
    <3> QED
      BY <1>8, <3>1
  <2>2. CASE ext[1] # Padding
    <3>1. result = NoSpaces(file) \o dotted
      BY <1>6, <2>2
    <3> QED
      BY <1>8, <1>9, <3>1, ConcatProperties
  <2> QED
    BY <2>1, <2>2
<1>11. name \in Seq(C \ {Padding}) => NoSpaces(name) = name
  <2> SUFFICES ASSUME name \in Seq(C \ {Padding}) PROVE NoSpaces(name) = name
    OBVIOUS
  <2>1. /\ Len(name) \in 0 .. Len(name) /\ \A k \in 1 .. Len(name) : name[k] # Padding
        /\ \A k \in Len(name) + 1 .. Len(name) : name[k] = Padding
    OBVIOUS
  <2>2. /\ NoSpaces(name) \in Seq(C) /\ Len(NoSpaces(name)) = Len(name)
        /\ \A k \in 1 .. Len(name) : NoSpaces(name)[k] = name[k]
    BY <1>1, <2>1, PaddingDropped
  <2> QED
    BY <1>1, <2>2, SeqEqual
<1>12. NoSpaces(name) = name => \A k \in 1 .. Len(name) : name[k] # Padding
  <2>1. NoSpaces(name) \in Seq(C \ {Padding})
    BY <1>1, NoSpaceLeft
  <2> QED
    BY <2>1
<1>13. ASSUME result = name
       PROVE  Fits(name)
  <2>1. NoSpaces(name) = name /\ \A k \in 1 .. Len(name) : name[k] # Padding
    BY <1>10, <1>11, <1>12, <1>13
  <2>2. n <= BaseSize
    <3> SUFFICES ASSUME n > BaseSize PROVE FALSE
      BY <1>4
    <3>1. \A i \in 1 .. BaseSize : file[i] = name[i] /\ file[i] # Padding
      BY <1>4, <1>5, <2>1
    <3>2. Len(NoSpaces(file)) = BaseSize
      <4>1. /\ BaseSize \in 0 .. Len(file) /\ \A k \in 1 .. BaseSize : file[k] # Padding
            /\ \A k \in BaseSize + 1 .. Len(file) : file[k] = Padding
        BY <1>5, <3>1
      <4> QED
        BY <1>5, <4>1, PaddingDropped
    <3>3. name[BaseSize + 1] # Dot /\ Len(name) > BaseSize
      BY <1>4
    <3>4. CASE ext[1] = Padding
      <4>1. result = NoSpaces(file)
        BY <1>6, <1>8, <3>4, ConcatEmptySeq
      <4> QED
        BY <1>13, <3>2, <3>3, <4>1
    <3>5. CASE ext[1] # Padding
      <4>1. result = NoSpaces(file) \o dotted
        BY <1>6, <3>5
      <4>2. result[BaseSize + 1] = Dot
        <5>1. PICK s, t : s = NoSpaces(file) /\ t = dotted
          OBVIOUS
        <5>2. /\ s \in Seq(C \ {Padding}) /\ t \in Seq(C \ {Padding})
              /\ Len(s) = BaseSize /\ Len(t) >= 1 /\ t[1] = Dot
          BY <1>8, <1>9, <3>2, <5>1
        <5>3. \A i \in 1 .. Len(s) + Len(t) :
                (s \o t)[i] = IF i <= Len(s) THEN s[i] ELSE t[i - Len(s)]
          BY <5>2, ConcatProperties
        <5>4. BaseSize + 1 \in 1 .. Len(s) + Len(t) /\ ~(BaseSize + 1 <= Len(s))
              /\ (BaseSize + 1) - Len(s) = 1
          BY <5>2
        <5> QED
          BY <4>1, <5>1, <5>2, <5>3, <5>4
      <4> QED
        BY <1>13, <3>3, <4>2
    <3> QED
      BY <3>4, <3>5
  <2>3. Len(NoSpaces(file)) = n
    <3>1. /\ n \in 0 .. Len(file) /\ \A k \in 1 .. n : file[k] # Padding
          /\ \A k \in n + 1 .. Len(file) : file[k] = Padding
      <4>1. n \in 0 .. Len(file)
        BY <1>4, <1>5, <2>1, <2>2
      <4>2. \A k \in 1 .. n : b[k] = name[k] /\ name[k] # Padding /\ k \in 1 .. BaseSize
        BY <1>4, <2>1, <2>2
      <4>3. \A k \in 1 .. n : file[k] # Padding
        BY <1>5, <4>2
      <4>4. \A k \in n + 1 .. Len(file) : file[k] = Padding
        BY <1>4, <1>5, <4>1
      <4> QED
        BY <4>1, <4>3, <4>4
    <3> QED
      BY <1>5, <3>1, PaddingDropped
  <2>4. Len(name) <= n + 1 + ExtSize
    <3>1. Len(result) = n \/ Len(result) = n + Len(dotted)
      <4>1. CASE ext[1] = Padding
        BY <1>6, <1>8, <2>3, <4>1, ConcatEmptySeq
      <4>2. CASE ext[1] # Padding
        BY <1>6, <1>8, <1>9, <2>3, <4>2
      <4> QED
        BY <4>1, <4>2
    <3> QED
      BY <1>9, <1>13, <3>1
  <2>5. n + 1 # Len(name)
    <3> SUFFICES ASSUME n + 1 = Len(name) PROVE FALSE
      OBVIOUS
    <3>1. Len(x) = 0 /\ ext[1] = Padding
      BY <1>4, <1>5, <2>2
    <3>2. result = NoSpaces(file)
      BY <1>6, <1>8, <3>1, ConcatEmptySeq
    <3> QED
      BY <1>13, <2>3, <3>2
  <2> QED
    BY <1>4, <1>7, <2>1, <2>2, <2>4, <2>5
<1>14. ASSUME Fits(name)
       PROVE  result = name
  <2>1. /\ n <= BaseSize /\ Len(x) <= ExtSize /\ n + 1 # Len(name)
        /\ \A k \in 1 .. Len(name) : name[k] # Padding
    BY <1>7, <1>12, <1>14
  <2>2. /\ NoSpaces(file) \in Seq(C) /\ Len(NoSpaces(file)) = n
        /\ \A k \in 1 .. n : NoSpaces(file)[k] = name[k]
    <3>1. /\ n \in 0 .. Len(file) /\ \A k \in 1 .. n : file[k] # Padding
          /\ \A k \in n + 1 .. Len(file) : file[k] = Padding
      <4>1. n \in 0 .. Len(file)
        BY <1>4, <1>5, <2>1
      <4>2. \A k \in 1 .. n : b[k] = name[k] /\ name[k] # Padding /\ k \in 1 .. BaseSize
        BY <1>4, <2>1
      <4>3. \A k \in 1 .. n : file[k] # Padding
        BY <1>5, <4>2
      <4>4. \A k \in n + 1 .. Len(file) : file[k] = Padding
        BY <1>4, <1>5, <4>1
      <4> QED
        BY <4>1, <4>3, <4>4
    <3>2. \A k \in 1 .. n : file[k] = name[k]
      BY <1>4, <1>5, <2>1
    <3> QED
      BY <1>5, <3>1, <3>2, PaddingDropped, ZenonT(30)
  <2>3. CASE n = Len(name)
    <3>1. Len(x) = 0 /\ ext[1] = Padding
      BY <1>4, <1>5, <2>1, <2>3
    <3>2. result = NoSpaces(file)
      BY <1>6, <1>8, <3>1, ConcatEmptySeq
    <3> QED
      BY <1>1, <2>2, <2>3, <3>2, SeqEqual
  <2>4. CASE n < Len(name)
    <3>1. PICK e \in Nat : e = Len(x)
      BY <1>4
    <3>2. e >= 1 /\ Len(name) = n + 1 + e /\ e <= ExtSize /\ name[n + 1] = Dot
      <4>1. e = Len(name) - n - 1 /\ name[n + 1] = Dot
        BY <1>4, <2>4, <3>1
      <4>2. PICK len \in Nat : len = Len(name)
        OBVIOUS
      <4>3. n < len /\ n + 1 # len /\ e = len - n - 1 /\ e <= ExtSize
        BY <2>1, <2>4, <3>1, <4>1, <4>2
      <4>4. e >= 1 /\ len = n + 1 + e
        BY <4>3
      <4> QED
        BY <4>1, <4>2, <4>3, <4>4
    <3>3. \A k \in 1 .. e : ext[k] = name[n + 1 + k] /\ ext[k] # Padding
      <4> TAKE k \in 1 .. e
      <4>1. k \in 1 .. ExtSize /\ k <= Len(x) /\ n + 1 + k \in 1 .. Len(name)
        BY <3>1, <3>2
      <4>2. x[k] = name[n + 1 + k] /\ name[n + 1 + k] # Padding
        BY <1>4, <2>1, <3>1, <4>1
      <4>3. ext[k] = x[k]
        BY <1>5, <2>1, <4>1
      <4> QED
        BY <4>2, <4>3
    <3>4. /\ NoSpaces(ext) \in Seq(C) /\ Len(NoSpaces(ext)) = e
          /\ \A k \in 1 .. e : NoSpaces(ext)[k] = name[n + 1 + k]
      <4>1. /\ e \in 0 .. Len(ext) /\ \A k \in 1 .. e : ext[k] # Padding
            /\ \A k \in e + 1 .. Len(ext) : ext[k] = Padding
        BY <1>5, <2>1, <3>1, <3>2, <3>3
      <4> QED
        BY <1>5, <3>3, <4>1, PaddingDropped, ZenonT(30)
    <3>5. /\ dotted \in Seq(C) /\ Len(dotted) = 1 + e
          /\ \A k \in 1 .. 1 + e : dotted[k] = name[n + k]
      <4>1. <<Dot>> \in Seq(C) /\ Len(<<Dot>>) = 1 /\ <<Dot>>[1] = Dot
        BY <1>1
      <4>2. /\ dotted \in Seq(C) /\ Len(dotted) = 1 + e
            /\ \A k \in 1 .. 1 + e :
                 dotted[k] = IF k <= 1 THEN <<Dot>>[k] ELSE NoSpaces(ext)[k - 1]
        BY <1>9, <3>4, <4>1, ConcatProperties
      <4>3. \A k \in 1 .. 1 + e :
              dotted[k] = IF k = 1 THEN Dot ELSE name[n + 1 + (k - 1)]
        BY <3>4, <4>1, <4>2
      <4>4. \A k \in 1 .. 1 + e : k # 1 => n + 1 + (k - 1) = n + k
        OBVIOUS
      <4> QED
        BY <3>2, <4>2, <4>3, <4>4
    <3>6. result = NoSpaces(file) \o dotted
      <4>1. 1 \in 1 .. e
        BY <3>2
      <4>2. ext[1] # Padding
        BY <3>3, <4>1, Zenon
      <4> QED
        BY <1>6, <4>2, Zenon
    <3>7. /\ result \in Seq(C) /\ Len(result) = n + (1 + e)
          /\ \A k \in 1 .. n + (1 + e) :
               result[k] = IF k <= n THEN NoSpaces(file)[k] ELSE dotted[k - n]
      <4>1. PICK s, t : s = NoSpaces(file) /\ t = dotted
        OBVIOUS
      <4>2. s \in Seq(C) /\ t \in Seq(C) /\ Len(s) = n /\ Len(t) = 1 + e
        BY <2>2, <3>5, <4>1
      <4>3. /\ s \o t \in Seq(C) /\ Len(s \o t) = n + (1 + e)
            /\ \A k \in 1 .. n + (1 + e) : (s \o t)[k] = IF k <= n THEN s[k] ELSE t[k - n]
        <5>1. /\ s \o t \in Seq(C) /\ Len(s \o t) = Len(s) + Len(t)
              /\ \A k \in 1 .. Len(s) + Len(t) :
                   (s \o t)[k] = IF k <= Len(s) THEN s[k] ELSE t[k - Len(s)]
          BY <4>2, ConcatProperties
        <5> QED
          BY <4>2, <5>1, Zenon
      <4> QED
        BY <3>6, <4>1, <4>3
    <3>8. \A k \in 1 .. Len(name) : result[k] = name[k]
      <4> TAKE k \in 1 .. Len(name)
      <4>1. CASE k <= n
        BY <2>2, <3>2, <3>7, <4>1
      <4>2. CASE k > n
        <5>1. k - n \in 1 .. 1 + e /\ n + (k - n) = k
          BY <3>2, <4>2
        <5> QED
          BY <3>2, <3>5, <3>7, <4>2, <5>1
      <4> QED
        BY <4>1, <4>2
    <3> QED
      BY <1>1, <3>2, <3>7, <3>8, SeqEqual
  <2> QED
    BY <1>4, <2>3, <2>4
<1>15. Fits(name) => ~Stored(name).beyond
  BY <1>5, <1>7
<1> QED
  BY <1>13, <1>14, <1>15 DEF result

-----------------------------------------------------------------------------
(* Numbers.                                                                *)

(* Digits differ, and each has its value.                                  *)
LEMMA DigitsAre ==
  /\ \A v \in 0 .. 15 : ValueOf(Digits[v + 1]) = v
  /\ \A v \in 0 .. 9 : IsDigit(Digits[v + 1], 10) /\ Digits[v + 1] # "x"
  /\ \A v \in 0 .. 15 : IsDigit(Digits[v + 1], 16)
<1>1. DOMAIN Digits = 1 .. 16
  BY DEF Digits
<1>2. \A i, j \in 1 .. 16 : Digits[i] = Digits[j] => i = j
  BY DEF Digits
<1>3. \A v \in 0 .. 15 : ValueOf(Digits[v + 1]) = v
  BY <1>1, <1>2 DEF ValueOf
<1>4. \A i \in 1 .. 10 : Digits[i] # "x"
  BY DEF Digits
<1> QED
  BY <1>3, <1>4 DEF IsDigit

(* A digit has a value.                                                    *)
LEMMA DigitValue ==
  ASSUME NEW base \in 0 .. 16, NEW c, IsDigit(c, base)
  PROVE  ValueOf(c) \in Nat
<1>1. DOMAIN Digits = 1 .. 16
  BY DEF Digits
<1>2. PICK i \in DOMAIN Digits : Digits[i] = c
  BY <1>1 DEF IsDigit
<1> QED
  BY <1>1, <1>2 DEF ValueOf

(* Numbers that are divided are smaller, and are put together again.       *)
LEMMA Divided ==
  ASSUME NEW k \in Nat, NEW d \in {10, 16}
  PROVE  /\ k \div d \in Nat /\ k % d \in 0 .. d - 1 /\ k = d * (k \div d) + (k % d)
         /\ k # 0 => k \div d < k
<1>1. CASE d = 10
  BY <1>1, Z3
<1>2. CASE d = 16
  BY <1>2, Z3
<1> QED
  BY <1>1, <1>2

(* The loop of unsignedIntToString, as the function it defines and number  *)
(* by number.                                                              *)
TextAll(text, n) ==
  text = [k \in 0 .. n |->
            IF k = 0 THEN <<>> ELSE Append(text[k \div 10], Digits[(k % 10) + 1])]

Text(text, n) ==
  /\ text[0] = <<>>
  /\ \A k \in 1 .. n : text[k] = Append(text[k \div 10], Digits[(k % 10) + 1])

DecimalDigits == {Digits[v + 1] : v \in 0 .. 9}

(* unsignedIntToString is what its loop computes.                          *)
LEMMA TextIs ==
  ASSUME NEW n \in Nat
  PROVE  \E text : Text(text, n) /\ unsignedIntToString(n) = text[n]
<1> DEFINE Q == Seq(DecimalDigits)
           step == [k \in 1 .. n |-> [q \in Q |-> Append(q, Digits[(k % 10) + 1])]]
           from == [k \in 1 .. n |-> k \div 10]
<1>1. \A k \in 1 .. n : /\ k \div 10 \in Nat /\ k \div 10 < k
                        /\ Digits[(k % 10) + 1] \in DecimalDigits
  <2> TAKE k \in 1 .. n
  <2>1. k \div 10 \in Nat /\ k \div 10 < k /\ k % 10 \in 0 .. 9
    BY Divided
  <2> QED
    BY <2>1 DEF DecimalDigits
<1>2. step \in [1 .. n -> [Q -> Q]] /\ <<>> \in Q
  <2>1. ASSUME NEW k \in 1 .. n, NEW q \in Q PROVE Append(q, Digits[(k % 10) + 1]) \in Q
    <3>1. PICK c \in DecimalDigits : c = Digits[(k % 10) + 1]
      BY <1>1
    <3> QED
      BY <3>1
  <2>2. <<>> \in Q
    OBVIOUS
  <2> HIDE DEF Q
  <2> QED
    BY <2>1, <2>2, Zenon
<1>3. from \in [1 .. n -> Nat] /\ \A k \in 1 .. n : from[k] < k
  BY <1>1
<1>4. PICK f \in [0 .. n -> Q] : Rounds(f, n, <<>>, from, step)
  <2> HIDE DEF Q, step, from
  <2> QED
    BY <1>2, <1>3, LoopsEnd
<1>5. \A k \in 0 .. n :
        f[k] = IF k = 0 THEN <<>> ELSE Append(f[k \div 10], Digits[(k % 10) + 1])
  <2> TAKE k \in 0 .. n
  <2>1. CASE k = 0
    BY <1>4, <2>1 DEF Rounds
  <2>2. CASE k # 0
    <3>1. k \in 1 .. n
      BY <2>2
    <3>2. k \div 10 \in 0 .. n /\ from[k] = k \div 10
      BY <1>1, <3>1
    <3>3. f[k \div 10] \in Q
      <4> HIDE DEF Q
      <4> QED
        BY <3>2
    <3>4. f[k] = step[k][f[k \div 10]]
      <4> HIDE DEF from, step, Q
      <4> QED
        BY <1>4, <3>1, <3>2 DEF Rounds
    <3>5. step[k][f[k \div 10]] = Append(f[k \div 10], Digits[(k % 10) + 1])
      <4> HIDE DEF Q
      <4> QED
        BY <3>1, <3>3, Zenon
    <3> QED
      BY <2>2, <3>4, <3>5, Zenon
  <2> QED
    BY <2>1, <2>2
<1>6. TextAll(f, n)
  <2>1. f = [k \in 0 .. n |-> f[k]]
    OBVIOUS
  <2> QED
    BY <1>5, <2>1, Zenon DEF TextAll
<1>7. PICK g : g = CHOOSE h : TextAll(h, n)
  OBVIOUS
<1>8. TextAll(g, n)
  BY <1>6, <1>7
<1>9. unsignedIntToString(n) = g[n]
  BY <1>7 DEF unsignedIntToString, TextAll
<1>10. Text(g, n)
  <2>1. \A k \in 0 .. n :
          g[k] = IF k = 0 THEN <<>> ELSE Append(g[k \div 10], Digits[(k % 10) + 1])
    BY <1>8, Zenon DEF TextAll
  <2>2. 0 \in 0 .. n /\ \A k \in 1 .. n : k \in 0 .. n /\ k # 0
    OBVIOUS
  <2> QED
    BY <2>1, <2>2, Zenon DEF Text
<1> QED
  BY <1>9, <1>10

(* Powers of 16, as the function Unsigned defines and one by one.          *)
PowerAll(power) ==
  power = [i \in 0 .. HexDigits |-> IF i = 0 THEN 1 ELSE 16 * power[i - 1]]

Power(power) ==
  /\ power[0] = 1
  /\ \A i \in 1 .. HexDigits : power[i] = 16 * power[i - 1]

(* Unsigned is 16 to the number of digits.                                 *)
LEMMA UnsignedIs ==
  ASSUME HexDigits \in Nat
  PROVE  \E power : /\ Power(power) /\ Unsigned = power[HexDigits]
                    /\ \A i \in 0 .. HexDigits : power[i] \in Nat \ {0}
<1> DEFINE n == HexDigits
           Q == Nat \ {0}
           step == [i \in 1 .. n |-> [q \in Q |-> 16 * q]]
           from == [i \in 1 .. n |-> i - 1]
<1>1. step \in [1 .. n -> [Q -> Q]] /\ 1 \in Q
  OBVIOUS
<1>2. from \in [1 .. n -> Nat] /\ \A i \in 1 .. n : from[i] < i
  OBVIOUS
<1>3. PICK f \in [0 .. n -> Q] : Rounds(f, n, 1, from, step)
  <2> HIDE DEF step, from, Q
  <2> QED
    BY <1>1, <1>2, LoopsEnd
<1>4. \A i \in 0 .. n : f[i] = IF i = 0 THEN 1 ELSE 16 * f[i - 1]
  <2> TAKE i \in 0 .. n
  <2>1. CASE i = 0
    BY <1>3, <2>1 DEF Rounds
  <2>2. CASE i # 0
    <3>1. i \in 1 .. n /\ f[i - 1] \in Q /\ from[i] = i - 1
      BY <2>2
    <3>2. f[i] = step[i][f[i - 1]]
      <4> HIDE DEF from, step, Q
      <4> QED
        BY <1>3, <3>1 DEF Rounds
    <3>3. step[i][f[i - 1]] = 16 * f[i - 1]
      BY <3>1, Zenon
    <3> QED
      BY <2>2, <3>2, <3>3, Zenon
  <2> QED
    BY <2>1, <2>2
<1>5. PowerAll(f)
  <2>1. f = [i \in 0 .. n |-> f[i]]
    OBVIOUS
  <2> QED
    BY <1>4, <2>1, Zenon DEF PowerAll
<1>6. PICK g : g = CHOOSE h : PowerAll(h)
  OBVIOUS
<1>7. PowerAll(g)
  BY <1>5, <1>6
<1>8. Unsigned = g[HexDigits]
  BY <1>6 DEF Unsigned, PowerAll
<1>9. Power(g)
  <2>1. \A i \in 0 .. n : g[i] = IF i = 0 THEN 1 ELSE 16 * g[i - 1]
    BY <1>7, Zenon DEF PowerAll
  <2>2. 0 \in 0 .. n /\ \A i \in 1 .. n : i \in 0 .. n /\ i # 0
    OBVIOUS
  <2> QED
    BY <2>1, <2>2, Zenon DEF Power
<1> DEFINE S == {i \in Nat : i <= n => g[i] \in Q}
<1>10. ASSUME NEW i \in Nat, \A k \in 0 .. i - 1 : k \in S
       PROVE  i \in S
  <2> SUFFICES ASSUME i <= n PROVE g[i] \in Q
    OBVIOUS
  <2>1. CASE i = 0
    BY <1>9, <2>1 DEF Power
  <2>2. CASE i # 0
    <3>1. i - 1 \in 0 .. i - 1 /\ i \in 1 .. n
      BY <2>2
    <3>2. g[i - 1] \in Q /\ g[i] = 16 * g[i - 1]
      BY <1>9, <1>10, <3>1 DEF Power
    <3> QED
      BY <3>2
  <2> QED
    BY <2>1, <2>2
<1>11. \A i \in 0 .. HexDigits : g[i] \in Nat \ {0}
  <2> HIDE DEF S
  <2>1. Nat \subseteq S
    BY <1>10, AllNumbers
  <2> QED
    BY <2>1 DEF S
<1> QED
  BY <1>8, <1>9, <1>11

(* The loop of stringToInt, in the same two forms.                         *)
NumAll(num, text) ==
  num = [i \in 0 .. Len(text) |->
           IF i = 0 THEN 0
           ELSE IF IsDigit(text[i], 10)
             THEN (num[i - 1] * 10 + ValueOf(text[i])) % Unsigned
             ELSE num[i - 1]]

Num(num, text) ==
  /\ num[0] = 0
  /\ \A i \in 1 .. Len(text) :
       num[i] = IF IsDigit(text[i], 10)
                  THEN (num[i - 1] * 10 + ValueOf(text[i])) % Unsigned
                  ELSE num[i - 1]

(* stringToInt is what its loop computes.                                  *)
LEMMA NumIs ==
  ASSUME HexDigits \in Nat, NEW Chars, NEW text \in Seq(Chars)
  PROVE  \E num : Num(num, text) /\ stringToInt(text) = num[Len(text)]
<1>1. PICK n \in Nat : n = Len(text)
  OBVIOUS
<1> DEFINE step == [i \in 1 .. n |-> [q \in Nat |->
                      IF IsDigit(text[i], 10)
                        THEN (q * 10 + ValueOf(text[i])) % Unsigned ELSE q]]
           from == [i \in 1 .. n |-> i - 1]
<1>2. step \in [1 .. n -> [Nat -> Nat]]
  <2>1. ASSUME NEW i \in 1 .. n, NEW q \in Nat, IsDigit(text[i], 10)
        PROVE  (q * 10 + ValueOf(text[i])) % Unsigned \in Nat
    <3>1. PICK v \in Nat : v = q * 10 + ValueOf(text[i])
      <4>1. ValueOf(text[i]) \in Nat
        BY <2>1, DigitValue
      <4> QED
        BY <4>1
    <3>2. PICK unsigned \in Nat \ {0} : unsigned = Unsigned
      BY UnsignedIs
    <3>3. v % unsigned \in Nat
      OBVIOUS
    <3> QED
      BY <3>1, <3>2, <3>3, Zenon
  <2> QED
    BY <2>1
<1>3. from \in [1 .. n -> Nat] /\ \A i \in 1 .. n : from[i] < i
  OBVIOUS
<1>4. PICK f \in [0 .. n -> Nat] : Rounds(f, n, 0, from, step)
  <2> HIDE DEF step, from
  <2> QED
    BY <1>2, <1>3, LoopsEnd
<1>5. \A i \in 0 .. n :
        f[i] = IF i = 0 THEN 0
               ELSE IF IsDigit(text[i], 10)
                 THEN (f[i - 1] * 10 + ValueOf(text[i])) % Unsigned
                 ELSE f[i - 1]
  <2> TAKE i \in 0 .. n
  <2>1. CASE i = 0
    BY <1>4, <2>1 DEF Rounds
  <2>2. CASE i # 0
    <3>1. i \in 1 .. n /\ f[i - 1] \in Nat /\ from[i] = i - 1
      BY <2>2
    <3>2. f[i] = step[i][f[i - 1]]
      <4> HIDE DEF from, step
      <4> QED
        BY <1>4, <3>1 DEF Rounds
    <3>3. step[i][f[i - 1]] = IF IsDigit(text[i], 10)
                                THEN (f[i - 1] * 10 + ValueOf(text[i])) % Unsigned
                                ELSE f[i - 1]
      BY <3>1, Zenon
    <3> QED
      BY <2>2, <3>2, <3>3, Zenon
  <2> QED
    BY <2>1, <2>2
<1>6. NumAll(f, text)
  <2>1. f = [i \in 0 .. n |-> f[i]]
    OBVIOUS
  <2> QED
    BY <1>1, <1>5, <2>1, Zenon DEF NumAll
<1>7. PICK g : g = CHOOSE h : NumAll(h, text)
  OBVIOUS
<1>8. NumAll(g, text)
  BY <1>6, <1>7
<1>9. stringToInt(text) = g[Len(text)]
  BY <1>7 DEF stringToInt, NumAll
<1>10. Num(g, text)
  <2>1. \A i \in 0 .. n :
          g[i] = IF i = 0 THEN 0
                 ELSE IF IsDigit(text[i], 10)
                   THEN (g[i - 1] * 10 + ValueOf(text[i])) % Unsigned
                   ELSE g[i - 1]
    BY <1>1, <1>8, Zenon DEF NumAll
  <2>2. 0 \in 0 .. n /\ \A i \in 1 .. n : i \in 0 .. n /\ i # 0
    OBVIOUS
  <2> QED
    BY <1>1, <2>1, <2>2, Zenon DEF Num
<1> QED
  BY <1>9, <1>10

(* One more digit is read as one.                                          *)
LEMMA NextDigit ==
  ASSUME HexDigits \in Nat, NEW Chars, NEW text \in Seq(Chars), NEW c \in Chars,
         IsDigit(c, 10)
  PROVE  stringToInt(Append(text, c)) = (stringToInt(text) * 10 + ValueOf(c)) % Unsigned
<1>1. PICK n \in Nat : n = Len(text)
  OBVIOUS
<1>2. PICK more : more = Append(text, c)
  OBVIOUS
<1>3. /\ more \in Seq(Chars) /\ Len(more) = n + 1 /\ more[n + 1] = c
      /\ \A i \in 1 .. n : more[i] = text[i]
  BY <1>1, <1>2
<1>4. PICK num : Num(num, text) /\ stringToInt(text) = num[Len(text)]
  BY NumIs
<1>5. PICK num2 : Num(num2, more) /\ stringToInt(more) = num2[Len(more)]
  BY <1>3, NumIs
<1> DEFINE S == {i \in Nat : i <= n => num2[i] = num[i]}
<1>6. ASSUME NEW i \in Nat, \A k \in 0 .. i - 1 : k \in S
      PROVE  i \in S
  <2> SUFFICES ASSUME i <= n PROVE num2[i] = num[i]
    OBVIOUS
  <2>1. CASE i = 0
    <3>1. num[0] = 0 /\ num2[0] = 0
      BY <1>4, <1>5, Zenon DEF Num
    <3> QED
      BY <2>1, <3>1
  <2>2. CASE i # 0
    <3>1. i - 1 \in 0 .. i - 1 /\ i \in 1 .. n /\ i \in 1 .. n + 1 /\ more[i] = text[i]
      BY <1>3, <2>2
    <3>2. num2[i - 1] = num[i - 1]
      BY <1>6, <3>1
    <3>3. PICK c1, p : c1 = text[i] /\ p = num[i - 1]
      OBVIOUS
    <3>4. PICK e : e = IF IsDigit(c1, 10) THEN (p * 10 + ValueOf(c1)) % Unsigned ELSE p
      OBVIOUS
    <3>5. num[i] = e
      BY <1>1, <1>4, <3>1, <3>3, <3>4, Zenon DEF Num
    <3>6. c1 = more[i] /\ p = num2[i - 1] /\ i \in 1 .. Len(more)
      BY <1>3, <3>1, <3>2, <3>3
    <3>7. num2[i] = e
      BY <1>5, <3>4, <3>6, Zenon DEF Num
    <3> QED
      BY <3>5, <3>7
  <2> QED
    BY <2>1, <2>2
<1>7. num2[n] = num[n]
  <2> HIDE DEF S
  <2>1. Nat \subseteq S
    BY <1>6, AllNumbers
  <2> QED
    BY <2>1 DEF S
<1>8. num2[n + 1] = (num2[n] * 10 + ValueOf(c)) % Unsigned
  <2>1. n + 1 \in 1 .. Len(more) /\ (n + 1) - 1 = n
    BY <1>3
  <2> QED
    BY <1>3, <1>5, <2>1 DEF Num
<1> QED
  BY <1>1, <1>2, <1>3, <1>4, <1>5, <1>7, <1>8

(* A number that an int holds is written in digits, and is read as itself  *)
(* (unsignedIntToString, stringToInt).                                     *)
THEOREM DecimalsReadBack ==
  ASSUME HexDigits \in Nat, NEW n \in Nat, 2 * n < Unsigned
  PROVE  /\ unsignedIntToString(n) \in Seq(DecimalDigits)
         /\ stringToInt(unsignedIntToString(n)) = n
         /\ SectorOf(unsignedIntToString(n)) = n
<1>1. PICK text : Text(text, n) /\ unsignedIntToString(n) = text[n]
  BY TextIs
<1> DEFINE S == {k \in Nat : k <= n => /\ text[k] \in Seq(DecimalDigits)
                                       /\ stringToInt(text[k]) = k}
<1>2. ASSUME NEW k \in Nat, \A j \in 0 .. k - 1 : j \in S
      PROVE  k \in S
  <2> SUFFICES ASSUME k <= n
               PROVE  text[k] \in Seq(DecimalDigits) /\ stringToInt(text[k]) = k
    OBVIOUS
  <2>1. CASE k = 0
    <3>1. text[k] = <<>>
      BY <1>1, <2>1 DEF Text
    <3>2. PICK num : Num(num, text[k]) /\ stringToInt(text[k]) = num[Len(text[k])]
      <4>1. text[k] \in Seq(DecimalDigits)
        BY <3>1
      <4> QED
        BY <4>1, NumIs
    <3> QED
      BY <2>1, <3>1, <3>2 DEF Num
  <2>2. CASE k # 0
    <3>1. /\ k \div 10 \in 0 .. k - 1 /\ k % 10 \in 0 .. 9
          /\ k = 10 * (k \div 10) + (k % 10)
      BY <2>2, Divided
    <3>2. text[k \div 10] \in Seq(DecimalDigits) /\ stringToInt(text[k \div 10]) = k \div 10
      BY <1>2, <3>1
    <3>3. text[k] = Append(text[k \div 10], Digits[(k % 10) + 1])
      <4>1. k \in 1 .. n
        BY <2>2
      <4> QED
        BY <1>1, <4>1, Zenon DEF Text
    <3>4. PICK q, c : q = text[k \div 10] /\ c = Digits[(k % 10) + 1]
      OBVIOUS
    <3>5. /\ q \in Seq(DecimalDigits) /\ c \in DecimalDigits
          /\ IsDigit(c, 10) /\ ValueOf(c) = k % 10
      <4>1. PICK d \in 0 .. 9 : d = k % 10
        BY <3>1
      <4>2. d \in 0 .. 15 /\ c = Digits[d + 1]
        BY <3>4, <4>1
      <4>3. c \in DecimalDigits /\ IsDigit(c, 10) /\ ValueOf(c) = d
        BY <4>2, DigitsAre, Zenon DEF DecimalDigits
      <4> QED
        BY <3>2, <3>4, <4>1, <4>3, Zenon
    <3>6. text[k] = Append(q, c) /\ Append(q, c) \in Seq(DecimalDigits)
      BY <3>3, <3>4, <3>5
    <3>7. stringToInt(Append(q, c)) = (stringToInt(q) * 10 + ValueOf(c)) % Unsigned
      BY <3>5, NextDigit
    <3>8. stringToInt(Append(q, c)) = ((k \div 10) * 10 + (k % 10)) % Unsigned
      BY <3>2, <3>4, <3>5, <3>7, Zenon
    <3>9. (k \div 10) * 10 + (k % 10) = k
      BY <3>1
    <3>10. k % Unsigned = k
      <4>1. PICK unsigned \in Nat \ {0} : unsigned = Unsigned
        BY UnsignedIs
      <4>2. k < unsigned
        BY <4>1
      <4>3. k % unsigned = k
        BY <4>2
      <4> QED
        BY <4>1, <4>3, Zenon
    <3> QED
      BY <3>6, <3>8, <3>9, <3>10, Zenon
  <2> QED
    BY <2>1, <2>2
<1>3. unsignedIntToString(n) \in Seq(DecimalDigits) /\ stringToInt(unsignedIntToString(n)) = n
  <2> HIDE DEF S
  <2>1. Nat \subseteq S
    BY <1>2, AllNumbers
  <2> QED
    BY <1>1, <2>1 DEF S
<1>4. PICK param \in Seq(DecimalDigits) : param = unsignedIntToString(n)
  BY <1>3
<1>5. \A i \in DOMAIN param : param[i] # "x"
  <2>1. \A i \in DOMAIN param : param[i] \in DecimalDigits
    OBVIOUS
  <2>2. "x" \notin DecimalDigits
    BY DigitsAre DEF DecimalDigits
  <2> QED
    BY <2>1, <2>2
<1>6. SectorOf(param) = stringToInt(param)
  BY <1>5 DEF SectorOf
<1> QED
  BY <1>3, <1>4, <1>6

(* An address, shifted by ever more digits.                                *)
ShiftedAll(shifted, addr) ==
  shifted = [i \in 0 .. HexDigits |-> IF i = 0 THEN addr ELSE shifted[i - 1] \div 16]

Shifted(shifted, addr) ==
  /\ shifted[0] = addr
  /\ \A i \in 1 .. HexDigits : shifted[i] = shifted[i - 1] \div 16

(* printAddrInHex writes the last digit of each of its shifts.             *)
LEMMA AddrIs ==
  ASSUME HexDigits \in Nat, NEW addr \in Nat
  PROVE  \E shifted :
           /\ Shifted(shifted, addr)
           /\ printAddrInHex(addr) =
                [i \in 1 .. HexDigits |-> Digits[(shifted[HexDigits - i] % 16) + 1]]
<1> DEFINE n == HexDigits
           step == [i \in 1 .. n |-> [q \in Nat |-> q \div 16]]
           from == [i \in 1 .. n |-> i - 1]
<1>1. step \in [1 .. n -> [Nat -> Nat]]
  <2>1. \A q \in Nat : q \div 16 \in Nat
    BY Divided
  <2> QED
    BY <2>1
<1>2. from \in [1 .. n -> Nat] /\ \A i \in 1 .. n : from[i] < i
  OBVIOUS
<1>3. PICK f \in [0 .. n -> Nat] : Rounds(f, n, addr, from, step)
  <2> HIDE DEF step, from
  <2> QED
    BY <1>1, <1>2, LoopsEnd
<1>4. \A i \in 0 .. n : f[i] = IF i = 0 THEN addr ELSE f[i - 1] \div 16
  <2> TAKE i \in 0 .. n
  <2>1. CASE i = 0
    BY <1>3, <2>1 DEF Rounds
  <2>2. CASE i # 0
    <3>1. i \in 1 .. n /\ f[i - 1] \in Nat /\ from[i] = i - 1
      BY <2>2
    <3>2. f[i] = step[i][f[i - 1]]
      <4> HIDE DEF from, step
      <4> QED
        BY <1>3, <3>1 DEF Rounds
    <3>3. step[i][f[i - 1]] = f[i - 1] \div 16
      BY <3>1, Zenon
    <3> QED
      BY <2>2, <3>2, <3>3, Zenon
  <2> QED
    BY <2>1, <2>2
<1>5. ShiftedAll(f, addr)
  <2>1. f = [i \in 0 .. n |-> f[i]]
    OBVIOUS
  <2> QED
    BY <1>4, <2>1, Zenon DEF ShiftedAll
<1>6. PICK g : g = CHOOSE h : ShiftedAll(h, addr)
  OBVIOUS
<1>7. ShiftedAll(g, addr)
  BY <1>5, <1>6
<1>8. printAddrInHex(addr) = [i \in 1 .. n |-> Digits[(g[n - i] % 16) + 1]]
  <2> DEFINE G == CHOOSE h : ShiftedAll(h, addr)
  <2>1. printAddrInHex(addr) = [i \in 1 .. n |-> Digits[(G[n - i] % 16) + 1]]
    BY Zenon DEF printAddrInHex, ShiftedAll
  <2>2. g = G
    BY <1>6
  <2> HIDE DEF G
  <2> QED
    BY <2>1, <2>2, Zenon
<1>9. Shifted(g, addr)
  <2>1. \A i \in 0 .. n : g[i] = IF i = 0 THEN addr ELSE g[i - 1] \div 16
    BY <1>7, Zenon DEF ShiftedAll
  <2>2. 0 \in 0 .. n /\ \A i \in 1 .. n : i \in 0 .. n /\ i # 0
    OBVIOUS
  <2> QED
    BY <2>1, <2>2, Zenon DEF Shifted
<1> QED
  BY <1>8, <1>9

(* What is left of an unsigned int has as many digits fewer.               *)
LEMMA ShiftedFits ==
  ASSUME HexDigits \in Nat, NEW addr \in 0 .. Unsigned - 1,
         NEW shifted, Shifted(shifted, addr)
  PROVE  /\ \A i \in 0 .. HexDigits : shifted[i] \in 0 .. Unsigned - 1
         /\ shifted[HexDigits] = 0
<1>1. PICK power : /\ Power(power) /\ Unsigned = power[HexDigits]
                   /\ \A i \in 0 .. HexDigits : power[i] \in Nat \ {0}
  BY UnsignedIs
<1> DEFINE n == HexDigits
           S == {i \in Nat : i <= n => /\ shifted[i] \in 0 .. power[n - i] - 1
                                       /\ shifted[i] <= addr}
<1>2. addr \in Nat /\ addr < power[n] /\ power[n] \in Nat
  BY <1>1
<1>3. ASSUME NEW i \in Nat, \A k \in 0 .. i - 1 : k \in S
      PROVE  i \in S
  <2> SUFFICES ASSUME i <= n
               PROVE  shifted[i] \in 0 .. power[n - i] - 1 /\ shifted[i] <= addr
    OBVIOUS
  <2>1. CASE i = 0
    <3>1. shifted[0] = addr /\ n - i = n
      BY <2>1 DEF Shifted
    <3> QED
      BY <1>2, <2>1, <3>1
  <2>2. CASE i # 0
    <3>1. i - 1 \in 0 .. i - 1 /\ i \in 1 .. n /\ n - i \in 0 .. n
          /\ n - (i - 1) \in 1 .. n /\ (n - (i - 1)) - 1 = n - i
      BY <2>2
    <3>2. PICK s, p : s = shifted[i - 1] /\ p = power[n - i]
      OBVIOUS
    <3>3. power[n - (i - 1)] = 16 * p /\ p \in Nat
      BY <1>1, <3>1, <3>2 DEF Power
    <3>4. s \in 0 .. 16 * p - 1 /\ s <= addr
      BY <1>3, <3>1, <3>2, <3>3
    <3>5. shifted[i] = s \div 16
      BY <3>1, <3>2, Zenon DEF Shifted
    <3>6. s \div 16 \in Nat /\ s % 16 \in 0 .. 15 /\ s = 16 * (s \div 16) + (s % 16)
      BY <3>4, Divided
    <3>7. PICK d \in Nat, m \in Nat : d = s \div 16 /\ m = s % 16
      BY <3>6
    <3>8. d <= s /\ d < p
      BY <3>3, <3>4, <3>6, <3>7
    <3> QED
      BY <1>2, <3>2, <3>3, <3>4, <3>5, <3>7, <3>8
  <2> QED
    BY <2>1, <2>2
<1>4. \A i \in 0 .. n : shifted[i] \in 0 .. power[n - i] - 1 /\ shifted[i] <= addr
  <2> HIDE DEF S
  <2>1. Nat \subseteq S
    BY <1>3, AllNumbers
  <2> QED
    BY <2>1 DEF S
<1>5. \A i \in 0 .. n : shifted[i] \in 0 .. Unsigned - 1
  BY <1>1, <1>4
<1>6. shifted[n] = 0
  <2>1. n \in 0 .. n /\ n - n = 0 /\ power[0] = 1
    BY <1>1 DEF Power
  <2> QED
    BY <1>4, <2>1
<1> QED
  BY <1>5, <1>6

(* The loop of stringToHex behind "0x", in the same two forms.             *)
HexAll(val, text, first) ==
  val = [i \in 0 .. Len(text) |->
           IF i <= first THEN 0
           ELSE IF \A k \in first + 1 .. i : IsDigit(text[k], 16)
                  THEN ((val[i - 1] * 16) % Unsigned) + ValueOf(text[i])
                  ELSE val[i - 1]]

Hex(val, text) ==
  /\ \A i \in 0 .. 2 : val[i] = 0
  /\ \A i \in 3 .. Len(text) :
       (\A k \in 3 .. i : IsDigit(text[k], 16)) =>
         val[i] = ((val[i - 1] * 16) % Unsigned) + ValueOf(text[i])

(* stringToHex is what its loop computes.                                  *)
LEMMA HexIs ==
  ASSUME HexDigits \in Nat, NEW Chars, NEW text \in Seq(Chars), Len(text) >= 2,
         IsPrefix(<<"0", "x">>, text)
  PROVE  \E val : Hex(val, text) /\ stringToHex(text) = val[Len(text)]
<1>1. PICK n \in Nat : n = Len(text) /\ n >= 2
  OBVIOUS
<1>2. PICK unsigned \in Nat \ {0} : unsigned = Unsigned
  BY UnsignedIs
<1>3. PICK first \in Nat : first = IF IsPrefix(<<"0", "x">>, text) THEN 2 ELSE 0
  OBVIOUS
<1>4. first = 2
  BY <1>3
<1> DEFINE All(i) == \A k \in first + 1 .. i : IsDigit(text[k], 16)
           Step(i, q) == IF i <= first THEN 0
                         ELSE IF All(i) THEN ((q * 16) % unsigned) + ValueOf(text[i])
                         ELSE q
           step == [i \in 1 .. n |-> [q \in Nat |-> Step(i, q)]]
           from == [i \in 1 .. n |-> i - 1]
<1>5. step \in [1 .. n -> [Nat -> Nat]]
  <2>1. ASSUME NEW i \in 1 .. n, NEW q \in Nat PROVE Step(i, q) \in Nat
    <3>1. CASE i > first /\ All(i)
      <4>1. IsDigit(text[i], 16)
        BY <1>3, <3>1
      <4>2. ValueOf(text[i]) \in Nat
        BY <4>1, DigitValue
      <4>3. (q * 16) % unsigned \in Nat
        OBVIOUS
      <4>4. Step(i, q) = ((q * 16) % unsigned) + ValueOf(text[i])
        BY <3>1
      <4> QED
        BY <4>2, <4>3, <4>4
    <3>2. CASE ~(i > first /\ All(i))
      <4> HIDE DEF All
      <4> QED
        BY <1>3, <3>2
    <3> QED
      BY <3>1, <3>2
  <2> HIDE DEF Step
  <2> QED
    BY <2>1
<1>6. from \in [1 .. n -> Nat] /\ \A i \in 1 .. n : from[i] < i
  OBVIOUS
<1>7. PICK f \in [0 .. n -> Nat] : Rounds(f, n, 0, from, step)
  <2> HIDE DEF step, from
  <2> QED
    BY <1>5, <1>6, LoopsEnd
<1>8. \A i \in 0 .. n : f[i] = Step(i, f[i - 1])
  <2> TAKE i \in 0 .. n
  <2>1. CASE i = 0
    <3>1. f[0] = 0 /\ i <= first
      BY <1>3, <1>7, <2>1 DEF Rounds
    <3> QED
      BY <2>1, <3>1, Zenon
  <2>2. CASE i # 0
    <3>1. i \in 1 .. n /\ f[i - 1] \in Nat /\ from[i] = i - 1
      BY <2>2
    <3>2. f[i] = step[i][f[i - 1]]
      <4> HIDE DEF from, step
      <4> QED
        BY <1>7, <3>1 DEF Rounds
    <3>3. step[i][f[i - 1]] = Step(i, f[i - 1])
      <4> HIDE DEF Step
      <4> QED
        BY <3>1, Zenon
    <3> HIDE DEF Step
    <3> QED
      BY <3>2, <3>3
  <2> HIDE DEF Step
  <2> QED
    BY <2>1, <2>2
<1>9. HexAll(f, text, first)
  <2>1. f = [i \in 0 .. n |-> f[i]]
    OBVIOUS
  <2> QED
    BY <1>1, <1>2, <1>8, <2>1, Zenon DEF HexAll
<1>10. PICK g : g = CHOOSE h : HexAll(h, text, first)
  OBVIOUS
<1>11. HexAll(g, text, first)
  BY <1>9, <1>10
<1>12. stringToHex(text) = g[Len(text)]
  <2> DEFINE F == IF IsPrefix(<<"0", "x">>, text) THEN 2 ELSE 0
             G == CHOOSE h : HexAll(h, text, F)
  <2>1. stringToHex(text) = G[Len(text)]
    BY Zenon DEF stringToHex, HexAll
  <2>2. G = CHOOSE h : HexAll(h, text, F)
    OBVIOUS
  <2>3. F = first
    BY <1>3
  <2> HIDE DEF F, G
  <2>4. g = G
    BY <1>10, <2>2, <2>3, Zenon
  <2> QED
    BY <2>1, <2>4, Zenon
<1>13. Hex(g, text)
  <2>1. \A i \in 0 .. n :
          g[i] = IF i <= first THEN 0
                 ELSE IF \A k \in first + 1 .. i : IsDigit(text[k], 16)
                        THEN ((g[i - 1] * 16) % Unsigned) + ValueOf(text[i])
                        ELSE g[i - 1]
    BY <1>1, <1>11, Zenon DEF HexAll
  <2>2. \A i \in 0 .. 2 : i \in 0 .. n /\ i <= first
    BY <1>1, <1>4
  <2>3. \A i \in 3 .. Len(text) : i \in 0 .. n /\ ~(i <= first) /\ first + 1 = 3
    BY <1>1, <1>4
  <2> QED
    BY <2>1, <2>2, <2>3, Zenon DEF Hex
<1> QED
  BY <1>12, <1>13

(* An address is read as itself, whatever the number of its digits.        *)
THEOREM AddressesReadBack ==
  ASSUME HexDigits \in Nat, NEW n \in 0 .. Unsigned - 1
  PROVE  SectorOf(<<"0", "x">> \o printAddrInHex(n)) = n
<1>1. PICK unsigned \in Nat \ {0} : unsigned = Unsigned
  BY UnsignedIs
<1>2. n \in Nat /\ n < unsigned
  BY <1>1
<1>3. PICK shifted :
        /\ Shifted(shifted, n)
        /\ printAddrInHex(n) =
             [i \in 1 .. HexDigits |-> Digits[(shifted[HexDigits - i] % 16) + 1]]
  BY <1>2, AddrIs
<1>4. /\ \A i \in 0 .. HexDigits : shifted[i] \in 0 .. unsigned - 1
      /\ shifted[HexDigits] = 0
  BY <1>1, <1>3, ShiftedFits
<1> DEFINE C == {"0", "x"} \cup {Digits[v + 1] : v \in 0 .. 15}
<1>5. PICK x, digits : x = <<"0", "x">> /\ digits = printAddrInHex(n)
  OBVIOUS
<1>6. x \in Seq(C) /\ Len(x) = 2 /\ x[2] = "x"
  BY <1>5
<1>7. /\ digits \in Seq(C) /\ Len(digits) = HexDigits
      /\ \A i \in 1 .. HexDigits : digits[i] = Digits[(shifted[HexDigits - i] % 16) + 1]
  <2>1. \A i \in 1 .. HexDigits : Digits[(shifted[HexDigits - i] % 16) + 1] \in C
    <3> TAKE i \in 1 .. HexDigits
    <3>1. HexDigits - i \in 0 .. HexDigits
      OBVIOUS
    <3>2. shifted[HexDigits - i] \in Nat
      BY <1>4, <3>1
    <3>3. PICK v \in 0 .. 15 : v = shifted[HexDigits - i] % 16
      BY <3>2
    <3> QED
      BY <3>3, Zenon
  <2> HIDE DEF C
  <2>2. digits = [i \in 1 .. HexDigits |-> Digits[(shifted[HexDigits - i] % 16) + 1]]
    BY <1>3, <1>5
  <2>3. \A i \in 1 .. HexDigits : digits[i] = Digits[(shifted[HexDigits - i] % 16) + 1]
    BY <2>2, Zenon
  <2>4. digits \in [1 .. HexDigits -> C]
    BY <2>1, <2>2, Zenon
  <2>5. digits \in Seq(C) /\ Len(digits) = HexDigits
    BY <2>4
  <2> QED
    BY <2>3, <2>5
<1> HIDE DEF C
<1>8. PICK text : text = x \o digits
  OBVIOUS
<1>9. /\ text \in Seq(C) /\ Len(text) = 2 + HexDigits
      /\ \A i \in 1 .. 2 + HexDigits : text[i] = IF i <= 2 THEN x[i] ELSE digits[i - 2]
  <2>1. /\ x \o digits \in Seq(C) /\ Len(x \o digits) = Len(x) + Len(digits)
        /\ \A i \in 1 .. Len(x) + Len(digits) :
             (x \o digits)[i] = IF i <= Len(x) THEN x[i] ELSE digits[i - Len(x)]
    BY <1>6, <1>7, ConcatProperties, ZenonT(30)
  <2> QED
    BY <1>6, <1>7, <1>8, <2>1, Zenon
<1>10. IsPrefix(<<"0", "x">>, text)
  <2>1. Len(x) <= Len(text)
    BY <1>6, <1>9
  <2>2. SubSeq(x, 1, Len(x)) = SubSeq(text, 1, Len(x))
    <3>1. 1 \in 1 .. Len(x) /\ Len(x) \in 1 .. Len(x)
      BY <1>6
    <3> QED
      BY <1>6, <1>7, <1>8, <3>1, SubSeqOfConcat1
  <2> QED
    BY <1>5, <2>1, <2>2, Zenon DEF IsPrefix
<1>11. PICK val : Hex(val, text) /\ stringToHex(text) = val[Len(text)]
  BY <1>9, <1>10, HexIs
<1>12. ASSUME NEW i \in 1 .. HexDigits
       PROVE  /\ IsDigit(text[2 + i], 16)
              /\ ValueOf(text[2 + i]) = shifted[HexDigits - i] % 16
  <2>1. 2 + i \in 1 .. 2 + HexDigits /\ ~(2 + i <= 2) /\ (2 + i) - 2 = i
        /\ HexDigits - i \in 0 .. HexDigits
    OBVIOUS
  <2>2. text[2 + i] = Digits[(shifted[HexDigits - i] % 16) + 1]
    BY <1>7, <1>9, <2>1
  <2>3. shifted[HexDigits - i] \in Nat
    BY <1>4, <2>1
  <2>4. PICK v \in 0 .. 15 : v = shifted[HexDigits - i] % 16
    BY <2>3
  <2>5. text[2 + i] = Digits[v + 1]
    BY <2>2, <2>4, Zenon
  <2> QED
    BY <2>4, <2>5, DigitsAre, Zenon
<1> DEFINE S == {i \in Nat : i <= HexDigits => val[2 + i] = shifted[HexDigits - i]}
<1>13. ASSUME NEW i \in Nat, \A k \in 0 .. i - 1 : k \in S
       PROVE  i \in S
  <2> SUFFICES ASSUME i <= HexDigits PROVE val[2 + i] = shifted[HexDigits - i]
    OBVIOUS
  <2>1. CASE i = 0
    <3>1. 2 + i = 2 /\ HexDigits - i = HexDigits /\ 2 \in 0 .. 2
      BY <2>1
    <3>2. val[2] = 0
      BY <1>11, <3>1, Zenon DEF Hex
    <3> QED
      BY <1>4, <3>1, <3>2, Zenon
  <2>2. CASE i # 0
    <3>1. /\ i - 1 \in 0 .. i - 1 /\ i \in 1 .. HexDigits /\ (2 + i) - 1 = 2 + (i - 1)
          /\ 2 + i \in 3 .. Len(text) /\ HexDigits - (i - 1) \in 1 .. HexDigits
          /\ (HexDigits - (i - 1)) - 1 = HexDigits - i
          /\ HexDigits - i \in 0 .. HexDigits
      BY <1>9, <2>2
    <3>2. PICK s : s = shifted[HexDigits - i]
      OBVIOUS
    <3>3. s \in Nat /\ s < unsigned
      BY <1>4, <3>1, <3>2
    <3>4. val[2 + (i - 1)] = s \div 16
      <4>1. val[2 + (i - 1)] = shifted[HexDigits - (i - 1)]
        BY <1>13, <3>1
      <4>2. shifted[HexDigits - (i - 1)] = shifted[(HexDigits - (i - 1)) - 1] \div 16
        BY <1>3, <3>1, Zenon DEF Shifted
      <4> QED
        BY <3>1, <3>2, <4>1, <4>2, Zenon
    <3>5. \A k \in 3 .. 2 + i : IsDigit(text[k], 16)
      <4> TAKE k \in 3 .. 2 + i
      <4>1. PICK j \in 1 .. HexDigits : j = k - 2
        BY <3>1
      <4>2. k = 2 + j
        BY <4>1
      <4> QED
        BY <1>12, <4>2, Zenon
    <3>6. val[2 + i] = ((val[(2 + i) - 1] * 16) % Unsigned) + ValueOf(text[2 + i])
      BY <1>11, <3>1, <3>5, Zenon DEF Hex
    <3>7. val[2 + i] = (((s \div 16) * 16) % unsigned) + (s % 16)
      BY <1>1, <1>12, <3>1, <3>2, <3>4, <3>6, Zenon
    <3>8. s \div 16 \in Nat /\ s % 16 \in 0 .. 15 /\ s = 16 * (s \div 16) + (s % 16)
      BY <3>3, Divided
    <3>9. PICK d \in Nat, m \in Nat : d = s \div 16 /\ m = s % 16
      BY <3>8
    <3>10. s = 16 * d + m /\ d * 16 \in Nat /\ d * 16 < unsigned
      BY <3>3, <3>8, <3>9
    <3>11. (d * 16) % unsigned = d * 16
      BY <3>10
    <3>12. val[2 + i] = ((d * 16) % unsigned) + m
      BY <3>7, <3>9, Zenon
    <3> QED
      BY <3>2, <3>10, <3>11, <3>12
  <2> QED
    BY <2>1, <2>2
<1>14. val[2 + HexDigits] = n
  <2> HIDE DEF S
  <2>1. Nat \subseteq S
    BY <1>13, AllNumbers
  <2>2. val[2 + HexDigits] = shifted[HexDigits - HexDigits] /\ HexDigits - HexDigits = 0
    BY <2>1 DEF S
  <2> QED
    BY <1>3, <2>2 DEF Shifted
<1>15. SectorOf(text) = stringToHex(text)
  <2>1. 2 \in DOMAIN text /\ text[2] = "x"
    BY <1>6, <1>9
  <2> QED
    BY <2>1 DEF SectorOf
<1> QED
  BY <1>5, <1>8, <1>9, <1>11, <1>14, <1>15

-----------------------------------------------------------------------------
(* Dates.                                                                  *)

(* The fields of a date are kept apart.                                    *)
LEMMA DatesReadBack ==
  ASSUME NEW date \in [day : 1 .. 31, month : 1 .. 12, year : 1980 .. 2107],
         NEW stored, stored = (date.year - 1980) * 512 + date.month * 32 + date.day
  PROVE  parseDate(stored) = date
<1>1. PICK y \in 0 .. 127 : y = date.year - 1980
  OBVIOUS
<1>2. PICK month \in 1 .. 12 : month = date.month
  OBVIOUS
<1>3. PICK day \in 1 .. 31 : day = date.day
  OBVIOUS
<1>4. stored \in Nat /\ stored = y * 512 + month * 32 + day
  BY <1>1, <1>2, <1>3
<1>5. stored % 32 = day /\ stored \div 32 = y * 16 + month
  BY <1>4
<1>6. (y * 16 + month) % 16 = month
  OBVIOUS
<1>7. stored \div 512 = y /\ y % 128 = y /\ 1980 + y = date.year
  BY <1>1, <1>4
<1>8. parseDate(stored) = [day |-> date.day, month |-> date.month, year |-> date.year]
  BY <1>1, <1>2, <1>3, <1>5, <1>6, <1>7 DEF parseDate
<1> QED
  BY <1>8

-----------------------------------------------------------------------------
(* What is meant and what is written, in every state.                      *)
WrittenAsMeant ==
  \/ meant = Nothing /\ written = <<>>
  \/ \E name \in Names :
       meant = [as |-> "name", value |-> name] /\ written = Stored(name)
  \/ \E n \in Numbers :
       \/ meant = [as |-> "decimal", value |-> n] /\ written = unsignedIntToString(n)
       \/ /\ meant = [as |-> "address", value |-> n]
          /\ written = <<"0", "x">> \o printAddrInHex(n)
  \/ \E day \in Days, month \in Months, year \in Years :
       /\ meant = [as |-> "date", value |-> [day |-> day, month |-> month, year |-> year]]
       /\ written = (year - 1980) * 512 + month * 32 + day

(* Nothing is written but what is meant.                                   *)
LEMMA AlwaysWrittenAsMeant == FormatsSpec => []WrittenAsMeant
<1>1. FormatsInit => WrittenAsMeant
  BY DEF FormatsInit, WrittenAsMeant
<1>2. WrittenAsMeant /\ [FormatsNext]_formatVars => WrittenAsMeant'
  <2> SUFFICES ASSUME WrittenAsMeant, [FormatsNext]_formatVars PROVE WrittenAsMeant'
    OBVIOUS
  <2>1. ASSUME NEW name \in Names, WriteName(name) PROVE WrittenAsMeant'
    BY <2>1 DEF WriteName, WrittenAsMeant
  <2>2. ASSUME NEW n \in Numbers, WriteDecimal(n) PROVE WrittenAsMeant'
    BY <2>2 DEF WriteDecimal, WrittenAsMeant
  <2>3. ASSUME NEW n \in Numbers, WriteAddress(n) PROVE WrittenAsMeant'
    BY <2>3 DEF WriteAddress, WrittenAsMeant
  <2>4. ASSUME NEW day \in Days, NEW month \in Months, NEW year \in Years,
               WriteDate([day |-> day, month |-> month, year |-> year])
        PROVE  WrittenAsMeant'
    <3>1. written' = (year - 1980) * 512 + month * 32 + day
      BY <2>4 DEF WriteDate
    <3>2. meant' = [as |-> "date", value |-> [day |-> day, month |-> month, year |-> year]]
      BY <2>4, Zenon DEF WriteDate
    <3> QED
      BY <3>1, <3>2 DEF WrittenAsMeant
  <2>5. CASE Erase
    BY <2>5 DEF Erase, WrittenAsMeant
  <2>6. CASE UNCHANGED formatVars
    BY <2>6 DEF formatVars, WrittenAsMeant
  <2> QED
    BY <2>1, <2>2, <2>3, <2>4, <2>5, <2>6, Zenon DEF FormatsNext, Write
<1> QED
  BY <1>1, <1>2, PTL DEF FormatsSpec

(* What is written can be read, in every behaviour: for names in any       *)
(* characters and any sizes of theirs, for unsigned numbers of any number  *)
(* of hexadecimal digits, and for all dates (utils/strings.c, fat16 names, *)
(* parseDate).                                                             *)
THEOREM WhatIsWrittenIsRead == FormatsSpec => []ReadsBack
<1>1. WrittenAsMeant => ReadsBack
  <2> SUFFICES ASSUME WrittenAsMeant PROVE ReadsBack
    OBVIOUS
  <2>1. CASE meant = Nothing /\ written = <<>>
    BY <2>1 DEF ReadsBack, Nothing
  <2>2. ASSUME NEW name \in Names,
               meant = [as |-> "name", value |-> name], written = Stored(name)
        PROVE  ReadsBack
    <3>1. name \in Seq(STRING) /\ BaseSize \in Nat /\ ExtSize \in Nat \ {0}
      BY FormatsAssumption
    <3>2. /\ (stringFat16Format(Stored(name)) = name) <=> Fits(name)
          /\ Fits(name) => ~Stored(name).beyond
      BY <3>1, NamesReadBack
    <3> QED
      BY <2>2, <3>2 DEF ReadsBack
  <2>3. ASSUME NEW n \in Numbers
        PROVE  /\ n \in Nat
               /\ 2 * n < Unsigned => SectorOf(unsignedIntToString(n)) = n
               /\ SectorOf(<<"0", "x">> \o printAddrInHex(n)) = n
    <3>1. n \in 0 .. Unsigned - 1 /\ HexDigits \in Nat
      BY FormatsAssumption
    <3>2. n \in Nat
      BY <3>1, UnsignedIs
    <3> QED
      BY <3>1, <3>2, DecimalsReadBack, AddressesReadBack
  <2>4. ASSUME NEW n \in Numbers, meant = [as |-> "decimal", value |-> n],
               written = unsignedIntToString(n)
        PROVE  ReadsBack
    BY <2>3, <2>4 DEF ReadsBack
  <2>5. ASSUME NEW n \in Numbers, meant = [as |-> "address", value |-> n],
               written = <<"0", "x">> \o printAddrInHex(n)
        PROVE  ReadsBack
    BY <2>3, <2>5 DEF ReadsBack
  <2>6. ASSUME NEW day \in Days, NEW month \in Months, NEW year \in Years,
               meant = [as |-> "date",
                        value |-> [day |-> day, month |-> month, year |-> year]],
               written = (year - 1980) * 512 + month * 32 + day
        PROVE  ReadsBack
    <3>1. day \in 1 .. 31 /\ month \in 1 .. 12 /\ year \in 1980 .. 2107
      BY FormatsAssumption
    <3>2. parseDate(written) = [day |-> day, month |-> month, year |-> year]
      BY <2>6, <3>1, DatesReadBack
    <3> QED
      BY <2>6, <3>2 DEF ReadsBack
  <2> QED
    BY <2>1, <2>2, <2>4, <2>5, <2>6 DEF WrittenAsMeant
<1> QED
  BY <1>1, AlwaysWrittenAsMeant, PTL

-----------------------------------------------------------------------------
(* Paths.                                                                  *)

(* FlattenSeq as the function that it defines, and round by round.         *)
FlatAll(f, seqs) ==
  f = [i \in 1 .. Len(seqs) |-> IF i = 1 THEN seqs[i] ELSE f[i - 1] \o seqs[i]]

Flat(f, seqs) == f[0] = <<>> /\ \A i \in 1 .. Len(seqs) : f[i] = f[i - 1] \o seqs[i]

(* FlattenSeq joins its sequences one after the other.                     *)
LEMMA FlattenIs ==
  ASSUME NEW Elems, NEW seqs \in Seq(Seq(Elems))
  PROVE  \E f \in [0 .. Len(seqs) -> Seq(Elems)] :
           Flat(f, seqs) /\ FlattenSeq(seqs) = f[Len(seqs)]
<1> DEFINE N == Len(seqs)
           Q == Seq(Elems)
           step == [i \in 1 .. N |-> [q \in Q |-> q \o seqs[i]]]
           from == [i \in 1 .. N |-> i - 1]
<1>1. N \in Nat /\ <<>> \in Q /\ \A i \in 1 .. N : seqs[i] \in Q
  OBVIOUS
<1>2. step \in [1 .. N -> [Q -> Q]]
  BY <1>1
<1>3. from \in [1 .. N -> Nat] /\ \A i \in 1 .. N : from[i] < i
  BY <1>1
<1>4. PICK f : f \in [0 .. N -> Q] /\ Rounds(f, N, <<>>, from, step)
  <2> HIDE DEF N, Q, step, from
  <2> QED
    BY <1>1, <1>2, <1>3, LoopsEnd
<1>5. f[0] = <<>> /\ \A i \in 1 .. N : f[i] = f[i - 1] \o seqs[i]
  <2>1. f[0] = <<>>
    BY <1>4 DEF Rounds
  <2>2. ASSUME NEW i \in 1 .. N PROVE f[i] = f[i - 1] \o seqs[i]
    <3>1. i - 1 \in 0 .. N /\ from[i] = i - 1
      BY <1>1
    <3>2. f[i - 1] \in Q
      BY <1>4, <3>1
    <3>3. f[i] = step[i][f[i - 1]]
      <4> HIDE DEF from, step, N, Q
      <4> QED
        BY <1>4, <3>1 DEF Rounds
    <3> QED
      BY <3>2, <3>3
  <2> QED
    BY <2>1, <2>2
<1>6. CASE N = 0
  <2>1. FlattenSeq(seqs) = <<>>
    BY <1>6 DEF FlattenSeq
  <2> QED
    BY <1>4, <1>5, <1>6, <2>1 DEF Flat
<1>7. CASE N # 0
  <2> DEFINE h == [i \in 1 .. N |-> f[i]]
  <2>1. \A i \in 1 .. N : h[i] = IF i = 1 THEN seqs[i] ELSE h[i - 1] \o seqs[i]
    <3> TAKE i \in 1 .. N
    <3>1. CASE i = 1
      <4>1. f[1] = <<>> \o seqs[1] /\ seqs[1] \in Q
        <5>1. 1 \in 1 .. N /\ 1 - 1 = 0
          BY <3>1
        <5> QED
          BY <1>1, <1>5, <5>1
      <4>2. f[1] = seqs[1]
        BY <4>1, ConcatEmptySeq
      <4> QED
        BY <3>1, <4>2
    <3>2. CASE i # 1
      <4>1. i - 1 \in 1 .. N
        BY <3>2
      <4> QED
        BY <1>5, <3>2, <4>1
    <3> QED
      BY <3>1, <3>2
  <2>2. FlatAll(h, seqs)
    BY <2>1 DEF FlatAll
  <2>3. PICK g : g = CHOOSE k : FlatAll(k, seqs)
    OBVIOUS
  <2>4. FlatAll(g, seqs)
    <3> HIDE DEF h
    <3> QED
      BY <2>2, <2>3
  <2>5. FlattenSeq(seqs) = g[N]
    BY <1>7, <2>3 DEF FlattenSeq, FlatAll
  <2> HIDE DEF h
  <2>6. \A i \in 1 .. N : g[i] = IF i = 1 THEN seqs[i] ELSE g[i - 1] \o seqs[i]
    BY <2>4, Zenon DEF FlatAll
  <2> DEFINE G == [i \in 0 .. N |-> IF i = 0 THEN <<>> ELSE g[i]]
  <2>7. G[0] = f[0] /\ \A i \in 1 .. N : G[i - 1] = f[i - 1] => G[i] = f[i]
    <3>1. G[0] = f[0]
      BY <1>1, <1>5
    <3>2. ASSUME NEW i \in 1 .. N, G[i - 1] = f[i - 1] PROVE G[i] = f[i]
      <4>1. G[i] = g[i]
        OBVIOUS
      <4>2. CASE i = 1
        <5>1. f[1] = <<>> \o seqs[1] /\ seqs[1] \in Q
          <6>1. 1 \in 1 .. N /\ 1 - 1 = 0
            BY <4>2
          <6> QED
            BY <1>1, <1>5, <6>1
        <5>2. f[1] = seqs[1]
          BY <5>1, ConcatEmptySeq
        <5> QED
          BY <2>6, <4>1, <4>2, <5>2
      <4>3. CASE i # 1
        <5>1. G[i - 1] = g[i - 1]
          BY <4>3
        <5> HIDE DEF G
        <5> QED
          BY <1>5, <2>6, <3>2, <4>1, <4>3, <5>1
      <4> QED
        BY <4>2, <4>3
    <3> QED
      BY <3>1, <3>2
  <2>8. G[N] = f[N]
    <3>1. N \in 0 .. N /\ N \in Nat
      BY <1>1
    <3> HIDE DEF G, N
    <3>2. G[0] = f[0]
      BY <2>7, Zenon
    <3>3. \A i \in 1 .. N : G[i - 1] = f[i - 1] => G[i] = f[i]
      BY <2>7, Zenon
    <3>4. N \in Nat
      BY <3>1, Zenon
    <3>5. \A i \in 0 .. N : G[i] = f[i]
      <4>1. Alongside(N, G, f)
        BY <3>2, <3>3, <3>4 DEF Alongside
      <4>2. SameUpTo(N, G, f)
        BY <4>1, LoopsAgree, Zenon
      <4> QED
        BY <4>2, Zenon DEF SameUpTo
    <3> QED
      BY <3>1, <3>5
  <2>9. FlattenSeq(seqs) = f[N]
    BY <1>7, <2>5, <2>8
  <2> QED
    BY <1>4, <1>5, <2>9 DEF Flat
<1> QED
  BY <1>6, <1>7

(* One more sequence is joined behind the others.                          *)
LEMMA FlattenAppend ==
  ASSUME NEW Elems, NEW seqs \in Seq(Seq(Elems)), NEW s \in Seq(Elems)
  PROVE  /\ FlattenSeq(seqs) \in Seq(Elems)
         /\ FlattenSeq(Append(seqs, s)) = FlattenSeq(seqs) \o s
<1>1. PICK more : more = Append(seqs, s)
  OBVIOUS
<1>2. PICK n \in Nat : n = Len(seqs)
  OBVIOUS
<1>3. /\ more \in Seq(Seq(Elems)) /\ Len(more) = n + 1
      /\ \A i \in 1 .. n : more[i] = seqs[i]
      /\ more[n + 1] = s
  BY <1>1, <1>2, AppendProperties
<1>4. PICK f : /\ f \in [0 .. Len(seqs) -> Seq(Elems)]
               /\ Flat(f, seqs) /\ FlattenSeq(seqs) = f[Len(seqs)]
  BY FlattenIs
<1>5. PICK g : /\ g \in [0 .. Len(more) -> Seq(Elems)]
               /\ Flat(g, more) /\ FlattenSeq(more) = g[Len(more)]
  BY <1>3, FlattenIs
<1>6. f[0] = g[0]
  BY <1>4, <1>5 DEF Flat
<1>7. \A i \in 1 .. n : f[i - 1] = g[i - 1] => f[i] = g[i]
  <2> TAKE i \in 1 .. n
  <2>1. i \in 1 .. Len(seqs) /\ i \in 1 .. Len(more)
    BY <1>2, <1>3
  <2> QED
    BY <1>3, <1>4, <1>5, <2>1, Zenon DEF Flat
<1>8. \A i \in 0 .. n : f[i] = g[i]
  <2>1. Alongside(n, f, g)
    BY <1>6, <1>7 DEF Alongside
  <2>2. SameUpTo(n, f, g)
    BY <2>1, LoopsAgree, Zenon
  <2> QED
    BY <2>2, Zenon DEF SameUpTo
<1>9. f[n] = g[n] /\ n + 1 \in 1 .. Len(more) /\ (n + 1) - 1 = n /\ n \in 0 .. Len(seqs)
  BY <1>2, <1>3, <1>8
<1>10. g[n + 1] = g[n] \o s
  BY <1>3, <1>5, <1>9 DEF Flat
<1> QED
  BY <1>1, <1>2, <1>3, <1>4, <1>5, <1>9, <1>10

(* What a path looks like whose last name is split off.                    *)
LEMMA SpelledAppend ==
  ASSUME NEW names \in Seq(Seq(Characters)), NEW name \in Seq(Characters)
  PROVE  /\ Spelled(<<>>) = <<>>
         /\ Spelled(names) \in Seq(Characters)
         /\ Spelled(Append(names, name)) = Spelled(names) \o (<<Slash>> \o name)
<1>1. Slash \in Characters
  BY PathsAssumption
<1>2. <<Slash>> \in Seq(Characters)
  BY <1>1
<1>3. \A s \in Seq(Characters) : <<Slash>> \o s \in Seq(Characters)
  <2> TAKE s \in Seq(Characters)
  <2> QED
    BY <1>2, ConcatProperties
<1>4. PICK parts : parts = [i \in DOMAIN names |-> <<Slash>> \o names[i]]
  OBVIOUS
<1>5. PICK n \in Nat : n = Len(names) /\ DOMAIN names = 1 .. n
  OBVIOUS
<1>6. \A i \in 1 .. n : names[i] \in Seq(Characters)
  BY <1>5
<1>7. parts \in Seq(Seq(Characters)) /\ Len(parts) = n /\ \A i \in 1 .. n : parts[i] = <<Slash>> \o names[i]
  BY <1>3, <1>4, <1>5, <1>6
<1>8. PICK more : more = Append(names, name)
  OBVIOUS
<1>9. /\ more \in Seq(Seq(Characters)) /\ Len(more) = n + 1 /\ DOMAIN more = 1 .. n + 1
      /\ \A i \in 1 .. n : more[i] = names[i]
      /\ more[n + 1] = name
  BY <1>5, <1>8, AppendProperties
<1>10. PICK last \in Seq(Characters) : last = <<Slash>> \o name
  BY <1>3
<1>11. [i \in DOMAIN more |-> <<Slash>> \o more[i]] = Append(parts, last)
  <2> DEFINE l == [i \in 1 .. n + 1 |-> <<Slash>> \o more[i]]
  <2>1. /\ Append(parts, last) \in Seq(Seq(Characters))
        /\ Len(Append(parts, last)) = n + 1
        /\ \A i \in 1 .. n : Append(parts, last)[i] = parts[i]
        /\ Append(parts, last)[n + 1] = last
    BY <1>7, AppendProperties
  <2>2. \A i \in 1 .. n + 1 : l[i] = <<Slash>> \o more[i]
    OBVIOUS
  <2>3. \A i \in 1 .. n + 1 : more[i] \in Seq(Characters)
    BY <1>9
  <2>4. l \in Seq(Seq(Characters)) /\ Len(l) = n + 1
    BY <1>3, <2>3
  <2> HIDE DEF l
  <2>5. \A i \in 1 .. n + 1 : l[i] = Append(parts, last)[i]
    <3> TAKE i \in 1 .. n + 1
    <3>1. CASE i = n + 1
      BY <1>9, <1>10, <2>1, <2>2, <3>1
    <3>2. CASE i # n + 1
      <4>1. i \in 1 .. n
        BY <3>2
      <4> QED
        BY <1>7, <1>9, <2>1, <2>2, <4>1
    <3> QED
      BY <3>1, <3>2
  <2>6. l = Append(parts, last)
    BY <2>1, <2>4, <2>5, SeqEqual
  <2> QED
    BY <1>9, <2>6 DEF l
<1>12. Spelled(names) = FlattenSeq(parts) /\ Spelled(more) = FlattenSeq(Append(parts, last))
  BY <1>4, <1>11 DEF Spelled
<1>13. Spelled(<<>>) = <<>>
  BY DEF Spelled, FlattenSeq
<1> QED
  BY <1>7, <1>8, <1>10, <1>12, <1>13, FlattenAppend

-----------------------------------------------------------------------------
(* The loop of changeDirAbsolute_.                                         *)

ScanStates == [names : Seq(Seq(Characters)), word : Seq(Characters)]

NothingYet    == [names |-> <<>>, word |-> <<>>]
Ended(s)      == [names |-> Flushed(s), word |-> <<>>]
Longer(s, c)  == [names |-> s.names, word |-> Append(s.word, c)]
OneMore(s, c) == IF c = Slash THEN Ended(s) ELSE Longer(s, c)

(* Scan as the function it defines, and character by character.            *)
ScanAll(scan, path) ==
  scan = [i \in 0 .. Len(path) |->
        IF i <= 1 THEN [names |-> <<>>, word |-> <<>>]
        ELSE IF path[i] = Slash THEN [names |-> Flushed(scan[i - 1]), word |-> <<>>]
        ELSE [names |-> scan[i - 1].names, word |-> Append(scan[i - 1].word, path[i])]]

Scanned(scan, path) ==
  \A i \in 0 .. Len(path) :
    scan[i] = IF i <= 1 THEN NothingYet ELSE OneMore(scan[i - 1], path[i])

(* What the loop keeps are names and a word.                               *)
LEMMA ScanStatesStay ==
  ASSUME NEW s \in ScanStates
  PROVE  /\ NothingYet \in ScanStates
         /\ Flushed(s) \in Seq(Seq(Characters))
         /\ \A c \in Characters : OneMore(s, c) \in ScanStates
<1>1. NothingYet \in ScanStates
  BY DEF NothingYet, ScanStates
<1>2. s.names \in Seq(Seq(Characters)) /\ s.word \in Seq(Characters)
  BY DEF ScanStates
<1>3. Flushed(s) \in Seq(Seq(Characters))
  <2>1. Append(s.names, s.word) \in Seq(Seq(Characters))
    BY <1>2, AppendProperties
  <2> QED
    BY <1>2, <2>1 DEF Flushed
<1>4. ASSUME NEW c \in Characters PROVE OneMore(s, c) \in ScanStates
  <2>1. Append(s.word, c) \in Seq(Characters)
    BY <1>2, AppendProperties
  <2>2. Ended(s) \in ScanStates
    BY <1>3 DEF Ended, ScanStates
  <2>3. Longer(s, c) \in ScanStates
    BY <1>2, <2>1 DEF Longer, ScanStates
  <2> QED
    BY <2>2, <2>3 DEF OneMore
<1> QED
  BY <1>1, <1>3, <1>4

(* Scan is what its loop computes.                                         *)
LEMMA ScanIs ==
  ASSUME NEW path \in Seq(Characters)
  PROVE  \E scan : /\ scan \in [0 .. Len(path) -> ScanStates]
                   /\ Scanned(scan, path) /\ Scan(path) = scan[Len(path)]
<1> DEFINE N == Len(path)
           Q == ScanStates
           step == [i \in 1 .. N |->
                      [q \in Q |-> IF i = 1 THEN NothingYet ELSE OneMore(q, path[i])]]
           from == [i \in 1 .. N |-> i - 1]
<1>1. N \in Nat /\ \A i \in 1 .. N : path[i] \in Characters
  OBVIOUS
<1>2. NothingYet \in Q
  BY DEF NothingYet, ScanStates
<1>3. step \in [1 .. N -> [Q -> Q]]
  <2>1. ASSUME NEW i \in 1 .. N, NEW q \in Q
        PROVE  (IF i = 1 THEN NothingYet ELSE OneMore(q, path[i])) \in Q
    <3>1. path[i] \in Characters
      BY <1>1
    <3> QED
      BY <1>2, <3>1, ScanStatesStay
  <2> HIDE DEF Q
  <2> QED
    BY <2>1
<1>4. from \in [1 .. N -> Nat] /\ \A i \in 1 .. N : from[i] < i
  BY <1>1
<1>5. PICK f : f \in [0 .. N -> Q] /\ Rounds(f, N, NothingYet, from, step)
  <2> HIDE DEF N, Q, step, from
  <2> QED
    BY <1>1, <1>2, <1>3, <1>4, LoopsEnd
<1>6. \A i \in 0 .. N : f[i] = IF i <= 1 THEN NothingYet ELSE OneMore(f[i - 1], path[i])
  <2> TAKE i \in 0 .. N
  <2>1. CASE i = 0
    BY <1>5, <2>1 DEF Rounds
  <2>2. CASE i # 0
    <3>1. i \in 1 .. N /\ i - 1 \in 0 .. N
      BY <1>1, <2>2
    <3>2. f[i - 1] \in Q /\ from[i] = i - 1
      BY <1>5, <3>1
    <3>3. f[i] = step[i][f[i - 1]]
      <4> HIDE DEF from, step, N, Q
      <4> QED
        BY <1>5, <3>1, <3>2 DEF Rounds
    <3> HIDE DEF from, Q
    <3>4. f[i] = IF i = 1 THEN NothingYet ELSE OneMore(f[i - 1], path[i])
      BY <3>1, <3>2, <3>3
    <3> QED
      BY <2>2, <3>4
  <2> QED
    BY <2>1, <2>2
<1>7. ScanAll(f, path)
  <2>1. \A i \in 0 .. N :
        f[i] = IF i <= 1 THEN [names |-> <<>>, word |-> <<>>]
               ELSE IF path[i] = Slash THEN [names |-> Flushed(f[i - 1]), word |-> <<>>]
               ELSE [names |-> f[i - 1].names, word |-> Append(f[i - 1].word, path[i])]
    BY <1>6, Zenon DEF NothingYet, OneMore, Ended, Longer
  <2> QED
    BY <1>5, <2>1 DEF ScanAll
<1>8. PICK g : g = CHOOSE h : ScanAll(h, path)
  OBVIOUS
<1>9. ScanAll(g, path)
  BY <1>7, <1>8
<1>10. Scan(path) = g[N]
  BY <1>8 DEF Scan, ScanAll
<1>11. \A i \in 0 .. N : g[i] = IF i <= 1 THEN NothingYet ELSE OneMore(g[i - 1], path[i])
  BY <1>9, Zenon DEF ScanAll, NothingYet, OneMore, Ended, Longer
<1>12. g[N] = f[N]
  <2>1. PICK n \in Nat : n = N
    BY <1>1
  <2>2. \A i \in 0 .. n : f[i] = IF i <= 1 THEN NothingYet ELSE OneMore(f[i - 1], path[i])
    BY <1>6, <2>1
  <2>3. \A i \in 0 .. n : g[i] = IF i <= 1 THEN NothingYet ELSE OneMore(g[i - 1], path[i])
    BY <1>11, <2>1
  <2> HIDE DEF N
  <2>4. f[0] = g[0]
    BY <2>2, <2>3
  <2>5. \A i \in 1 .. n : f[i - 1] = g[i - 1] => f[i] = g[i]
    BY <2>2, <2>3
  <2>6. \A i \in 0 .. n : f[i] = g[i]
    <3>1. Alongside(n, f, g)
      BY <2>4, <2>5 DEF Alongside
    <3>2. SameUpTo(n, f, g)
      BY <3>1, LoopsAgree, Zenon
    <3> QED
      BY <3>2, Zenon DEF SameUpTo
  <2> QED
    BY <2>1, <2>6
<1> QED
  BY <1>5, <1>6, <1>10, <1>12, Zenon DEF Scanned

(* A path that is one character longer.                                    *)
LEMMA ScanAppend ==
  ASSUME NEW path \in Seq(Characters), NEW c \in Characters
  PROVE  /\ Scan(path) \in ScanStates
         /\ Len(path) <= 1 => Scan(path) = NothingYet
         /\ path # <<>> => Scan(Append(path, c)) = OneMore(Scan(path), c)
<1>1. PICK more : more = Append(path, c)
  OBVIOUS
<1>2. PICK n \in Nat : n = Len(path)
  OBVIOUS
<1>3. /\ more \in Seq(Characters) /\ Len(more) = n + 1
      /\ \A i \in 1 .. n : more[i] = path[i]
      /\ more[n + 1] = c
  BY <1>1, <1>2, AppendProperties
<1>4. PICK f : /\ f \in [0 .. Len(path) -> ScanStates]
               /\ Scanned(f, path) /\ Scan(path) = f[Len(path)]
  BY ScanIs
<1>5. PICK g : /\ g \in [0 .. Len(more) -> ScanStates]
               /\ Scanned(g, more) /\ Scan(more) = g[Len(more)]
  BY <1>3, ScanIs
<1>6. \A i \in 0 .. n : f[i] = IF i <= 1 THEN NothingYet ELSE OneMore(f[i - 1], path[i])
  BY <1>2, <1>4, Zenon DEF Scanned
<1>7. \A i \in 0 .. n + 1 : g[i] = IF i <= 1 THEN NothingYet ELSE OneMore(g[i - 1], more[i])
  BY <1>3, <1>5, Zenon DEF Scanned
<1>8. f[0] = g[0]
  BY <1>6, <1>7
<1>9. \A i \in 1 .. n : f[i - 1] = g[i - 1] => f[i] = g[i]
  BY <1>3, <1>6, <1>7
<1>10. \A i \in 0 .. n : f[i] = g[i]
  <2>1. Alongside(n, f, g)
    BY <1>8, <1>9 DEF Alongside
  <2>2. SameUpTo(n, f, g)
    BY <2>1, LoopsAgree, Zenon
  <2> QED
    BY <2>2, Zenon DEF SameUpTo
<1>11. Scan(path) \in ScanStates
  BY <1>2, <1>4
<1>12. ASSUME Len(path) <= 1 PROVE Scan(path) = NothingYet
  BY <1>2, <1>4, <1>6, <1>12
<1>13. ASSUME path # <<>> PROVE Scan(more) = OneMore(Scan(path), c)
  <2>1. n + 1 > 1 /\ n + 1 \in 0 .. n + 1 /\ (n + 1) - 1 = n /\ n \in 0 .. n
    BY <1>2, <1>13
  <2>2. ~(n + 1 <= 1)
    BY <2>1
  <2>3. g[n + 1] = OneMore(g[(n + 1) - 1], more[n + 1])
    BY <1>7, <2>1, <2>2, Zenon
  <2>4. g[n + 1] = OneMore(f[n], c)
    BY <1>3, <1>10, <2>1, <2>3, Zenon
  <2> QED
    BY <1>2, <1>3, <1>4, <1>5, <2>4, Zenon
<1> QED
  BY <1>1, <1>11, <1>12, <1>13

(* What changeDirAbsolute_ can find as one name of a path.                 *)
PlainName(name) ==
  name \in Seq(Characters) /\ name # <<>> /\ \A i \in 1 .. Len(name) : name[i] # Slash

(* A slash ends a name, or nothing.                                        *)
LEMMA SlashEnds ==
  ASSUME NEW path \in Seq(Characters)
  PROVE  /\ Scan(Append(path, Slash)) = Ended(Scan(path))
         /\ Components(Append(path, Slash)) = Components(path)
         /\ Components(path) \in Seq(Seq(Characters))
<1>1. Slash \in Characters
  BY PathsAssumption
<1>2. Append(path, Slash) \in Seq(Characters) /\ Len(Append(path, Slash)) = Len(path) + 1
  BY <1>1, AppendProperties
<1>3. Scan(path) \in ScanStates
  BY <1>1, ScanAppend
<1>4. Scan(Append(path, Slash)) = Ended(Scan(path))
  <2>1. CASE path = <<>>
    <3>1. Len(path) <= 1 /\ Len(Append(path, Slash)) <= 1
      BY <1>2, <2>1
    <3>2. Scan(path) = NothingYet
      BY <1>1, <3>1, ScanAppend
    <3>3. Scan(Append(path, Slash)) = NothingYet
      BY <1>1, <1>2, <3>1, ScanAppend
    <3>4. Ended(NothingYet) = NothingYet
      BY DEF Ended, NothingYet, Flushed
    <3> QED
      BY <3>2, <3>3, <3>4
  <2>2. CASE path # <<>>
    <3>1. Scan(Append(path, Slash)) = OneMore(Scan(path), Slash)
      BY <1>1, <2>2, ScanAppend
    <3> QED
      BY <3>1 DEF OneMore
  <2> QED
    BY <2>1, <2>2
<1>5. Flushed(Ended(Scan(path))) = Flushed(Scan(path))
  BY DEF Flushed, Ended
<1>6. Flushed(Scan(path)) \in Seq(Seq(Characters))
  BY <1>3, ScanStatesStay
<1> QED
  BY <1>4, <1>5, <1>6 DEF Components

(* The characters of a name are collected.                                 *)
LEMMA NameCollected ==
  ASSUME NEW path \in Seq(Characters), path # <<>>, Scan(path).word = <<>>,
         NEW name, PlainName(name)
  PROVE  Scan(path \o name) = [names |-> Scan(path).names, word |-> name]
<1>1. name \in Seq(Characters) /\ \A i \in 1 .. Len(name) : name[i] # Slash
  BY DEF PlainName
<1> DEFINE part(n) == SubSeq(name, 1, n)
           S == {n \in Nat : n <= Len(name) =>
                   Scan(path \o part(n)) = [names |-> Scan(path).names, word |-> part(n)]}
<1>2. ASSUME NEW n \in Nat, \A k \in 0 .. n - 1 : k \in S
      PROVE  n \in S
  <2> SUFFICES ASSUME n <= Len(name)
               PROVE  Scan(path \o part(n)) = [names |-> Scan(path).names, word |-> part(n)]
    OBVIOUS
  <2>1. CASE n = 0
    <3>1. part(n) = <<>>
      BY <2>1, SubSeqEmpty
    <3>2. path \o part(n) = path
      BY <3>1, ConcatEmptySeq
    <3>3. Scan(path) \in ScanStates
      BY PathsAssumption, ScanAppend
    <3>4. Scan(path) = [names |-> Scan(path).names, word |-> <<>>]
      BY <3>3 DEF ScanStates
    <3> QED
      BY <3>1, <3>2, <3>4
  <2>2. CASE n # 0
    <3>1. /\ n - 1 \in 0 .. n - 1 /\ n \in 1 .. Len(name) /\ n - 1 <= Len(name)
          /\ 1 \in 1 .. Len(name)
      BY <1>1, <2>2
    <3>2. PICK c \in Characters : c = name[n] /\ c # Slash
      BY <1>1, <3>1
    <3>3. PICK before : before = part(n - 1)
      OBVIOUS
    <3>4. before \in Seq(Characters)
      BY <1>1, <3>1, <3>3, SubSeqProperties
    <3>5. part(n) = Append(before, c)
      <4>1. SubSeq(name, 1, n) = SubSeq(name, 1, n - 1) \o <<name[n]>>
        BY <1>1, <3>1, SubSeqRecursiveSecond
      <4>2. Append(before, c) = before \o <<c>>
        BY <3>4, AppendIsConcat
      <4> QED
        BY <3>2, <3>3, <4>1, <4>2
    <3>6. Scan(path \o before) = [names |-> Scan(path).names, word |-> before]
      <4>1. n - 1 \in S
        <5> HIDE DEF S
        <5> QED
          BY <1>2, <3>1
      <4> QED
        BY <3>1, <3>3, <4>1
    <3> HIDE DEF part
    <3>7. path \o part(n) = Append(path \o before, c)
      <4>1. path \o before \in Seq(Characters)
        BY <3>4, ConcatProperties
      <4>2. <<c>> \in Seq(Characters)
        BY <3>2
      <4>3. Append(path \o before, c) = (path \o before) \o <<c>>
        BY <4>1, AppendIsConcat
      <4>4. (path \o before) \o <<c>> = path \o (before \o <<c>>)
        BY <3>4, <4>2, ConcatAssociative
      <4>5. Append(before, c) = before \o <<c>>
        BY <3>4, AppendIsConcat
      <4> QED
        BY <3>5, <4>3, <4>4, <4>5
    <3>8. path \o before \in Seq(Characters) /\ path \o before # <<>>
      BY <3>4, ConcatProperties, ConcatEqualIffEmpty
    <3>9. Scan(Append(path \o before, c)) = OneMore(Scan(path \o before), c)
      BY <3>8, ScanAppend
    <3>10. OneMore(Scan(path \o before), c) =
             [names |-> Scan(path).names, word |-> Append(before, c)]
      BY <3>2, <3>6 DEF OneMore, Longer
    <3> QED
      BY <3>5, <3>7, <3>9, <3>10
  <2> QED
    BY <2>1, <2>2
<1>3. Len(name) \in S
  <2> HIDE DEF S
  <2>1. Nat \subseteq S
    BY <1>2, AllNumbers
  <2> QED
    BY <1>1, <2>1
<1>4. part(Len(name)) = name
  BY <1>1, SubSeqFull
<1>5. Scan(path \o part(Len(name))) =
        [names |-> Scan(path).names, word |-> part(Len(name))]
  BY <1>1, <1>3
<1> HIDE DEF part
<1> QED
  BY <1>4, <1>5

(* A name behind a path is one more name of it.                            *)
LEMMA ComponentsAppend ==
  ASSUME NEW path \in Seq(Characters), NEW name, PlainName(name)
  PROVE  Components(path \o (<<Slash>> \o name)) = Append(Components(path), name)
<1>1. Slash \in Characters /\ name \in Seq(Characters) /\ name # <<>>
  BY PathsAssumption DEF PlainName
<1>2. PICK start : start = Append(path, Slash)
  OBVIOUS
<1>3. start \in Seq(Characters) /\ start # <<>>
  BY <1>1, <1>2, AppendProperties
<1>4. start \o name = path \o (<<Slash>> \o name)
  <2>1. <<Slash>> \in Seq(Characters)
    BY <1>1
  <2>2. start = path \o <<Slash>>
    BY <1>1, <1>2, AppendIsConcat
  <2> QED
    BY <1>1, <2>1, <2>2, ConcatAssociative
<1>5. Scan(start) = Ended(Scan(path))
  BY <1>2, SlashEnds
<1>6. Scan(start).word = <<>> /\ Scan(start).names = Components(path)
  BY <1>5 DEF Ended, Components
<1>7. Scan(start \o name) = [names |-> Scan(start).names, word |-> name]
  BY <1>3, <1>6, NameCollected
<1>8. Components(start \o name) = Append(Scan(start).names, name)
  BY <1>1, <1>7 DEF Components, Flushed
<1> QED
  BY <1>4, <1>6, <1>8

(* A name behind a path that has something before it.                      *)
LEMMA NameBehind ==
  ASSUME NEW start \in Seq(Characters), NEW path \in Seq(Characters),
         NEW name \in Seq(Characters)
  PROVE  /\ <<Slash>> \o name \in Seq(Characters)
         /\ start \o (path \o (<<Slash>> \o name)) = (start \o path) \o (<<Slash>> \o name)
<1>1. <<Slash>> \in Seq(Characters)
  BY PathsAssumption
<1>2. <<Slash>> \o name \in Seq(Characters)
  BY <1>1, ConcatProperties
<1> QED
  BY <1>2, ConcatAssociative, SMTT(30)

(* A path is read back name by name, whatever stands before it that has no *)
(* names (one more slash).                                                 *)
LEMMA SpelledReadBack ==
  ASSUME NEW names \in Seq(Seq(Characters)),
         \A i \in 1 .. Len(names) : PlainName(names[i]),
         NEW start \in Seq(Characters), Components(start) = <<>>
  PROVE  Components(start \o Spelled(names)) = names
<1> DEFINE part(n) == SubSeq(names, 1, n)
           S == {n \in Nat : n <= Len(names) =>
                   Components(start \o Spelled(part(n))) = part(n)}
<1>1. ASSUME NEW n \in Nat, \A k \in 0 .. n - 1 : k \in S
      PROVE  n \in S
  <2> SUFFICES ASSUME n <= Len(names)
               PROVE  Components(start \o Spelled(part(n))) = part(n)
    OBVIOUS
  <2>1. CASE n = 0
    <3>1. part(n) = <<>>
      BY <2>1, SubSeqEmpty
    <3>2. Spelled(<<>>) = <<>>
      BY SpelledAppend, EmptySeq
    <3>3. start \o <<>> = start
      BY ConcatEmptySeq
    <3> QED
      BY <3>1, <3>2, <3>3
  <2>2. CASE n # 0
    <3>1. /\ n - 1 \in 0 .. n - 1 /\ n \in 1 .. Len(names) /\ n - 1 <= Len(names)
          /\ 1 \in 1 .. Len(names)
      BY <2>2
    <3>2. PICK name : name = names[n] /\ PlainName(name)
      BY <3>1
    <3>3. name \in Seq(Characters)
      BY <3>2 DEF PlainName
    <3>4. PICK before : before = part(n - 1)
      OBVIOUS
    <3>5. before \in Seq(Seq(Characters))
      BY <3>1, <3>4, SubSeqProperties
    <3>6. part(n) = Append(before, name)
      <4>1. SubSeq(names, 1, n) = SubSeq(names, 1, n - 1) \o <<names[n]>>
        BY <3>1, SubSeqRecursiveSecond
      <4>2. Append(before, name) = before \o <<name>>
        BY <3>3, <3>5, AppendIsConcat
      <4> QED
        BY <3>2, <3>4, <4>1, <4>2
    <3>7. Components(start \o Spelled(before)) = before
      <4>1. n - 1 \in S
        <5> HIDE DEF S
        <5> QED
          BY <1>1, <3>1
      <4> QED
        BY <3>1, <3>4, <4>1
    <3> HIDE DEF part
    <3>8. /\ Spelled(before) \in Seq(Characters)
          /\ Spelled(part(n)) = Spelled(before) \o (<<Slash>> \o name)
      BY <3>3, <3>5, <3>6, SpelledAppend
    <3>9. start \o Spelled(part(n)) = (start \o Spelled(before)) \o (<<Slash>> \o name)
      <4>1. PICK spelled \in Seq(Characters) : spelled = Spelled(before)
        BY <3>8
      <4>2. start \o (spelled \o (<<Slash>> \o name))
              = (start \o spelled) \o (<<Slash>> \o name)
        BY <3>3, NameBehind, SMTT(30)
      <4> QED
        BY <3>8, <4>1, <4>2
    <3>10. start \o Spelled(before) \in Seq(Characters)
      BY <3>8, ConcatProperties
    <3>11. Components(start \o Spelled(part(n))) = Append(before, name)
      BY <3>2, <3>7, <3>9, <3>10, ComponentsAppend
    <3> QED
      BY <3>6, <3>11
  <2> QED
    BY <2>1, <2>2
<1>2. Len(names) \in S
  <2> HIDE DEF S
  <2>1. Nat \subseteq S
    BY <1>1, AllNumbers
  <2> QED
    BY <2>1
<1>3. part(Len(names)) = names
  BY SubSeqFull
<1>4. Components(start \o Spelled(part(Len(names)))) = part(Len(names))
  BY <1>2
<1> HIDE DEF part
<1> QED
  BY <1>3, <1>4

(* So it is as it stands, with a slash behind it, and with one before it.  *)
LEMMA PathsReadBack ==
  ASSUME NEW names \in Seq(Seq(Characters)),
         \A i \in 1 .. Len(names) : PlainName(names[i])
  PROVE  /\ Spelled(names) \in Seq(Characters)
         /\ Components(Spelled(names)) = names
         /\ Components(Spelled(names) \o <<Slash>>) = names
         /\ Components(<<Slash>> \o Spelled(names)) = names
         /\ Components(<<Slash>>) = <<>>
<1>1. Spelled(names) \in Seq(Characters)
  BY SpelledAppend, EmptySeq
<1>2. Components(<<>>) = <<>> /\ <<>> \in Seq(Characters)
  <2>1. PICK empty \in Seq(Characters) : empty = <<>>
    BY EmptySeq
  <2>2. Len(empty) <= 1 /\ Slash \in Characters
    BY <2>1, PathsAssumption
  <2>3. Scan(empty) = NothingYet
    BY <2>2, ScanAppend
  <2> QED
    BY <2>1, <2>3 DEF Components, Flushed, NothingYet
<1>3. Slash \in Characters /\ <<Slash>> \in Seq(Characters)
  BY PathsAssumption
<1>4. Components(<<Slash>>) = <<>>
  <2>1. Components(Append(<<>>, Slash)) = Components(<<>>)
    BY <1>2, SlashEnds
  <2>2. Append(<<>>, Slash) = <<Slash>>
    OBVIOUS
  <2> QED
    BY <1>2, <2>1, <2>2
<1>5. <<>> \o Spelled(names) = Spelled(names)
  BY <1>1, ConcatEmptySeq
<1>6. Components(<<>> \o Spelled(names)) = names
  BY <1>2, SpelledReadBack
<1>7. Components(<<Slash>> \o Spelled(names)) = names
  BY <1>3, <1>4, SpelledReadBack
<1>8. Spelled(names) \o <<Slash>> = Append(Spelled(names), Slash)
  BY <1>1, <1>3, AppendIsConcat
<1>9. Components(Append(Spelled(names), Slash)) = Components(Spelled(names))
  BY <1>1, SlashEnds
<1> QED
  BY <1>1, <1>4, <1>5, <1>6, <1>7, <1>8, <1>9

-----------------------------------------------------------------------------
(* The path of the parent and the last name.                               *)

(* The last slash is the one behind which there is none.                   *)
LEMMA LastSlashIs ==
  ASSUME NEW path \in Seq(Characters)
  PROVE  /\ \A p \in 1 .. Len(path) :
              path[p] = Slash /\ (\A i \in p + 1 .. Len(path) : path[i] # Slash)
                => LastSlash(path, 0) = p
         /\ (\A i \in 1 .. Len(path) : path[i] # Slash) => LastSlash(path, 0) = 0
<1> DEFINE Behind(i) == {k \in Slashes(path) : k > i}
           S == {i \in Slashes(path) : Cardinality(Behind(i)) = 0}
<1>1. Slashes(path) = {i \in 1 .. Len(path) : path[i] = Slash}
  BY DEF Slashes
<1>2. \A i \in Slashes(path) : Cardinality(Behind(i)) = 0 <=> Behind(i) = {}
  <2> TAKE i \in Slashes(path)
  <2>1. Behind(i) \subseteq 1 .. Len(path) /\ IsFiniteSet(1 .. Len(path))
    BY <1>1, FS_Interval
  <2>2. IsFiniteSet(Behind(i))
    BY <2>1, FS_Subset
  <2> HIDE DEF Behind
  <2> QED
    BY <2>2, FS_EmptySet
<1>3. LastSlash(path, 0) = IF S = {} THEN 0 ELSE CHOOSE i \in S : TRUE
  BY DEF LastSlash
<1>4. S = {i \in Slashes(path) : Behind(i) = {}}
  BY <1>2
<1>5. ASSUME NEW p \in 1 .. Len(path), path[p] = Slash,
             \A i \in p + 1 .. Len(path) : path[i] # Slash
      PROVE  LastSlash(path, 0) = p
  <2>1. p \in Slashes(path) /\ Behind(p) = {}
    BY <1>1, <1>5
  <2>2. \A i \in S : i = p
    <3> TAKE i \in S
    <3>1. i \in 1 .. Len(path) /\ path[i] = Slash /\ ~(p > i)
      BY <1>1, <1>4, <2>1
    <3> QED
      BY <1>5, <3>1
  <2>3. p \in S
    BY <1>4, <2>1
  <2> HIDE DEF S
  <2> QED
    BY <1>3, <2>2, <2>3
<1>6. ASSUME \A i \in 1 .. Len(path) : path[i] # Slash
      PROVE  LastSlash(path, 0) = 0
  <2>1. S = {}
    BY <1>1, <1>6
  <2> QED
    BY <1>3, <2>1
<1> QED
  BY <1>5, <1>6

(* The end of a path from some position on.                                *)
LEMMA EndIs ==
  ASSUME NEW whole \in Seq(Characters), NEW name \in Seq(Characters),
         NEW n \in Nat, NEW m \in Nat \ {0}, Len(whole) = n + m + 1, Len(name) = m,
         \A i \in 1 .. m : whole[n + 1 + i] = name[i]
  PROVE  SubSeq(whole, n + 2, n + m + 1) = name
<1>1. PICK a, b : a \in Int /\ b \in Int /\ a = n + 2 /\ b = n + m + 1
  OBVIOUS
<1>2. a <= b /\ b - a + 1 = m
  BY <1>1
<1>3. \A i \in a .. b : whole[i] \in Characters
  BY <1>1
<1>4. /\ SubSeq(whole, a, b) \in Seq(Characters)
      /\ Len(SubSeq(whole, a, b)) = IF a <= b THEN b - a + 1 ELSE 0
      /\ \A i \in 1 .. b - a + 1 : SubSeq(whole, a, b)[i] = whole[a + i - 1]
  BY <1>1, <1>3, SubSeqProperties
<1>5. \A i \in 1 .. m : SubSeq(whole, a, b)[i] = name[i]
  <2> TAKE i \in 1 .. m
  <2>1. i \in 1 .. b - a + 1 /\ a + i - 1 = n + 1 + i
    BY <1>1
  <2> QED
    BY <1>4, <2>1
<1>6. SubSeq(whole, a, b) = name
  BY <1>2, <1>4, <1>5, SeqEqual
<1> QED
  BY <1>1, <1>6

(* A path and a name behind it, taken apart again.                         *)
LEMMA SplitAgain ==
  ASSUME NEW path \in Seq(Characters), NEW name, PlainName(name),
         NEW whole, whole = path \o (<<Slash>> \o name)
  PROVE  /\ getParentPath(whole) = IF path = <<>> THEN <<Slash>> ELSE path
         /\ stringParseFilename(whole) = name
         /\ LastPart(name) = name
<1>1. Slash \in Characters /\ <<Slash>> \in Seq(Characters)
  BY PathsAssumption
<1>2. /\ name \in Seq(Characters) /\ name # <<>>
      /\ \A i \in 1 .. Len(name) : name[i] # Slash
  BY DEF PlainName
<1>3. PICK n \in Nat, m \in Nat : n = Len(path) /\ m = Len(name) /\ m > 0
  BY <1>2
<1>4. PICK end : end = <<Slash>> \o name
  OBVIOUS
<1>5. /\ end \in Seq(Characters) /\ Len(end) = m + 1
      /\ end[1] = Slash /\ \A i \in 1 .. m : end[i + 1] = name[i]
  <2>1. Len(<<Slash>>) = 1
    OBVIOUS
  <2>2. /\ end \in Seq(Characters) /\ Len(end) = Len(<<Slash>>) + Len(name)
        /\ \A i \in 1 .. Len(<<Slash>>) + Len(name) :
             end[i] = IF i <= Len(<<Slash>>) THEN <<Slash>>[i]
                                             ELSE name[i - Len(<<Slash>>)]
    BY <1>1, <1>2, <1>4, ConcatProperties
  <2>3. \A i \in 1 .. 1 + m : end[i] = IF i <= 1 THEN <<Slash>>[i] ELSE name[i - 1]
    BY <1>3, <2>1, <2>2, Zenon
  <2>4. Len(end) = m + 1
    BY <1>3, <2>1, <2>2
  <2>5. end[1] = Slash
    <3>1. 1 \in 1 .. 1 + m /\ <<Slash>>[1] = Slash
      BY <1>3
    <3> QED
      BY <2>3, <3>1
  <2>6. ASSUME NEW i \in 1 .. m PROVE end[i + 1] = name[i]
    <3>1. PICK k \in 1 .. 1 + m : k = i + 1 /\ ~(k <= 1) /\ k - 1 = i
      BY <1>3
    <3>2. end[k] = name[k - 1]
      BY <2>3, <3>1
    <3> QED
      BY <3>1, <3>2
  <2> QED
    BY <2>2, <2>4, <2>5, <2>6
<1>6. /\ whole \in Seq(Characters) /\ Len(whole) = n + m + 1
      /\ \A i \in 1 .. n : whole[i] = path[i]
      /\ whole[n + 1] = Slash
      /\ \A i \in 1 .. m : whole[n + 1 + i] = name[i]
  <2>1. /\ whole \in Seq(Characters) /\ Len(whole) = Len(path) + Len(end)
        /\ \A i \in 1 .. Len(path) + Len(end) :
             whole[i] = IF i <= Len(path) THEN path[i] ELSE end[i - Len(path)]
    BY <1>4, <1>5, ConcatProperties
  <2>2. Len(whole) = n + m + 1
    BY <1>3, <1>5, <2>1
  <2>3. \A i \in 1 .. n + m + 1 : whole[i] = IF i <= n THEN path[i] ELSE end[i - n]
    BY <1>3, <1>5, <2>1
  <2>4. ASSUME NEW i \in 1 .. n PROVE whole[i] = path[i]
    <3>1. i \in 1 .. n + m + 1 /\ i <= n
      OBVIOUS
    <3> QED
      BY <2>3, <3>1
  <2>5. whole[n + 1] = Slash
    <3>1. PICK k \in 1 .. n + m + 1 : k = n + 1 /\ ~(k <= n) /\ k - n = 1
      BY <1>3
    <3> QED
      BY <1>5, <2>3, <3>1
  <2>6. ASSUME NEW i \in 1 .. m PROVE whole[n + 1 + i] = name[i]
    <3>1. PICK k : k \in 1 .. n + m + 1 /\ k = n + 1 + i /\ ~(k <= n) /\ k - n = i + 1
      <4>1. n + 1 + i \in 1 .. n + m + 1 /\ ~(n + 1 + i <= n) /\ (n + 1 + i) - n = i + 1
        OBVIOUS
      <4> QED
        BY <4>1, Zenon
    <3>2. whole[k] = end[i + 1]
      BY <2>3, <3>1
    <3> QED
      BY <1>5, <3>1, <3>2
  <2> QED
    BY <2>1, <2>2, <2>4, <2>5, <2>6
<1>7. LastSlash(whole, 0) = n + 1
  <2>1. n + 1 \in 1 .. Len(whole)
    BY <1>6
  <2>2. \A i \in (n + 1) + 1 .. Len(whole) : whole[i] # Slash
    <3> TAKE i \in (n + 1) + 1 .. Len(whole)
    <3>1. PICK k \in 1 .. m : i = n + 1 + k
      <4>1. i - (n + 1) \in 1 .. m /\ i = n + 1 + (i - (n + 1))
        BY <1>6
      <4> QED
        BY <4>1
    <3> QED
      BY <1>2, <1>3, <1>6, <3>1
  <2> QED
    BY <1>6, <2>1, <2>2, LastSlashIs
<1>8. getParentPath(whole) = IF path = <<>> THEN <<Slash>> ELSE path
  <2>1. CASE path = <<>>
    <3>1. n + 1 <= 1
      BY <1>3, <2>1
    <3> QED
      BY <1>7, <2>1, <3>1 DEF getParentPath
  <2>2. CASE path # <<>>
    <3>1. ~(n + 1 <= 1) /\ ~(Len(whole) <= 1) /\ (n + 1) - 1 = n /\ n >= 1 /\ m >= 1
      BY <1>3, <1>6, <2>2
    <3>2. getParentPath(whole) = SubSeq(whole, 1, n)
      BY <1>7, <3>1 DEF getParentPath
    <3>3. SubSeq(path \o end, 1, Len(path)) = SubSeq(path, 1, Len(path))
      BY <1>3, <1>5, <3>1, SubSeqOfConcat1
    <3>4. SubSeq(path, 1, Len(path)) = path
      BY SubSeqFull
    <3> QED
      BY <1>3, <1>4, <2>2, <3>2, <3>3, <3>4
  <2> QED
    BY <2>1, <2>2
<1>9. stringParseFilename(whole) = name
  <2>1. ~(n + 1 # 0 /\ n + 1 = Len(whole)) /\ (n + 1) + 1 = n + 2
    BY <1>3, <1>6
  <2>2. stringParseFilename(whole) = NameFrom(whole, n + 2)
    BY <1>7, <2>1 DEF stringParseFilename
  <2> DEFINE ends == {k \in n + 2 .. Len(whole) : whole[k] = Slash} \cup {Len(whole) + 1}
  <2>3. \A k \in n + 2 .. Len(whole) : whole[k] # Slash
    <3> TAKE k \in n + 2 .. Len(whole)
    <3>1. k - (n + 1) \in 1 .. m /\ n + 1 + (k - (n + 1)) = k
      BY <1>6
    <3>2. PICK j \in 1 .. m : j = k - (n + 1)
      BY <3>1
    <3> QED
      BY <1>2, <1>3, <1>6, <3>1, <3>2
  <2>4. ends = {Len(whole) + 1}
    BY <2>3
  <2>5. NameFrom(whole, n + 2) =
          SubSeq(whole, n + 2, (CHOOSE k \in ends : \A j \in ends : k <= j) - 1)
    BY DEF NameFrom
  <2>6. (CHOOSE k \in ends : \A j \in ends : k <= j) = Len(whole) + 1
    <3>1. PICK top \in Nat : top = Len(whole) + 1
      BY <1>6
    <3>2. ends = {top}
      BY <2>4, <3>1
    <3> HIDE DEF ends
    <3>3. top \in ends /\ \A j \in ends : top <= j
      BY <3>2
    <3> QED
      BY <3>1, <3>2, <3>3
  <2>7. NameFrom(whole, n + 2) = SubSeq(whole, n + 2, n + m + 1)
    <3>1. (Len(whole) + 1) - 1 = n + m + 1
      BY <1>6
    <3> QED
      BY <2>5, <2>6, <3>1
  <2>8. SubSeq(whole, n + 2, n + m + 1) = name
    <3>1. m \in Nat \ {0}
      BY <1>3
    <3>2. Len(name) = m
      BY <1>3
    <3>3. whole \in Seq(Characters) /\ name \in Seq(Characters)
      BY <1>2, <1>6
    <3>4. Len(whole) = n + m + 1
      BY <1>6
    <3>5. \A i \in 1 .. m : whole[n + 1 + i] = name[i]
      BY <1>6
    <3> QED
      BY <3>1, <3>2, <3>3, <3>4, <3>5, EndIs
  <2> QED
    BY <2>2, <2>7, <2>8
<1>10. LastPart(name) = name
  <2>1. LastSlash(name, 0) = 0
    BY <1>2, LastSlashIs
  <2>2. LastPart(name) = SubSeq(name, 1, Len(name))
    BY <2>1 DEF LastPart
  <2> QED
    BY <1>2, <2>2, SubSeqFull
<1> QED
  BY <1>8, <1>9, <1>10

-----------------------------------------------------------------------------
(* Trees.                                                                  *)

Entries == [name : Seq(Characters), kind : {"dir", "file"}, at : Int]

(* What a well-formed tree is, entry by entry.                             *)
LEMMA EntriesAre ==
  ASSUME NEW tree, WellFormed(tree)
  PROVE  /\ Root \in DOMAIN tree /\ Nowhere \in DOMAIN tree
         /\ \A d \in DOMAIN tree :
              /\ tree[d] \in Seq(Entries)
              /\ DOMAIN tree[d] = 1 .. Len(tree[d]) /\ Len(tree[d]) \in Nat
              /\ \A i \in DOMAIN tree[d] :
                   /\ tree[d][i] \in Entries
                   /\ IsDir(tree[d][i]) => tree[d][i].at \in DOMAIN tree
                   /\ Hidden(tree[d][i]) => IsDir(tree[d][i])
                   /\ ~Hidden(tree[d][i]) => LegalName(tree[d][i].name)
<1>1. Root \in DOMAIN tree /\ Nowhere \in DOMAIN tree
  BY DEF WellFormed
<1>2. ASSUME NEW d \in DOMAIN tree
      PROVE  /\ tree[d] \in Seq(Entries)
             /\ \A i \in DOMAIN tree[d] :
                   /\ IsDir(tree[d][i]) => tree[d][i].at \in DOMAIN tree
                   /\ Hidden(tree[d][i]) => IsDir(tree[d][i])
                   /\ ~Hidden(tree[d][i]) => LegalName(tree[d][i].name)
  BY <1>2, Zenon DEF WellFormed, Entries
<1>3. ASSUME NEW d \in DOMAIN tree
      PROVE  /\ DOMAIN tree[d] = 1 .. Len(tree[d]) /\ Len(tree[d]) \in Nat
             /\ \A i \in DOMAIN tree[d] : tree[d][i] \in Entries
  <2>1. tree[d] \in Seq(Entries)
    BY <1>2
  <2> QED
    BY <2>1, LenProperties, ElementOfSeq
<1> QED
  BY <1>1, <1>2, <1>3, Zenon

(* A set of positions has a first one.                                     *)
LEMMA LeastIs ==
  ASSUME NEW S, S \subseteq Nat
  PROVE  /\ S # {} => (CHOOSE i \in S : \A k \in S : i <= k) \in S
         /\ \A i : S = {i} => (CHOOSE j \in S : \A k \in S : j <= k) = i
<1>1. ASSUME S # {} PROVE (CHOOSE i \in S : \A k \in S : i <= k) \in S
  <2>1. \E i \in S : \A k \in S : i <= k
    BY <1>1, HasLeast
  <2> QED
    BY <2>1, Zenon
<1>2. ASSUME NEW i, S = {i}
      PROVE  (CHOOSE j \in S : \A k \in S : j <= k) = i
  <2>1. (CHOOSE j \in S : \A k \in S : j <= k) \in S
    BY <1>1, <1>2
  <2> QED
    BY <1>2, <2>1
<1> QED
  BY <1>1, <1>2

WalkStates(tree) == [at : DOMAIN tree, filename : Seq(Characters)]

(* A name that is looked up leads to a directory of the tree, and to the   *)
(* only directory that has it if there is one.                             *)
LEMMA StepLeads ==
  ASSUME NEW tree, WellFormed(tree), NEW dir \in WalkStates(tree),
         NEW name \in Seq(Characters)
  PROVE  /\ changeDirIterative(tree, dir, name) \in WalkStates(tree)
         /\ \A i \in DOMAIN tree[dir.at] :
              /\ IsDir(tree[dir.at][i]) /\ Same(tree[dir.at][i].name, name)
              /\ \A k \in DOMAIN tree[dir.at] \ {i} :
                   ~(Same(tree[dir.at][k].name, name) /\ IsDir(tree[dir.at][k]))
              => changeDirIterative(tree, dir, name).at = tree[dir.at][i].at
<1>1. dir.at \in DOMAIN tree /\ dir.filename \in Seq(Characters)
  BY DEF WalkStates
<1>2. PICK entries : entries = tree[dir.at]
  OBVIOUS
<1>3. /\ DOMAIN entries \subseteq Nat
      /\ \A i \in DOMAIN entries :
           entries[i] \in Entries /\ (IsDir(entries[i]) => entries[i].at \in DOMAIN tree)
  <2>1. DOMAIN entries = 1 .. Len(entries) /\ Len(entries) \in Nat
    BY <1>1, <1>2, EntriesAre
  <2> QED
    BY <1>1, <1>2, <2>1, EntriesAre
<1>4. PICK found : found = {i \in DOMAIN entries : Same(entries[i].name, name) /\ IsDir(entries[i])}
  OBVIOUS
<1>5. PICK first : first = CHOOSE i \in found : \A k \in found : i <= k
  OBVIOUS
<1>6. PICK entry : entry = IF found = {} THEN NoEntry ELSE entries[first]
  OBVIOUS
<1>7. changeDirIterative(tree, dir, name) =
        IF entry = NoEntry THEN dir
        ELSE [at |-> entry.at, filename |-> dir.filename \o name \o <<Slash>>]
  BY <1>2, <1>4, <1>5, <1>6, Zenon DEF changeDirIterative, First
<1>8. found \subseteq Nat /\ found \subseteq DOMAIN entries
  BY <1>3, <1>4
<1>9. found # {} => first \in found
  BY <1>5, <1>8, LeastIs
<1>10. dir.filename \o name \o <<Slash>> \in Seq(Characters)
  <2>1. <<Slash>> \in Seq(Characters)
    BY PathsAssumption
  <2>2. dir.filename \o name \in Seq(Characters)
    BY <1>1, ConcatProperties
  <2> QED
    BY <2>1, <2>2, ConcatProperties
<1>11. changeDirIterative(tree, dir, name) \in WalkStates(tree)
  <2>1. CASE entry = NoEntry
    BY <1>7, <2>1
  <2>2. CASE entry # NoEntry
    <3>1. found # {} /\ entry = entries[first]
      BY <1>6, <2>2
    <3>2. first \in DOMAIN entries /\ IsDir(entries[first])
      BY <1>4, <1>9, <3>1
    <3>3. entry.at \in DOMAIN tree
      BY <1>3, <3>1, <3>2
    <3> QED
      BY <1>7, <1>10, <2>2, <3>3 DEF WalkStates
  <2> QED
    BY <2>1, <2>2
<1>12. ASSUME NEW i \in DOMAIN entries, IsDir(entries[i]), Same(entries[i].name, name),
              \A k \in DOMAIN entries \ {i} : ~(Same(entries[k].name, name) /\ IsDir(entries[k]))
       PROVE  changeDirIterative(tree, dir, name).at = entries[i].at
  <2>1. found = {i}
    BY <1>4, <1>12
  <2>2. first = i
    BY <1>5, <1>8, <2>1, LeastIs
  <2>3. entry = entries[i]
    BY <1>6, <2>1, <2>2
  <2>4. entry # NoEntry
    <3>1. entry.kind = "dir"
      BY <1>12, <2>3 DEF IsDir
    <3>2. NoEntry.kind = "none"
      BY DEF NoEntry
    <3> QED
      BY <3>1, <3>2
  <2> QED
    BY <1>7, <2>3, <2>4
<1> QED
  BY <1>2, <1>11, <1>12, Zenon

(* The loop of WalkNames, as the function it defines, name by name.        *)
WalkAll(dir, tree, names) ==
  dir = [n \in 0 .. Len(names) |->
           IF n = 0 THEN AtRoot ELSE changeDirIterative(tree, dir[n - 1], names[n])]

Walked(dir, tree, names) ==
  \A n \in 0 .. Len(names) :
    dir[n] = IF n = 0 THEN AtRoot ELSE changeDirIterative(tree, dir[n - 1], names[n])

(* WalkNames is what its loop computes.                                    *)
LEMMA WalkIs ==
  ASSUME NEW tree, WellFormed(tree), NEW names \in Seq(Seq(Characters))
  PROVE  \E dir : /\ dir \in [0 .. Len(names) -> WalkStates(tree)]
                  /\ Walked(dir, tree, names) /\ WalkNames(tree, names) = dir[Len(names)]
<1> DEFINE N == Len(names)
           Q == WalkStates(tree)
           step == [i \in 1 .. N |-> [q \in Q |-> changeDirIterative(tree, q, names[i])]]
           from == [i \in 1 .. N |-> i - 1]
<1>1. N \in Nat /\ \A i \in 1 .. N : names[i] \in Seq(Characters)
  OBVIOUS
<1>2. AtRoot \in Q
  <2>1. <<Slash>> \in Seq(Characters) /\ Root \in DOMAIN tree
    BY PathsAssumption, EntriesAre
  <2> QED
    BY <2>1 DEF AtRoot, WalkStates
<1>3. step \in [1 .. N -> [Q -> Q]]
  <2>1. ASSUME NEW i \in 1 .. N, NEW q \in Q
        PROVE  changeDirIterative(tree, q, names[i]) \in Q
    <3>1. names[i] \in Seq(Characters)
      BY <1>1
    <3> QED
      BY <3>1, StepLeads
  <2> HIDE DEF Q
  <2> QED
    BY <2>1
<1>4. from \in [1 .. N -> Nat] /\ \A i \in 1 .. N : from[i] < i
  BY <1>1
<1>5. PICK f : f \in [0 .. N -> Q] /\ Rounds(f, N, AtRoot, from, step)
  <2> HIDE DEF N, Q, step, from
  <2> QED
    BY <1>1, <1>2, <1>3, <1>4, LoopsEnd
<1>6. \A i \in 0 .. N :
        f[i] = IF i = 0 THEN AtRoot ELSE changeDirIterative(tree, f[i - 1], names[i])
  <2> TAKE i \in 0 .. N
  <2>1. CASE i = 0
    BY <1>5, <2>1 DEF Rounds
  <2>2. CASE i # 0
    <3>1. i \in 1 .. N /\ i - 1 \in 0 .. N
      BY <1>1, <2>2
    <3>2. f[i - 1] \in Q /\ from[i] = i - 1
      BY <1>5, <3>1
    <3>3. f[i] = step[i][f[i - 1]]
      <4> HIDE DEF from, step, N, Q
      <4> QED
        BY <1>5, <3>1, <3>2 DEF Rounds
    <3> HIDE DEF from, Q
    <3> QED
      BY <2>2, <3>1, <3>2, <3>3
  <2> QED
    BY <2>1, <2>2
<1>7. WalkAll(f, tree, names)
  BY <1>5, <1>6 DEF WalkAll
<1>8. PICK g : g = CHOOSE h : WalkAll(h, tree, names)
  OBVIOUS
<1>9. WalkAll(g, tree, names)
  BY <1>7, <1>8
<1>10. WalkNames(tree, names) = g[N]
  BY <1>8 DEF WalkNames, WalkAll
<1>11. \A i \in 0 .. N :
         g[i] = IF i = 0 THEN AtRoot ELSE changeDirIterative(tree, g[i - 1], names[i])
  BY <1>9, Zenon DEF WalkAll
<1>12. g[N] = f[N]
  <2>1. PICK n \in Nat : n = N
    BY <1>1
  <2>2. \A i \in 0 .. n :
          f[i] = IF i = 0 THEN AtRoot ELSE changeDirIterative(tree, f[i - 1], names[i])
    BY <1>6, <2>1
  <2>3. \A i \in 0 .. n :
          g[i] = IF i = 0 THEN AtRoot ELSE changeDirIterative(tree, g[i - 1], names[i])
    BY <1>11, <2>1
  <2> HIDE DEF N
  <2>4. f[0] = g[0]
    BY <2>2, <2>3
  <2>5. \A i \in 1 .. n : f[i - 1] = g[i - 1] => f[i] = g[i]
    BY <2>2, <2>3
  <2>6. \A i \in 0 .. n : f[i] = g[i]
    <3>1. Alongside(n, f, g)
      BY <2>4, <2>5 DEF Alongside
    <3>2. SameUpTo(n, f, g)
      BY <3>1, LoopsAgree, Zenon
    <3> QED
      BY <3>2, Zenon DEF SameUpTo
  <2> QED
    BY <2>1, <2>6
<1> QED
  BY <1>5, <1>6, <1>10, <1>12, Zenon DEF Walked

(* A walk stays in the tree, and the last name is its last step.           *)
LEMMA WalkAppend ==
  ASSUME NEW tree, WellFormed(tree), NEW names \in Seq(Seq(Characters)),
         NEW name \in Seq(Characters)
  PROVE  /\ WalkNames(tree, names) \in WalkStates(tree)
         /\ names = <<>> => WalkNames(tree, names) = AtRoot
         /\ WalkNames(tree, Append(names, name)) =
              changeDirIterative(tree, WalkNames(tree, names), name)
<1>1. PICK more : more = Append(names, name)
  OBVIOUS
<1>2. PICK n \in Nat : n = Len(names)
  OBVIOUS
<1>3. /\ more \in Seq(Seq(Characters)) /\ Len(more) = n + 1
      /\ \A i \in 1 .. n : more[i] = names[i]
      /\ more[n + 1] = name
  BY <1>1, <1>2, AppendProperties
<1>4. PICK f : /\ f \in [0 .. Len(names) -> WalkStates(tree)]
               /\ Walked(f, tree, names) /\ WalkNames(tree, names) = f[Len(names)]
  BY WalkIs
<1>5. PICK g : /\ g \in [0 .. Len(more) -> WalkStates(tree)]
               /\ Walked(g, tree, more) /\ WalkNames(tree, more) = g[Len(more)]
  BY <1>3, WalkIs
<1>6. \A i \in 0 .. n :
        f[i] = IF i = 0 THEN AtRoot ELSE changeDirIterative(tree, f[i - 1], names[i])
  BY <1>2, <1>4, Zenon DEF Walked
<1>7. \A i \in 0 .. n + 1 :
        g[i] = IF i = 0 THEN AtRoot ELSE changeDirIterative(tree, g[i - 1], more[i])
  BY <1>3, <1>5, Zenon DEF Walked
<1>8. f[0] = g[0]
  BY <1>6, <1>7
<1>9. \A i \in 1 .. n : f[i - 1] = g[i - 1] => f[i] = g[i]
  <2> TAKE i \in 1 .. n
  <2>1. i \in 0 .. n /\ i \in 0 .. n + 1 /\ i # 0
    OBVIOUS
  <2>2. f[i] = changeDirIterative(tree, f[i - 1], names[i])
    BY <1>6, <2>1, Zenon
  <2>3. g[i] = changeDirIterative(tree, g[i - 1], names[i])
    BY <1>3, <1>7, <2>1, Zenon
  <2> QED
    BY <2>2, <2>3
<1>10. \A i \in 0 .. n : f[i] = g[i]
  <2>1. Alongside(n, f, g)
    BY <1>8, <1>9 DEF Alongside
  <2>2. SameUpTo(n, f, g)
    BY <2>1, LoopsAgree, Zenon
  <2> QED
    BY <2>2, Zenon DEF SameUpTo
<1>11. WalkNames(tree, names) \in WalkStates(tree)
  BY <1>2, <1>4
<1>12. names = <<>> => WalkNames(tree, names) = AtRoot
  BY <1>2, <1>4, <1>6
<1>13. WalkNames(tree, more) = changeDirIterative(tree, WalkNames(tree, names), name)
  <2>1. n + 1 \in 0 .. n + 1 /\ (n + 1) - 1 = n /\ n \in 0 .. n /\ n + 1 # 0
    OBVIOUS
  <2>2. g[n + 1] = changeDirIterative(tree, g[(n + 1) - 1], more[n + 1])
    BY <1>7, <2>1, Zenon
  <2>3. g[n + 1] = changeDirIterative(tree, f[n], name)
    BY <1>3, <1>10, <2>1, <2>2, Zenon
  <2> QED
    BY <1>2, <1>3, <1>4, <1>5, <2>3, Zenon
<1> QED
  BY <1>1, <1>11, <1>12, <1>13

-----------------------------------------------------------------------------
(* Versions of stringCompare.                                              *)

(* What both versions have in common: texts that are taken for each other  *)
(* begin alike.                                                            *)
SameStart ==
  \A s, t \in Seq(Characters) \ {<<>>} : Same(s, s) /\ (Same(s, t) => s[1] = t[1])

KernelsSame == \A s, t \in Seq(Characters) : Same(s, t) <=> SameText(s, t)
FusesSame   == \A s, t \in Seq(Characters) : Same(s, t) <=> SameBeginning(s, t)

(* The kernel's stringCompare and that of the FUSE program are such.       *)
LEMMA SamesStart == KernelsSame \/ FusesSame => SameStart
<1>1. ASSUME KernelsSame PROVE SameStart
  BY <1>1 DEF KernelsSame, SameStart, SameText
<1>2. ASSUME FusesSame PROVE SameStart
  <2>1. ASSUME NEW s \in Seq(Characters) \ {<<>>}, NEW t \in Seq(Characters) \ {<<>>},
               IsPrefix(s, t)
        PROVE  s[1] = t[1]
    <3>1. Len(s) >= 1 /\ Len(s) <= Len(t) /\ Len(s) \in Int
      BY <2>1 DEF IsPrefix
    <3>2. PICK n \in Nat : n = Len(s) /\ n >= 1 /\ n <= Len(t)
      BY <3>1
    <3>3. SubSeq(s, 1, n) = SubSeq(t, 1, n)
      BY <2>1, <3>2 DEF IsPrefix
    <3>4. \A i \in 1 .. n : s[i] \in Characters /\ t[i] \in Characters
      BY <3>2
    <3>5. \A i \in 1 .. n - 1 + 1 : SubSeq(s, 1, n)[i] = s[1 + i - 1]
      BY <3>4, SubSeqProperties
    <3>6. \A i \in 1 .. n - 1 + 1 : SubSeq(t, 1, n)[i] = t[1 + i - 1]
      BY <3>4, SubSeqProperties
    <3>7. 1 \in 1 .. n - 1 + 1 /\ 1 + 1 - 1 = 1
      BY <3>2
    <3>8. SubSeq(s, 1, n)[1] = s[1 + 1 - 1] /\ SubSeq(t, 1, n)[1] = t[1 + 1 - 1]
      BY <3>5, <3>6, <3>7
    <3> QED
      BY <3>3, <3>7, <3>8
  <2>2. \A s \in Seq(Characters) : IsPrefix(s, s)
    BY DEF IsPrefix
  <2> QED
    BY <1>2, <2>1, <2>2 DEF FusesSame, SameStart, SameBeginning
<1> QED
  BY <1>1, <1>2

(* A legal name is one that a path can have, and is not taken for that of  *)
(* a hidden entry.                                                         *)
LEMMA LegalNames ==
  ASSUME NEW name, LegalName(name)
  PROVE  /\ PlainName(name) /\ name \in Seq(Characters) /\ name # <<>>
         /\ SameStart => Same(name, name)
         /\ \A e \in Entries : SameStart /\ Hidden(e) => ~Same(e.name, name)
<1>1. name \in Seq(Characters) /\ name # <<>> /\ name[1] # "." /\ Slashes(name) = {}
  BY DEF LegalName
<1>2. PlainName(name)
  <2>1. \A i \in 1 .. Len(name) : name[i] # Slash
    BY <1>1 DEF Slashes
  <2> QED
    BY <1>1, <2>1 DEF PlainName
<1>3. ASSUME SameStart, NEW e \in Entries, Hidden(e) PROVE ~Same(e.name, name)
  <2>1. e.name \in Seq(Characters) /\ e.name # <<>> /\ e.name[1] = "."
    BY <1>3 DEF Hidden, Entries
  <2> QED
    BY <1>1, <1>3, <2>1 DEF SameStart
<1> QED
  BY <1>1, <1>2, <1>3 DEF SameStart

-----------------------------------------------------------------------------
(* The paths of entries.                                                   *)

Places(tree) ==
  {x \in [path : Seq(Seq(Characters)), entry : Entries] :
     /\ \A i \in 1 .. Len(x.path) : PlainName(x.path[i])
     /\ IsDir(x.entry) => x.entry.at \in DOMAIN tree}

(* A directory is where its path leads.                                    *)
Found(tree, x) == IsDir(x.entry) => WalkNames(tree, x.path).at = x.entry.at

(* An entry one level deeper.                                              *)
LEMMA Deeper ==
  ASSUME NEW tree, WellFormed(tree), NEW y \in Places(tree), IsDir(y.entry)
  PROVE  /\ y.entry.at \in DOMAIN tree /\ y.path \in Seq(Seq(Characters))
         /\ \A i \in Listed(tree, y.entry.at) :
              LET e == tree[y.entry.at][i] IN
              /\ i \in DOMAIN tree[y.entry.at] /\ e \in Entries /\ LegalName(e.name)
              /\ IsDir(e) => e.at \in DOMAIN tree
              /\ [path |-> Append(y.path, e.name), entry |-> e] \in Places(tree)
         /\ InDir(tree, y) \subseteq Places(tree)
<1>1. /\ y.path \in Seq(Seq(Characters)) /\ \A i \in 1 .. Len(y.path) : PlainName(y.path[i])
      /\ y.entry.at \in DOMAIN tree
  BY DEF Places
<1>2. PICK entries : entries = tree[y.entry.at]
  OBVIOUS
<1>3. \A i \in DOMAIN entries :
        /\ entries[i] \in Entries
        /\ IsDir(entries[i]) => entries[i].at \in DOMAIN tree
        /\ ~Hidden(entries[i]) => LegalName(entries[i].name)
  BY <1>1, <1>2, EntriesAre
<1>4. Listed(tree, y.entry.at) = {i \in DOMAIN entries : ~Hidden(entries[i])}
  BY <1>2 DEF Listed
<1>5. ASSUME NEW i \in Listed(tree, y.entry.at)
      PROVE  [path |-> Append(y.path, entries[i].name), entry |-> entries[i]] \in Places(tree)
  <2>1. PICK e : e = entries[i]
    OBVIOUS
  <2>2. e \in Entries /\ PlainName(e.name) /\ e.name \in Seq(Characters)
        /\ (IsDir(e) => e.at \in DOMAIN tree)
    BY <1>3, <1>4, <2>1, LegalNames
  <2>3. PICK path : path = Append(y.path, e.name)
    OBVIOUS
  <2>4. /\ path \in Seq(Seq(Characters)) /\ Len(path) = Len(y.path) + 1
        /\ \A k \in 1 .. Len(y.path) : path[k] = y.path[k]
        /\ path[Len(y.path) + 1] = e.name
    BY <1>1, <2>2, <2>3, AppendProperties
  <2>5. \A k \in 1 .. Len(path) : PlainName(path[k])
    <3> TAKE k \in 1 .. Len(path)
    <3>1. k \in 1 .. Len(y.path) \/ k = Len(y.path) + 1
      BY <1>1, <2>4
    <3> QED
      BY <1>1, <2>2, <2>4, <3>1
  <2>6. PICK x : x = [path |-> path, entry |-> e]
    OBVIOUS
  <2>7. x.path = path /\ x.entry = e /\ x \in [path : Seq(Seq(Characters)), entry : Entries]
    BY <2>2, <2>4, <2>6
  <2>8. x \in Places(tree)
    BY <2>2, <2>5, <2>7, Zenon DEF Places
  <2> QED
    BY <2>1, <2>3, <2>6, <2>8
<1>6. InDir(tree, y) \subseteq Places(tree)
  BY <1>2, <1>5, Zenon DEF InDir
<1> QED
  BY <1>1, <1>2, <1>3, <1>4, <1>5, <1>6

(* In a directory that its path leads to, no entry is passed over on the   *)
(* way to one below it, if no names are taken for each other there.        *)
LEMMA FoundBelow ==
  ASSUME NEW tree, WellFormed(tree), SameStart, SiblingsApart(tree),
         NEW y \in Places(tree), IsDir(y.entry), Found(tree, y),
         NEW x \in InDir(tree, y)
  PROVE  Found(tree, x)
<1> SUFFICES ASSUME IsDir(x.entry) PROVE WalkNames(tree, x.path).at = x.entry.at
  BY DEF Found
<1>1. PICK d : d = y.entry.at
  OBVIOUS
<1>2. d \in DOMAIN tree /\ y.path \in Seq(Seq(Characters)) /\ WalkNames(tree, y.path).at = d
  BY <1>1, Deeper DEF Found
<1>3. PICK i \in Listed(tree, d) :
        x = [path |-> Append(y.path, tree[d][i].name), entry |-> tree[d][i]]
  BY <1>1 DEF InDir
<1>4. PICK e : e = tree[d][i]
  OBVIOUS
<1>5. /\ i \in DOMAIN tree[d] /\ e \in Entries /\ LegalName(e.name)
      /\ x.path = Append(y.path, e.name) /\ x.entry = e /\ IsDir(e)
  BY <1>1, <1>3, <1>4, Deeper
<1>6. e.name \in Seq(Characters) /\ Same(e.name, e.name)
      /\ \A h \in Entries : Hidden(h) => ~Same(h.name, e.name)
  BY <1>5, LegalNames
<1>7. \A k \in DOMAIN tree[d] \ {i} : ~(Same(tree[d][k].name, e.name) /\ IsDir(tree[d][k]))
  <2> TAKE k \in DOMAIN tree[d] \ {i}
  <2>1. tree[d][k] \in Entries
    BY <1>2, EntriesAre
  <2>2. CASE Hidden(tree[d][k])
    BY <1>6, <2>1, <2>2
  <2>3. CASE ~Hidden(tree[d][k])
    <3>1. k \in Listed(tree, d) /\ k # i
      BY <2>3 DEF Listed
    <3> QED
      BY <1>2, <1>4, <3>1 DEF SiblingsApart
  <2> QED
    BY <2>2, <2>3
<1>8. PICK dir : dir = WalkNames(tree, y.path) /\ dir \in WalkStates(tree) /\ dir.at = d
  BY <1>2, <1>6, WalkAppend
<1>9. changeDirIterative(tree, dir, e.name).at = e.at
  <2>1. i \in DOMAIN tree[dir.at] /\ tree[dir.at][i] = e
    BY <1>4, <1>5, <1>8
  <2>2. IsDir(tree[dir.at][i]) /\ Same(tree[dir.at][i].name, e.name)
    BY <1>5, <1>6, <2>1
  <2>3. \A k \in DOMAIN tree[dir.at] \ {i} :
          ~(Same(tree[dir.at][k].name, e.name) /\ IsDir(tree[dir.at][k]))
    BY <1>7, <1>8
  <2>4. PICK name \in Seq(Characters) : name = e.name
    BY <1>6
  <2>5. IsDir(tree[dir.at][i]) /\ Same(tree[dir.at][i].name, name)
    BY <2>2, <2>4
  <2>6. \A k \in DOMAIN tree[dir.at] \ {i} :
          ~(Same(tree[dir.at][k].name, name) /\ IsDir(tree[dir.at][k]))
    BY <2>3, <2>4
  <2>7. changeDirIterative(tree, dir, name).at = tree[dir.at][i].at
    BY <1>8, <2>1, <2>5, <2>6, StepLeads
  <2> QED
    BY <2>1, <2>4, <2>7
<1>10. WalkNames(tree, x.path) = changeDirIterative(tree, dir, e.name)
  BY <1>2, <1>5, <1>6, <1>8, WalkAppend
<1> QED
  BY <1>5, <1>9, <1>10

(* The entries in the directories among some.                              *)
Below(tree, level) == UNION {InDir(tree, x) : x \in {y \in level : IsDir(y.entry)}}

(* The loop of Level, as the function it defines and level by level.       *)
LevelAll(level, tree, depth) ==
  level = [n \in 0 .. depth |->
             IF n = 0 THEN {RootItself}
             ELSE UNION {InDir(tree, x) : x \in {y \in level[n - 1] : IsDir(y.entry)}}]

Levels(level, tree, depth) ==
  \A n \in 0 .. depth :
    level[n] = IF n = 0 THEN {RootItself} ELSE Below(tree, level[n - 1])

(* The root is a place that the empty path leads to.                       *)
LEMMA RootIsPlace ==
  ASSUME NEW tree, WellFormed(tree)
  PROVE  RootItself \in Places(tree) /\ IsDir(RootItself.entry) /\ Found(tree, RootItself)
<1>1. Root \in DOMAIN tree
  BY EntriesAre
<1>2. RootItself.entry \in Entries /\ IsDir(RootItself.entry) /\ RootItself.entry.at = Root
  BY DEF RootItself, Entries, IsDir, Root
<1>3. RootItself.path = <<>> /\ RootItself \in [path : Seq(Seq(Characters)), entry : Entries]
  BY <1>2 DEF RootItself
<1>4. RootItself \in Places(tree)
  BY <1>1, <1>2, <1>3 DEF Places
<1>5. WalkNames(tree, <<>>) = AtRoot
  <2>1. PICK names \in Seq(Seq(Characters)) : names = <<>>
    BY EmptySeq
  <2>2. <<>> \in Seq(Characters)
    BY EmptySeq
  <2>3. WalkNames(tree, names) = AtRoot
    BY <2>1, <2>2, WalkAppend
  <2> QED
    BY <2>1, <2>3
<1> QED
  BY <1>2, <1>3, <1>4, <1>5 DEF Found, AtRoot

(* Level is what its loop computes.                                        *)
LEMMA LevelIs ==
  ASSUME NEW tree, WellFormed(tree), NEW depth \in Nat
  PROVE  \E level : /\ level \in [0 .. depth -> SUBSET Places(tree)]
                    /\ Levels(level, tree, depth) /\ Level(tree, depth) = level[depth]
<1> DEFINE N == depth
           Q == SUBSET Places(tree)
           step == [i \in 1 .. N |-> [q \in Q |-> Below(tree, q)]]
           from == [i \in 1 .. N |-> i - 1]
<1>1. N \in Nat
  OBVIOUS
<1>2. {RootItself} \in Q
  BY RootIsPlace
<1>3. step \in [1 .. N -> [Q -> Q]]
  <2>1. ASSUME NEW q \in Q PROVE Below(tree, q) \in Q
    <3>1. \A x \in {y \in q : IsDir(y.entry)} : InDir(tree, x) \subseteq Places(tree)
      BY Deeper
    <3> QED
      BY <3>1 DEF Below
  <2> HIDE DEF Q
  <2> QED
    BY <2>1
<1>4. from \in [1 .. N -> Nat] /\ \A i \in 1 .. N : from[i] < i
  BY <1>1
<1>5. PICK f : f \in [0 .. N -> Q] /\ Rounds(f, N, {RootItself}, from, step)
  <2> HIDE DEF N, Q, step, from
  <2> QED
    BY <1>1, <1>2, <1>3, <1>4, LoopsEnd
<1>6. \A i \in 0 .. N : f[i] = IF i = 0 THEN {RootItself} ELSE Below(tree, f[i - 1])
  <2> TAKE i \in 0 .. N
  <2>1. CASE i = 0
    BY <1>5, <2>1 DEF Rounds
  <2>2. CASE i # 0
    <3>1. i \in 1 .. N /\ i - 1 \in 0 .. N
      BY <1>1, <2>2
    <3>2. f[i - 1] \in Q /\ from[i] = i - 1
      BY <1>5, <3>1
    <3>3. f[i] = step[i][f[i - 1]]
      <4> HIDE DEF from, step, N, Q
      <4> QED
        BY <1>5, <3>1, <3>2 DEF Rounds
    <3> HIDE DEF from, Q
    <3> QED
      BY <2>2, <3>1, <3>2, <3>3
  <2> QED
    BY <2>1, <2>2
<1>7. LevelAll(f, tree, depth)
  <2>1. \A i \in 0 .. N :
          f[i] = IF i = 0 THEN {RootItself}
                 ELSE UNION {InDir(tree, x) : x \in {y \in f[i - 1] : IsDir(y.entry)}}
    BY <1>6, Zenon DEF Below
  <2> QED
    BY <1>5, <2>1 DEF LevelAll
<1>8. PICK g : g = CHOOSE h : LevelAll(h, tree, depth)
  OBVIOUS
<1>9. LevelAll(g, tree, depth)
  BY <1>7, <1>8
<1>10. Level(tree, depth) = g[depth]
  BY <1>8 DEF Level, LevelAll
<1>11. \A i \in 0 .. N : g[i] = IF i = 0 THEN {RootItself} ELSE Below(tree, g[i - 1])
  BY <1>9, Zenon DEF LevelAll, Below
<1>12. g[N] = f[N]
  <2>1. f[0] = g[0]
    BY <1>1, <1>6, <1>11
  <2>2. \A i \in 1 .. N : f[i - 1] = g[i - 1] => f[i] = g[i]
    <3> TAKE i \in 1 .. N
    <3>1. i \in 0 .. N /\ i # 0
      OBVIOUS
    <3>2. f[i] = Below(tree, f[i - 1]) /\ g[i] = Below(tree, g[i - 1])
      BY <1>6, <1>11, <3>1, Zenon
    <3> QED
      BY <3>2, Zenon
  <2>3. \A i \in 0 .. N : f[i] = g[i]
    <3>1. Alongside(N, f, g)
      BY <2>1, <2>2 DEF Alongside
    <3>2. SameUpTo(N, f, g)
      BY <3>1, LoopsAgree, Zenon
    <3> QED
      BY <3>2, Zenon DEF SameUpTo
  <2> QED
    BY <2>3
<1> QED
  BY <1>5, <1>6, <1>10, <1>12, Zenon DEF Levels

(* If no names beside each other are taken for each other.                 *)
Apart(tree) == SameStart /\ SiblingsApart(tree)

(* Every level holds places, in directories that are places, and if names  *)
(* are apart their paths lead there.                                       *)
LEMMA LevelsAre ==
  ASSUME NEW tree, WellFormed(tree), NEW depth \in Nat, NEW x \in Level(tree, depth)
  PROVE  /\ x \in Places(tree) /\ (Apart(tree) => Found(tree, x))
         /\ depth # 0 => \E y \in Places(tree) :
              IsDir(y.entry) /\ x \in InDir(tree, y) /\ (Apart(tree) => Found(tree, y))
<1>1. PICK level : /\ level \in [0 .. depth -> SUBSET Places(tree)]
                   /\ Levels(level, tree, depth) /\ Level(tree, depth) = level[depth]
  BY LevelIs
<1>2. \A n \in 0 .. depth :
        level[n] = IF n = 0 THEN {RootItself} ELSE Below(tree, level[n - 1])
  BY <1>1, Zenon DEF Levels
<1>3. \A n \in 0 .. depth : level[n] \subseteq Places(tree)
  BY <1>1
<1> DEFINE S == {n \in Nat : n <= depth => \A z \in level[n] : Apart(tree) => Found(tree, z)}
<1>4. ASSUME NEW n \in Nat, \A k \in 0 .. n - 1 : k \in S
      PROVE  n \in S
  <2> SUFFICES ASSUME n <= depth, NEW z \in level[n], Apart(tree)
               PROVE  Found(tree, z)
    OBVIOUS
  <2>1. CASE n = 0
    <3>1. z = RootItself
      BY <1>2, <2>1
    <3> QED
      BY <3>1, RootIsPlace
  <2>2. CASE n # 0
    <3>1. n \in 0 .. depth /\ n - 1 \in 0 .. n - 1 /\ n - 1 \in 0 .. depth /\ n - 1 <= depth
      BY <2>2
    <3>2. z \in Below(tree, level[n - 1])
      BY <1>2, <2>2, <3>1
    <3>3. PICK y \in level[n - 1] : IsDir(y.entry) /\ z \in InDir(tree, y)
      BY <3>2 DEF Below
    <3>4. n - 1 \in S
      <4> HIDE DEF S
      <4> QED
        BY <1>4, <3>1
    <3>5. y \in Places(tree) /\ Found(tree, y)
      BY <1>3, <3>1, <3>3, <3>4
    <3> QED
      BY <3>3, <3>5, FoundBelow DEF Apart
  <2> QED
    BY <2>1, <2>2
<1>5. Nat \subseteq S
  <2> HIDE DEF S
  <2> QED
    BY <1>4, AllNumbers
<1>6. \A n \in 0 .. depth : \A z \in level[n] : Apart(tree) => Found(tree, z)
  BY <1>5
<1>7. depth \in 0 .. depth
  OBVIOUS
<1>8. ASSUME depth # 0
      PROVE  \E y \in Places(tree) :
               IsDir(y.entry) /\ x \in InDir(tree, y) /\ (Apart(tree) => Found(tree, y))
  <2>1. depth - 1 \in 0 .. depth
    BY <1>8
  <2>2. x \in Below(tree, level[depth - 1])
    BY <1>1, <1>2, <1>7, <1>8
  <2>3. PICK y \in level[depth - 1] : IsDir(y.entry) /\ x \in InDir(tree, y)
    BY <2>2 DEF Below
  <2>4. y \in Places(tree) /\ (Apart(tree) => Found(tree, y))
    BY <1>3, <1>6, <2>1, <2>3
  <2> QED
    BY <2>3, <2>4
<1> QED
  BY <1>1, <1>3, <1>6, <1>7, <1>8

(* The entries and directories of a tree.                                  *)
LEMMA ContentsAre ==
  ASSUME NEW tree, WellFormed(tree)
  PROVE  /\ \A x \in Contents(tree) :
              /\ x \in Places(tree) /\ (Apart(tree) => Found(tree, x))
              /\ \E y \in Places(tree) :
                   IsDir(y.entry) /\ x \in InDir(tree, y) /\ (Apart(tree) => Found(tree, y))
         /\ \A x \in DirsOf(tree) :
              x \in Places(tree) /\ IsDir(x.entry) /\ (Apart(tree) => Found(tree, x))
<1>1. ASSUME NEW x \in Contents(tree)
      PROVE  /\ x \in Places(tree) /\ (Apart(tree) => Found(tree, x))
             /\ \E y \in Places(tree) :
                  IsDir(y.entry) /\ x \in InDir(tree, y) /\ (Apart(tree) => Found(tree, y))
  <2>1. PICK n \in 1 .. Depth : x \in Level(tree, n)
    BY DEF Contents
  <2>2. n \in Nat /\ n # 0
    BY PathsAssumption
  <2> QED
    BY <2>1, <2>2, LevelsAre
<1>2. ASSUME NEW x \in DirsOf(tree)
      PROVE  x \in Places(tree) /\ IsDir(x.entry) /\ (Apart(tree) => Found(tree, x))
  <2>1. IsDir(x.entry) /\ (x = RootItself \/ x \in Contents(tree))
    BY DEF DirsOf
  <2> QED
    BY <1>1, <2>1, RootIsPlace
<1> QED
  BY <1>1, <1>2

-----------------------------------------------------------------------------
(* Looking up.                                                             *)

(* If names are apart, an entry is the only one in its directory that is   *)
(* taken for its name.                                                     *)
LEMMA OnlyOne ==
  ASSUME NEW tree, WellFormed(tree), Apart(tree), NEW d \in DOMAIN tree,
         NEW i \in Listed(tree, d), NEW e, e = tree[d][i]
  PROVE  /\ i \in DOMAIN tree[d] /\ e \in Entries /\ PlainName(e.name)
         /\ Same(e.name, e.name)
         /\ \A k \in DOMAIN tree[d] \ {i} : ~Same(tree[d][k].name, e.name)
<1>1. i \in DOMAIN tree[d] /\ ~Hidden(e)
  BY DEF Listed
<1>2. e \in Entries /\ LegalName(e.name)
  BY <1>1, EntriesAre
<1>3. /\ PlainName(e.name) /\ Same(e.name, e.name)
      /\ \A h \in Entries : Hidden(h) => ~Same(h.name, e.name)
  BY <1>2, LegalNames DEF Apart
<1>4. ASSUME NEW k \in DOMAIN tree[d] \ {i} PROVE ~Same(tree[d][k].name, e.name)
  <2>1. tree[d][k] \in Entries
    BY EntriesAre
  <2>2. CASE Hidden(tree[d][k])
    BY <1>3, <2>1, <2>2
  <2>3. CASE ~Hidden(tree[d][k])
    <3>1. k \in Listed(tree, d) /\ k # i
      BY <2>3 DEF Listed
    <3> QED
      BY <3>1 DEF Apart, SiblingsApart
  <2> QED
    BY <2>2, <2>3
<1> QED
  BY <1>1, <1>2, <1>3, <1>4

(* It is the one that is found under it.                                   *)
LEMMA EntryFound ==
  ASSUME NEW tree, WellFormed(tree), NEW d \in DOMAIN tree,
         NEW p \in DOMAIN tree[d], NEW name, PlainName(name),
         Same(tree[d][p].name, name),
         \A k \in DOMAIN tree[d] \ {p} : ~Same(tree[d][k].name, name)
  PROVE  findEntryInCurrentDir(tree, d, name) = tree[d][p]
<1>1. LastPart(name) = name /\ name # <<>>
  <2>1. PICK whole : whole = <<>> \o (<<Slash>> \o name)
    OBVIOUS
  <2>2. PICK empty \in Seq(Characters) : empty = <<>>
    BY EmptySeq
  <2>3. LastPart(name) = name
    BY <2>1, <2>2, SplitAgain
  <2> QED
    BY <2>3 DEF PlainName
<1>2. DOMAIN tree[d] \subseteq Nat
  <2>1. DOMAIN tree[d] = 1 .. Len(tree[d]) /\ Len(tree[d]) \in Nat
    BY EntriesAre
  <2> QED
    BY <2>1
<1>3. PICK found : found = {i \in DOMAIN tree[d] : Same(tree[d][i].name, LastPart(name))}
  OBVIOUS
<1>4. found = {p} /\ found \subseteq Nat
  BY <1>1, <1>2, <1>3
<1>5. PICK first : first = CHOOSE i \in found : \A k \in found : i <= k
  OBVIOUS
<1>6. first = p
  BY <1>4, <1>5, LeastIs
<1>7. LastPart(name) # <<>>
  BY <1>1
<1>8. PICK entry : entry = IF found = {} THEN NoEntry ELSE tree[d][first]
  OBVIOUS
<1>9. findEntryInCurrentDir(tree, d, name) = entry
  BY <1>3, <1>5, <1>7, <1>8, SMT DEF findEntryInCurrentDir, First, getCurrentEntries
<1> QED
  BY <1>4, <1>6, <1>8, <1>9

(* The loop of read_, as the function it defines and entry by entry.       *)
ReadAll(out, tree, at, name) ==
  out = [i \in 0 .. Len(tree[at]) |->
           IF i = 0 THEN <<>>
           ELSE IF Same(tree[at][i].name, name) THEN Append(out[i - 1], tree[at][i])
                                                ELSE out[i - 1]]

(* And its contents are all that is read under it.                         *)
LEMMA ReadFound ==
  ASSUME NEW tree, WellFormed(tree), NEW d \in DOMAIN tree,
         NEW i \in DOMAIN tree[d], NEW name, Same(tree[d][i].name, name),
         \A k \in DOMAIN tree[d] \ {i} : ~Same(tree[d][k].name, name)
  PROVE  read_(tree, d, name) = <<tree[d][i]>>
<1>1. PICK entries, n : /\ entries = tree[d] /\ n = Len(entries) /\ n \in Nat
                        /\ entries \in Seq(Entries) /\ DOMAIN entries = 1 .. n
  BY EntriesAre
<1>2. PICK e : e = entries[i]
  OBVIOUS
<1>3. i \in 1 .. n
  BY <1>1
<1> DEFINE f == [k \in 0 .. n |-> IF k < i THEN <<>> ELSE <<e>>]
<1>4. \A k \in 0 .. n : f[k] = IF k = 0 THEN <<>>
                               ELSE IF Same(entries[k].name, name)
                                      THEN Append(f[k - 1], entries[k]) ELSE f[k - 1]
  <2> TAKE k \in 0 .. n
  <2>1. CASE k = 0
    BY <1>3, <2>1
  <2>2. CASE k # 0 /\ k # i
    <3>1. k \in DOMAIN entries /\ k - 1 \in 0 .. n /\ (k < i <=> k - 1 < i)
      BY <1>1, <1>3, <2>2
    <3>2. ~Same(entries[k].name, name)
      BY <1>1, <2>2, <3>1
    <3>3. f[k] = f[k - 1]
      BY <3>1
    <3> QED
      BY <2>2, <3>2, <3>3
  <2>3. CASE k = i
    <3>1. k - 1 \in 0 .. n /\ k - 1 < i /\ ~(k < i) /\ k # 0
      BY <1>1, <1>3, <2>3
    <3>2. f[k - 1] = <<>> /\ f[k] = <<e>>
      BY <3>1
    <3>3. Same(entries[k].name, name) /\ entries[k] = e
      BY <1>1, <1>2, <2>3
    <3>4. Append(<<>>, e) = <<e>>
      OBVIOUS
    <3> QED
      BY <3>1, <3>2, <3>3, <3>4
  <2> QED
    BY <2>1, <2>2, <2>3
<1>5. ReadAll(f, tree, d, name)
  BY <1>1, <1>4 DEF ReadAll
<1>6. PICK g : g = CHOOSE h : ReadAll(h, tree, d, name)
  OBVIOUS
<1>7. ReadAll(g, tree, d, name)
  BY <1>5, <1>6
<1>8. read_(tree, d, name) = g[Len(tree[d])]
  BY <1>6 DEF read_, ReadAll
<1>9. \A k \in 0 .. n : g[k] = IF k = 0 THEN <<>>
                               ELSE IF Same(entries[k].name, name)
                                      THEN Append(g[k - 1], entries[k]) ELSE g[k - 1]
  BY <1>1, <1>7, Zenon DEF ReadAll
<1>10. f[n] = <<e>>
  <2>1. n \in 0 .. n /\ ~(n < i)
    BY <1>1, <1>3
  <2> QED
    BY <2>1
<1> HIDE DEF f
<1>11. f[0] = g[0]
  BY <1>1, <1>4, <1>9
<1>12. \A k \in 1 .. n : f[k - 1] = g[k - 1] => f[k] = g[k]
  <2> TAKE k \in 1 .. n
  <2>1. k \in 0 .. n /\ k # 0
    BY <1>1
  <2> QED
    BY <1>4, <1>9, <2>1, ZenonT(30)
<1>13. n \in Nat /\ n \in 0 .. n
  BY <1>1
<1>14. \A k \in 0 .. n : f[k] = g[k]
  <2>1. Alongside(n, f, g)
    BY <1>11, <1>12, <1>13 DEF Alongside
  <2>2. SameUpTo(n, f, g)
    BY <2>1, LoopsAgree, Zenon
  <2> QED
    BY <2>2, Zenon DEF SameUpTo
<1> QED
  BY <1>1, <1>2, <1>8, <1>10, <1>13, <1>14, Zenon

(* The context of a path, and the name looked for in it.                   *)
LEMMA ContextIs ==
  ASSUME NEW tree, NEW names \in Seq(Seq(Characters)),
         \A i \in 1 .. Len(names) : PlainName(names[i]),
         NEW name, PlainName(name), NEW path, path = Spelled(Append(names, name))
  PROVE  /\ changeDirAbsolute_(tree, getParentPath(path)) = WalkNames(tree, names)
         /\ stringParseFilename(path) = name
<1>1. name \in Seq(Characters)
  BY DEF PlainName
<1>2. /\ Spelled(names) \in Seq(Characters)
      /\ Components(Spelled(names)) = names /\ Components(<<Slash>>) = <<>>
  BY PathsReadBack
<1>3. path = Spelled(names) \o (<<Slash>> \o name)
  BY <1>1, SpelledAppend
<1>4. /\ getParentPath(path) = IF Spelled(names) = <<>> THEN <<Slash>> ELSE Spelled(names)
      /\ stringParseFilename(path) = name
  BY <1>2, <1>3, SplitAgain
<1>5. Components(getParentPath(path)) = names
  <2>1. CASE Spelled(names) = <<>>
    <3>1. PICK empty \in Seq(Seq(Characters)) : empty = <<>>
      BY EmptySeq
    <3>2. \A i \in 1 .. Len(empty) : PlainName(empty[i])
      BY <3>1
    <3>3. Components(Spelled(empty)) = empty
      BY <3>2, PathsReadBack
    <3>4. Spelled(empty) = <<>>
      BY <1>1, <3>1, SpelledAppend
    <3>5. names = <<>>
      BY <1>2, <2>1, <3>1, <3>3, <3>4
    <3> QED
      BY <1>2, <1>4, <2>1, <3>5
  <2>2. CASE Spelled(names) # <<>>
    BY <1>2, <1>4, <2>2
  <2> QED
    BY <2>1, <2>2
<1> QED
  BY <1>4, <1>5 DEF changeDirAbsolute_

(* What FUSE's callbacks find.                                             *)
LEMMA PathFound ==
  ASSUME NEW tree, WellFormed(tree), Apart(tree), NEW x \in Contents(tree),
         NEW path, path = Spelled(x.path)
  PROVE  /\ Lookup(tree, path) = x.entry
         /\ IF IsDir(x.entry) THEN readdirCallback(tree, path) = tree[x.entry.at]
                              ELSE readCallback(tree, path) = <<x.entry>>
<1>1. x \in Places(tree) /\ Found(tree, x)
  BY ContentsAre
<1>2. PICK y \in Places(tree) : IsDir(y.entry) /\ x \in InDir(tree, y) /\ Found(tree, y)
  BY ContentsAre
<1>3. PICK d : d = y.entry.at
  OBVIOUS
<1>4. /\ d \in DOMAIN tree /\ WalkNames(tree, y.path).at = d
      /\ y.path \in Seq(Seq(Characters))
      /\ \A i \in 1 .. Len(y.path) : PlainName(y.path[i])
  BY <1>2, <1>3, Deeper DEF Found, Places
<1>5. PICK i \in Listed(tree, d) :
        x = [path |-> Append(y.path, tree[d][i].name), entry |-> tree[d][i]]
  BY <1>2, <1>3 DEF InDir
<1>6. PICK e : e = tree[d][i]
  OBVIOUS
<1>7. path = Spelled(Append(y.path, e.name)) /\ x.entry = e
  BY <1>5, <1>6
<1>8. /\ i \in DOMAIN tree[d] /\ PlainName(e.name) /\ Same(tree[d][i].name, e.name)
      /\ \A k \in DOMAIN tree[d] \ {i} : ~Same(tree[d][k].name, e.name)
  BY <1>4, <1>6, OnlyOne
<1>9. /\ changeDirAbsolute_(tree, getParentPath(path)) = WalkNames(tree, y.path)
      /\ stringParseFilename(path) = e.name
  BY <1>4, <1>7, <1>8, ContextIs
<1>10. set_context_by_path(tree, path) = d
  BY <1>4, <1>9 DEF set_context_by_path
<1>11. Lookup(tree, path) = e
  BY <1>4, <1>6, <1>8, <1>9, <1>10, EntryFound DEF Lookup
<1>12. readCallback(tree, path) = <<e>>
  BY <1>4, <1>6, <1>8, <1>10, <1>11, ReadFound DEF readCallback
<1>13. ASSUME IsDir(x.entry) PROVE readdirCallback(tree, path) = tree[x.entry.at]
  <2>1. x.path \in Seq(Seq(Characters)) /\ \A k \in 1 .. Len(x.path) : PlainName(x.path[k])
    BY <1>1 DEF Places
  <2>2. Components(path) = x.path
    BY <2>1, PathsReadBack
  <2>3. WalkNames(tree, x.path).at = x.entry.at
    BY <1>1, <1>13 DEF Found
  <2> QED
    BY <2>2, <2>3 DEF readdirCallback, changeDirAbsolute_, getCurrentEntries
<1> QED
  BY <1>7, <1>11, <1>12, <1>13

(* What cd and exec find.                                                  *)
LEMMA DirectoryFound ==
  ASSUME NEW tree, WellFormed(tree), Apart(tree), NEW d \in DirsOf(tree)
  PROVE  /\ \A path \in {Spelled(d.path), Spelled(d.path) \o <<Slash>>,
                         <<Slash>> \o Spelled(d.path)} :
              changeDirAbsolute_(tree, path).at = d.entry.at
         /\ \A i \in DOMAIN tree[d.entry.at] :
              LET e == tree[d.entry.at][i]
              IN  e.kind = "file" => execCommand(tree, d.entry.at, e.name) = <<e>>
<1>1. d \in Places(tree) /\ IsDir(d.entry) /\ Found(tree, d)
  BY ContentsAre
<1>2. /\ d.path \in Seq(Seq(Characters)) /\ d.entry.at \in DOMAIN tree
      /\ \A k \in 1 .. Len(d.path) : PlainName(d.path[k])
      /\ WalkNames(tree, d.path).at = d.entry.at
  BY <1>1 DEF Places, Found
<1>3. ASSUME NEW path \in {Spelled(d.path), Spelled(d.path) \o <<Slash>>,
                           <<Slash>> \o Spelled(d.path)}
      PROVE  changeDirAbsolute_(tree, path).at = d.entry.at
  <2>1. Components(path) = d.path
    BY <1>2, PathsReadBack
  <2> QED
    BY <1>2, <2>1 DEF changeDirAbsolute_
<1>4. ASSUME NEW at, at = d.entry.at, NEW i \in DOMAIN tree[at], NEW e, e = tree[at][i],
             e.kind = "file"
      PROVE  execCommand(tree, at, e.name) = <<e>>
  <2>1. ~IsDir(e) /\ at \in DOMAIN tree
    BY <1>2, <1>4 DEF IsDir
  <2>2. ~Hidden(e)
    BY <1>4, <2>1, EntriesAre
  <2>3. i \in Listed(tree, at)
    BY <1>4, <2>2 DEF Listed
  <2>4. /\ PlainName(e.name) /\ Same(tree[at][i].name, e.name)
        /\ \A k \in DOMAIN tree[at] \ {i} : ~Same(tree[at][k].name, e.name)
    BY <1>4, <2>1, <2>3, OnlyOne
  <2>5. findEntryInCurrentDir(tree, at, e.name) = e
    BY <1>4, <2>1, <2>4, EntryFound
  <2>6. read_(tree, at, e.name) = <<e>>
    BY <1>4, <2>1, <2>4, ReadFound
  <2> QED
    BY <1>4, <2>5, <2>6 DEF execCommand
<1> QED
  BY <1>2, <1>3, <1>4

-----------------------------------------------------------------------------
(* Trees stay well-formed.                                                 *)

(* Entries a tree with some directories may have.                          *)
Good(dirs) ==
  {e \in Entries : /\ IsDir(e) => e.at \in dirs
                   /\ Hidden(e) => IsDir(e)
                   /\ ~Hidden(e) => LegalName(e.name)}

(* A tree is well-formed if all its entries are good.                      *)
LEMMA TreesAre ==
  ASSUME NEW tree
  PROVE  WellFormed(tree) <=>
           /\ Root \in DOMAIN tree /\ Nowhere \in DOMAIN tree
           /\ \A d \in DOMAIN tree : tree[d] \in Seq(Good(DOMAIN tree))
<1>1. ASSUME WellFormed(tree), NEW d \in DOMAIN tree
      PROVE  tree[d] \in Seq(Good(DOMAIN tree))
  <2>1. /\ tree[d] \in Seq(Entries)
        /\ \A i \in 1 .. Len(tree[d]) : tree[d][i] \in Good(DOMAIN tree)
    BY <1>1, EntriesAre DEF Good
  <2> QED
    BY <2>1
<1>2. ASSUME Root \in DOMAIN tree, Nowhere \in DOMAIN tree,
             \A d \in DOMAIN tree : tree[d] \in Seq(Good(DOMAIN tree))
      PROVE  WellFormed(tree)
  <2>1. ASSUME NEW d \in DOMAIN tree
        PROVE  tree[d] \in Seq(Entries) /\ \A i \in DOMAIN tree[d] : tree[d][i] \in Good(DOMAIN tree)
    <3>1. tree[d] \in Seq(Good(DOMAIN tree))
      BY <1>2
    <3>2. Good(DOMAIN tree) \subseteq Entries
      BY DEF Good
    <3>3. DOMAIN tree[d] = 1 .. Len(tree[d])
      BY <3>1
    <3>4. \A i \in DOMAIN tree[d] : tree[d][i] \in Good(DOMAIN tree)
      BY <3>1, <3>3, ElementOfSeq
    <3> HIDE DEF Good
    <3> QED
      BY <3>1, <3>2, <3>4
  <2>2. \A d \in DOMAIN tree :
          tree[d] \in Seq([name : Seq(Characters), kind : {"dir", "file"}, at : Int])
    BY <2>1, Zenon DEF Entries
  <2>3. \A d \in DOMAIN tree : \A i \in DOMAIN tree[d] :
          /\ IsDir(tree[d][i]) => tree[d][i].at \in DOMAIN tree
          /\ IF Hidden(tree[d][i]) THEN IsDir(tree[d][i]) ELSE LegalName(tree[d][i].name)
    BY <2>1 DEF Good
  <2> QED
    BY <1>2, <2>2, <2>3, Zenon DEF WellFormed
<1>3. WellFormed(tree) => Root \in DOMAIN tree /\ Nowhere \in DOMAIN tree
  BY EntriesAre
<1> QED
  BY <1>1, <1>2, <1>3

(* Slots of a tree.                                                        *)
Spots(tree) == {p \in [dir : DOMAIN tree, slot : Nat] : p.slot \in DOMAIN tree[p.dir]}

(* One round of the loop of SlotsBelow, and the function it defines.       *)
OneDeeper(tree, below) ==
  [d \in DOMAIN tree |-> FlattenSeq([i \in DOMAIN tree[d] |->
     (IF IsDir(tree[d][i]) /\ ~Hidden(tree[d][i])
        THEN below[tree[d][i].at] ELSE <<>>)
     \o <<[dir |-> d, slot |-> i]>>])]

BelowAll(below, tree) ==
  below = [depth \in 0 .. Depth |->
             IF depth = 0 THEN [d \in DOMAIN tree |-> <<>>]
             ELSE [d \in DOMAIN tree |-> FlattenSeq([i \in DOMAIN tree[d] |->
                    (IF IsDir(tree[d][i]) /\ ~Hidden(tree[d][i])
                       THEN below[depth - 1][tree[d][i].at] ELSE <<>>)
                    \o <<[dir |-> d, slot |-> i]>>])]]

(* A round collects slots of the tree.                                     *)
LEMMA RoundCollects ==
  ASSUME NEW tree, WellFormed(tree), NEW below \in [DOMAIN tree -> Seq(Spots(tree))]
  PROVE  OneDeeper(tree, below) \in [DOMAIN tree -> Seq(Spots(tree))]
<1>1. ASSUME NEW d \in DOMAIN tree
      PROVE  FlattenSeq([i \in DOMAIN tree[d] |->
               (IF IsDir(tree[d][i]) /\ ~Hidden(tree[d][i])
                  THEN below[tree[d][i].at] ELSE <<>>)
               \o <<[dir |-> d, slot |-> i]>>]) \in Seq(Spots(tree))
  <2>1. PICK n \in Nat : n = Len(tree[d]) /\ DOMAIN tree[d] = 1 .. n
    BY EntriesAre
  <2>2. ASSUME NEW i \in 1 .. n
        PROVE  (IF IsDir(tree[d][i]) /\ ~Hidden(tree[d][i])
                  THEN below[tree[d][i].at] ELSE <<>>)
               \o <<[dir |-> d, slot |-> i]>> \in Seq(Spots(tree))
    <3>1. PICK s : s = IF IsDir(tree[d][i]) /\ ~Hidden(tree[d][i])
                         THEN below[tree[d][i].at] ELSE <<>>
      OBVIOUS
    <3>2. i \in DOMAIN tree[d]
      BY <2>1
    <3>3. IsDir(tree[d][i]) => tree[d][i].at \in DOMAIN tree
      BY <3>2, EntriesAre
    <3>4. s \in Seq(Spots(tree))
      <4>1. <<>> \in Seq(Spots(tree))
        BY EmptySeq
      <4> QED
        BY <3>1, <3>3, <4>1
    <3>5. PICK p : p = [dir |-> d, slot |-> i]
      OBVIOUS
    <3>6. p \in Spots(tree)
      BY <3>2, <3>5 DEF Spots
    <3>7. <<p>> \in Seq(Spots(tree))
      BY <3>6
    <3>8. s \o <<p>> \in Seq(Spots(tree))
      BY <3>4, <3>7, ConcatProperties
    <3> QED
      BY <3>1, <3>5, <3>8
  <2> DEFINE seqs == [i \in 1 .. n |->
               (IF IsDir(tree[d][i]) /\ ~Hidden(tree[d][i])
                  THEN below[tree[d][i].at] ELSE <<>>)
               \o <<[dir |-> d, slot |-> i]>>]
  <2>3. seqs \in [1 .. n -> Seq(Spots(tree))]
    BY <2>2
  <2>4. \A i \in 1 .. n : seqs[i] \in Seq(Spots(tree))
    BY <2>2
  <2> HIDE DEF seqs
  <2>5. seqs \in Seq(Seq(Spots(tree)))
    BY <2>3
  <2>6. FlattenSeq(seqs) \in Seq(Spots(tree))
    BY <2>5, EmptySeq, FlattenAppend
  <2> QED
    BY <2>1, <2>6 DEF seqs
<1> QED
  BY <1>1, Zenon DEF OneDeeper

(* The loop of SlotsBelow collects slots of the tree.                      *)
LEMMA BelowIs ==
  ASSUME NEW tree, WellFormed(tree)
  PROVE  \E f \in [0 .. Depth -> [DOMAIN tree -> Seq(Spots(tree))]] :
           /\ f[0] = [d \in DOMAIN tree |-> <<>>]
           /\ \A i \in 1 .. Depth : f[i] = OneDeeper(tree, f[i - 1])
           /\ \A at : SlotsBelow(tree, at) = f[Depth][at]
<1> DEFINE N == Depth
           D == DOMAIN tree
           Q == [D -> Seq(Spots(tree))]
           none == [d \in D |-> <<>>]
           step == [i \in 1 .. N |-> [q \in Q |-> OneDeeper(tree, q)]]
           from == [i \in 1 .. N |-> i - 1]
<1>1. N \in Nat
  BY PathsAssumption
<1>2. none \in Q
  BY EmptySeq
<1>3. step \in [1 .. N -> [Q -> Q]]
  <2>1. \A q \in Q : OneDeeper(tree, q) \in Q
    BY RoundCollects
  <2> HIDE DEF Q
  <2> QED
    BY <2>1
<1>4. from \in [1 .. N -> Nat] /\ \A i \in 1 .. N : from[i] < i
  BY <1>1
<1>5. PICK f : f \in [0 .. N -> Q] /\ Rounds(f, N, none, from, step)
  <2> HIDE DEF N, Q, D, none, step, from
  <2> QED
    BY <1>1, <1>2, <1>3, <1>4, LoopsEnd
<1>6. \A i \in 0 .. N : f[i] = IF i = 0 THEN none ELSE OneDeeper(tree, f[i - 1])
  <2> TAKE i \in 0 .. N
  <2>1. CASE i = 0
    BY <1>5, <2>1 DEF Rounds
  <2>2. CASE i # 0
    <3>1. i \in 1 .. N /\ i - 1 \in 0 .. N
      BY <1>1, <2>2
    <3>2. f[i - 1] \in Q /\ from[i] = i - 1
      BY <1>5, <3>1
    <3>3. f[i] = step[i][f[i - 1]]
      <4> HIDE DEF from, step, N, Q, none
      <4> QED
        BY <1>5, <3>1, <3>2 DEF Rounds
    <3> HIDE DEF from, Q, none
    <3> QED
      BY <2>2, <3>1, <3>2, <3>3
  <2> QED
    BY <2>1, <2>2
<1>7. BelowAll(f, tree)
  <2>1. \A i \in 0 .. N :
          f[i] = IF i = 0 THEN [d \in DOMAIN tree |-> <<>>]
           ELSE [d \in DOMAIN tree |-> FlattenSeq([j \in DOMAIN tree[d] |->
                  (IF IsDir(tree[d][j]) /\ ~Hidden(tree[d][j])
                     THEN f[i - 1][tree[d][j].at] ELSE <<>>)
                  \o <<[dir |-> d, slot |-> j]>>])]
    BY <1>6, Zenon DEF OneDeeper
  <2> QED
    BY <1>5, <2>1 DEF BelowAll
<1>8. PICK g : g = CHOOSE h : BelowAll(h, tree)
  OBVIOUS
<1>9. BelowAll(g, tree)
  BY <1>7, <1>8
<1>10. \A at : SlotsBelow(tree, at) = g[Depth][at]
  BY <1>8 DEF SlotsBelow, BelowAll
<1>11. \A i \in 0 .. N : g[i] = IF i = 0 THEN none ELSE OneDeeper(tree, g[i - 1])
  BY <1>9, Zenon DEF BelowAll, OneDeeper
<1>12. g[N] = f[N]
  <2>1. f[0] = g[0]
    <3>1. 0 \in 0 .. N
      BY <1>1
    <3> QED
      BY <1>6, <1>11, <3>1, Zenon
  <2>2. \A i \in 1 .. N : f[i - 1] = g[i - 1] => f[i] = g[i]
    <3> TAKE i \in 1 .. N
    <3>1. i \in 0 .. N /\ i # 0
      BY <1>1
    <3>2. f[i] = OneDeeper(tree, f[i - 1]) /\ g[i] = OneDeeper(tree, g[i - 1])
      BY <1>6, <1>11, <3>1, Zenon
    <3> QED
      BY <3>2, Zenon
  <2> HIDE DEF N
  <2>3. \A i \in 0 .. N : f[i] = g[i]
    <3>1. Alongside(N, f, g)
      BY <1>1, <2>1, <2>2 DEF Alongside
    <3>2. SameUpTo(N, f, g)
      BY <3>1, LoopsAgree, Zenon
    <3> QED
      BY <3>2, Zenon DEF SameUpTo
  <2> QED
    BY <1>1, <2>3
<1>13. \A at : SlotsBelow(tree, at) = f[Depth][at]
  BY <1>10, <1>12
<1>14. f[0] = none /\ \A i \in 1 .. Depth : f[i] = OneDeeper(tree, f[i - 1])
  <2>1. \A i \in 1 .. N : i \in 0 .. N /\ i # 0
    BY <1>1
  <2>2. 0 \in 0 .. N
    BY <1>1
  <2> QED
    BY <1>6, <2>1, <2>2, Zenon
<1> QED
  BY <1>5, <1>13, <1>14, Zenon

(* What is searched are slots of the tree.                                 *)
LEMMA SearchedIs ==
  ASSUME NEW tree, WellFormed(tree), NEW at \in DOMAIN tree
  PROVE  Searched(tree, at) \in Seq(Spots(tree))
<1>1. SlotsBelow(tree, at) \in Seq(Spots(tree))
  <2>1. PICK f \in [0 .. Depth -> [DOMAIN tree -> Seq(Spots(tree))]] :
          SlotsBelow(tree, at) = f[Depth][at]
    BY BelowIs, Zenon
  <2>2. f[Depth] \in [DOMAIN tree -> Seq(Spots(tree))]
    BY PathsAssumption
  <2> QED
    BY <2>1, <2>2
<1>2. [i \in DOMAIN tree[at] |-> [dir |-> at, slot |-> i]] \in Seq(Spots(tree))
  <2>1. PICK n \in Nat : n = Len(tree[at]) /\ DOMAIN tree[at] = 1 .. n
    BY EntriesAre
  <2>2. \A i \in 1 .. n : [dir |-> at, slot |-> i] \in Spots(tree)
    BY <2>1 DEF Spots
  <2> QED
    BY <2>1, <2>2
<1> QED
  BY <1>1, <1>2 DEF Searched

(* What is left when an entry is removed.                                  *)
LEMMA RemoveAtKeeps ==
  ASSUME NEW S, NEW s \in Seq(S), NEW i \in 1 .. Len(s)
  PROVE  RemoveAt(s, i) \in Seq(S)
<1>1. PICK n \in Nat : n = Len(s) /\ \A k \in 1 .. n : s[k] \in S
  BY ElementOfSeq
<1>2. PICK a \in Int, b \in Int : a = i - 1 /\ b = i + 1
  BY <1>1
<1>3. (\A k \in 1 .. a : s[k] \in S) /\ (\A k \in b .. n : s[k] \in S)
  BY <1>1, <1>2
<1>4. SubSeq(s, 1, a) \in Seq(S)
  BY <1>3, SubSeqProperties
<1>5. SubSeq(s, b, n) \in Seq(S)
  BY <1>3, SubSeqProperties
<1>6. SubSeq(s, 1, a) \o SubSeq(s, b, n) \in Seq(S)
  BY <1>4, <1>5, ConcatProperties
<1> QED
  BY <1>1, <1>2, <1>6 DEF RemoveAt

(* Another sequence of good entries in one of the directories.             *)
LEMMA Changed ==
  ASSUME NEW tree, WellFormed(tree), NEW d \in DOMAIN tree,
         NEW s \in Seq(Good(DOMAIN tree)), NEW rest, rest = [tree EXCEPT ![d] = s]
  PROVE  /\ WellFormed(rest) /\ DOMAIN rest = DOMAIN tree
         /\ rest \in [DOMAIN tree -> Seq(Good(DOMAIN tree))]
<1>1. /\ Root \in DOMAIN tree /\ Nowhere \in DOMAIN tree
      /\ \A x \in DOMAIN tree : tree[x] \in Seq(Good(DOMAIN tree))
  BY TreesAre
<1>2. DOMAIN rest = DOMAIN tree /\ \A x \in DOMAIN tree : rest[x] = IF x = d THEN s ELSE tree[x]
  OBVIOUS
<1>3. rest \in [DOMAIN tree -> Seq(Good(DOMAIN tree))]
  BY <1>1
<1>4. \A x \in DOMAIN rest : rest[x] \in Seq(Good(DOMAIN rest))
  BY <1>1, <1>2
<1> QED
  BY <1>1, <1>2, <1>3, <1>4, TreesAre

(* The trees delete_ and create_ may leave.                                *)
After(tree) == {tree} \cup [DOMAIN tree -> Seq(Good(DOMAIN tree))]

(* They are well-formed, and have the same directories.                    *)
LEMMA AfterAre ==
  ASSUME NEW tree, WellFormed(tree), NEW rest \in After(tree)
  PROVE  /\ WellFormed(rest) /\ DOMAIN rest = DOMAIN tree
         /\ After(rest) \subseteq After(tree)
<1>1. Root \in DOMAIN tree /\ Nowhere \in DOMAIN tree
  BY TreesAre
<1>2. CASE rest = tree
  BY <1>2
<1>3. CASE rest # tree
  <2>1. rest \in [DOMAIN tree -> Seq(Good(DOMAIN tree))]
    BY <1>3 DEF After
  <2>2. DOMAIN rest = DOMAIN tree /\ \A d \in DOMAIN rest : rest[d] \in Seq(Good(DOMAIN rest))
    BY <2>1
  <2>3. WellFormed(rest)
    BY <1>1, <2>2, TreesAre
  <2> QED
    BY <2>1, <2>2, <2>3 DEF After
<1> QED
  BY <1>2, <1>3

(* delete_ leaves such a tree.                                             *)
LEMMA DeleteLeaves ==
  ASSUME NEW tree, WellFormed(tree), NEW at \in DOMAIN tree, NEW name
  PROVE  delete_(tree, at, name) \in After(tree)
<1>1. PICK places : places = Searched(tree, at)
  OBVIOUS
<1>2. places \in Seq(Spots(tree))
  BY <1>1, SearchedIs
<1>3. PICK hits : hits = {n \in DOMAIN places : LET e == EntryAt(tree, places[n])
                                               IN  ~Hidden(e) /\ Same(e.name, name)}
  OBVIOUS
<1>4. PICK hit : hit = places[CHOOSE n \in hits : \A k \in hits : n <= k]
  OBVIOUS
<1>5. delete_(tree, at, name) =
        IF hits = {} THEN tree ELSE [tree EXCEPT ![hit.dir] = RemoveAt(@, hit.slot)]
  BY <1>1, <1>3, <1>4 DEF delete_
<1>6. ASSUME hits # {}
      PROVE  [tree EXCEPT ![hit.dir] = RemoveAt(@, hit.slot)] \in After(tree)
  <2>1. hits \subseteq DOMAIN places /\ DOMAIN places = 1 .. Len(places) /\ hits \subseteq Nat
    BY <1>2, <1>3
  <2>2. (CHOOSE n \in hits : \A k \in hits : n <= k) \in DOMAIN places
    BY <1>6, <2>1, LeastIs
  <2>3. hit \in Spots(tree)
    BY <1>2, <1>4, <2>1, <2>2, ElementOfSeq
  <2>4. PICK d, i : d \in DOMAIN tree /\ d = hit.dir /\ i = hit.slot /\ i \in DOMAIN tree[d]
    BY <2>3 DEF Spots
  <2>5. tree[d] \in Seq(Good(DOMAIN tree)) /\ i \in 1 .. Len(tree[d])
    BY <2>4, TreesAre, EntriesAre
  <2>6. RemoveAt(tree[d], i) \in Seq(Good(DOMAIN tree))
    BY <2>5, RemoveAtKeeps
  <2>7. [tree EXCEPT ![d] = RemoveAt(tree[d], i)] \in After(tree)
    BY <2>4, <2>6, Changed DEF After
  <2> QED
    BY <2>4, <2>7
<1> QED
  BY <1>5, <1>6 DEF After

(* So does create_, for a legal name.                                      *)
LEMMA CreateLeaves ==
  ASSUME NEW tree, WellFormed(tree), NEW at \in DOMAIN tree, NEW name, LegalName(name)
  PROVE  create_(tree, at, name) \in After(tree)
<1>1. PICK rest : rest = delete_(tree, at, name)
  OBVIOUS
<1>2. rest \in After(tree) /\ WellFormed(rest) /\ DOMAIN rest = DOMAIN tree
      /\ After(rest) \subseteq After(tree)
  BY <1>1, DeleteLeaves, AfterAre
<1>3. PICK e : e = [name |-> name, kind |-> "file", at |-> Nowhere]
  OBVIOUS
<1>4. e \in Good(DOMAIN rest)
  <2>1. name \in Seq(Characters) /\ name[1] # "."
    BY DEF LegalName
  <2>2. e \in Entries /\ ~IsDir(e)
    BY <1>3, <2>1 DEF Entries, IsDir, Nowhere
  <2>3. ~Hidden(e)
    BY <1>3, <2>1 DEF Hidden
  <2>4. LegalName(e.name)
    BY <1>3
  <2> QED
    BY <2>2, <2>3, <2>4 DEF Good
<1>5. rest[at] \in Seq(Good(DOMAIN rest)) /\ at \in DOMAIN rest
  BY <1>2, TreesAre
<1>6. Append(rest[at], e) \in Seq(Good(DOMAIN rest))
  BY <1>4, <1>5, AppendProperties
<1>7. [rest EXCEPT ![at] = Append(rest[at], e)] \in After(rest)
  BY <1>2, <1>5, <1>6, Changed DEF After
<1>8. create_(tree, at, name) =
        IF Len(rest[at]) = MaxEntries THEN rest ELSE [rest EXCEPT ![at] = Append(rest[at], e)]
  BY <1>1, <1>3 DEF create_
<1> QED
  BY <1>2, <1>7, <1>8

(* The loop of rmCurrentDir_, as the function it defines.                  *)
EmptiedAll(left, tree, at) ==
  left = [i \in 0 .. Len(tree[at]) |->
            IF i = 0 THEN tree
            ELSE IF Hidden(tree[at][i]) THEN left[i - 1]
            ELSE delete_(left[i - 1], at, tree[at][i].name)]

(* It does not leave a set of trees that delete_ does not leave.           *)
LEMMA EmptiedStays ==
  ASSUME NEW tree, WellFormed(tree), NEW at \in DOMAIN tree, NEW Q, tree \in Q,
         \A q \in Q : \A name : delete_(q, at, name) \in Q
  PROVE  Emptied(tree, at) \in Q
<1> DEFINE N == Len(tree[at])
           Left(q, i) == IF Hidden(tree[at][i]) THEN q ELSE delete_(q, at, tree[at][i].name)
           step == [i \in 1 .. N |-> [q \in Q |-> Left(q, i)]]
           from == [i \in 1 .. N |-> i - 1]
<1>1. N \in Nat
  BY EntriesAre
<1>2. \A q \in Q : \A i \in 1 .. N : Left(q, i) \in Q
  OBVIOUS
<1>3. step \in [1 .. N -> [Q -> Q]]
  <2> HIDE DEF N, Left
  <2> QED
    BY <1>2
<1>4. from \in [1 .. N -> Nat] /\ \A i \in 1 .. N : from[i] < i
  BY <1>1
<1>5. PICK f : f \in [0 .. N -> Q] /\ Rounds(f, N, tree, from, step)
  <2> HIDE DEF N, step, from
  <2> QED
    BY <1>1, <1>3, <1>4, LoopsEnd
<1>6. \A i \in 0 .. N : f[i] = IF i = 0 THEN tree ELSE Left(f[i - 1], i)
  <2> TAKE i \in 0 .. N
  <2>1. CASE i = 0
    BY <1>5, <2>1 DEF Rounds
  <2>2. CASE i # 0
    <3>1. i \in 1 .. N /\ i - 1 \in 0 .. N
      BY <1>1, <2>2
    <3>2. f[i - 1] \in Q /\ from[i] = i - 1
      BY <1>5, <3>1
    <3>3. f[i] = step[i][f[i - 1]]
      <4> HIDE DEF from, step, N, Left
      <4> QED
        BY <1>5, <3>1, <3>2 DEF Rounds
    <3> HIDE DEF from, Left
    <3> QED
      BY <2>2, <3>1, <3>2, <3>3
  <2> QED
    BY <2>1, <2>2
<1>7. EmptiedAll(f, tree, at)
  <2>1. \A i \in 0 .. N :
          f[i] = IF i = 0 THEN tree
                 ELSE IF Hidden(tree[at][i]) THEN f[i - 1]
                 ELSE delete_(f[i - 1], at, tree[at][i].name)
    BY <1>6, Zenon
  <2> QED
    BY <1>5, <2>1 DEF EmptiedAll
<1>8. PICK g : g = CHOOSE h : EmptiedAll(h, tree, at)
  OBVIOUS
<1>9. EmptiedAll(g, tree, at)
  BY <1>7, <1>8
<1>10. Emptied(tree, at) = g[N]
  BY <1>8 DEF Emptied, EmptiedAll
<1>11. \A i \in 0 .. N : g[i] = IF i = 0 THEN tree ELSE Left(g[i - 1], i)
  BY <1>9, Zenon DEF EmptiedAll
<1> HIDE DEF Left, step
<1>12. g[N] = f[N]
  <2>1. f[0] = g[0]
    BY <1>1, <1>6, <1>11
  <2>2. \A i \in 1 .. N : f[i - 1] = g[i - 1] => f[i] = g[i]
    <3> TAKE i \in 1 .. N
    <3>1. i \in 0 .. N /\ i # 0
      BY <1>1
    <3>2. f[i] = Left(f[i - 1], i) /\ g[i] = Left(g[i - 1], i)
      BY <1>6, <1>11, <3>1, Zenon
    <3> QED
      BY <3>2, Zenon
  <2> HIDE DEF N
  <2>3. \A i \in 0 .. N : f[i] = g[i]
    <3>1. Alongside(N, f, g)
      BY <1>1, <2>1, <2>2 DEF Alongside
    <3>2. SameUpTo(N, f, g)
      BY <3>1, LoopsAgree, Zenon
    <3> QED
      BY <3>2, Zenon DEF SameUpTo
  <2> QED
    BY <1>1, <2>3
<1>13. g[N] \in Q
  BY <1>1, <1>5, <1>12
<1> QED
  BY <1>10, <1>13

(* It leaves such a tree as well.                                          *)
LEMMA EmptiedLeaves ==
  ASSUME NEW tree, WellFormed(tree), NEW at \in DOMAIN tree
  PROVE  Emptied(tree, at) \in After(tree)
<1>1. ASSUME NEW q \in After(tree), NEW name
      PROVE  delete_(q, at, name) \in After(tree)
  <2>1. WellFormed(q) /\ at \in DOMAIN q /\ After(q) \subseteq After(tree)
    BY AfterAre
  <2> QED
    BY <2>1, DeleteLeaves
<1>2. PICK Q : Q = After(tree)
  OBVIOUS
<1>3. tree \in Q
  BY <1>2 DEF After
<1>4. Emptied(tree, at) \in Q
  BY <1>1, <1>2, <1>3, EmptiedStays
<1> QED
  BY <1>2, <1>4

(* And so does rmCurrentDir_.                                              *)
LEMMA RemoveDirLeaves ==
  ASSUME NEW tree, WellFormed(tree), NEW at \in DOMAIN tree, NEW name
  PROVE  rmCurrentDir_(tree, at, name) \in After(tree)
<1>1. PICK rest : rest = Emptied(tree, at)
  OBVIOUS
<1>2. /\ rest \in After(tree) /\ WellFormed(rest) /\ DOMAIN rest = DOMAIN tree
      /\ After(rest) \subseteq After(tree)
  BY <1>1, EmptiedLeaves, AfterAre
<1>3. Root \in DOMAIN rest
  BY <1>2, TreesAre
<1>4. delete_(rest, Root, name) \in After(rest)
  BY <1>2, <1>3, DeleteLeaves
<1> QED
  BY <1>1, <1>2, <1>4 DEF rmCurrentDir_

(* What is typed leads to a directory of the tree.                         *)
LEMMA TextLeads ==
  ASSUME NEW tree, WellFormed(tree), NEW path \in Seq(Characters)
  PROVE  changeDirAbsolute_(tree, path).at \in DOMAIN tree
<1>1. Components(path) \in Seq(Seq(Characters)) /\ <<>> \in Seq(Characters)
  BY SlashEnds, EmptySeq
<1>2. WalkNames(tree, Components(path)) \in WalkStates(tree)
  BY <1>1, WalkAppend
<1> QED
  BY <1>2 DEF changeDirAbsolute_, WalkStates

(* A path with a last name that is legal: its parent's path, its own, and  *)
(* the name.                                                               *)
LEMMA PathLeads ==
  ASSUME NEW tree, WellFormed(tree), NEW names \in Seq(Seq(Characters)),
         \A i \in 1 .. Len(names) : PlainName(names[i]),
         NEW name, LegalName(name), NEW path, path = Spelled(Append(names, name))
  PROVE  /\ changeDirAbsolute_(tree, getParentPath(path)).at \in DOMAIN tree
         /\ changeDirAbsolute_(tree, path).at \in DOMAIN tree
         /\ LegalName(stringParseFilename(path))
<1>1. PlainName(name) /\ name \in Seq(Characters)
  BY LegalNames
<1>2. /\ changeDirAbsolute_(tree, getParentPath(path)) = WalkNames(tree, names)
      /\ stringParseFilename(path) = name
  BY <1>1, ContextIs
<1>3. WalkNames(tree, names).at \in DOMAIN tree
  BY <1>1, WalkAppend DEF WalkStates
<1>4. path \in Seq(Characters)
  <2>1. Append(names, name) \in Seq(Seq(Characters))
    BY <1>1, AppendProperties
  <2> QED
    BY <1>1, <2>1, SpelledAppend
<1> QED
  BY <1>2, <1>3, <1>4, TextLeads

(* The paths FUSE's callbacks are given are such.                          *)
LEMMA GivenPaths ==
  ASSUME NEW tree, WellFormed(tree), NEW names, NEW path, path = Spelled(names),
         names \in New(tree) \cup {x.path : x \in Contents(tree)}
  PROVE  /\ changeDirAbsolute_(tree, getParentPath(path)).at \in DOMAIN tree
         /\ changeDirAbsolute_(tree, path).at \in DOMAIN tree
         /\ LegalName(stringParseFilename(path))
<1>1. PICK front, name : /\ front \in Seq(Seq(Characters))
                         /\ \A i \in 1 .. Len(front) : PlainName(front[i])
                         /\ LegalName(name) /\ names = Append(front, name)
  <2>1. CASE names \in New(tree)
    <3>1. PICK d \in DirsOf(tree), name \in NewNames : names = Append(d.path, name)
      BY <2>1 DEF New
    <3>2. d \in Places(tree) /\ LegalName(name)
      BY ContentsAre, PathsAssumption
    <3> QED
      BY <3>1, <3>2 DEF Places
  <2>2. CASE names \notin New(tree)
    <3>1. PICK x \in Contents(tree) : names = x.path
      BY <2>2
    <3>2. PICK y \in Places(tree) : IsDir(y.entry) /\ x \in InDir(tree, y)
      BY ContentsAre
    <3>3. PICK i \in Listed(tree, y.entry.at) :
            x = [path |-> Append(y.path, tree[y.entry.at][i].name),
                 entry |-> tree[y.entry.at][i]]
      BY <3>2 DEF InDir
    <3>4. LegalName(tree[y.entry.at][i].name)
      BY <3>2, Deeper
    <3>5. names = Append(y.path, tree[y.entry.at][i].name)
      BY <3>1, <3>3
    <3> QED
      BY <3>4, <3>5 DEF Places
  <2> QED
    BY <2>1, <2>2
<1> QED
  BY <1>1, PathLeads

-----------------------------------------------------------------------------
(* The shell and the callbacks.                                            *)

(* Whatever paths are typed behind cd, and whatever names touch and rm     *)
(* get, the tree stays well-formed and the current directory is one of it  *)
(* (changeDirAbsolute_, delete_, create_).                                 *)
THEOREM ShellTypeCorrect == ShellSpec => []PathsTypeOK
<1>1. PathsInit => PathsTypeOK
  <2> SUFFICES ASSUME PathsInit PROVE PathsTypeOK
    OBVIOUS
  <2>1. WellFormed(disk) /\ currentDir.at = Root
    BY PathsAssumption DEF PathsInit, AtRoot
  <2> QED
    BY <2>1, EntriesAre DEF PathsTypeOK
<1>2. PathsTypeOK /\ [ShellNext]_pathVars => PathsTypeOK'
  <2> SUFFICES ASSUME PathsTypeOK, [ShellNext]_pathVars PROVE PathsTypeOK'
    OBVIOUS
  <2>1. WellFormed(disk) /\ currentDir.at \in DOMAIN disk
    BY DEF PathsTypeOK
  <2>2. CASE UNCHANGED pathVars
    BY <2>1, <2>2 DEF PathsTypeOK, pathVars
  <2>3. ASSUME NEW path \in Lines, Cd(path) PROVE PathsTypeOK'
    <3>1. path \in Seq(Characters)
      BY PathsAssumption
    <3>2. changeDirAbsolute_(disk, path).at \in DOMAIN disk
      BY <2>1, <3>1, TextLeads
    <3> QED
      BY <2>1, <2>3, <3>2 DEF Cd, PathsTypeOK
  <2>4. ASSUME NEW name \in NewNames, TouchFile(name) PROVE PathsTypeOK'
    <3>1. disk' \in After(disk) /\ currentDir' = currentDir
      BY <2>1, <2>4, PathsAssumption, CreateLeaves DEF TouchFile
    <3>2. WellFormed(disk') /\ DOMAIN disk' = DOMAIN disk
      BY <2>1, <3>1, AfterAre
    <3> QED
      BY <2>1, <3>1, <3>2 DEF PathsTypeOK
  <2>5. ASSUME NEW name \in NewNames, Rm(name) PROVE PathsTypeOK'
    <3>1. disk' \in After(disk) /\ currentDir' = currentDir
      BY <2>1, <2>5, DeleteLeaves DEF Rm
    <3>2. WellFormed(disk') /\ DOMAIN disk' = DOMAIN disk
      BY <2>1, <3>1, AfterAre
    <3> QED
      BY <2>1, <3>1, <3>2 DEF PathsTypeOK
  <2> QED
    BY <2>2, <2>3, <2>4, <2>5 DEF ShellNext
<1> QED
  BY <1>1, <1>2, PTL DEF ShellSpec

(* And so it does whatever calls FUSE makes: the callbacks take a path     *)
(* apart into a directory of the tree and a legal name, and emptying and   *)
(* removing a directory leaves no broken entry (rmCurrentDir_).            *)
THEOREM FuseTypeCorrect == FuseSpec => []PathsTypeOK
<1>1. PathsInit => PathsTypeOK
  <2> SUFFICES ASSUME PathsInit PROVE PathsTypeOK
    OBVIOUS
  <2>1. WellFormed(disk) /\ currentDir.at = Root
    BY PathsAssumption DEF PathsInit, AtRoot
  <2> QED
    BY <2>1, EntriesAre DEF PathsTypeOK
<1>2. PathsTypeOK /\ [FuseNext]_pathVars => PathsTypeOK'
  <2> SUFFICES ASSUME PathsTypeOK, [FuseNext]_pathVars PROVE PathsTypeOK'
    OBVIOUS
  <2>1. WellFormed(disk) /\ currentDir.at \in DOMAIN disk
    BY DEF PathsTypeOK
  <2>2. ASSUME disk' \in After(disk), currentDir'.at \in DOMAIN disk PROVE PathsTypeOK'
    <3>1. WellFormed(disk') /\ DOMAIN disk' = DOMAIN disk
      BY <2>1, <2>2, AfterAre
    <3> QED
      BY <2>2, <3>1 DEF PathsTypeOK
  <2>3. CASE UNCHANGED pathVars
    BY <2>1, <2>3 DEF PathsTypeOK, pathVars
  <2>4. CASE Readdir(<<Slash>>)
    <3>1. <<Slash>> \in Seq(Characters)
      BY PathsAssumption
    <3>2. changeDirAbsolute_(disk, <<Slash>>).at \in DOMAIN disk
      BY <2>1, <3>1, TextLeads
    <3> QED
      BY <2>2, <2>4, <3>2 DEF Readdir, After
  <2>5. ASSUME NEW x \in Contents(disk), NEW path, path = Spelled(x.path),
               Look(path) \/ Readdir(path) \/ Rmdir(path) \/ CreateOrWrite(path) \/ Unlink(path)
        PROVE  PathsTypeOK'
    <3>1. /\ changeDirAbsolute_(disk, getParentPath(path)).at \in DOMAIN disk
          /\ changeDirAbsolute_(disk, path).at \in DOMAIN disk
          /\ LegalName(stringParseFilename(path))
      BY <2>1, <2>5, GivenPaths
    <3>2. CASE Look(path) \/ Readdir(path)
      BY <2>2, <3>1, <3>2 DEF Look, InContext, Readdir, After
    <3>3. CASE Rmdir(path)
      <4>1. disk' \in After(disk)
        BY <2>1, <3>1, <3>3, RemoveDirLeaves DEF Rmdir, rmDirCallback
      <4>2. currentDir'.at = Root
        BY <3>3 DEF Rmdir
      <4> QED
        BY <2>1, <2>2, <4>1, <4>2, EntriesAre
    <3>4. CASE CreateOrWrite(path)
      <4>1. disk' \in After(disk)
        BY <2>1, <3>1, <3>4, CreateLeaves DEF CreateOrWrite, createCallback, set_context_by_path
      <4> QED
        BY <2>2, <3>1, <3>4, <4>1 DEF CreateOrWrite, InContext
    <3>5. CASE Unlink(path)
      <4>1. disk' \in After(disk)
        BY <2>1, <3>1, <3>5, DeleteLeaves DEF Unlink, unlinkCallback, set_context_by_path
      <4> QED
        BY <2>2, <3>1, <3>5, <4>1 DEF Unlink, InContext
    <3> QED
      BY <2>5, <3>2, <3>3, <3>4, <3>5
  <2>6. ASSUME NEW names \in New(disk), CreateOrWrite(Spelled(names)) PROVE PathsTypeOK'
    <3>1. PICK path : path = Spelled(names)
      OBVIOUS
    <3>2. /\ changeDirAbsolute_(disk, getParentPath(path)).at \in DOMAIN disk
          /\ LegalName(stringParseFilename(path))
      BY <2>1, <3>1, GivenPaths
    <3>3. disk' \in After(disk)
      BY <2>1, <2>6, <3>1, <3>2, CreateLeaves DEF CreateOrWrite, createCallback, set_context_by_path
    <3> QED
      BY <2>2, <2>6, <3>1, <3>2, <3>3 DEF CreateOrWrite, InContext
  <2> QED
    BY <2>3, <2>4, <2>5, <2>6 DEF FuseNext
<1> QED
  BY <1>1, <1>2, PTL DEF FuseSpec

(* With the kernel's stringCompare, cd finds every directory and exec      *)
(* every file in any tree with names that are apart, to any depth: the     *)
(* loop of changeDirAbsolute_ takes a path apart into its names, and none  *)
(* of its steps goes to another directory.                                 *)
THEOREM ShellAlwaysFindsPaths ==
  ASSUME KernelsSame PROVE ShellSpec => []ShellFindsPaths
<1>1. PathsTypeOK => ShellFindsPaths
  <2> SUFFICES ASSUME PathsTypeOK, SiblingsApart(disk), NEW d \in DirsOf(disk)
               PROVE  /\ \A path \in {Spelled(d.path), Spelled(d.path) \o <<Slash>>,
                                      <<Slash>> \o Spelled(d.path)} :
                           changeDirAbsolute_(disk, path).at = d.entry.at
                      /\ \A i \in DOMAIN disk[d.entry.at] :
                           LET e == disk[d.entry.at][i]
                           IN  e.kind = "file" =>
                                 execCommand(disk, d.entry.at, e.name) = <<e>>
    BY Zenon DEF ShellFindsPaths
  <2>1. WellFormed(disk) /\ Apart(disk)
    BY SamesStart DEF PathsTypeOK, Apart
  <2> QED
    BY <2>1, DirectoryFound
<1> QED
  BY <1>1, ShellTypeCorrect, PTL

(* With that of the FUSE program, its callbacks find every entry: what     *)
(* getParentPath, the loop over the path and stringParseFilename make of a *)
(* path fits together, although names may begin one another in different   *)
(* directories.                                                            *)
THEOREM CallbacksAlwaysFindPaths ==
  ASSUME FusesSame PROVE FuseSpec => []CallbacksFindPaths
<1>1. PathsTypeOK => CallbacksFindPaths
  <2> SUFFICES ASSUME PathsTypeOK, SiblingsApart(disk), NEW x \in Contents(disk),
                      NEW path, path = Spelled(x.path)
               PROVE  /\ Lookup(disk, path) = x.entry
                      /\ IF IsDir(x.entry)
                           THEN readdirCallback(disk, path) = disk[x.entry.at]
                           ELSE readCallback(disk, path) = <<x.entry>>
    BY Zenon DEF CallbacksFindPaths
  <2>1. WellFormed(disk) /\ Apart(disk)
    BY SamesStart DEF PathsTypeOK, Apart
  <2> QED
    BY <2>1, PathFound
<1> QED
  BY <1>1, FuseTypeCorrect, PTL

-----------------------------------------------------------------------------
(* The prompt.                                                             *)

(* The entries in the directories of one level are the next level.         *)
LEMMA LevelNext ==
  ASSUME NEW tree, WellFormed(tree)
  PROVE  /\ Level(tree, 0) = {RootItself}
         /\ \A n \in Nat : /\ Level(tree, n + 1) = Below(tree, Level(tree, n))
                           /\ Level(tree, n) \subseteq Places(tree)
<1>1. Level(tree, 0) = {RootItself}
  <2>1. PICK f : Levels(f, tree, 0) /\ Level(tree, 0) = f[0]
    BY LevelIs
  <2>2. 0 \in 0 .. 0
    OBVIOUS
  <2> QED
    BY <2>1, <2>2, Zenon DEF Levels
<1>2. ASSUME NEW n \in Nat
      PROVE  /\ Level(tree, n + 1) = Below(tree, Level(tree, n))
             /\ Level(tree, n) \subseteq Places(tree)
  <2>1. PICK f : /\ f \in [0 .. n -> SUBSET Places(tree)]
                 /\ Levels(f, tree, n) /\ Level(tree, n) = f[n]
    BY LevelIs
  <2>2. PICK m \in Nat : m = n + 1 /\ m - 1 = n /\ m # 0
    OBVIOUS
  <2>3. PICK g : Levels(g, tree, m) /\ Level(tree, m) = g[m]
    BY LevelIs
  <2>4. \A i \in 0 .. n : f[i] = IF i = 0 THEN {RootItself} ELSE Below(tree, f[i - 1])
    BY <2>1, Zenon DEF Levels
  <2>5. \A i \in 0 .. m : g[i] = IF i = 0 THEN {RootItself} ELSE Below(tree, g[i - 1])
    BY <2>3, Zenon DEF Levels
  <2>6. f[0] = g[0]
    <3>1. 0 \in 0 .. n /\ 0 \in 0 .. m
      OBVIOUS
    <3> QED
      BY <2>4, <2>5, <3>1, Zenon
  <2>7. \A i \in 1 .. n : f[i - 1] = g[i - 1] => f[i] = g[i]
    <3> TAKE i \in 1 .. n
    <3>1. i \in 0 .. n /\ i \in 0 .. m /\ i # 0
      BY <2>2
    <3> QED
      BY <2>4, <2>5, <3>1, Zenon
  <2>8. Alongside(n, f, g)
    BY <2>6, <2>7 DEF Alongside
  <2>9. SameUpTo(n, f, g)
    BY <2>8, LoopsAgree, Zenon
  <2>10. n \in 0 .. n /\ m \in 0 .. m
    BY <2>2
  <2>11. f[n] = g[n]
    BY <2>9, <2>10, Zenon DEF SameUpTo
  <2>12. g[m] = Below(tree, g[n])
    BY <2>2, <2>5, <2>10
  <2>13. Level(tree, n) \subseteq Places(tree)
    BY <2>1, <2>10
  <2> QED
    BY <2>1, <2>2, <2>3, <2>11, <2>12, <2>13
<1> QED
  BY <1>1, <1>2

(* A directory of some level and the prompt with its path.                 *)
Standing(tree, dir) ==
  \E n \in Nat : \E d \in Level(tree, n) :
    /\ IsDir(d.entry) /\ dir.at = d.entry.at
    /\ dir.filename = Spelled(d.path) \o <<Slash>>

(* The prompt at the root.                                                 *)
LEMMA StandingAtRoot ==
  ASSUME NEW tree, WellFormed(tree)
  PROVE  AtRoot \in WalkStates(tree) /\ Standing(tree, AtRoot)
<1>1. RootItself \in Level(tree, 0) /\ 0 \in Nat
  BY LevelNext
<1>2. IsDir(RootItself.entry) /\ RootItself.entry.at = Root /\ RootItself.path = <<>>
  BY DEF RootItself, IsDir
<1>3. Spelled(<<>>) = <<>>
  <2>1. <<>> \in Seq(Seq(Characters)) /\ <<>> \in Seq(Characters)
    BY EmptySeq
  <2> QED
    BY <2>1, SpelledAppend
<1>4. <<Slash>> \in Seq(Characters)
  BY PathsAssumption
<1>5. <<>> \o <<Slash>> = <<Slash>>
  BY <1>4, ConcatEmptySeq
<1>6. AtRoot.at = Root /\ AtRoot.filename = <<Slash>>
  BY DEF AtRoot
<1>7. AtRoot \in WalkStates(tree)
  <2>1. Root \in DOMAIN tree
    BY EntriesAre
  <2> QED
    BY <1>4, <2>1 DEF AtRoot, WalkStates
<1>8. RootItself.entry.at = AtRoot.at /\ AtRoot.filename = Spelled(RootItself.path) \o <<Slash>>
  BY <1>2, <1>3, <1>5, <1>6
<1> QED
  BY <1>1, <1>2, <1>7, <1>8, Zenon DEF Standing

(* cd takes one name: it stays or goes one level deeper, and appends what  *)
(* the directory it goes to is called.                                     *)
LEMMA StandingStep ==
  ASSUME KernelsSame, NEW tree, WellFormed(tree),
         NEW dir \in WalkStates(tree), Standing(tree, dir),
         NEW name \in Seq(Characters), name \notin {<<".">>, <<".", ".">>}
  PROVE  Standing(tree, changeDirIterative(tree, dir, name))
<1>n. PICK n \in Nat : \E d \in Level(tree, n) :
        /\ IsDir(d.entry) /\ dir.at = d.entry.at
        /\ dir.filename = Spelled(d.path) \o <<Slash>>
  BY Zenon DEF Standing
<1>1. PICK d \in Level(tree, n) :
        /\ IsDir(d.entry) /\ dir.at = d.entry.at
        /\ dir.filename = Spelled(d.path) \o <<Slash>>
  BY <1>n, Zenon
<1>2. d \in Places(tree)
  BY LevelNext
<1>3. d.path \in Seq(Seq(Characters)) /\ dir.at \in DOMAIN tree
  BY <1>1, <1>2, Deeper
<1>4. PICK entries : entries = tree[dir.at]
  OBVIOUS
<1>5. DOMAIN entries \subseteq Nat /\ \A i \in DOMAIN entries : entries[i] \in Entries
  <2>1. DOMAIN entries = 1 .. Len(entries) /\ Len(entries) \in Nat
    BY <1>3, <1>4, EntriesAre
  <2> QED
    BY <1>3, <1>4, <2>1, EntriesAre
<1>6. PICK found : found = {i \in DOMAIN entries : Same(entries[i].name, name) /\ IsDir(entries[i])}
  OBVIOUS
<1>7. PICK first : first = CHOOSE i \in found : \A k \in found : i <= k
  OBVIOUS
<1>8. PICK entry : entry = IF found = {} THEN NoEntry ELSE entries[first]
  OBVIOUS
<1>9. PICK next : next = changeDirIterative(tree, dir, name)
  OBVIOUS
<1>10. next = IF entry = NoEntry THEN dir
              ELSE [at |-> entry.at, filename |-> dir.filename \o name \o <<Slash>>]
  BY <1>4, <1>6, <1>7, <1>8, <1>9, Zenon DEF changeDirIterative, First
<1>11. CASE entry = NoEntry
  BY <1>9, <1>10, <1>11
<1>12. CASE entry # NoEntry
  <2>1. found # {} /\ entry = entries[first]
    BY <1>8, <1>12
  <2>2. first \in found
    <3>1. found \subseteq Nat
      BY <1>5, <1>6
    <3> QED
      BY <1>7, <2>1, <3>1, LeastIs
  <2>3. first \in DOMAIN entries /\ Same(entry.name, name) /\ IsDir(entry) /\ entry \in Entries
    BY <1>5, <1>6, <2>1, <2>2
  <2>4. entry.name = name
    <3>1. entry.name \in Seq(Characters)
      BY <2>3 DEF Entries
    <3> QED
      BY <2>3, <3>1 DEF KernelsSame, SameText
  <2>5. first \in Listed(tree, d.entry.at)
    BY <1>1, <1>4, <2>1, <2>3, <2>4 DEF Listed, Hidden
  <2>6. PICK x : x = [path |-> Append(d.path, name), entry |-> entry]
    OBVIOUS
  <2>7. x \in InDir(tree, d)
    BY <1>1, <1>4, <2>1, <2>4, <2>5, <2>6 DEF InDir
  <2>8. x \in Level(tree, n + 1) /\ n + 1 \in Nat
    <3>1. Level(tree, n + 1) = Below(tree, Level(tree, n))
      BY LevelNext
    <3>2. x \in Below(tree, Level(tree, n))
      BY <1>1, <2>7 DEF Below
    <3> QED
      BY <3>1, <3>2
  <2>9. next.at = entry.at /\ next.filename = dir.filename \o name \o <<Slash>>
    BY <1>10, <1>12
  <2>10. dir.filename \o name = Spelled(x.path)
    <3>1. <<Slash>> \in Seq(Characters)
      BY PathsAssumption
    <3>2. PICK s \in Seq(Characters) : s = Spelled(d.path)
      BY <1>3, SpelledAppend, EmptySeq
    <3>3. Spelled(x.path) = s \o (<<Slash>> \o name)
      BY <1>3, <2>6, <3>2, SpelledAppend
    <3>4. (s \o <<Slash>>) \o name = s \o (<<Slash>> \o name)
      BY <3>1, ConcatAssociative
    <3> QED
      BY <1>1, <3>2, <3>3, <3>4
  <2>11. IsDir(x.entry) /\ next.at = x.entry.at /\ next.filename = Spelled(x.path) \o <<Slash>>
    BY <2>3, <2>6, <2>9, <2>10
  <2> QED
    BY <1>9, <2>8, <2>11, Zenon DEF Standing
<1> QED
  BY <1>11, <1>12

(* So it does with all names of a path.                                    *)
LEMMA StandingWalk ==
  ASSUME KernelsSame, NEW tree, WellFormed(tree), NEW path \in Seq(Characters), NoDots(path)
  PROVE  Standing(tree, changeDirAbsolute_(tree, path))
<1>1. PICK names : names = Components(path) /\ names \in Seq(Seq(Characters))
  BY SlashEnds
<1>2. PICK len \in Nat : len = Len(names) /\ DOMAIN names = 1 .. len
  BY <1>1
<1>3. \A i \in 1 .. len :
        names[i] \in Seq(Characters) /\ names[i] \notin {<<".">>, <<".", ".">>}
  <2>1. \A i \in DOMAIN names : names[i] \notin {<<".">>, <<".", ".">>}
    BY <1>1, Zenon DEF NoDots
  <2>2. \A i \in 1 .. len : names[i] \in Seq(Characters)
    BY <1>1, <1>2, ElementOfSeq
  <2> QED
    BY <1>2, <2>1, <2>2, Zenon
<1>4. PICK dir : /\ dir \in [0 .. Len(names) -> WalkStates(tree)]
                 /\ Walked(dir, tree, names) /\ WalkNames(tree, names) = dir[Len(names)]
  BY <1>1, WalkIs
<1>5. \A n \in 0 .. len :
        dir[n] = IF n = 0 THEN AtRoot ELSE changeDirIterative(tree, dir[n - 1], names[n])
  BY <1>2, <1>4, Zenon DEF Walked
<1> DEFINE S == {n \in Nat : n <= len => Standing(tree, dir[n])}
<1>6. ASSUME NEW n \in Nat, \A k \in 0 .. n - 1 : k \in S
      PROVE  n \in S
  <2> SUFFICES ASSUME n <= len PROVE Standing(tree, dir[n])
    OBVIOUS
  <2>1. n \in 0 .. len
    OBVIOUS
  <2>2. CASE n = 0
    <3>1. dir[n] = AtRoot
      BY <1>5, <2>1, <2>2
    <3> QED
      BY <3>1, StandingAtRoot
  <2>3. CASE n # 0
    <3>1. n - 1 \in 0 .. n - 1 /\ n - 1 \in 0 .. len /\ n - 1 <= len /\ n \in 1 .. len
      BY <2>3
    <3>2. n - 1 \in S
      <4> HIDE DEF S
      <4> QED
        BY <1>6, <3>1
    <3>3. PICK before : before = dir[n - 1]
      OBVIOUS
    <3>4. Standing(tree, before) /\ before \in WalkStates(tree)
      BY <1>2, <1>4, <3>1, <3>2, <3>3
    <3>5. dir[n] = changeDirIterative(tree, before, names[n])
      BY <1>5, <2>1, <2>3, <3>3
    <3>6. PICK name \in Seq(Characters) :
            name = names[n] /\ name \notin {<<".">>, <<".", ".">>}
      BY <1>3, <3>1
    <3>7. Standing(tree, changeDirIterative(tree, before, name))
      BY <3>4, <3>6, StandingStep
    <3> QED
      BY <3>5, <3>6, <3>7
  <2> QED
    BY <2>2, <2>3
<1>7. Nat \subseteq S
  <2> HIDE DEF S
  <2> QED
    BY <1>6, AllNumbers
<1>8. Standing(tree, dir[len])
  BY <1>7
<1> QED
  BY <1>1, <1>2, <1>4, <1>8 DEF changeDirAbsolute_

(* The deeper a directory lies, the higher it ranks.                       *)
LEMMA RanksGrow ==
  ASSUME NEW tree, WellFormed(tree), NEW rank \in [DOMAIN tree -> 0 .. Depth],
         Ranks(tree, rank)
  PROVE  \A n \in Nat : \A d \in Level(tree, n) :
           IsDir(d.entry) => d.entry.at \in DOMAIN tree /\ rank[d.entry.at] >= rank[Root] + n
<1>1. Depth \in Nat /\ Root \in DOMAIN tree
  BY PathsAssumption, EntriesAre
<1>2. \A d \in DOMAIN tree : rank[d] \in Nat
  BY <1>1
<1>3. \A n \in Nat : \A d \in Level(tree, n) : IsDir(d.entry) => d.entry.at \in DOMAIN tree
  BY LevelNext DEF Places
<1> DEFINE S == {n \in Nat : \A d \in Level(tree, n) :
                               IsDir(d.entry) => rank[d.entry.at] >= rank[Root] + n}
<1>4. ASSUME NEW n \in Nat, \A k \in 0 .. n - 1 : k \in S
      PROVE  n \in S
  <2> SUFFICES ASSUME NEW d \in Level(tree, n), IsDir(d.entry)
               PROVE  rank[d.entry.at] >= rank[Root] + n
    OBVIOUS
  <2>1. CASE n = 0
    <3>1. d = RootItself
      BY <2>1, LevelNext
    <3>2. d.entry.at = Root
      BY <3>1 DEF RootItself
    <3> QED
      BY <1>1, <1>2, <2>1, <3>2
  <2>2. CASE n # 0
    <3>1. PICK m \in Nat : m = n - 1 /\ n = m + 1 /\ m \in 0 .. n - 1
      BY <2>2
    <3>2. m \in S
      <4> HIDE DEF S
      <4> QED
        BY <1>4, <3>1
    <3>3. d \in Below(tree, Level(tree, m))
      BY <3>1, LevelNext
    <3>4. PICK y \in Level(tree, m) : IsDir(y.entry) /\ d \in InDir(tree, y)
      BY <3>3 DEF Below
    <3>5. y.entry.at \in DOMAIN tree /\ rank[y.entry.at] >= rank[Root] + m
      BY <1>3, <3>2, <3>4
    <3>6. PICK i \in Listed(tree, y.entry.at) : d.entry = tree[y.entry.at][i]
      BY <3>4 DEF InDir
    <3>7. rank[y.entry.at] < rank[d.entry.at]
      BY <3>5, <3>6 DEF Ranks
    <3>8. d.entry.at \in DOMAIN tree
      BY <1>3
    <3> QED
      BY <1>1, <1>2, <3>1, <3>5, <3>7, <3>8
  <2> QED
    BY <2>1, <2>2
<1>5. Nat \subseteq S
  <2> HIDE DEF S
  <2> QED
    BY <1>4, AllNumbers
<1> QED
  BY <1>3, <1>5

(* A change in a directory leaves the way to it.                           *)
LEMMA WayStays ==
  ASSUME NEW tree, WellFormed(tree), NEW rest, WellFormed(rest), DOMAIN rest = DOMAIN tree,
         NEW rank \in [DOMAIN tree -> 0 .. Depth], Ranks(tree, rank),
         NEW at \in DOMAIN tree, \A d \in DOMAIN tree \ {at} : rest[d] = tree[d]
  PROVE  \A n \in Nat : \A d \in Level(tree, n) :
           IsDir(d.entry) /\ rank[d.entry.at] <= rank[at] => d \in Level(rest, n)
<1>1. \A d \in DOMAIN tree : rank[d] \in Nat
  BY PathsAssumption
<1>2. \A n \in Nat : \A d \in Level(tree, n) : IsDir(d.entry) => d.entry.at \in DOMAIN tree
  BY LevelNext DEF Places
<1> DEFINE S == {n \in Nat : \A d \in Level(tree, n) :
                   IsDir(d.entry) /\ rank[d.entry.at] <= rank[at] => d \in Level(rest, n)}
<1>3. ASSUME NEW n \in Nat, \A k \in 0 .. n - 1 : k \in S
      PROVE  n \in S
  <2> SUFFICES ASSUME NEW d \in Level(tree, n), IsDir(d.entry), rank[d.entry.at] <= rank[at]
               PROVE  d \in Level(rest, n)
    OBVIOUS
  <2>1. CASE n = 0
    BY <2>1, LevelNext
  <2>2. CASE n # 0
    <3>1. PICK m \in Nat : m = n - 1 /\ n = m + 1 /\ m \in 0 .. n - 1
      BY <2>2
    <3>2. m \in S
      <4> HIDE DEF S
      <4> QED
        BY <1>3, <3>1
    <3>3. d \in Below(tree, Level(tree, m))
      BY <3>1, LevelNext
    <3>4. PICK y \in Level(tree, m) : IsDir(y.entry) /\ d \in InDir(tree, y)
      BY <3>3 DEF Below
    <3>5. y.entry.at \in DOMAIN tree /\ d.entry.at \in DOMAIN tree
      BY <1>2, <3>4
    <3>6. PICK i \in Listed(tree, y.entry.at) : d.entry = tree[y.entry.at][i]
      BY <3>4 DEF InDir
    <3>7. rank[y.entry.at] < rank[d.entry.at]
      BY <3>5, <3>6 DEF Ranks
    <3>8. rank[y.entry.at] < rank[at]
      BY <1>1, <3>5, <3>7
    <3>9. rest[y.entry.at] = tree[y.entry.at]
      BY <1>1, <3>5, <3>8
    <3>10. InDir(rest, y) = InDir(tree, y)
      BY <3>9 DEF InDir, Listed
    <3>11. y \in Level(rest, m)
      BY <1>1, <3>2, <3>4, <3>5, <3>8
    <3>12. d \in Below(rest, Level(rest, m))
      BY <3>4, <3>10, <3>11 DEF Below
    <3> QED
      BY <3>1, <3>12, LevelNext
  <2> QED
    BY <2>1, <2>2
<1>4. Nat \subseteq S
  <2> HIDE DEF S
  <2> QED
    BY <1>3, AllNumbers
<1> QED
  BY <1>4

(* Other entries in directories: only ones that were there, and files, and *)
(* below the root only in the one where the command works.                 *)
EntriesOf(tree, d) == {tree[d][i] : i \in DOMAIN tree[d]}

Edited(tree, rest, at) ==
  /\ WellFormed(rest) /\ DOMAIN rest = DOMAIN tree
  /\ \A d \in DOMAIN tree : \A i \in DOMAIN rest[d] :
       IsDir(rest[d][i]) => rest[d][i] \in EntriesOf(tree, d)
  /\ at # Root => \A d \in DOMAIN tree \ {at} : rest[d] = tree[d]

(* Such an edit keeps the ranks, and the prompt is still right.            *)
LEMMA EditKeeps ==
  ASSUME NEW tree, WellFormed(tree), Ranked(tree), NEW dir, Standing(tree, dir),
         dir.at \in DOMAIN tree, NEW rest, Edited(tree, rest, dir.at)
  PROVE  Ranked(rest) /\ Standing(rest, dir)
<1>1. PICK rank \in [DOMAIN tree -> 0 .. Depth] : Ranks(tree, rank)
  BY DEF Ranked
<1>2. WellFormed(rest) /\ DOMAIN rest = DOMAIN tree
  BY DEF Edited
<1>3. Ranked(rest)
  <2>1. ASSUME NEW d \in DOMAIN tree, NEW i \in Listed(rest, d), IsDir(rest[d][i])
        PROVE  rank[d] < rank[rest[d][i].at]
    <3>1. i \in DOMAIN rest[d] /\ ~Hidden(rest[d][i])
      BY DEF Listed
    <3>2. rest[d][i] \in EntriesOf(tree, d)
      BY <2>1, <3>1 DEF Edited
    <3>3. PICK k \in DOMAIN tree[d] : tree[d][k] = rest[d][i]
      BY <3>2 DEF EntriesOf
    <3>4. k \in Listed(tree, d) /\ IsDir(tree[d][k])
      BY <2>1, <3>1, <3>3 DEF Listed
    <3>5. rank[d] < rank[tree[d][k].at]
      BY <1>1, <3>4 DEF Ranks
    <3> QED
      BY <3>3, <3>5
  <2>2. Ranks(rest, rank)
    BY <1>2, <2>1 DEF Ranks
  <2> QED
    BY <1>2, <2>2 DEF Ranked
<1>n. PICK n \in Nat : \E d \in Level(tree, n) :
        /\ IsDir(d.entry) /\ dir.at = d.entry.at
        /\ dir.filename = Spelled(d.path) \o <<Slash>>
  BY Zenon DEF Standing
<1>4. PICK d \in Level(tree, n) :
        /\ IsDir(d.entry) /\ dir.at = d.entry.at
        /\ dir.filename = Spelled(d.path) \o <<Slash>>
  BY <1>n, Zenon
<1>5. d \in Level(rest, n)
  <2>1. \A x \in DOMAIN tree : rank[x] \in Nat
    BY PathsAssumption
  <2>2. CASE dir.at = Root
    <3>1. rank[Root] >= rank[Root] + n /\ rank[Root] \in Nat
      BY <1>1, <1>4, <2>1, <2>2, RanksGrow
    <3>2. n = 0
      BY <3>1
    <3>3. Level(rest, n) = Level(tree, n)
      BY <1>2, <3>2, LevelNext
    <3> QED
      BY <3>3
  <2>3. CASE dir.at # Root
    <3>1. \A x \in DOMAIN tree \ {dir.at} : rest[x] = tree[x]
      BY <2>3 DEF Edited
    <3>2. rank[d.entry.at] <= rank[dir.at]
      BY <1>4, <2>1
    <3>3. PICK at \in DOMAIN tree : at = dir.at
      OBVIOUS
    <3>4. \A x \in DOMAIN tree \ {at} : rest[x] = tree[x]
      BY <3>1, <3>3
    <3>5. \A k \in Nat : \A x \in Level(tree, k) :
            IsDir(x.entry) /\ rank[x.entry.at] <= rank[at] => x \in Level(rest, k)
      BY <1>1, <1>2, <3>4, WayStays
    <3> QED
      BY <1>4, <3>2, <3>3, <3>5
  <2> QED
    BY <2>2, <2>3
<1> QED
  BY <1>3, <1>4, <1>5, Zenon DEF Standing

(* delete_ edits so.                                                       *)
LEMMA DeleteEdits ==
  ASSUME NEW tree, WellFormed(tree), NEW at \in DOMAIN tree, NEW name
  PROVE  Edited(tree, delete_(tree, at, name), at)
<1>1. PICK rest : rest = delete_(tree, at, name)
  OBVIOUS
<1>2. WellFormed(rest) /\ DOMAIN rest = DOMAIN tree
  BY <1>1, DeleteLeaves, AfterAre
<1>3. PICK places : places = Searched(tree, at)
  OBVIOUS
<1>4. places \in Seq(Spots(tree))
  BY <1>3, SearchedIs
<1>5. PICK hits : hits = {n \in DOMAIN places : LET e == EntryAt(tree, places[n])
                                               IN  ~Hidden(e) /\ Same(e.name, name)}
  OBVIOUS
<1>6. PICK hit : hit = places[CHOOSE n \in hits : \A k \in hits : n <= k]
  OBVIOUS
<1>7. rest = IF hits = {} THEN tree ELSE [tree EXCEPT ![hit.dir] = RemoveAt(@, hit.slot)]
  BY <1>1, <1>3, <1>5, <1>6 DEF delete_
<1>8. CASE hits = {}
  <2>1. rest = tree
    BY <1>7, <1>8
  <2> QED
    BY <1>1, <1>2, <2>1 DEF Edited, EntriesOf
<1>9. CASE hits # {}
  <2>1. hits \subseteq DOMAIN places /\ DOMAIN places = 1 .. Len(places) /\ hits \subseteq Nat
    BY <1>4, <1>5
  <2>2. (CHOOSE n \in hits : \A k \in hits : n <= k) \in DOMAIN places
    BY <1>9, <2>1, LeastIs
  <2>3. hit \in Spots(tree)
    BY <1>4, <1>6, <2>1, <2>2, ElementOfSeq
  <2>4. PICK d, i : d \in DOMAIN tree /\ d = hit.dir /\ i = hit.slot /\ i \in DOMAIN tree[d]
    BY <2>3 DEF Spots
  <2>5. \A x \in DOMAIN tree : rest[x] = IF x = d THEN RemoveAt(tree[d], i) ELSE tree[x]
    BY <1>7, <1>9, <2>4
  <2>6. at # Root => d = at
    <3> SUFFICES ASSUME at # Root PROVE d = at
      OBVIOUS
    <3>1. places = [k \in DOMAIN tree[at] |-> [dir |-> at, slot |-> k]]
      BY <1>3 DEF Searched
    <3>2. \A k \in DOMAIN places : places[k].dir = at
      BY <3>1
    <3> QED
      BY <1>6, <2>2, <2>4, <3>2
  <2>7. PICK E : E = EntriesOf(tree, d)
    OBVIOUS
  <2>8. tree[d] \in Seq(E) /\ i \in 1 .. Len(tree[d])
    <3>1. tree[d] \in Seq(Entries) /\ DOMAIN tree[d] = 1 .. Len(tree[d])
      BY <2>4, EntriesAre
    <3>2. \A k \in 1 .. Len(tree[d]) : tree[d][k] \in E
      BY <2>7, <3>1 DEF EntriesOf
    <3> QED
      BY <2>4, <3>1, <3>2
  <2>9. RemoveAt(tree[d], i) \in Seq(E)
    BY <2>8, RemoveAtKeeps
  <2>10. \A k \in DOMAIN RemoveAt(tree[d], i) : RemoveAt(tree[d], i)[k] \in E
    BY <2>9, ElementOfSeq
  <2>11. \A x \in DOMAIN tree : \A k \in DOMAIN rest[x] : rest[x][k] \in EntriesOf(tree, x)
    <3> TAKE x \in DOMAIN tree
    <3>1. CASE x = d
      BY <2>5, <2>7, <2>10, <3>1
    <3>2. CASE x # d
      BY <2>5, <3>2 DEF EntriesOf
    <3> QED
      BY <3>1, <3>2
  <2>12. at # Root => \A x \in DOMAIN tree \ {at} : rest[x] = tree[x]
    BY <2>5, <2>6
  <2> QED
    BY <1>1, <1>2, <2>11, <2>12 DEF Edited
<1> QED
  BY <1>8, <1>9

(* So does create_.                                                        *)
LEMMA CreateEdits ==
  ASSUME NEW tree, WellFormed(tree), NEW at \in DOMAIN tree, NEW name, LegalName(name)
  PROVE  Edited(tree, create_(tree, at, name), at)
<1>1. PICK rest : rest = delete_(tree, at, name)
  OBVIOUS
<1>2. Edited(tree, rest, at)
  BY <1>1, DeleteEdits
<1>3. PICK e : e = [name |-> name, kind |-> "file", at |-> Nowhere]
  OBVIOUS
<1>4. PICK made : made = create_(tree, at, name)
  OBVIOUS
<1>5. made = IF Len(rest[at]) = MaxEntries THEN rest
             ELSE [rest EXCEPT ![at] = Append(rest[at], e)]
  BY <1>1, <1>3, <1>4 DEF create_
<1>6. WellFormed(made) /\ DOMAIN made = DOMAIN tree
  BY <1>4, CreateLeaves, AfterAre
<1>7. CASE Len(rest[at]) = MaxEntries
  BY <1>2, <1>4, <1>5, <1>7
<1>8. CASE Len(rest[at]) # MaxEntries
  <2>1. at \in DOMAIN rest /\ WellFormed(rest) /\ DOMAIN rest = DOMAIN tree
    BY <1>2 DEF Edited
  <2>2. \A x \in DOMAIN tree : made[x] = IF x = at THEN Append(rest[at], e) ELSE rest[x]
    BY <1>5, <1>8, <2>1
  <2>3. PICK n \in Nat : n = Len(rest[at]) /\ DOMAIN rest[at] = 1 .. n
    BY <2>1, EntriesAre
  <2>4. rest[at] \in Seq(Entries) /\ e \in Entries /\ ~IsDir(e)
    <3>1. name \in Seq(Characters)
      BY DEF LegalName
    <3>2. e \in Entries /\ ~IsDir(e)
      BY <1>3, <3>1 DEF Entries, IsDir, Nowhere
    <3> QED
      BY <2>1, <3>2, EntriesAre
  <2>5. ASSUME NEW k \in DOMAIN made[at], IsDir(made[at][k])
        PROVE  made[at][k] \in EntriesOf(tree, at)
    <3>1. /\ DOMAIN made[at] = 1 .. n + 1 /\ made[at][n + 1] = e
          /\ \A j \in 1 .. n : made[at][j] = rest[at][j]
      <4>1. made[at] = Append(rest[at], e)
        BY <2>2
      <4>2. /\ Append(rest[at], e) \in Seq(Entries) /\ Len(Append(rest[at], e)) = n + 1
            /\ \A j \in 1 .. n : Append(rest[at], e)[j] = rest[at][j]
            /\ Append(rest[at], e)[n + 1] = e
        BY <2>3, <2>4, AppendProperties
      <4>3. DOMAIN Append(rest[at], e) = 1 .. n + 1
        BY <4>2, LenProperties
      <4> QED
        BY <4>1, <4>2, <4>3, Zenon
    <3>2. k # n + 1
      BY <2>4, <2>5, <3>1
    <3>3. k \in 1 .. n
      BY <2>5, <3>1, <3>2
    <3>4. made[at][k] = rest[at][k] /\ k \in DOMAIN rest[at]
      BY <2>3, <3>1, <3>3
    <3> QED
      BY <1>2, <2>5, <3>4 DEF Edited
  <2>6. \A x \in DOMAIN tree : \A k \in DOMAIN made[x] :
          IsDir(made[x][k]) => made[x][k] \in EntriesOf(tree, x)
    <3> TAKE x \in DOMAIN tree
    <3>1. CASE x = at
      BY <2>5, <3>1
    <3>2. CASE x # at
      <4>1. made[x] = rest[x]
        BY <2>2, <3>2
      <4> QED
        BY <1>2, <4>1 DEF Edited
    <3> QED
      BY <3>1, <3>2
  <2>7. at # Root => \A x \in DOMAIN tree \ {at} : made[x] = tree[x]
    BY <1>2, <2>2 DEF Edited
  <2> QED
    BY <1>4, <1>6, <2>6, <2>7 DEF Edited
<1> QED
  BY <1>7, <1>8

(* With the kernel's stringCompare, on a disk whose directories lie in     *)
(* each other to at most the depth looked at, and if "." and ".." are not  *)
(* typed, the prompt is the path of the current directory whatever is      *)
(* typed, created and removed: delete_ may take an entry anywhere below    *)
(* the root, but never one on the way to where the shell stands            *)
(* (changeDirIterative, findEntryAndErase, getCurrentDir).                 *)
THEOREM PromptIsAlwaysPath ==
  ASSUME KernelsSame, \A tree \in Trees : Ranked(tree), \A path \in Lines : NoDots(path)
  PROVE  ShellSpec => []PromptIsPath
<1> DEFINE Stands == /\ WellFormed(disk) /\ currentDir.at \in DOMAIN disk
                     /\ Ranked(disk) /\ Standing(disk, currentDir)
<1>1. PathsInit => Stands
  <2> SUFFICES ASSUME PathsInit PROVE Stands
    OBVIOUS
  <2>1. WellFormed(disk) /\ Ranked(disk) /\ currentDir = AtRoot
    BY PathsAssumption DEF PathsInit
  <2>2. currentDir \in WalkStates(disk) /\ Standing(disk, currentDir)
    BY <2>1, StandingAtRoot
  <2> QED
    BY <2>1, <2>2 DEF WalkStates
<1>2. Stands /\ [ShellNext]_pathVars => Stands'
  <2> SUFFICES ASSUME Stands, [ShellNext]_pathVars PROVE Stands'
    OBVIOUS
  <2>1. CASE UNCHANGED pathVars
    BY <2>1 DEF pathVars, Standing
  <2>2. ASSUME NEW path \in Lines, Cd(path) PROVE Stands'
    <3>1. path \in Seq(Characters) /\ NoDots(path)
      BY PathsAssumption
    <3>2. PICK dir : dir = changeDirAbsolute_(disk, path)
      OBVIOUS
    <3>3. Standing(disk, dir) /\ dir.at \in DOMAIN disk
      BY <3>1, <3>2, StandingWalk, TextLeads
    <3>4. currentDir' = dir /\ disk' = disk
      BY <2>2, <3>2 DEF Cd
    <3> QED
      BY <3>3, <3>4
  <2>3. ASSUME NEW name \in NewNames, TouchFile(name) \/ Rm(name) PROVE Stands'
    <3>1. PICK rest : disk' = rest /\ currentDir' = currentDir
      BY <2>3 DEF TouchFile, Rm
    <3>2. Edited(disk, rest, currentDir.at)
      BY <2>3, <3>1, PathsAssumption, CreateEdits, DeleteEdits DEF TouchFile, Rm
    <3>3. WellFormed(rest) /\ DOMAIN rest = DOMAIN disk
      BY <3>2 DEF Edited
    <3>4. Ranked(rest) /\ Standing(rest, currentDir)
      BY <3>2, EditKeeps
    <3> QED
      BY <3>1, <3>3, <3>4
  <2> QED
    BY <2>1, <2>2, <2>3 DEF ShellNext
<1>3. Stands => PromptIsPath
  <2> SUFFICES ASSUME Stands PROVE PromptIsPath
    OBVIOUS
  <2>1. <<>> \o <<Slash>> = <<Slash>> /\ Spelled(<<>>) = <<>>
    <3>1. <<Slash>> \in Seq(Characters) /\ <<>> \in Seq(Characters)
          /\ <<>> \in Seq(Seq(Characters))
      BY PathsAssumption, EmptySeq
    <3> QED
      BY <3>1, ConcatEmptySeq, SpelledAppend
  <2>2. CASE currentDir.at = Root
    <3>1. RootItself \in DirsOf(disk)
      BY DEF DirsOf, RootItself, IsDir
    <3>2. RootItself.entry.at = Root /\ RootItself.path = <<>>
      BY DEF RootItself
    <3>3. getCurrentDir(currentDir) = Spelled(RootItself.path) \o <<Slash>>
      BY <2>1, <2>2, <3>2 DEF getCurrentDir
    <3> QED
      BY <2>2, <3>1, <3>2, <3>3, Zenon DEF PromptIsPath
  <2>3. CASE currentDir.at # Root
    <3>n. PICK n \in Nat : \E d \in Level(disk, n) :
            /\ IsDir(d.entry) /\ currentDir.at = d.entry.at
            /\ currentDir.filename = Spelled(d.path) \o <<Slash>>
      BY Zenon DEF Standing
    <3>1. PICK d \in Level(disk, n) :
            /\ IsDir(d.entry) /\ currentDir.at = d.entry.at
            /\ currentDir.filename = Spelled(d.path) \o <<Slash>>
      BY <3>n, Zenon
    <3>2. PICK rank \in [DOMAIN disk -> 0 .. Depth] : Ranks(disk, rank)
      BY DEF Ranked
    <3>3. rank[currentDir.at] >= rank[Root] + n
      BY <3>1, <3>2, RanksGrow
    <3>4. Depth \in Nat /\ rank[currentDir.at] \in 0 .. Depth /\ rank[Root] \in 0 .. Depth
      BY <3>2, PathsAssumption, EntriesAre
    <3>5. n <= Depth
      BY <3>3, <3>4
    <3>6. n # 0
      <4>1. n = 0 => d = RootItself
        BY <3>1, LevelNext
      <4> QED
        BY <2>3, <3>1, <4>1 DEF RootItself
    <3>7. n \in 1 .. Depth
      BY <3>4, <3>5, <3>6
    <3>8. d \in DirsOf(disk)
      BY <3>1, <3>7 DEF DirsOf, Contents
    <3>9. getCurrentDir(currentDir) = Spelled(d.path) \o <<Slash>>
      BY <2>3, <3>1 DEF getCurrentDir
    <3> QED
      BY <3>1, <3>8, <3>9, Zenon DEF PromptIsPath
  <2> QED
    BY <2>2, <2>3
<1> QED
  <2> HIDE DEF Stands
  <2> QED
    BY <1>1, <1>2, <1>3, PTL DEF ShellSpec

-----------------------------------------------------------------------------
(* What tree shows.                                                        *)

(* A way of n steps down from one place to another.                        *)
Way(tree, y, x, n) ==
  \E c \in [0 .. n -> Places(tree)] :
    /\ c[0] = y /\ c[n] = x
    /\ \A i \in 1 .. n : IsDir(c[i - 1].entry) /\ c[i] \in InDir(tree, c[i - 1])

(* It has a last step,                                                     *)
LEMMA LastStep ==
  ASSUME NEW tree, WellFormed(tree), NEW y \in Places(tree), NEW x, NEW n \in Nat
  PROVE  Way(tree, y, x, n + 1) <=>
           \E z \in Places(tree) : Way(tree, y, z, n) /\ IsDir(z.entry) /\ x \in InDir(tree, z)
<1>1. PICK m \in Nat : m = n + 1 /\ m - 1 = n
  OBVIOUS
<1>2. ASSUME Way(tree, y, x, m)
      PROVE  \E z \in Places(tree) : Way(tree, y, z, n) /\ IsDir(z.entry) /\ x \in InDir(tree, z)
  <2>1. PICK c \in [0 .. m -> Places(tree)] :
          /\ c[0] = y /\ c[m] = x
          /\ \A i \in 1 .. m : IsDir(c[i - 1].entry) /\ c[i] \in InDir(tree, c[i - 1])
    BY <1>2 DEF Way
  <2>2. PICK b : b = [i \in 0 .. n |-> c[i]]
    OBVIOUS
  <2>3. b \in [0 .. n -> Places(tree)] /\ \A i \in 0 .. n : b[i] = c[i]
    BY <1>1, <2>1, <2>2
  <2>4. \A i \in 1 .. n : i \in 0 .. n /\ i - 1 \in 0 .. n /\ i \in 1 .. m
    BY <1>1
  <2>5. \A i \in 1 .. n : IsDir(b[i - 1].entry) /\ b[i] \in InDir(tree, b[i - 1])
    BY <2>1, <2>3, <2>4
  <2>6. 0 \in 0 .. n /\ n \in 0 .. n /\ m \in 1 .. m
    BY <1>1
  <2>7. b[0] = y /\ b[n] = c[n]
    BY <2>1, <2>3, <2>6
  <2>8. Way(tree, y, c[n], n)
    BY <2>3, <2>5, <2>7 DEF Way
  <2>9. IsDir(c[n].entry) /\ x \in InDir(tree, c[n])
    BY <1>1, <2>1, <2>6
  <2>10. c[n] \in Places(tree)
    BY <2>3, <2>6
  <2> QED
    BY <2>8, <2>9, <2>10
<1>3. ASSUME NEW z \in Places(tree), Way(tree, y, z, n), IsDir(z.entry), x \in InDir(tree, z)
      PROVE  Way(tree, y, x, m)
  <2>1. PICK b \in [0 .. n -> Places(tree)] :
          /\ b[0] = y /\ b[n] = z
          /\ \A i \in 1 .. n : IsDir(b[i - 1].entry) /\ b[i] \in InDir(tree, b[i - 1])
    BY <1>3 DEF Way
  <2>2. x \in Places(tree)
    BY <1>3, Deeper
  <2>3. PICK c : c = [i \in 0 .. m |-> IF i = m THEN x ELSE b[i]]
    OBVIOUS
  <2>4. c \in [0 .. m -> Places(tree)] /\ c[m] = x /\ \A i \in 0 .. n : c[i] = b[i]
    BY <1>1, <2>1, <2>2, <2>3
  <2>5. \A i \in 1 .. m : IsDir(c[i - 1].entry) /\ c[i] \in InDir(tree, c[i - 1])
    <3> TAKE i \in 1 .. m
    <3>1. CASE i = m
      <4>1. n \in 0 .. n
        OBVIOUS
      <4>2. c[i] = x /\ c[i - 1] = z
        BY <1>1, <2>1, <2>4, <3>1, <4>1
      <4> QED
        BY <1>3, <4>2
    <3>2. CASE i # m
      <4>1. i \in 1 .. n /\ i \in 0 .. n /\ i - 1 \in 0 .. n
        BY <1>1, <3>2
      <4>2. c[i] = b[i] /\ c[i - 1] = b[i - 1]
        BY <2>4, <4>1
      <4> QED
        BY <2>1, <4>1, <4>2
    <3> QED
      BY <3>1, <3>2
  <2>6. c[0] = y
    <3>1. 0 \in 0 .. n
      OBVIOUS
    <3> QED
      BY <2>1, <2>4, <3>1
  <2> QED
    BY <2>4, <2>5, <2>6 DEF Way
<1> QED
  BY <1>1, <1>2, <1>3

(* and a first one.                                                        *)
LEMMA FirstStep ==
  ASSUME NEW tree, WellFormed(tree), NEW y \in Places(tree), NEW x, NEW n \in Nat
  PROVE  Way(tree, y, x, n + 1) <=>
           IsDir(y.entry) /\ \E z \in InDir(tree, y) : Way(tree, z, x, n)
<1>1. PICK m \in Nat : m = n + 1 /\ m - 1 = n
  OBVIOUS
<1>2. ASSUME Way(tree, y, x, m)
      PROVE  IsDir(y.entry) /\ \E z \in InDir(tree, y) : Way(tree, z, x, n)
  <2>1. PICK c \in [0 .. m -> Places(tree)] :
          /\ c[0] = y /\ c[m] = x
          /\ \A i \in 1 .. m : IsDir(c[i - 1].entry) /\ c[i] \in InDir(tree, c[i - 1])
    BY <1>2 DEF Way
  <2>2. PICK b : b = [i \in 0 .. n |-> c[i + 1]]
    OBVIOUS
  <2>3. b \in [0 .. n -> Places(tree)] /\ \A i \in 0 .. n : b[i] = c[i + 1]
    BY <1>1, <2>1, <2>2
  <2>4. ASSUME NEW i \in 1 .. n
        PROVE  IsDir(b[i - 1].entry) /\ b[i] \in InDir(tree, b[i - 1])
    <3>1. PICK k \in 1 .. m : k = i + 1 /\ k - 1 = i
      BY <1>1
    <3>2. i \in 0 .. n /\ i - 1 \in 0 .. n /\ (i - 1) + 1 = i
      OBVIOUS
    <3>3. b[i] = c[k] /\ b[i - 1] = c[k - 1]
      BY <2>3, <3>1, <3>2
    <3> QED
      BY <2>1, <3>1, <3>3
  <2>5. 0 \in 0 .. n /\ n \in 0 .. n /\ 1 \in 1 .. m /\ 1 - 1 = 0 /\ 0 + 1 = 1
    BY <1>1
  <2>6. b[0] = c[1] /\ b[n] = x
    BY <1>1, <2>1, <2>3, <2>5
  <2>7. Way(tree, c[1], x, n)
    BY <2>3, <2>4, <2>6 DEF Way
  <2>8. IsDir(c[0].entry) /\ c[1] \in InDir(tree, c[0])
    BY <2>1, <2>5
  <2> QED
    BY <2>1, <2>7, <2>8
<1>3. ASSUME IsDir(y.entry), NEW z \in InDir(tree, y), Way(tree, z, x, n)
      PROVE  Way(tree, y, x, m)
  <2>1. PICK b \in [0 .. n -> Places(tree)] :
          /\ b[0] = z /\ b[n] = x
          /\ \A i \in 1 .. n : IsDir(b[i - 1].entry) /\ b[i] \in InDir(tree, b[i - 1])
    BY <1>3 DEF Way
  <2>2. PICK c : c = [i \in 0 .. m |-> IF i = 0 THEN y ELSE b[i - 1]]
    OBVIOUS
  <2>3. c \in [0 .. m -> Places(tree)] /\ c[0] = y /\ \A i \in 1 .. m : c[i] = b[i - 1]
    BY <1>1, <2>1, <2>2
  <2>4. ASSUME NEW i \in 1 .. m
        PROVE  IsDir(c[i - 1].entry) /\ c[i] \in InDir(tree, c[i - 1])
    <3>1. CASE i = 1
      <4>1. c[i - 1] = y /\ c[i] = z
        BY <2>1, <2>3, <3>1
      <4> QED
        BY <1>3, <4>1
    <3>2. CASE i # 1
      <4>1. PICK k \in 1 .. n : k = i - 1
        BY <1>1, <3>2
      <4>2. k \in 1 .. m
        BY <1>1
      <4>3. c[i] = b[k] /\ c[i - 1] = b[k - 1]
        BY <2>3, <4>1, <4>2
      <4> QED
        BY <2>1, <4>3
    <3> QED
      BY <3>1, <3>2
  <2>5. c[m] = x
    <3>1. m \in 1 .. m
      BY <1>1
    <3> QED
      BY <1>1, <2>1, <2>3, <3>1
  <2> QED
    BY <2>3, <2>4, <2>5 DEF Way
<1> QED
  BY <1>1, <1>2, <1>3

(* A way without steps stays.                                              *)
LEMMA NoStep ==
  ASSUME NEW tree, NEW y \in Places(tree), NEW x
  PROVE  Way(tree, y, x, 0) <=> x = y
<1>1. ASSUME Way(tree, y, x, 0) PROVE x = y
  BY <1>1 DEF Way
<1>2. ASSUME x = y PROVE Way(tree, y, x, 0)
  <2>1. PICK c : c = [i \in 0 .. 0 |-> y]
    OBVIOUS
  <2>2. c \in [0 .. 0 -> Places(tree)] /\ c[0] = y /\ 1 .. 0 = {}
    BY <2>1
  <2> QED
    BY <1>2, <2>2 DEF Way
<1> QED
  BY <1>1, <1>2

(* One step adds the name of the entry to the path.                        *)
LEMMA StepDown ==
  ASSUME NEW tree, WellFormed(tree), NEW y \in Places(tree), IsDir(y.entry),
         NEW x \in InDir(tree, y)
  PROVE  /\ x \in Places(tree) /\ Len(y.path) \in Nat /\ Len(x.path) = Len(y.path) + 1
         /\ \A i \in 1 .. Len(y.path) : x.path[i] = y.path[i]
         /\ x.path[Len(y.path) + 1] = x.entry.name
<1>1. PICK i \in Listed(tree, y.entry.at) :
        x = [path |-> Append(y.path, tree[y.entry.at][i].name), entry |-> tree[y.entry.at][i]]
  BY DEF InDir
<1>2. PICK e : e = tree[y.entry.at][i]
  OBVIOUS
<1>3. x.path = Append(y.path, e.name) /\ x.entry = e
  BY <1>1, <1>2
<1>4. e \in Entries /\ y.path \in Seq(Seq(Characters)) /\ x \in Places(tree)
  BY <1>2, Deeper
<1>5. e.name \in Seq(Characters)
  BY <1>4 DEF Entries
<1>6. PICK names \in Seq(Seq(Characters)) : names = y.path
  BY <1>4
<1>7. /\ Len(Append(names, e.name)) = Len(names) + 1
      /\ \A k \in 1 .. Len(names) : Append(names, e.name)[k] = names[k]
      /\ Append(names, e.name)[Len(names) + 1] = e.name
  BY <1>5, AppendProperties
<1>8. Len(names) \in Nat
  BY LenProperties
<1> QED
  BY <1>3, <1>4, <1>6, <1>7, <1>8

(* A way leads to a path that begins with that of its start.               *)
LEMMA WayLengthens ==
  ASSUME NEW tree, WellFormed(tree), NEW y \in Places(tree)
  PROVE  \A n \in Nat : \A x \in Places(tree) : Way(tree, y, x, n) =>
           /\ Len(x.path) = Len(y.path) + n
           /\ \A i \in 1 .. Len(y.path) : x.path[i] = y.path[i]
<1>1. PICK len \in Nat : len = Len(y.path)
  BY LenProperties DEF Places
<1> DEFINE Begun(x, n) == /\ Len(x.path) = len + n
                           /\ \A i \in 1 .. len : x.path[i] = y.path[i]
           S == {n \in Nat : \A x \in Places(tree) : Way(tree, y, x, n) => Begun(x, n)}
<1>2. ASSUME NEW n \in Nat, \A k \in 0 .. n - 1 : k \in S
      PROVE  n \in S
  <2> SUFFICES ASSUME NEW x \in Places(tree), Way(tree, y, x, n) PROVE Begun(x, n)
    OBVIOUS
  <2>1. CASE n = 0
    <3>1. x = y
      BY <2>1, NoStep
    <3> QED
      BY <1>1, <2>1, <3>1
  <2>2. CASE n # 0
    <3>1. PICK m \in Nat : m = n - 1 /\ n = m + 1 /\ m \in 0 .. n - 1
      BY <2>2
    <3>2. m \in S
      <4> HIDE DEF S
      <4> QED
        BY <1>2, <3>1
    <3>3. PICK z \in Places(tree) : Way(tree, y, z, m) /\ IsDir(z.entry) /\ x \in InDir(tree, z)
      BY <3>1, LastStep
    <3>4. Begun(z, m)
      BY <3>2, <3>3
    <3>5. /\ Len(x.path) = Len(z.path) + 1
          /\ \A i \in 1 .. Len(z.path) : x.path[i] = z.path[i]
      BY <3>3, StepDown
    <3> QED
      BY <3>1, <3>4, <3>5
  <2> QED
    BY <2>1, <2>2
<1>3. Nat \subseteq S
  <2> HIDE DEF S
  <2> QED
    BY <1>2, AllNumbers
<1> QED
  BY <1>1, <1>3

(* What lies below a place, down to a depth.                               *)
Under(tree, y, depth) == {x \in Places(tree) : \E n \in 1 .. depth : Way(tree, y, x, n)}

(* It is what the directory has and what lies below that.                  *)
LEMMA UnderNext ==
  ASSUME NEW tree, WellFormed(tree), NEW y \in Places(tree), NEW k \in Nat
  PROVE  /\ Under(tree, y, 0) = {}
         /\ ~IsDir(y.entry) => Under(tree, y, k) = {}
         /\ IsDir(y.entry) =>
              \A x : x \in Under(tree, y, k + 1) <=>
                \E z \in InDir(tree, y) : x = z \/ x \in Under(tree, z, k)
<1>1. Under(tree, y, 0) = {}
  <2>1. 1 .. 0 = {}
    OBVIOUS
  <2> QED
    BY <2>1 DEF Under
<1>2. ASSUME ~IsDir(y.entry) PROVE Under(tree, y, k) = {}
  <2>1. ASSUME NEW x \in Places(tree), NEW n \in 1 .. k PROVE ~Way(tree, y, x, n)
    <3>1. PICK m \in Nat : n = m + 1
      OBVIOUS
    <3> QED
      BY <1>2, <3>1, FirstStep
  <2> QED
    BY <2>1 DEF Under
<1>3. ASSUME IsDir(y.entry), NEW x, x \in Under(tree, y, k + 1)
      PROVE  \E z \in InDir(tree, y) : x = z \/ x \in Under(tree, z, k)
  <2>1. x \in Places(tree)
    BY <1>3 DEF Under
  <2>2. PICK n \in 1 .. k + 1 : Way(tree, y, x, n)
    BY <1>3 DEF Under
  <2>3. PICK m \in Nat : n = m + 1 /\ (m # 0 => m \in 1 .. k)
    OBVIOUS
  <2>4. PICK z \in InDir(tree, y) : Way(tree, z, x, m)
    BY <2>2, <2>3, FirstStep
  <2>5. z \in Places(tree)
    BY <1>3, StepDown
  <2>6. CASE m = 0
    BY <2>4, <2>5, <2>6, NoStep
  <2>7. CASE m # 0
    BY <2>1, <2>3, <2>4, <2>7 DEF Under
  <2> QED
    BY <2>6, <2>7
<1>4. ASSUME IsDir(y.entry), NEW z \in InDir(tree, y), NEW x, x = z \/ x \in Under(tree, z, k)
      PROVE  x \in Under(tree, y, k + 1)
  <2>1. z \in Places(tree)
    BY <1>4, StepDown
  <2>2. x \in Places(tree)
    BY <1>4, <2>1 DEF Under
  <2>3. PICK m \in Nat : Way(tree, z, x, m) /\ m + 1 \in 1 .. k + 1
    <3>1. CASE x = z
      <4>1. Way(tree, z, x, 0) /\ 0 \in Nat /\ 0 + 1 \in 1 .. k + 1
        BY <2>1, <3>1, NoStep
      <4> QED
        BY <4>1
    <3>2. CASE x \in Under(tree, z, k)
      <4>1. PICK n \in 1 .. k : Way(tree, z, x, n)
        BY <3>2 DEF Under
      <4>2. n \in Nat /\ n + 1 \in 1 .. k + 1
        OBVIOUS
      <4> QED
        BY <4>1, <4>2
    <3> QED
      BY <1>4, <3>1, <3>2
  <2>4. Way(tree, y, x, m + 1)
    BY <1>4, <2>3, FirstStep
  <2> QED
    BY <2>2, <2>3, <2>4 DEF Under
<1> QED
  BY <1>1, <1>2, <1>3, <1>4

(* The contents of a tree are what lies below its root.                    *)
LEMMA ContentsBelow ==
  ASSUME NEW tree, WellFormed(tree)
  PROVE  Contents(tree) = Under(tree, RootItself, Depth)
<1>1. RootItself \in Places(tree)
  BY RootIsPlace
<1> DEFINE S == {n \in Nat : \A x \in Places(tree) :
                               x \in Level(tree, n) <=> Way(tree, RootItself, x, n)}
<1>2. ASSUME NEW n \in Nat, \A k \in 0 .. n - 1 : k \in S
      PROVE  n \in S
  <2> SUFFICES ASSUME NEW x \in Places(tree)
               PROVE  x \in Level(tree, n) <=> Way(tree, RootItself, x, n)
    OBVIOUS
  <2>1. CASE n = 0
    BY <1>1, <2>1, LevelNext, NoStep
  <2>2. CASE n # 0
    <3>1. PICK m \in Nat : m = n - 1 /\ n = m + 1 /\ m \in 0 .. n - 1
      BY <2>2
    <3>2. m \in S
      <4> HIDE DEF S
      <4> QED
        BY <1>2, <3>1
    <3>3. \A z \in Places(tree) : z \in Level(tree, m) <=> Way(tree, RootItself, z, m)
      BY <3>2
    <3>4. Level(tree, n) = Below(tree, Level(tree, m)) /\ Level(tree, m) \subseteq Places(tree)
      BY <3>1, LevelNext
    <3>5. x \in Level(tree, n) <=>
            \E z \in Level(tree, m) : IsDir(z.entry) /\ x \in InDir(tree, z)
      BY <3>4 DEF Below
    <3>6. Way(tree, RootItself, x, n) <=>
            \E z \in Places(tree) :
              Way(tree, RootItself, z, m) /\ IsDir(z.entry) /\ x \in InDir(tree, z)
      BY <1>1, <3>1, LastStep
    <3> QED
      BY <3>3, <3>4, <3>5, <3>6
  <2> QED
    BY <2>1, <2>2
<1>3. Nat \subseteq S
  <2> HIDE DEF S
  <2> QED
    BY <1>2, AllNumbers
<1>4. Depth \in Nat
  BY PathsAssumption
<1>5. \A n \in 1 .. Depth : /\ Level(tree, n) \subseteq Places(tree)
                            /\ \A x \in Places(tree) :
                                 x \in Level(tree, n) <=> Way(tree, RootItself, x, n)
  BY <1>3, <1>4, LevelNext
<1> QED
  BY <1>5 DEF Contents, Under

(* A sequence of entries shows each of a set of places once.               *)
Lists(s, P) ==
  \E q \in [1 .. Len(s) -> P] :
    /\ \A x \in P : \E j \in 1 .. Len(s) : q[j] = x
    /\ \A j, k \in 1 .. Len(s) : q[j] = q[k] => j = k
    /\ \A j \in 1 .. Len(s) : s[j] = q[j].entry

(* Nothing shows nothing, and an entry its place.                          *)
LEMMA ListsFew ==
  /\ Lists(<<>>, {})
  /\ \A x : Lists(<<x.entry>>, {x})
<1>1. Lists(<<>>, {})
  <2>1. PICK q : q = [j \in 1 .. 0 |-> {}]
    OBVIOUS
  <2>2. Len(<<>>) = 0 /\ 1 .. 0 = {} /\ q \in [1 .. 0 -> {}]
    BY <2>1
  <2> QED
    BY <2>2 DEF Lists
<1>2. ASSUME NEW x PROVE Lists(<<x.entry>>, {x})
  <2>1. PICK q : q = [j \in 1 .. 1 |-> x]
    OBVIOUS
  <2>2. /\ Len(<<x.entry>>) = 1 /\ <<x.entry>>[1] = x.entry
        /\ q \in [1 .. 1 -> {x}] /\ q[1] = x
        /\ 1 \in 1 .. 1 /\ \A j \in 1 .. 1 : j = 1
    BY <2>1
  <2> QED
    BY <2>2 DEF Lists
<1> QED
  BY <1>1, <1>2

(* Two sequences that show different places show both one behind the other. *)
LEMMA ListsJoined ==
  ASSUME NEW s \in Seq(Entries), NEW t \in Seq(Entries), NEW P, NEW R,
         P \cap R = {}, Lists(s, P), Lists(t, R)
  PROVE  Lists(s \o t, P \cup R)
<1>1. PICK m \in Nat, n \in Nat : m = Len(s) /\ n = Len(t)
  BY LenProperties
<1>2. PICK p \in [1 .. m -> P] :
        /\ \A x \in P : \E j \in 1 .. m : p[j] = x
        /\ \A j, k \in 1 .. m : p[j] = p[k] => j = k
        /\ \A j \in 1 .. m : s[j] = p[j].entry
  BY <1>1 DEF Lists
<1>3. PICK r \in [1 .. n -> R] :
        /\ \A x \in R : \E j \in 1 .. n : r[j] = x
        /\ \A j, k \in 1 .. n : r[j] = r[k] => j = k
        /\ \A j \in 1 .. n : t[j] = r[j].entry
  BY <1>1 DEF Lists
<1>4. PICK u : /\ u = s \o t /\ Len(u) = m + n
               /\ \A j \in 1 .. m + n : u[j] = IF j <= m THEN s[j] ELSE t[j - m]
  <2>1. Len(s \o t) = Len(s) + Len(t)
    BY ConcatProperties
  <2>2. \A j \in 1 .. Len(s) + Len(t) :
          (s \o t)[j] = IF j <= Len(s) THEN s[j] ELSE t[j - Len(s)]
    BY ConcatProperties
  <2> QED
    BY <1>1, <2>1, <2>2
<1>5. PICK q : q = [j \in 1 .. m + n |-> IF j <= m THEN p[j] ELSE r[j - m]]
  OBVIOUS
<1>6. \A j \in 1 .. m + n : (j <= m => j \in 1 .. m) /\ (~(j <= m) => j - m \in 1 .. n)
  OBVIOUS
<1>7. \A j \in 1 .. m + n : q[j] = IF j <= m THEN p[j] ELSE r[j - m]
  BY <1>5
<1>8. q \in [1 .. m + n -> P \cup R]
  BY <1>2, <1>3, <1>5, <1>6
<1>9. ASSUME NEW x \in P \cup R PROVE \E j \in 1 .. m + n : q[j] = x
  <2>1. CASE x \in P
    <3>1. PICK j \in 1 .. m : p[j] = x
      BY <1>2, <2>1
    <3>2. j \in 1 .. m + n /\ j <= m
      OBVIOUS
    <3> QED
      BY <1>7, <3>1, <3>2
  <2>2. CASE x \in R
    <3>1. PICK j \in 1 .. n : r[j] = x
      BY <1>3, <2>2
    <3>2. PICK i \in 1 .. m + n : i = m + j /\ ~(i <= m) /\ i - m = j
      OBVIOUS
    <3> QED
      BY <1>7, <3>1, <3>2
  <2> QED
    BY <2>1, <2>2
<1>10. ASSUME NEW j \in 1 .. m + n, NEW k \in 1 .. m + n, q[j] = q[k] PROVE j = k
  <2>1. CASE j <= m /\ k <= m
    BY <1>2, <1>6, <1>7, <1>10, <2>1
  <2>2. CASE ~(j <= m) /\ ~(k <= m)
    <3>1. PICK a \in 1 .. n, b \in 1 .. n : a = j - m /\ b = k - m
      BY <1>6, <2>2
    <3>2. r[a] = r[b]
      BY <1>7, <1>10, <2>2, <3>1
    <3>3. a = b
      BY <1>3, <3>2
    <3> QED
      BY <3>1, <3>3
  <2>3. CASE j <= m /\ ~(k <= m)
    <3>1. q[j] \in P /\ q[k] \in R
      BY <1>2, <1>3, <1>6, <1>7, <2>3
    <3> QED
      BY <1>10, <3>1
  <2>4. CASE ~(j <= m) /\ k <= m
    <3>1. q[k] \in P /\ q[j] \in R
      BY <1>2, <1>3, <1>6, <1>7, <2>4
    <3> QED
      BY <1>10, <3>1
  <2> QED
    BY <2>1, <2>2, <2>3, <2>4
<1>11. ASSUME NEW j \in 1 .. m + n PROVE u[j] = q[j].entry
  <2>1. CASE j <= m
    BY <1>2, <1>4, <1>6, <1>7, <2>1
  <2>2. CASE ~(j <= m)
    BY <1>3, <1>4, <1>6, <1>7, <2>2
  <2> QED
    BY <2>1, <2>2
<1>12. Lists(u, P \cup R)
  <2>1. Len(u) = m + n
    BY <1>4
  <2>2. \A x \in P \cup R : \E j \in 1 .. m + n : q[j] = x
    BY <1>9, Zenon
  <2>3. \A j, k \in 1 .. m + n : q[j] = q[k] => j = k
    BY <1>10, Zenon
  <2>4. \A j \in 1 .. m + n : u[j] = q[j].entry
    BY <1>11, Zenon
  <2>5. 1 .. Len(u) = 1 .. m + n
    BY <2>1
  <2>6. /\ q \in [1 .. Len(u) -> P \cup R]
        /\ \A x \in P \cup R : \E j \in 1 .. Len(u) : q[j] = x
        /\ \A j, k \in 1 .. Len(u) : q[j] = q[k] => j = k
        /\ \A j \in 1 .. Len(u) : u[j] = q[j].entry
    BY <1>8, <2>2, <2>3, <2>4, <2>5
  <2> QED
    BY <2>6, Zenon DEF Lists
<1> QED
  BY <1>4, <1>12

(* How many entries such a sequence shows, and which.                      *)
LEMMA ListsAll ==
  ASSUME NEW s \in Seq(Entries), NEW P, Lists(s, P)
  PROVE  ToSet(s) = {x.entry : x \in P} /\ Len(s) = Cardinality(P)
<1>1. PICK n \in Nat : n = Len(s) /\ DOMAIN s = 1 .. n
  BY LenProperties
<1>2. PICK q \in [1 .. n -> P] :
        /\ \A x \in P : \E j \in 1 .. n : q[j] = x
        /\ \A j, k \in 1 .. n : q[j] = q[k] => j = k
        /\ \A j \in 1 .. n : s[j] = q[j].entry
  BY <1>1 DEF Lists
<1>3. ToSet(s) = {x.entry : x \in P}
  <2>1. ToSet(s) = {s[j] : j \in 1 .. n}
    BY <1>1 DEF ToSet
  <2>2. \A j \in 1 .. n : s[j] \in {x.entry : x \in P}
    BY <1>2
  <2>3. \A x \in P : x.entry \in {s[j] : j \in 1 .. n}
    <3> TAKE x \in P
    <3>1. PICK j \in 1 .. n : q[j] = x
      BY <1>2
    <3> QED
      BY <1>2, <3>1
  <2> QED
    BY <2>1, <2>2, <2>3
<1>4. q \in Bijection(1 .. n, P)
  BY <1>2 DEF Bijection, Injection, Surjection, IsInjective
<1>5. Cardinality(P) = n
  BY <1>4, FS_CountingElements DEF ExistsBijection
<1> QED
  BY <1>1, <1>3, <1>5

(* What printTree shows of an entry with what lies below, and of all       *)
(* entries of a directory.                                                 *)
Part(below, e) ==
  IF Hidden(e) THEN <<>> ELSE <<e>> \o (IF IsDir(e) THEN below[e.at] ELSE <<>>)

Shows(tree, below) ==
  [d \in DOMAIN tree |-> FlattenSeq([i \in DOMAIN tree[d] |-> Part(below, tree[d][i])])]

(* The loop of printTree, as the function it defines.                      *)
ShownAll(shown, tree) ==
  shown = [depth \in 0 .. Depth |->
             IF depth = 0 THEN [d \in DOMAIN tree |-> <<>>]
             ELSE [d \in DOMAIN tree |-> FlattenSeq([i \in DOMAIN tree[d] |->
                    IF Hidden(tree[d][i]) THEN <<>>
                    ELSE <<tree[d][i]>> \o
                         IF IsDir(tree[d][i]) THEN shown[depth - 1][tree[d][i].at]
                                              ELSE <<>>])]]

(* A directory is shown entry by entry.                                    *)
LEMMA ShowsParts ==
  ASSUME NEW tree, WellFormed(tree), NEW below \in [DOMAIN tree -> Seq(Entries)]
  PROVE  /\ Shows(tree, below) \in [DOMAIN tree -> Seq(Entries)]
         /\ \A d \in DOMAIN tree :
              /\ \A i \in 1 .. Len(tree[d]) : Part(below, tree[d][i]) \in Seq(Entries)
              /\ \E f \in [0 .. Len(tree[d]) -> Seq(Entries)] :
                   /\ f[0] = <<>>
                   /\ \A i \in 1 .. Len(tree[d]) : f[i] = f[i - 1] \o Part(below, tree[d][i])
                   /\ Shows(tree, below)[d] = f[Len(tree[d])]
<1>1. ASSUME NEW d \in DOMAIN tree
      PROVE  /\ Shows(tree, below)[d] \in Seq(Entries)
             /\ \A i \in 1 .. Len(tree[d]) : Part(below, tree[d][i]) \in Seq(Entries)
             /\ \E f \in [0 .. Len(tree[d]) -> Seq(Entries)] :
                  /\ f[0] = <<>>
                  /\ \A i \in 1 .. Len(tree[d]) : f[i] = f[i - 1] \o Part(below, tree[d][i])
                  /\ Shows(tree, below)[d] = f[Len(tree[d])]
  <2>1. PICK n \in Nat : n = Len(tree[d]) /\ DOMAIN tree[d] = 1 .. n
    BY EntriesAre
  <2>2. ASSUME NEW i \in 1 .. n PROVE Part(below, tree[d][i]) \in Seq(Entries)
    <3>1. PICK e : e = tree[d][i]
      OBVIOUS
    <3>2. e \in Entries /\ (IsDir(e) => e.at \in DOMAIN tree)
      BY <2>1, <3>1, EntriesAre
    <3>3. PICK t : t = IF IsDir(e) THEN below[e.at] ELSE <<>>
      OBVIOUS
    <3>4. t \in Seq(Entries) /\ <<>> \in Seq(Entries)
      BY <3>2, <3>3, EmptySeq
    <3>5. <<e>> \in Seq(Entries)
      BY <3>2
    <3>6. <<e>> \o t \in Seq(Entries)
      BY <3>4, <3>5, ConcatProperties
    <3>7. Part(below, e) = IF Hidden(e) THEN <<>> ELSE <<e>> \o t
      BY <3>3 DEF Part
    <3> QED
      BY <3>1, <3>4, <3>6, <3>7
  <2>3. PICK seqs : seqs = [i \in 1 .. n |-> Part(below, tree[d][i])]
    OBVIOUS
  <2>4. /\ seqs \in Seq(Seq(Entries)) /\ Len(seqs) = n
        /\ \A i \in 1 .. n : seqs[i] = Part(below, tree[d][i])
    BY <2>2, <2>3
  <2>5. Shows(tree, below)[d] = FlattenSeq(seqs)
    BY <2>1, <2>3 DEF Shows
  <2>6. PICK f \in [0 .. n -> Seq(Entries)] : Flat(f, seqs) /\ FlattenSeq(seqs) = f[n]
    BY <2>4, FlattenIs
  <2>7. f[0] = <<>> /\ \A i \in 1 .. n : f[i] = f[i - 1] \o Part(below, tree[d][i])
    BY <2>4, <2>6 DEF Flat
  <2>8. n \in 0 .. n
    OBVIOUS
  <2> QED
    BY <2>1, <2>2, <2>5, <2>6, <2>7, <2>8
<1>2. Shows(tree, below) \in [DOMAIN tree -> Seq(Entries)]
  <2>1. \A d \in DOMAIN tree :
          FlattenSeq([i \in DOMAIN tree[d] |-> Part(below, tree[d][i])]) \in Seq(Entries)
    BY <1>1 DEF Shows
  <2> QED
    BY <2>1, Zenon DEF Shows
<1> QED
  BY <1>1, <1>2

(* printTree is what its loop computes.                                    *)
LEMMA ShownIs ==
  ASSUME NEW tree, WellFormed(tree)
  PROVE  \E f \in [0 .. Depth -> [DOMAIN tree -> Seq(Entries)]] :
           /\ f[0] = [d \in DOMAIN tree |-> <<>>]
           /\ \A i \in 1 .. Depth : f[i] = Shows(tree, f[i - 1])
           /\ printTree(tree) = f[Depth][Root]
<1> DEFINE N == Depth
           D == DOMAIN tree
           Q == [D -> Seq(Entries)]
           none == [d \in D |-> <<>>]
           step == [i \in 1 .. N |-> [q \in Q |-> Shows(tree, q)]]
           from == [i \in 1 .. N |-> i - 1]
<1>1. N \in Nat
  BY PathsAssumption
<1>2. none \in Q
  BY EmptySeq
<1>3. step \in [1 .. N -> [Q -> Q]]
  <2>1. \A q \in Q : Shows(tree, q) \in Q
    BY ShowsParts
  <2> HIDE DEF Q
  <2> QED
    BY <2>1
<1>4. from \in [1 .. N -> Nat] /\ \A i \in 1 .. N : from[i] < i
  BY <1>1
<1>5. PICK f : f \in [0 .. N -> Q] /\ Rounds(f, N, none, from, step)
  <2> HIDE DEF N, Q, D, none, step, from
  <2> QED
    BY <1>1, <1>2, <1>3, <1>4, LoopsEnd
<1>6. \A i \in 0 .. N : f[i] = IF i = 0 THEN none ELSE Shows(tree, f[i - 1])
  <2> TAKE i \in 0 .. N
  <2>1. CASE i = 0
    BY <1>5, <2>1 DEF Rounds
  <2>2. CASE i # 0
    <3>1. i \in 1 .. N /\ i - 1 \in 0 .. N
      BY <1>1, <2>2
    <3>2. f[i - 1] \in Q /\ from[i] = i - 1
      BY <1>5, <3>1
    <3>3. f[i] = step[i][f[i - 1]]
      <4> HIDE DEF from, step, N, Q, none
      <4> QED
        BY <1>5, <3>1, <3>2 DEF Rounds
    <3> HIDE DEF from, Q, none
    <3> QED
      BY <2>2, <3>1, <3>2, <3>3
  <2> QED
    BY <2>1, <2>2
<1>7. ShownAll(f, tree)
  <2>1. \A i \in 0 .. N :
          f[i] = IF i = 0 THEN [d \in DOMAIN tree |-> <<>>]
           ELSE [d \in DOMAIN tree |-> FlattenSeq([j \in DOMAIN tree[d] |->
                  IF Hidden(tree[d][j]) THEN <<>>
                  ELSE <<tree[d][j]>> \o
                       IF IsDir(tree[d][j]) THEN f[i - 1][tree[d][j].at]
                                            ELSE <<>>])]
    BY <1>6, Zenon DEF Shows, Part
  <2> QED
    BY <1>5, <2>1 DEF ShownAll
<1>8. PICK g : g = CHOOSE h : ShownAll(h, tree)
  OBVIOUS
<1>9. ShownAll(g, tree)
  BY <1>7, <1>8
<1>10. printTree(tree) = g[Depth][Root]
  BY <1>8 DEF printTree, ShownAll
<1>11. \A i \in 0 .. N : g[i] = IF i = 0 THEN none ELSE Shows(tree, g[i - 1])
  BY <1>9, Zenon DEF ShownAll, Shows, Part
<1>12. \A i \in 0 .. N : f[i] = g[i]
  <2>1. f[0] = g[0]
    <3>1. 0 \in 0 .. N
      BY <1>1
    <3> QED
      BY <1>6, <1>11, <3>1, Zenon
  <2>2. \A i \in 1 .. N : f[i - 1] = g[i - 1] => f[i] = g[i]
    <3> TAKE i \in 1 .. N
    <3>1. i \in 0 .. N /\ i # 0
      BY <1>1
    <3>2. f[i] = Shows(tree, f[i - 1]) /\ g[i] = Shows(tree, g[i - 1])
      BY <1>6, <1>11, <3>1, Zenon
    <3> QED
      BY <3>2, Zenon
  <2> HIDE DEF N
  <2>3. Alongside(N, f, g)
    BY <1>1, <2>1, <2>2 DEF Alongside
  <2>4. SameUpTo(N, f, g)
    BY <2>3, LoopsAgree, Zenon
  <2> QED
    BY <2>4, Zenon DEF SameUpTo
<1>13. f[0] = none /\ \A i \in 1 .. N : f[i] = Shows(tree, f[i - 1])
  <2>1. 0 \in 0 .. N /\ \A i \in 1 .. N : i \in 0 .. N /\ i # 0
    BY <1>1
  <2> QED
    BY <1>6, <2>1, Zenon
<1>14. printTree(tree) = f[Depth][Root]
  <2>1. N \in 0 .. N
    BY <1>1
  <2> QED
    BY <1>10, <1>12, <2>1
<1> QED
  BY <1>5, <1>13, <1>14

(* What is shown of an entry in a place, and lies there and below it.      *)
Block(tree, y, i, depth) ==
  LET e == tree[y.entry.at][i]
      z == [path |-> Append(y.path, e.name), entry |-> e]
  IN  IF i \in Listed(tree, y.entry.at) THEN {z} \cup Under(tree, z, depth) ELSE {}

(* The blocks of two entries have nothing in common.                       *)
LEMMA BlocksApart ==
  ASSUME NEW tree, WellFormed(tree), Apart(tree), NEW y \in Places(tree), IsDir(y.entry),
         NEW depth \in Nat, NEW i, NEW k, i # k
  PROVE  Block(tree, y, i, depth) \cap Block(tree, y, k, depth) = {}
<1>1. PICK d : d = y.entry.at
  OBVIOUS
<1>2. PICK len \in Nat : len = Len(y.path)
  BY LenProperties DEF Places
<1>3. ASSUME NEW j, NEW x \in Block(tree, y, j, depth)
      PROVE  j \in Listed(tree, d) /\ x.path[len + 1] = tree[d][j].name
  <2>1. j \in Listed(tree, d)
    BY <1>1, <1>3 DEF Block
  <2>2. PICK z : z = [path |-> Append(y.path, tree[d][j].name), entry |-> tree[d][j]]
    OBVIOUS
  <2>3. z \in InDir(tree, y) /\ z.entry = tree[d][j]
    BY <1>1, <2>1, <2>2 DEF InDir
  <2>4. z \in Places(tree) /\ Len(z.path) = len + 1 /\ z.path[len + 1] = tree[d][j].name
    BY <1>2, <2>3, StepDown
  <2>5. x = z \/ x \in Under(tree, z, depth)
    BY <1>1, <1>3, <2>1, <2>2 DEF Block
  <2>6. CASE x = z
    BY <2>1, <2>4, <2>6
  <2>7. CASE x \in Under(tree, z, depth)
    <3>1. PICK n \in 1 .. depth : Way(tree, z, x, n)
      BY <2>7 DEF Under
    <3>2. x \in Places(tree) /\ n \in Nat
      BY <2>7 DEF Under
    <3>3. \A m \in 1 .. Len(z.path) : x.path[m] = z.path[m]
      BY <2>4, <3>1, <3>2, WayLengthens
    <3>4. len + 1 \in 1 .. Len(z.path)
      BY <2>4
    <3> QED
      BY <2>1, <2>4, <3>3, <3>4
  <2> QED
    BY <2>5, <2>6, <2>7
<1>4. ASSUME NEW x, x \in Block(tree, y, i, depth), x \in Block(tree, y, k, depth)
      PROVE  FALSE
  <2>1. i \in Listed(tree, d) /\ k \in Listed(tree, d) /\ tree[d][i].name = tree[d][k].name
    BY <1>3, <1>4
  <2>2. d \in DOMAIN tree
    BY <1>1, Deeper
  <2>3. ~Same(tree[d][i].name, tree[d][k].name)
    BY <2>1, <2>2 DEF Apart, SiblingsApart
  <2>4. Same(tree[d][i].name, tree[d][i].name)
    BY <2>1, <2>2, OnlyOne
  <2> QED
    BY <2>1, <2>3, <2>4
<1> QED
  BY <1>4

(* If the rounds before show what lies below to a depth, this one shows    *)
(* what lies one level deeper.                                             *)
LEMMA RoundShows ==
  ASSUME NEW tree, WellFormed(tree), Apart(tree), NEW depth \in Nat,
         NEW below \in [DOMAIN tree -> Seq(Entries)],
         \A z \in Places(tree) : IsDir(z.entry) =>
           Lists(below[z.entry.at], Under(tree, z, depth)),
         NEW y \in Places(tree), IsDir(y.entry)
  PROVE  Lists(Shows(tree, below)[y.entry.at], Under(tree, y, depth + 1))
<1>1. PICK d \in DOMAIN tree : d = y.entry.at
  BY Deeper
<1>2. PICK n \in Nat : n = Len(tree[d]) /\ DOMAIN tree[d] = 1 .. n
  BY EntriesAre
<1>3. PICK f \in [0 .. n -> Seq(Entries)] :
        /\ f[0] = <<>>
        /\ \A i \in 1 .. n : f[i] = f[i - 1] \o Part(below, tree[d][i])
        /\ Shows(tree, below)[d] = f[n]
  BY <1>2, ShowsParts
<1>4. \A i \in 1 .. n : Part(below, tree[d][i]) \in Seq(Entries)
  BY <1>2, ShowsParts
<1>5. ASSUME NEW i \in 1 .. n
      PROVE  Lists(Part(below, tree[d][i]), Block(tree, y, i, depth))
  <2>1. PICK e : e = tree[d][i]
    OBVIOUS
  <2>2. e \in Entries
    BY <1>2, <2>1, EntriesAre
  <2>3. CASE Hidden(e)
    <3>1. Part(below, e) = <<>>
      BY <2>3 DEF Part
    <3>2. Block(tree, y, i, depth) = {}
      BY <1>1, <2>1, <2>3 DEF Block, Listed
    <3> QED
      BY <2>1, <3>1, <3>2, ListsFew
  <2>4. CASE ~Hidden(e)
    <3>1. i \in Listed(tree, d)
      BY <1>2, <2>1, <2>4 DEF Listed
    <3>2. PICK z : z = [path |-> Append(y.path, e.name), entry |-> e]
      OBVIOUS
    <3>3. z \in InDir(tree, y) /\ z.entry = e
      BY <1>1, <2>1, <3>1, <3>2 DEF InDir
    <3>4. z \in Places(tree)
      BY <3>3, StepDown
    <3>5. Block(tree, y, i, depth) = {z} \cup Under(tree, z, depth)
      BY <1>1, <2>1, <3>1, <3>2 DEF Block
    <3>6. PICK t : t = IF IsDir(e) THEN below[e.at] ELSE <<>>
      OBVIOUS
    <3>7. Part(below, e) = <<e>> \o t
      BY <2>4, <3>6 DEF Part
    <3>8. t \in Seq(Entries) /\ Lists(t, Under(tree, z, depth))
      <4>1. CASE IsDir(e)
        <5>1. e.at \in DOMAIN tree
          BY <3>3, <3>4, <4>1 DEF Places
        <5> QED
          BY <3>3, <3>4, <3>6, <4>1, <5>1
      <4>2. CASE ~IsDir(e)
        <5>1. Under(tree, z, depth) = {} /\ t = <<>>
          BY <3>3, <3>4, <3>6, <4>2, UnderNext
        <5> QED
          BY <5>1, ListsFew, EmptySeq
      <4> QED
        BY <4>1, <4>2
    <3>9. <<e>> \in Seq(Entries) /\ Lists(<<e>>, {z})
      BY <2>2, <3>3, ListsFew
    <3>10. {z} \cap Under(tree, z, depth) = {}
      <4> SUFFICES ASSUME z \in Under(tree, z, depth) PROVE FALSE
        OBVIOUS
      <4>1. PICK m \in 1 .. depth : Way(tree, z, z, m)
        BY DEF Under
      <4>2. Len(z.path) = Len(z.path) + m
        BY <3>4, <4>1, WayLengthens
      <4>3. Len(z.path) \in Nat
        BY <3>4, LenProperties DEF Places
      <4> QED
        BY <4>2, <4>3
    <3>11. Lists(<<e>> \o t, {z} \cup Under(tree, z, depth))
      BY <3>8, <3>9, <3>10, ListsJoined
    <3> QED
      BY <2>1, <3>5, <3>7, <3>11
  <2> QED
    BY <2>3, <2>4
<1> DEFINE Blocks(i) == UNION {Block(tree, y, k, depth) : k \in 1 .. i}
           S == {i \in Nat : i <= n => Lists(f[i], Blocks(i))}
<1>6. ASSUME NEW i \in Nat, \A k \in 0 .. i - 1 : k \in S
      PROVE  i \in S
  <2> SUFFICES ASSUME i <= n PROVE Lists(f[i], Blocks(i))
    OBVIOUS
  <2>1. CASE i = 0
    <3>1. Blocks(i) = {}
      BY <2>1
    <3> QED
      BY <1>3, <2>1, <3>1, ListsFew
  <2>2. CASE i # 0
    <3>1. PICK j \in Nat : j = i - 1 /\ j \in 0 .. i - 1 /\ j \in 0 .. n /\ j <= n
      BY <2>2
    <3>2. i \in 1 .. n
      BY <2>2
    <3>3. j \in S
      <4> HIDE DEF S
      <4> QED
        BY <1>6, <3>1
    <3>4. Lists(f[j], Blocks(j))
      BY <3>1, <3>3
    <3>5. PICK B : B = Block(tree, y, i, depth)
      OBVIOUS
    <3>6. Blocks(i) = Blocks(j) \cup B
      <4>1. \A k : k \in 1 .. i <=> k \in 1 .. j \/ k = i
        BY <2>2, <3>1
      <4> QED
        BY <3>5, <4>1
    <3>7. Blocks(j) \cap B = {}
      <4>1. \A k \in 1 .. j : k # i
        BY <3>1
      <4>2. \A k \in 1 .. j : Block(tree, y, k, depth) \cap B = {}
        BY <3>5, <4>1, BlocksApart
      <4> QED
        BY <4>2
    <3>8. Lists(Part(below, tree[d][i]), B) /\ Part(below, tree[d][i]) \in Seq(Entries)
      BY <1>4, <1>5, <3>2, <3>5
    <3>9. f[j] \in Seq(Entries) /\ f[i] = f[j] \o Part(below, tree[d][i])
      BY <1>3, <3>1, <3>2
    <3> HIDE DEF Blocks
    <3>10. Lists(f[j] \o Part(below, tree[d][i]), Blocks(j) \cup B)
      BY <3>4, <3>7, <3>8, <3>9, ListsJoined
    <3> QED
      BY <3>6, <3>9, <3>10
  <2> QED
    BY <2>1, <2>2
<1>7. Nat \subseteq S
  <2> HIDE DEF S
  <2> QED
    BY <1>6, AllNumbers
<1>8. Lists(f[n], Blocks(n))
  <2> HIDE DEF Blocks
  <2>1. n \in Nat /\ n <= n
    OBVIOUS
  <2> QED
    BY <1>7, <2>1
<1>9. Blocks(n) = Under(tree, y, depth + 1)
  <2>1. \A x : x \in Under(tree, y, depth + 1) <=>
          \E z \in InDir(tree, y) : x = z \/ x \in Under(tree, z, depth)
    BY UnderNext
  <2>2. ASSUME NEW x \in Blocks(n) PROVE x \in Under(tree, y, depth + 1)
    <3>1. PICK k \in 1 .. n : x \in Block(tree, y, k, depth)
      OBVIOUS
    <3>2. k \in Listed(tree, d)
      BY <1>1, <3>1 DEF Block
    <3>3. PICK z : z = [path |-> Append(y.path, tree[d][k].name), entry |-> tree[d][k]]
      OBVIOUS
    <3>4. x = z \/ x \in Under(tree, z, depth)
      BY <1>1, <3>1, <3>2, <3>3 DEF Block
    <3>5. z \in InDir(tree, y)
      BY <1>1, <3>2, <3>3 DEF InDir
    <3> QED
      BY <2>1, <3>4, <3>5
  <2>3. ASSUME NEW x, x \in Under(tree, y, depth + 1) PROVE x \in Blocks(n)
    <3>1. PICK z \in InDir(tree, y) : x = z \/ x \in Under(tree, z, depth)
      BY <2>1, <2>3
    <3>2. PICK k \in Listed(tree, d) :
            z = [path |-> Append(y.path, tree[d][k].name), entry |-> tree[d][k]]
      BY <1>1 DEF InDir
    <3>3. k \in 1 .. n
      BY <1>2 DEF Listed
    <3>4. x \in Block(tree, y, k, depth)
      BY <1>1, <3>1, <3>2 DEF Block
    <3> QED
      BY <3>3, <3>4
  <2> QED
    BY <2>2, <2>3
<1> QED
  BY <1>1, <1>3, <1>8, <1>9

(* printTree shows what lies below the root.                               *)
LEMMA TreeShown ==
  ASSUME NEW tree, WellFormed(tree), Apart(tree)
  PROVE  printTree(tree) \in Seq(Entries) /\ Lists(printTree(tree), Contents(tree))
<1>1. PICK f \in [0 .. Depth -> [DOMAIN tree -> Seq(Entries)]] :
        /\ f[0] = [d \in DOMAIN tree |-> <<>>]
        /\ \A i \in 1 .. Depth : f[i] = Shows(tree, f[i - 1])
        /\ printTree(tree) = f[Depth][Root]
  BY ShownIs
<1>2. Depth \in Nat
  BY PathsAssumption
<1> DEFINE Done(k) == \A y \in Places(tree) : IsDir(y.entry) =>
                        Lists(f[k][y.entry.at], Under(tree, y, k))
           S == {k \in Nat : k <= Depth => Done(k)}
<1>3. ASSUME NEW k \in Nat, \A m \in 0 .. k - 1 : m \in S
      PROVE  k \in S
  <2> SUFFICES ASSUME k <= Depth, NEW y \in Places(tree), IsDir(y.entry)
               PROVE  Lists(f[k][y.entry.at], Under(tree, y, k))
    OBVIOUS
  <2>1. y.entry.at \in DOMAIN tree
    BY Deeper
  <2>2. CASE k = 0
    <3>1. f[k][y.entry.at] = <<>> /\ Under(tree, y, k) = {}
      BY <1>1, <2>1, <2>2, UnderNext
    <3> QED
      BY <3>1, ListsFew
  <2>3. CASE k # 0
    <3>1. PICK m \in Nat : /\ m = k - 1 /\ k = m + 1 /\ m \in 0 .. k - 1
                           /\ m \in 0 .. Depth /\ m <= Depth
      BY <1>2, <2>3
    <3>2. m \in S
      <4> HIDE DEF S
      <4> QED
        BY <1>3, <3>1
    <3>3. \A z \in Places(tree) : IsDir(z.entry) => Lists(f[m][z.entry.at], Under(tree, z, m))
      BY <3>1, <3>2
    <3>4. f[m] \in [DOMAIN tree -> Seq(Entries)] /\ f[k] = Shows(tree, f[m])
      BY <1>1, <1>2, <2>3, <3>1
    <3>5. PICK below : below = f[m]
      OBVIOUS
    <3>6. Lists(Shows(tree, below)[y.entry.at], Under(tree, y, m + 1))
      BY <3>3, <3>4, <3>5, RoundShows
    <3> QED
      BY <3>1, <3>4, <3>5, <3>6
  <2> QED
    BY <2>2, <2>3
<1>4. Nat \subseteq S
  <2> HIDE DEF S
  <2> QED
    BY <1>3, AllNumbers
<1>5. Done(Depth)
  BY <1>2, <1>4
<1>6. RootItself \in Places(tree) /\ IsDir(RootItself.entry) /\ RootItself.entry.at = Root
  BY RootIsPlace DEF RootItself
<1>7. Lists(f[Depth][Root], Under(tree, RootItself, Depth))
  BY <1>5, <1>6
<1>8. printTree(tree) \in Seq(Entries)
  <2>1. Root \in DOMAIN tree /\ Depth \in 0 .. Depth
    BY <1>2, EntriesAre
  <2> QED
    BY <1>1, <2>1
<1> QED
  BY <1>1, <1>7, <1>8, ContentsBelow

(* With the kernel's stringCompare, if no name is taken for one beside it, *)
(* tree shows every entry as often as it has a path, which is once if      *)
(* every directory lies in one place, down to the depth it is looked at    *)
(* (printTree).                                                            *)
THEOREM TreeAlwaysShowsAll ==
  ASSUME KernelsSame PROVE ShellSpec => []TreeShowsAll
<1>1. PathsTypeOK => TreeShowsAll
  <2> SUFFICES ASSUME PathsTypeOK, SiblingsApart(disk)
               PROVE  /\ ToSet(printTree(disk)) = {x.entry : x \in Contents(disk)}
                      /\ Len(printTree(disk)) = Cardinality(Contents(disk))
    BY Zenon DEF TreeShowsAll
  <2>1. WellFormed(disk) /\ Apart(disk)
    BY SamesStart DEF PathsTypeOK, Apart
  <2> QED
    BY <2>1, TreeShown, ListsAll
<1> QED
  BY <1>1, ShellTypeCorrect, PTL

-----------------------------------------------------------------------------
(* What callbacks that change the tree do.                                 *)

(* What is left when an entry is removed: all others, in their order.      *)
LEMMA RemoveAtIs ==
  ASSUME NEW S, NEW s \in Seq(S), NEW i \in 1 .. Len(s), NEW r, r = RemoveAt(s, i)
  PROVE  /\ r \in Seq(S) /\ Len(r) = Len(s) - 1
         /\ \A k \in 1 .. Len(r) : r[k] = IF k < i THEN s[k] ELSE s[k + 1]
<1>1. PICK n \in Nat : n = Len(s) /\ \A k \in 1 .. n : s[k] \in S
  BY ElementOfSeq
<1>2. PICK a \in Nat, b \in Nat : a = i - 1 /\ b = i + 1 /\ a <= n - 1 /\ a + 1 <= n
  BY <1>1
<1>3. PICK u : u = SubSeq(s, 1, a)
  OBVIOUS
<1>4. PICK v : v = SubSeq(s, b, n)
  OBVIOUS
<1>5. u \in Seq(S) /\ Len(u) = a /\ \A k \in 1 .. a : u[k] = s[k]
  <2>1. \A k \in 1 .. a : s[k] \in S
    BY <1>1, <1>2
  <2>2. u \in Seq(S)
    BY <1>3, <2>1, SubSeqProperties
  <2>3. Len(u) = IF 1 <= a THEN a - 1 + 1 ELSE 0
    BY <1>3, <2>1, SubSeqProperties
  <2>4. \A k \in 1 .. a - 1 + 1 : u[k] = s[1 + k - 1]
    BY <1>3, <2>1, SubSeqProperties
  <2>5. \A k \in 1 .. a : k \in 1 .. a - 1 + 1 /\ 1 + k - 1 = k
    OBVIOUS
  <2> QED
    BY <2>2, <2>3, <2>4, <2>5
<1>6. v \in Seq(S) /\ Len(v) = n - i /\ \A k \in 1 .. n - i : v[k] = s[i + k]
  <2>1. \A k \in b .. n : s[k] \in S
    BY <1>1, <1>2
  <2>2. v \in Seq(S)
    BY <1>4, <2>1, SubSeqProperties
  <2>3. Len(v) = IF b <= n THEN n - b + 1 ELSE 0
    BY <1>4, <2>1, SubSeqProperties
  <2>4. \A k \in 1 .. n - b + 1 : v[k] = s[b + k - 1]
    BY <1>4, <2>1, SubSeqProperties
  <2>5. \A k \in 1 .. n - i : k \in 1 .. n - b + 1 /\ b + k - 1 = i + k
    BY <1>2
  <2> QED
    BY <1>1, <1>2, <2>2, <2>3, <2>4, <2>5, SMTT(30)
<1>7. r = u \o v
  BY <1>1, <1>2, <1>3, <1>4 DEF RemoveAt
<1>8. r \in Seq(S) /\ Len(r) = n - 1
  <2>1. u \o v \in Seq(S) /\ Len(u \o v) = Len(u) + Len(v)
    BY <1>5, <1>6, ConcatProperties
  <2> QED
    BY <1>2, <1>5, <1>6, <1>7, <2>1
<1>9. ASSUME NEW k \in 1 .. n - 1 PROVE r[k] = IF k < i THEN s[k] ELSE s[k + 1]
  <2>1. \A j \in 1 .. Len(u) + Len(v) : (u \o v)[j] = IF j <= Len(u) THEN u[j] ELSE v[j - Len(u)]
    BY <1>5, <1>6, ConcatProperties
  <2>2. k \in 1 .. Len(u) + Len(v) /\ (k <= Len(u) <=> k < i)
    BY <1>1, <1>2, <1>5, <1>6
  <2>3. r[k] = IF k < i THEN u[k] ELSE v[k - a]
    BY <1>5, <1>7, <2>1, <2>2
  <2>4. (k < i => k \in 1 .. a) /\ (~(k < i) => k - a \in 1 .. n - i /\ i + (k - a) = k + 1)
    BY <1>1, <1>2
  <2> QED
    BY <1>5, <1>6, <2>3, <2>4
<1> QED
  BY <1>1, <1>8, <1>9

(* When a path begins another.                                             *)
LEMMA PrefixIs ==
  ASSUME NEW S, NEW s \in Seq(S), NEW t \in Seq(S)
  PROVE  IsPrefix(s, t) <=> Len(s) <= Len(t) /\ \A i \in 1 .. Len(s) : s[i] = t[i]
<1>1. PICK m \in Nat, n \in Nat : m = Len(s) /\ n = Len(t)
  BY LenProperties
<1> SUFFICES ASSUME m <= n
             PROVE  SubSeq(s, 1, m) = SubSeq(t, 1, m) <=> \A i \in 1 .. m : s[i] = t[i]
  BY <1>1 DEF IsPrefix
<1>2. (\A i \in 1 .. m : s[i] \in S) /\ (\A i \in 1 .. m : t[i] \in S)
  BY <1>1, ElementOfSeq
<1>3. PICK u : u = SubSeq(s, 1, m)
  OBVIOUS
<1>4. PICK v : v = SubSeq(t, 1, m)
  OBVIOUS
<1>5. \A i \in 1 .. m - 1 + 1 : i \in 1 .. m /\ 1 + i - 1 = i
  OBVIOUS
<1>6. u \in Seq(S) /\ Len(u) = m /\ \A i \in 1 .. m : u[i] = s[i]
  <2>1. u \in Seq(S)
    BY <1>2, <1>3, SubSeqProperties
  <2>2. Len(u) = IF 1 <= m THEN m - 1 + 1 ELSE 0
    BY <1>2, <1>3, SubSeqProperties
  <2>3. \A i \in 1 .. m - 1 + 1 : u[i] = s[1 + i - 1]
    BY <1>2, <1>3, SubSeqProperties
  <2> QED
    BY <1>5, <2>1, <2>2, <2>3
<1>7. v \in Seq(S) /\ Len(v) = m /\ \A i \in 1 .. m : v[i] = t[i]
  <2>1. v \in Seq(S)
    BY <1>2, <1>4, SubSeqProperties
  <2>2. Len(v) = IF 1 <= m THEN m - 1 + 1 ELSE 0
    BY <1>2, <1>4, SubSeqProperties
  <2>3. \A i \in 1 .. m - 1 + 1 : v[i] = t[1 + i - 1]
    BY <1>2, <1>4, SubSeqProperties
  <2> QED
    BY <1>5, <2>1, <2>2, <2>3
<1>8. ASSUME \A i \in 1 .. m : s[i] = t[i] PROVE u = v
  <2>1. u \in [1 .. m -> S] /\ v \in [1 .. m -> S]
    BY <1>6, <1>7, LenProperties
  <2>2. \A i \in 1 .. m : u[i] = v[i]
    BY <1>6, <1>7, <1>8
  <2> QED
    BY <2>1, <2>2
<1>9. ASSUME u = v PROVE \A i \in 1 .. m : s[i] = t[i]
  BY <1>6, <1>7, <1>9
<1> QED
  BY <1>3, <1>4, <1>8, <1>9

(* A path begins that of an entry if it begins that of its directory, or   *)
(* is the entry's own.                                                     *)
LEMMA PrefixNext ==
  ASSUME NEW tree, WellFormed(tree), NEW y \in Places(tree), IsDir(y.entry),
         NEW x \in InDir(tree, y), NEW path \in Seq(Seq(Characters))
  PROVE  IsPrefix(path, x.path) <=> IsPrefix(path, y.path) \/ path = x.path
<1>1. /\ x \in Places(tree) /\ Len(x.path) = Len(y.path) + 1
      /\ \A i \in 1 .. Len(y.path) : x.path[i] = y.path[i]
  BY StepDown
<1>2. PICK q \in Seq(Seq(Characters)), p \in Seq(Seq(Characters)) : q = y.path /\ p = x.path
  BY <1>1 DEF Places
<1>3. PICK n \in Nat, m \in Nat : n = Len(q) /\ m = Len(path)
  BY LenProperties
<1>4. Len(p) = n + 1 /\ \A i \in 1 .. n : p[i] = q[i]
  BY <1>1, <1>2, <1>3
<1>5. IsPrefix(path, q) <=> m <= n /\ \A i \in 1 .. m : path[i] = q[i]
  <2>1. PICK S : S = Seq(Characters)
    OBVIOUS
  <2>2. path \in Seq(S) /\ q \in Seq(S)
    BY <2>1
  <2>3. IsPrefix(path, q) <=>
          Len(path) <= Len(q) /\ \A i \in 1 .. Len(path) : path[i] = q[i]
    BY <2>2, PrefixIs
  <2> QED
    BY <1>3, <2>3
<1>6. IsPrefix(path, p) <=> m <= n + 1 /\ \A i \in 1 .. m : path[i] = p[i]
  <2>1. PICK S : S = Seq(Characters)
    OBVIOUS
  <2>2. path \in Seq(S) /\ p \in Seq(S)
    BY <2>1
  <2>3. IsPrefix(path, p) <=>
          Len(path) <= Len(p) /\ \A i \in 1 .. Len(path) : path[i] = p[i]
    BY <2>2, PrefixIs
  <2> QED
    BY <1>3, <1>4, <2>3
<1>7. CASE m <= n
  <2>1. \A i \in 1 .. m : p[i] = q[i]
    BY <1>4, <1>7
  <2>2. path # p
    BY <1>3, <1>4, <1>7
  <2> QED
    BY <1>2, <1>5, <1>6, <1>7, <2>1, <2>2
<1>8. CASE ~(m <= n)
  <2>1. ASSUME IsPrefix(path, p) PROVE path = p
    <3>1. m = n + 1 /\ \A i \in 1 .. m : path[i] = p[i]
      BY <1>6, <1>8, <2>1
    <3>2. path \in [1 .. m -> Seq(Characters)] /\ p \in [1 .. m -> Seq(Characters)]
      BY <1>3, <1>4, <3>1, LenProperties
    <3> QED
      BY <3>1, <3>2
  <2>2. ASSUME path = p PROVE IsPrefix(path, p)
    BY <1>3, <1>4, <1>6, <2>2
  <2> QED
    BY <1>2, <1>5, <1>8, <2>1, <2>2
<1> QED
  BY <1>7, <1>8

(* An entry lies as deep as its path has names.                            *)
LEMMA LevelLength ==
  ASSUME NEW tree, WellFormed(tree)
  PROVE  \A n \in Nat : \A x \in Level(tree, n) : x \in Places(tree) /\ Len(x.path) = n
<1>1. \A n \in Nat : Level(tree, n) \subseteq Places(tree)
  BY LevelNext
<1> DEFINE S == {n \in Nat : \A x \in Level(tree, n) : Len(x.path) = n}
<1>2. ASSUME NEW n \in Nat, \A k \in 0 .. n - 1 : k \in S
      PROVE  n \in S
  <2> SUFFICES ASSUME NEW x \in Level(tree, n) PROVE Len(x.path) = n
    OBVIOUS
  <2>1. CASE n = 0
    <3>1. x = RootItself
      BY <2>1, LevelNext
    <3> QED
      BY <2>1, <3>1 DEF RootItself
  <2>2. CASE n # 0
    <3>1. PICK m \in Nat : m = n - 1 /\ n = m + 1 /\ m \in 0 .. n - 1
      BY <2>2
    <3>2. m \in S
      <4> HIDE DEF S
      <4> QED
        BY <1>2, <3>1
    <3>3. x \in Below(tree, Level(tree, m))
      BY <3>1, LevelNext
    <3>4. PICK y \in Level(tree, m) : IsDir(y.entry) /\ x \in InDir(tree, y)
      BY <3>3 DEF Below
    <3>5. y \in Places(tree) /\ Len(y.path) = m
      BY <1>1, <3>2, <3>4
    <3>6. Len(x.path) = Len(y.path) + 1
      BY <3>4, <3>5, StepDown
    <3> QED
      BY <3>1, <3>5, <3>6
  <2> QED
    BY <2>1, <2>2
<1>3. Nat \subseteq S
  <2> HIDE DEF S
  <2> QED
    BY <1>2, AllNumbers
<1> QED
  BY <1>1, <1>3

(* In a proper tree, the contents are what is in its directories, which    *)
(* lie less deep than it is looked at.                                     *)
LEMMA ContentsIn ==
  ASSUME NEW tree, WellFormed(tree), Proper(tree)
  PROVE  /\ RootItself \in DirsOf(tree)
         /\ \A y : y \in DirsOf(tree) <=>
              \E n \in Nat : n < Depth /\ y \in Level(tree, n) /\ IsDir(y.entry)
         /\ \A x : x \in Contents(tree) <=> \E y \in DirsOf(tree) : x \in InDir(tree, y)
<1>1. Depth \in Nat /\ Level(tree, 0) = {RootItself} /\ IsDir(RootItself.entry)
  BY PathsAssumption, LevelNext, RootIsPlace
<1>2. RootItself \in DirsOf(tree)
  BY <1>1 DEF DirsOf
<1>3. Depth # 0
  <2>1. Len(RootItself.path) < Depth /\ Len(RootItself.path) = 0
    BY <1>2 DEF Proper, RootItself
  <2> QED
    BY <2>1
<1>4. ASSUME NEW y \in DirsOf(tree)
      PROVE  \E n \in Nat : n < Depth /\ y \in Level(tree, n) /\ IsDir(y.entry)
  <2>1. IsDir(y.entry) /\ (y = RootItself \/ y \in Contents(tree)) /\ Len(y.path) < Depth
    BY DEF DirsOf, Proper
  <2>2. CASE y = RootItself
    BY <1>1, <1>3, <2>1, <2>2
  <2>3. CASE y \in Contents(tree)
    <3>1. PICK n \in 1 .. Depth : y \in Level(tree, n)
      BY <2>3 DEF Contents
    <3>2. n \in Nat
      BY <1>1
    <3>3. Len(y.path) = n
      BY <3>1, <3>2, LevelLength
    <3> QED
      BY <2>1, <3>1, <3>2, <3>3
  <2> QED
    BY <2>1, <2>2, <2>3
<1>5. ASSUME NEW n \in Nat, n < Depth, NEW y \in Level(tree, n), IsDir(y.entry)
      PROVE  y \in DirsOf(tree)
  <2>1. CASE n = 0
    BY <1>1, <1>2, <1>5, <2>1
  <2>2. CASE n # 0
    <3>1. n \in 1 .. Depth
      BY <1>1, <1>5, <2>2
    <3> QED
      BY <1>5, <3>1 DEF DirsOf, Contents
  <2> QED
    BY <2>1, <2>2
<1>6. ASSUME NEW x \in Contents(tree) PROVE \E y \in DirsOf(tree) : x \in InDir(tree, y)
  <2>1. PICK n \in 1 .. Depth : x \in Level(tree, n)
    BY DEF Contents
  <2>2. PICK m \in Nat : n = m + 1 /\ m < Depth
    BY <1>1
  <2>3. x \in Below(tree, Level(tree, m))
    BY <2>1, <2>2, LevelNext
  <2>4. PICK y \in Level(tree, m) : IsDir(y.entry) /\ x \in InDir(tree, y)
    BY <2>3 DEF Below
  <2> QED
    BY <1>5, <2>2, <2>4
<1>7. ASSUME NEW y \in DirsOf(tree), NEW x \in InDir(tree, y) PROVE x \in Contents(tree)
  <2>1. PICK n \in Nat : n < Depth /\ y \in Level(tree, n) /\ IsDir(y.entry)
    BY <1>4
  <2>2. x \in Below(tree, Level(tree, n))
    BY <2>1 DEF Below
  <2>3. x \in Level(tree, n + 1) /\ n + 1 \in 1 .. Depth
    BY <1>1, <2>1, <2>2, LevelNext
  <2> QED
    BY <2>3 DEF Contents
<1> QED
  BY <1>2, <1>4, <1>5, <1>6, <1>7

(* What does not lie below a place whose entry goes, if all else stays.    *)
LEMMA LevelsCut ==
  ASSUME NEW tree, WellFormed(tree), Proper(tree), NEW rest, WellFormed(rest),
         NEW path \in Seq(Seq(Characters)), path # <<>>,
         \A z \in DirsOf(tree) : ~IsPrefix(path, z.path) =>
           InDir(rest, z) = {w \in InDir(tree, z) : w.path # path}
  PROVE  Contents(rest) = {z \in Contents(tree) : ~IsPrefix(path, z.path)}
<1>1. Depth \in Nat
  BY PathsAssumption
<1> DEFINE Left(n) == {z \in Level(tree, n) : ~IsPrefix(path, z.path)}
           S == {n \in Nat : n <= Depth => Level(rest, n) = Left(n)}
<1>2. ASSUME NEW n \in Nat, \A k \in 0 .. n - 1 : k \in S
      PROVE  n \in S
  <2> SUFFICES ASSUME n <= Depth PROVE Level(rest, n) = Left(n)
    OBVIOUS
  <2>1. CASE n = 0
    <3>1. Level(rest, n) = {RootItself} /\ Level(tree, n) = {RootItself}
      BY <2>1, LevelNext
    <3>2. ~IsPrefix(path, RootItself.path)
      <4>1. RootItself.path = <<>> /\ Len(path) \in Nat \ {0}
        BY EmptySeq DEF RootItself
      <4> QED
        BY <4>1 DEF IsPrefix
    <3> QED
      BY <3>1, <3>2
  <2>2. CASE n # 0
    <3>1. PICK m \in Nat : m = n - 1 /\ n = m + 1 /\ m \in 0 .. n - 1 /\ m < Depth
      BY <1>1, <2>2
    <3>2. m \in S
      <4> HIDE DEF S
      <4> QED
        BY <1>2, <3>1
    <3>3. Level(rest, m) = Left(m)
      BY <1>1, <3>1, <3>2
    <3>4. Level(rest, n) = Below(rest, Left(m)) /\ Level(tree, n) = Below(tree, Level(tree, m))
      BY <3>1, <3>3, LevelNext, ZenonT(30)
    <3>5. ASSUME NEW y \in Level(tree, m), IsDir(y.entry)
          PROVE  /\ y \in Places(tree) /\ y \in DirsOf(tree)
                 /\ \A x \in InDir(tree, y) :
                      IsPrefix(path, x.path) <=> IsPrefix(path, y.path) \/ path = x.path
      <4>1. y \in Places(tree) /\ y \in DirsOf(tree)
        BY <3>1, <3>5, LevelNext, ContentsIn
      <4> QED
        BY <3>5, <4>1, PrefixNext
    <3>6. ASSUME NEW x \in Level(rest, n) PROVE x \in Left(n)
      <4>1. PICK y \in Left(m) : IsDir(y.entry) /\ x \in InDir(rest, y)
        BY <3>4, <3>6, Zenon DEF Below
      <4>2. y \in Level(tree, m) /\ ~IsPrefix(path, y.path)
        BY <4>1
      <4>3. x \in InDir(tree, y) /\ x.path # path
        BY <3>5, <4>1, <4>2
      <4>4. ~IsPrefix(path, x.path)
        BY <3>5, <4>1, <4>2, <4>3
      <4>5. x \in Level(tree, n)
        BY <3>4, <4>1, <4>2, <4>3 DEF Below
      <4> QED
        BY <4>4, <4>5
    <3>7. ASSUME NEW x \in Left(n) PROVE x \in Level(rest, n)
      <4>1. x \in Level(tree, n) /\ ~IsPrefix(path, x.path)
        OBVIOUS
      <4>2. PICK y \in Level(tree, m) : IsDir(y.entry) /\ x \in InDir(tree, y)
        BY <3>4, <4>1, Zenon DEF Below
      <4>3. ~IsPrefix(path, y.path) /\ path # x.path
        BY <3>5, <4>1, <4>2
      <4>4. x \in InDir(rest, y) /\ y \in Left(m)
        BY <3>5, <4>2, <4>3
      <4> HIDE DEF Left
      <4> QED
        BY <3>4, <4>2, <4>4 DEF Below
    <3> HIDE DEF Left
    <3> QED
      BY <3>6, <3>7
  <2> QED
    BY <2>1, <2>2
<1>3. Nat \subseteq S
  <2> HIDE DEF S
  <2> QED
    BY <1>2, AllNumbers
<1>4. \A n \in 1 .. Depth : Level(rest, n) = Left(n)
  BY <1>1, <1>3
<1> QED
  BY <1>4 DEF Contents

(* It is still there, if all that goes is below it.                        *)
LEMMA LevelsStay ==
  ASSUME NEW tree, WellFormed(tree), Proper(tree), NEW rest, WellFormed(rest),
         NEW path \in Seq(Seq(Characters)),
         \A z \in DirsOf(tree) : ~IsPrefix(path, z.path) => InDir(rest, z) = InDir(tree, z)
  PROVE  \A z \in DirsOf(tree) : ~IsPrefix(path, z.path) =>
           \E n \in Nat : n < Depth /\ z \in Level(rest, n)
<1>1. Depth \in Nat
  BY PathsAssumption
<1> DEFINE S == {n \in Nat : n < Depth => \A z \in Level(tree, n) :
                   ~IsPrefix(path, z.path) => z \in Level(rest, n)}
<1>2. ASSUME NEW n \in Nat, \A k \in 0 .. n - 1 : k \in S
      PROVE  n \in S
  <2> SUFFICES ASSUME n < Depth, NEW z \in Level(tree, n), ~IsPrefix(path, z.path)
               PROVE  z \in Level(rest, n)
    OBVIOUS
  <2>1. CASE n = 0
    BY <2>1, LevelNext
  <2>2. CASE n # 0
    <3>1. PICK m \in Nat : m = n - 1 /\ n = m + 1 /\ m \in 0 .. n - 1 /\ m < Depth
      BY <1>1, <2>2
    <3>2. m \in S
      <4> HIDE DEF S
      <4> QED
        BY <1>2, <3>1
    <3>3. z \in Below(tree, Level(tree, m))
      BY <3>1, LevelNext
    <3>4. PICK y \in Level(tree, m) : IsDir(y.entry) /\ z \in InDir(tree, y)
      BY <3>3 DEF Below
    <3>5. y \in Places(tree) /\ y \in DirsOf(tree)
      BY <3>1, <3>4, LevelNext, ContentsIn
    <3>6. ~IsPrefix(path, y.path)
      BY <3>4, <3>5, PrefixNext
    <3>7. z \in InDir(rest, y) /\ y \in Level(rest, m)
      BY <3>1, <3>2, <3>4, <3>5, <3>6
    <3>8. z \in Below(rest, Level(rest, m))
      BY <3>4, <3>7 DEF Below
    <3> QED
      BY <3>1, <3>8, LevelNext
  <2> QED
    BY <2>1, <2>2
<1>3. Nat \subseteq S
  <2> HIDE DEF S
  <2> QED
    BY <1>2, AllNumbers
<1>4. ASSUME NEW z \in DirsOf(tree), ~IsPrefix(path, z.path)
      PROVE  \E n \in Nat : n < Depth /\ z \in Level(rest, n)
  <2>1. PICK n \in Nat : n < Depth /\ z \in Level(tree, n)
    BY ContentsIn
  <2> QED
    BY <1>3, <1>4, <2>1
<1> QED
  BY <1>4

(* The entries of a directory that are listed, and the paths they give.    *)
Here(tree, d) == {tree[d][i] : i \in Listed(tree, d)}

(* The entries of a place are those listed in its directory.               *)
LEMMA InDirIs ==
  ASSUME NEW tree, NEW y, NEW x
  PROVE  x \in InDir(tree, y) <=>
           \E e \in Here(tree, y.entry.at) : x = [path |-> Append(y.path, e.name), entry |-> e]
BY Zenon DEF InDir, Here

(* A tree with no other directory entries than another has no other        *)
(* directories, and stays proper.                                          *)
LEMMA ProperStays ==
  ASSUME NEW tree, WellFormed(tree), NEW rest, WellFormed(rest), DOMAIN rest = DOMAIN tree,
         \A d \in DOMAIN tree : \A e \in Here(rest, d) : IsDir(e) => e \in Here(tree, d)
  PROVE  /\ DirsOf(rest) \subseteq DirsOf(tree)
         /\ Proper(tree) /\ (\A d \in DOMAIN rest : Len(rest[d]) <= MaxEntries) => Proper(rest)
<1>1. Depth \in Nat
  BY PathsAssumption
<1>2. ASSUME NEW y \in Places(tree), IsDir(y.entry), NEW x \in InDir(rest, y), IsDir(x.entry)
      PROVE  x \in InDir(tree, y)
  <2>1. PICK d \in DOMAIN tree : d = y.entry.at
    BY <1>2, Deeper
  <2>2. PICK e \in Here(rest, d) : x = [path |-> Append(y.path, e.name), entry |-> e]
    BY <2>1, InDirIs
  <2>3. e \in Here(tree, d)
    BY <1>2, <2>2
  <2> QED
    BY <2>1, <2>2, <2>3, InDirIs
<1> DEFINE S == {n \in Nat : \A x \in Level(rest, n) : IsDir(x.entry) => x \in Level(tree, n)}
<1>3. ASSUME NEW n \in Nat, \A k \in 0 .. n - 1 : k \in S
      PROVE  n \in S
  <2> SUFFICES ASSUME NEW x \in Level(rest, n), IsDir(x.entry) PROVE x \in Level(tree, n)
    OBVIOUS
  <2>1. CASE n = 0
    BY <2>1, LevelNext
  <2>2. CASE n # 0
    <3>1. PICK m \in Nat : m = n - 1 /\ n = m + 1 /\ m \in 0 .. n - 1
      BY <2>2
    <3>2. m \in S
      <4> HIDE DEF S
      <4> QED
        BY <1>3, <3>1
    <3>3. x \in Below(rest, Level(rest, m))
      BY <3>1, LevelNext
    <3>4. PICK y \in Level(rest, m) : IsDir(y.entry) /\ x \in InDir(rest, y)
      BY <3>3 DEF Below
    <3>5. y \in Level(tree, m) /\ y \in Places(tree)
      BY <3>2, <3>4, LevelNext
    <3>6. x \in InDir(tree, y)
      BY <1>2, <3>4, <3>5
    <3>7. x \in Below(tree, Level(tree, m))
      BY <3>4, <3>5, <3>6 DEF Below
    <3> QED
      BY <3>1, <3>7, LevelNext
  <2> QED
    BY <2>1, <2>2
<1>4. Nat \subseteq S
  <2> HIDE DEF S
  <2> QED
    BY <1>3, AllNumbers
<1>5. DirsOf(rest) \subseteq DirsOf(tree)
  <2> SUFFICES ASSUME NEW x \in Contents(rest), IsDir(x.entry) PROVE x \in Contents(tree)
    BY DEF DirsOf
  <2>1. PICK n \in 1 .. Depth : x \in Level(rest, n)
    BY DEF Contents
  <2>2. n \in Nat
    BY <1>1
  <2>3. x \in Level(tree, n)
    BY <1>4, <2>1, <2>2
  <2> QED
    BY <2>3 DEF Contents
<1>6. ASSUME Proper(tree), \A d \in DOMAIN rest : Len(rest[d]) <= MaxEntries
      PROVE  Proper(rest)
  BY <1>5, <1>6 DEF Proper
<1> QED
  BY <1>5, <1>6

(* A tree that has only entries another has, each from a slot of its own.  *)
Fewer(tree, rest) ==
  /\ DOMAIN rest = DOMAIN tree
  /\ \A d \in DOMAIN tree :
       /\ Len(rest[d]) <= Len(tree[d])
       /\ \E from \in [DOMAIN rest[d] -> DOMAIN tree[d]] :
            /\ \A k, j \in DOMAIN rest[d] : from[k] = from[j] => k = j
            /\ \A k \in DOMAIN rest[d] : rest[d][k] = tree[d][from[k]]

(* All entries of a tree are, and again what is left of what is left.      *)
LEMMA FewerAgain ==
  ASSUME NEW tree, WellFormed(tree)
  PROVE  /\ Fewer(tree, tree)
         /\ \A rest, last :
              WellFormed(rest) /\ WellFormed(last) /\ Fewer(tree, rest) /\ Fewer(rest, last)
                => Fewer(tree, last)
<1>1. Fewer(tree, tree)
  <2>1. ASSUME NEW d \in DOMAIN tree
        PROVE  /\ Len(tree[d]) <= Len(tree[d])
               /\ \E from \in [DOMAIN tree[d] -> DOMAIN tree[d]] :
                    /\ \A k, j \in DOMAIN tree[d] : from[k] = from[j] => k = j
                    /\ \A k \in DOMAIN tree[d] : tree[d][k] = tree[d][from[k]]
    <3>1. PICK from : from = [k \in DOMAIN tree[d] |-> k]
      OBVIOUS
    <3>2. from \in [DOMAIN tree[d] -> DOMAIN tree[d]] /\ \A k \in DOMAIN tree[d] : from[k] = k
      BY <3>1
    <3>3. Len(tree[d]) \in Nat
      BY EntriesAre
    <3>4. Len(tree[d]) <= Len(tree[d])
      BY <3>3
    <3> QED
      BY <3>2, <3>4
  <2> QED
    BY <2>1, Zenon DEF Fewer
<1>2. ASSUME NEW rest, NEW last, WellFormed(rest), WellFormed(last),
             Fewer(tree, rest), Fewer(rest, last)
      PROVE  Fewer(tree, last)
  <2>1. DOMAIN rest = DOMAIN tree /\ DOMAIN last = DOMAIN tree
    BY <1>2 DEF Fewer
  <2>2. ASSUME NEW d \in DOMAIN tree
        PROVE  /\ Len(last[d]) <= Len(tree[d])
               /\ \E from \in [DOMAIN last[d] -> DOMAIN tree[d]] :
                    /\ \A k, j \in DOMAIN last[d] : from[k] = from[j] => k = j
                    /\ \A k \in DOMAIN last[d] : last[d][k] = tree[d][from[k]]
    <3>1. Len(rest[d]) <= Len(tree[d]) /\ Len(last[d]) <= Len(rest[d])
      BY <1>2, <2>1 DEF Fewer
    <3>2. Len(tree[d]) \in Nat /\ Len(rest[d]) \in Nat /\ Len(last[d]) \in Nat
      BY <1>2, <2>1, EntriesAre
    <3>3. PICK f \in [DOMAIN rest[d] -> DOMAIN tree[d]] :
            /\ \A k, j \in DOMAIN rest[d] : f[k] = f[j] => k = j
            /\ \A k \in DOMAIN rest[d] : rest[d][k] = tree[d][f[k]]
      BY <1>2, <2>1, Zenon DEF Fewer
    <3>4. PICK g \in [DOMAIN last[d] -> DOMAIN rest[d]] :
            /\ \A k, j \in DOMAIN last[d] : g[k] = g[j] => k = j
            /\ \A k \in DOMAIN last[d] : last[d][k] = rest[d][g[k]]
      BY <1>2, <2>1, Zenon DEF Fewer
    <3>5. PICK from : from = [k \in DOMAIN last[d] |-> f[g[k]]]
      OBVIOUS
    <3>6. /\ from \in [DOMAIN last[d] -> DOMAIN tree[d]]
          /\ \A k \in DOMAIN last[d] : g[k] \in DOMAIN rest[d] /\ from[k] = f[g[k]]
      BY <3>3, <3>4, <3>5
    <3>7. \A k, j \in DOMAIN last[d] : from[k] = from[j] => k = j
      BY <3>3, <3>4, <3>6
    <3>8. \A k \in DOMAIN last[d] : last[d][k] = tree[d][from[k]]
      BY <3>3, <3>4, <3>6
    <3>9. Len(last[d]) <= Len(tree[d])
      BY <3>1, <3>2
    <3> QED
      BY <3>6, <3>7, <3>8, <3>9
  <2> QED
    BY <2>1, <2>2, Zenon DEF Fewer
<1> QED
  BY <1>1, <1>2, Zenon

(* With fewer entries, what was apart and proper remains so.               *)
LEMMA FewerKeeps ==
  ASSUME NEW tree, WellFormed(tree), NEW rest, WellFormed(rest), Fewer(tree, rest)
  PROVE  /\ SiblingsApart(tree) => SiblingsApart(rest)
         /\ Proper(tree) => Proper(rest)
         /\ Proper(tree) /\ AllApart(tree) => AllApart(rest)
<1>1. DOMAIN rest = DOMAIN tree
  BY DEF Fewer
<1>2. ASSUME NEW d \in DOMAIN tree
      PROVE  \E from \in [DOMAIN rest[d] -> DOMAIN tree[d]] :
               /\ \A k, j \in DOMAIN rest[d] : from[k] = from[j] => k = j
               /\ \A k \in DOMAIN rest[d] : rest[d][k] = tree[d][from[k]]
  BY Zenon DEF Fewer
<1>3. ASSUME SiblingsApart(tree) PROVE SiblingsApart(rest)
  <2> SUFFICES ASSUME NEW d \in DOMAIN tree, NEW i \in Listed(rest, d), NEW k \in Listed(rest, d),
                      i # k
               PROVE  ~Same(rest[d][i].name, rest[d][k].name)
    BY <1>1 DEF SiblingsApart
  <2>1. PICK from \in [DOMAIN rest[d] -> DOMAIN tree[d]] :
          /\ \A l, j \in DOMAIN rest[d] : from[l] = from[j] => l = j
          /\ \A l \in DOMAIN rest[d] : rest[d][l] = tree[d][from[l]]
    BY <1>2
  <2>2. /\ i \in DOMAIN rest[d] /\ ~Hidden(rest[d][i])
        /\ k \in DOMAIN rest[d] /\ ~Hidden(rest[d][k])
    BY DEF Listed
  <2>3. PICK a \in DOMAIN tree[d], b \in DOMAIN tree[d] : a = from[i] /\ b = from[k]
    BY <2>1, <2>2
  <2>4. a # b /\ rest[d][i] = tree[d][a] /\ rest[d][k] = tree[d][b]
    BY <2>1, <2>2, <2>3
  <2>5. a \in Listed(tree, d) /\ b \in Listed(tree, d)
    BY <2>2, <2>3, <2>4 DEF Listed
  <2> QED
    BY <1>3, <2>4, <2>5 DEF SiblingsApart
<1>4. \A d \in DOMAIN tree : \A i \in DOMAIN rest[d] : rest[d][i] \in EntriesOf(tree, d)
  <2> TAKE d \in DOMAIN tree
  <2> TAKE i \in DOMAIN rest[d]
  <2>1. PICK from \in [DOMAIN rest[d] -> DOMAIN tree[d]] :
          \A l \in DOMAIN rest[d] : rest[d][l] = tree[d][from[l]]
    BY <1>2
  <2> QED
    BY <2>1 DEF EntriesOf
<1>5. \A d \in DOMAIN tree : Here(rest, d) \subseteq Here(tree, d)
  <2> TAKE d \in DOMAIN tree
  <2> SUFFICES ASSUME NEW e \in Here(rest, d) PROVE e \in Here(tree, d)
    OBVIOUS
  <2>1. PICK i \in DOMAIN rest[d] : ~Hidden(rest[d][i]) /\ e = rest[d][i]
    BY DEF Here, Listed
  <2>2. PICK k \in DOMAIN tree[d] : e = tree[d][k]
    BY <1>4, <2>1 DEF EntriesOf
  <2>3. k \in Listed(tree, d)
    BY <2>1, <2>2 DEF Listed
  <2> QED
    BY <2>2, <2>3 DEF Here
<1>6. ASSUME Proper(tree) PROVE Proper(rest) /\ DirsOf(rest) \subseteq DirsOf(tree)
  <2>1. \A d \in DOMAIN rest : Len(rest[d]) <= MaxEntries
    <3> TAKE d \in DOMAIN rest
    <3>1. Len(rest[d]) <= Len(tree[d]) /\ Len(tree[d]) <= MaxEntries
      BY <1>1, <1>6 DEF Fewer, Proper
    <3>2. Len(rest[d]) \in Nat /\ Len(tree[d]) \in Nat /\ MaxEntries \in Nat
      BY <1>1, EntriesAre, PathsAssumption
    <3> QED
      BY <3>1, <3>2
  <2> QED
    BY <1>1, <1>5, <1>6, <2>1, ProperStays
<1>7. ASSUME Proper(tree), AllApart(tree) PROVE AllApart(rest)
  <2>1. Proper(rest) /\ DirsOf(rest) \subseteq DirsOf(tree)
    BY <1>6, <1>7
  <2>2. Contents(rest) \subseteq Contents(tree)
    <3> SUFFICES ASSUME NEW x \in Contents(rest) PROVE x \in Contents(tree)
      OBVIOUS
    <3>1. PICK y \in DirsOf(rest) : x \in InDir(rest, y)
      BY <2>1, ContentsIn
    <3>2. y \in DirsOf(tree) /\ y.entry.at \in DOMAIN tree
      BY <2>1, ContentsAre DEF Places
    <3>3. x \in InDir(tree, y)
      BY <1>5, <3>1, <3>2, InDirIs
    <3> QED
      BY <1>7, <3>2, <3>3, ContentsIn
  <2> QED
    BY <1>3, <1>7, <2>2 DEF AllApart
<1> QED
  BY <1>3, <1>6, <1>7

(* The tree without one entry.                                             *)
Without(tree, d, i) == [tree EXCEPT ![d] = RemoveAt(@, i)]

(* It has all others.                                                      *)
LEMMA WithoutIs ==
  ASSUME NEW tree, WellFormed(tree), NEW d \in DOMAIN tree, NEW i \in DOMAIN tree[d],
         NEW rest, rest = Without(tree, d, i)
  PROVE  /\ WellFormed(rest) /\ Fewer(tree, rest) /\ DOMAIN rest = DOMAIN tree
         /\ \A x \in DOMAIN tree \ {d} : rest[x] = tree[x]
         /\ Len(rest[d]) = Len(tree[d]) - 1
         /\ Here(rest, d) = {tree[d][j] : j \in Listed(tree, d) \ {i}}
<1>1. PICK r : r = RemoveAt(tree[d], i)
  OBVIOUS
<1>2. tree[d] \in Seq(Good(DOMAIN tree)) /\ DOMAIN tree[d] = 1 .. Len(tree[d])
  BY TreesAre, EntriesAre
<1>3. PICK n \in Nat : n = Len(tree[d])
  BY EntriesAre
<1>4. /\ r \in Seq(Good(DOMAIN tree)) /\ Len(r) = n - 1
      /\ \A k \in 1 .. Len(r) : r[k] = IF k < i THEN tree[d][k] ELSE tree[d][k + 1]
  <2>1. PICK S : S = Good(DOMAIN tree)
    OBVIOUS
  <2>s. PICK s \in Seq(S) : s = tree[d]
    BY <1>2, <2>1
  <2>2. i \in 1 .. Len(s) /\ r = RemoveAt(s, i)
    BY <1>1, <1>2, <2>s
  <2>3. /\ r \in Seq(S) /\ Len(r) = Len(s) - 1
        /\ \A k \in 1 .. Len(r) : r[k] = IF k < i THEN s[k] ELSE s[k + 1]
    BY <2>2, RemoveAtIs
  <2> QED
    BY <1>3, <2>1, <2>s, <2>3
<1>5. i \in 1 .. n /\ DOMAIN tree[d] = 1 .. n /\ DOMAIN r = 1 .. n - 1
  BY <1>2, <1>3, <1>4, LenProperties
<1>6. PICK from : from = [k \in 1 .. n - 1 |-> IF k < i THEN k ELSE k + 1]
  OBVIOUS
<1>7. /\ from \in [1 .. n - 1 -> 1 .. n] /\ \A k \in 1 .. n - 1 : from[k] # i
      /\ \A k, j \in 1 .. n - 1 : from[k] = from[j] => k = j
  BY <1>5, <1>6
<1>8. \A k \in 1 .. n - 1 : r[k] = tree[d][from[k]]
  BY <1>4, <1>6
<1>9. \A j \in 1 .. n : j # i => \E k \in 1 .. n - 1 : from[k] = j
  <2> SUFFICES ASSUME NEW j \in 1 .. n, j # i PROVE \E k \in 1 .. n - 1 : from[k] = j
    OBVIOUS
  <2>1. CASE j < i
    <3>1. j \in 1 .. n - 1
      BY <1>5, <2>1
    <3> QED
      BY <1>6, <2>1, <3>1
  <2>2. CASE ~(j < i)
    <3>1. PICK k \in 1 .. n - 1 : j = k + 1 /\ ~(k < i)
      BY <1>5, <2>2
    <3> QED
      BY <1>6, <3>1
  <2> QED
    BY <2>1, <2>2
<1>10. rest = [tree EXCEPT ![d] = r]
  BY <1>1 DEF Without
<1>11. DOMAIN rest = DOMAIN tree /\ rest[d] = r /\ \A x \in DOMAIN tree \ {d} : rest[x] = tree[x]
  BY <1>10
<1>12. WellFormed(rest)
  BY <1>4, <1>10, Changed
<1>13. Fewer(tree, rest)
  <2>1. ASSUME NEW x \in DOMAIN tree
        PROVE  /\ Len(rest[x]) <= Len(tree[x])
               /\ \E f \in [DOMAIN rest[x] -> DOMAIN tree[x]] :
                    /\ \A k, j \in DOMAIN rest[x] : f[k] = f[j] => k = j
                    /\ \A k \in DOMAIN rest[x] : rest[x][k] = tree[x][f[k]]
    <3>1. CASE x = d
      <4>1. Len(rest[x]) <= Len(tree[x])
        BY <1>3, <1>4, <1>11, <3>1
      <4>2. DOMAIN rest[x] = 1 .. n - 1 /\ DOMAIN tree[x] = 1 .. n
        BY <1>5, <1>11, <3>1
      <4>3. \A k \in 1 .. n - 1 : rest[x][k] = tree[x][from[k]]
        BY <1>8, <1>11, <3>1
      <4> QED
        BY <1>7, <4>1, <4>2, <4>3, SMTT(30)
    <3>2. CASE x # d
      <4>1. Fewer(tree, tree) /\ rest[x] = tree[x]
        BY <1>11, <3>2, FewerAgain
      <4>2. /\ Len(tree[x]) <= Len(tree[x])
            /\ \E f \in [DOMAIN tree[x] -> DOMAIN tree[x]] :
                 /\ \A k, j \in DOMAIN tree[x] : f[k] = f[j] => k = j
                 /\ \A k \in DOMAIN tree[x] : tree[x][k] = tree[x][f[k]]
        BY <4>1, Zenon DEF Fewer
      <4> QED
        BY <4>1, <4>2
    <3> QED
      BY <3>1, <3>2
  <2> QED
    BY <1>11, <2>1, Zenon DEF Fewer
<1>14. Here(rest, d) = {tree[d][j] : j \in Listed(tree, d) \ {i}}
  <2>1. Here(rest, d) = {r[k] : k \in {j \in 1 .. n - 1 : ~Hidden(r[j])}}
    BY <1>5, <1>11 DEF Here, Listed
  <2>2. Listed(tree, d) = {j \in 1 .. n : ~Hidden(tree[d][j])}
    BY <1>5 DEF Listed
  <2>3. ASSUME NEW k \in 1 .. n - 1, ~Hidden(r[k])
        PROVE  r[k] \in {tree[d][j] : j \in Listed(tree, d) \ {i}}
    BY <1>7, <1>8, <2>2, <2>3
  <2>4. ASSUME NEW j \in Listed(tree, d) \ {i} PROVE tree[d][j] \in Here(rest, d)
    <3>1. PICK k \in 1 .. n - 1 : from[k] = j
      BY <1>9, <2>2
    <3>2. r[k] = tree[d][j] /\ ~Hidden(r[k])
      BY <1>8, <2>2, <3>1
    <3> QED
      BY <2>1, <3>2
  <2> QED
    BY <2>1, <2>3, <2>4
<1> QED
  BY <1>3, <1>4, <1>11, <1>12, <1>13, <1>14

(* One of the entries searched that delete_ takes for the name.            *)
Hit(tree, at, name, d, i) ==
  /\ d \in DOMAIN tree /\ i \in Listed(tree, d) /\ Same(tree[d][i].name, name)
  /\ [dir |-> d, slot |-> i] \in ToSet(Searched(tree, at))

(* delete_ does nothing, or removes such an entry.                         *)
LEMMA DeleteIs ==
  ASSUME NEW tree, WellFormed(tree), NEW at \in DOMAIN tree, NEW name,
         NEW rest, rest = delete_(tree, at, name)
  PROVE  \/ rest = tree /\ \A d, i : ~Hit(tree, at, name, d, i)
         \/ \E d, i : Hit(tree, at, name, d, i) /\ rest = Without(tree, d, i)
<1>1. PICK places : places = Searched(tree, at)
  OBVIOUS
<1>2. places \in Seq(Spots(tree))
  BY <1>1, SearchedIs
<1>3. PICK hits : hits = {n \in DOMAIN places : LET e == EntryAt(tree, places[n])
                                               IN  ~Hidden(e) /\ Same(e.name, name)}
  OBVIOUS
<1>4. PICK first : first = CHOOSE n \in hits : \A k \in hits : n <= k
  OBVIOUS
<1>5. PICK hit : hit = places[first]
  OBVIOUS
<1>6. rest = IF hits = {} THEN tree ELSE [tree EXCEPT ![hit.dir] = RemoveAt(@, hit.slot)]
  BY <1>1, <1>3, <1>4, <1>5 DEF delete_
<1>7. DOMAIN places = 1 .. Len(places) /\ hits \subseteq Nat
  BY <1>2, <1>3
<1>8. ASSUME NEW n \in DOMAIN places
      PROVE  /\ places[n].dir \in DOMAIN tree
             /\ places[n].slot \in DOMAIN tree[places[n].dir]
             /\ places[n] = [dir |-> places[n].dir, slot |-> places[n].slot]
  <2>1. places[n] \in Spots(tree)
    BY <1>2, <1>7, ElementOfSeq
  <2> QED
    BY <2>1 DEF Spots
<1>9. CASE hits = {}
  <2>1. ASSUME NEW d, NEW i, Hit(tree, at, name, d, i) PROVE FALSE
    <3>1. PICK n \in DOMAIN places : places[n] = [dir |-> d, slot |-> i]
      BY <1>1, <2>1 DEF Hit, ToSet
    <3>2. EntryAt(tree, places[n]) = tree[d][i]
      BY <3>1 DEF EntryAt
    <3>3. n \in hits
      BY <1>3, <2>1, <3>2 DEF Hit, Listed
    <3> QED
      BY <1>9, <3>3
  <2> QED
    BY <1>6, <1>9, <2>1
<1>10. CASE hits # {}
  <2>1. first \in hits
    BY <1>4, <1>7, <1>10, LeastIs
  <2>2. PICK d, i : d = hit.dir /\ i = hit.slot
    OBVIOUS
  <2>3. first \in DOMAIN places /\ ~Hidden(tree[d][i]) /\ Same(tree[d][i].name, name)
    BY <1>3, <1>5, <2>1, <2>2 DEF EntryAt
  <2>4. d \in DOMAIN tree /\ i \in DOMAIN tree[d] /\ hit = [dir |-> d, slot |-> i]
    BY <1>5, <1>8, <2>2, <2>3
  <2>5. hit \in ToSet(places)
    BY <1>5, <2>3 DEF ToSet
  <2>6. Hit(tree, at, name, d, i)
    BY <1>1, <2>3, <2>4, <2>5 DEF Hit, Listed
  <2>7. rest = Without(tree, d, i)
    BY <1>6, <1>10, <2>2 DEF Without
  <2> QED
    BY <2>6, <2>7
<1> QED
  BY <1>9, <1>10

(* What is in sequences that are joined.                                   *)
LEMMA JoinedHas ==
  ASSUME NEW S, NEW s \in Seq(S), NEW t \in Seq(S)
  PROVE  ToSet(s \o t) = ToSet(s) \cup ToSet(t)
<1>1. /\ s \o t \in Seq(S) /\ Len(s \o t) = Len(s) + Len(t)
      /\ \A i \in 1 .. Len(s) + Len(t) : (s \o t)[i] = IF i <= Len(s) THEN s[i] ELSE t[i - Len(s)]
  BY ConcatProperties
<1>2. PICK a \in Nat, b \in Nat : a = Len(s) /\ b = Len(t)
  BY LenProperties
<1>3. DOMAIN s = 1 .. a /\ DOMAIN t = 1 .. b /\ DOMAIN (s \o t) = 1 .. a + b
  BY <1>1, <1>2, LenProperties
<1>4. PICK r : r = s \o t
  OBVIOUS
<1>5. \A i \in 1 .. a + b : r[i] = IF i <= a THEN s[i] ELSE t[i - a]
  BY <1>1, <1>2, <1>4
<1>6. ToSet(s) = {s[i] : i \in 1 .. a} /\ ToSet(t) = {t[i] : i \in 1 .. b}
      /\ ToSet(r) = {r[i] : i \in 1 .. a + b}
  BY <1>3, <1>4 DEF ToSet
<1>7. \A i \in 1 .. a : i \in 1 .. a + b /\ r[i] = s[i]
  BY <1>5
<1>8. \A i \in 1 .. b : i + a \in 1 .. a + b /\ r[i + a] = t[i]
  BY <1>5
<1>9. \A i \in 1 .. a + b : r[i] \in ToSet(s) \/ r[i] \in ToSet(t)
  <2> TAKE i \in 1 .. a + b
  <2>1. CASE i <= a
    <3>1. i \in 1 .. a /\ r[i] = s[i]
      BY <1>5, <2>1
    <3> QED
      BY <1>6, <3>1
  <2>2. CASE ~(i <= a)
    <3>1. i - a \in 1 .. b /\ r[i] = t[i - a]
      BY <1>5, <2>2
    <3> QED
      BY <1>6, <3>1
  <2> QED
    BY <2>1, <2>2
<1>10. ToSet(r) \subseteq ToSet(s) \cup ToSet(t)
  BY <1>6, <1>9
<1>11. ToSet(s) \subseteq ToSet(r)
  BY <1>6, <1>7
<1>12. ToSet(t) \subseteq ToSet(r)
  BY <1>6, <1>8
<1> QED
  BY <1>4, <1>10, <1>11, <1>12

(* What is in all the sequences that FlattenSeq joins.                     *)
LEMMA FlattenHas ==
  ASSUME NEW Elems, NEW seqs \in Seq(Seq(Elems)), NEW x
  PROVE  x \in ToSet(FlattenSeq(seqs)) <=> \E i \in 1 .. Len(seqs) : x \in ToSet(seqs[i])
<1>1. PICK N \in Nat : N = Len(seqs)
  BY LenProperties
<1>2. PICK f \in [0 .. N -> Seq(Elems)] : Flat(f, seqs) /\ FlattenSeq(seqs) = f[N]
  BY <1>1, FlattenIs
<1>3. f[0] = <<>> /\ \A i \in 1 .. N : f[i] = f[i - 1] \o seqs[i]
  BY <1>1, <1>2 DEF Flat
<1>4. \A i \in 1 .. N : seqs[i] \in Seq(Elems)
  BY <1>1, ElementOfSeq
<1> DEFINE Joins(n) == x \in ToSet(f[n]) <=> \E i \in 1 .. n : x \in ToSet(seqs[i])
           S == {n \in Nat : n <= N => Joins(n)}
<1>5. ASSUME NEW n \in Nat, \A k \in 0 .. n - 1 : k \in S
      PROVE  n \in S
  <2> SUFFICES ASSUME n <= N PROVE Joins(n)
    OBVIOUS
  <2>1. CASE n = 0
    <3>1. x \notin ToSet(<<>>)
      BY DEF ToSet
    <3>2. 1 .. n = {}
      BY <2>1
    <3> QED
      BY <1>3, <2>1, <3>1, <3>2
  <2>2. CASE n # 0
    <3>1. PICK k \in Nat : n = k + 1 /\ k \in 0 .. n - 1 /\ k <= N /\ k \in 0 .. N /\ n \in 1 .. N
      <4>1. n - 1 \in Nat
        BY <2>2
      <4> QED
        BY <4>1
    <3>2. k \in S
      <4> HIDE DEF S
      <4> QED
        BY <1>5, <3>1
    <3>3. Joins(k)
      BY <3>1, <3>2
    <3>4. f[n] = f[k] \o seqs[n]
      <4>1. n - 1 = k
        BY <3>1
      <4> QED
        BY <1>3, <3>1, <4>1
    <3>5. f[k] \in Seq(Elems) /\ seqs[n] \in Seq(Elems)
      BY <1>2, <1>4, <3>1
    <3>6. ToSet(f[n]) = ToSet(f[k]) \cup ToSet(seqs[n])
      BY <3>4, <3>5, JoinedHas
    <3>7. \A i : i \in 1 .. n <=> i \in 1 .. k \/ i = n
      BY <3>1
    <3> QED
      BY <3>3, <3>6, <3>7
  <2> QED
    BY <2>1, <2>2
<1>6. N \in S
  <2> HIDE DEF S
  <2> QED
    BY <1>5, AllNumbers
<1> QED
  BY <1>1, <1>2, <1>6

(* What a round of the loop of SlotsBelow collects.                        *)
LEMMA RoundHas ==
  ASSUME NEW tree, WellFormed(tree), NEW below \in [DOMAIN tree -> Seq(Spots(tree))],
         NEW d \in DOMAIN tree, NEW p
  PROVE  p \in ToSet(OneDeeper(tree, below)[d]) <=>
           \E i \in DOMAIN tree[d] :
             \/ p = [dir |-> d, slot |-> i]
             \/ /\ i \in Listed(tree, d) /\ IsDir(tree[d][i])
                /\ p \in ToSet(below[tree[d][i].at])
<1>1. PICK n \in Nat : n = Len(tree[d]) /\ DOMAIN tree[d] = 1 .. n
  BY EntriesAre
<1> DEFINE Inner(i) == IF IsDir(tree[d][i]) /\ ~Hidden(tree[d][i])
                         THEN below[tree[d][i].at] ELSE <<>>
           Slot(i)  == [dir |-> d, slot |-> i]
           seqs     == [i \in 1 .. n |-> Inner(i) \o <<Slot(i)>>]
<1>2. ASSUME NEW i \in 1 .. n
      PROVE  /\ Inner(i) \o <<Slot(i)>> \in Seq(Spots(tree))
             /\ p \in ToSet(Inner(i) \o <<Slot(i)>>) <=> p \in ToSet(Inner(i)) \/ p = Slot(i)
  <2>1. i \in DOMAIN tree[d]
    BY <1>1
  <2>2. IsDir(tree[d][i]) => tree[d][i].at \in DOMAIN tree
    BY <2>1, EntriesAre
  <2>3. PICK s : s = Inner(i)
    OBVIOUS
  <2>4. s \in Seq(Spots(tree))
    <3>1. <<>> \in Seq(Spots(tree))
      BY EmptySeq
    <3> QED
      BY <2>2, <2>3, <3>1
  <2>5. PICK q : q = Slot(i)
    OBVIOUS
  <2>6. q \in Spots(tree)
    BY <2>1, <2>5 DEF Spots
  <2>7. <<q>> \in Seq(Spots(tree))
    BY <2>6
  <2>8. s \o <<q>> \in Seq(Spots(tree))
    BY <2>4, <2>7, ConcatProperties
  <2>9. ToSet(s \o <<q>>) = ToSet(s) \cup ToSet(<<q>>)
    <3>1. PICK S : S = Spots(tree)
      OBVIOUS
    <3>2. PICK t : t = <<q>>
      OBVIOUS
    <3>3. s \in Seq(S) /\ t \in Seq(S)
      BY <2>4, <2>7, <3>1, <3>2
    <3>4. ToSet(s \o t) = ToSet(s) \cup ToSet(t)
      BY <3>3, JoinedHas
    <3> QED
      BY <3>2, <3>4, Zenon
  <2>10. ToSet(<<q>>) = {q}
    BY DEF ToSet
  <2> HIDE DEF Inner, Slot
  <2> QED
    BY <2>3, <2>5, <2>8, <2>9, <2>10
<1>3. \A i \in 1 .. n : p \in ToSet(Inner(i)) <=>
        IsDir(tree[d][i]) /\ ~Hidden(tree[d][i]) /\ p \in ToSet(below[tree[d][i].at])
  <2>1. p \notin ToSet(<<>>)
    BY DEF ToSet
  <2> QED
    BY <2>1
<1>4. OneDeeper(tree, below)[d] = FlattenSeq(seqs)
  BY <1>1 DEF OneDeeper
<1> HIDE DEF Inner, Slot
<1>5. seqs \in [1 .. n -> Seq(Spots(tree))] /\ \A i \in 1 .. n : seqs[i] = Inner(i) \o <<Slot(i)>>
  BY <1>2
<1> HIDE DEF seqs
<1>6. seqs \in Seq(Seq(Spots(tree))) /\ Len(seqs) = n
  BY <1>5, LenProperties
<1>7. p \in ToSet(FlattenSeq(seqs)) <=> \E i \in 1 .. n : p \in ToSet(seqs[i])
  BY <1>6, FlattenHas
<1>8. \A i \in 1 .. n : p \in ToSet(seqs[i]) <=> p \in ToSet(Inner(i)) \/ p = Slot(i)
  BY <1>2, <1>5
<1>9. \A i \in 1 .. n : i \in Listed(tree, d) <=> ~Hidden(tree[d][i])
  BY <1>1 DEF Listed
<1> QED
  BY <1>1, <1>3, <1>4, <1>7, <1>8, <1>9 DEF Slot

(* From the root all that is in directories of the tree is searched.       *)
LEMMA SearchedRoot ==
  ASSUME NEW tree, WellFormed(tree), Proper(tree), NEW p
  PROVE  p \in ToSet(Searched(tree, Root)) <=>
           \E y \in DirsOf(tree) : \E i \in DOMAIN tree[y.entry.at] :
             p = [dir |-> y.entry.at, slot |-> i]
<1>1. PICK f \in [0 .. Depth -> [DOMAIN tree -> Seq(Spots(tree))]] :
        /\ f[0] = [d \in DOMAIN tree |-> <<>>]
        /\ \A i \in 1 .. Depth : f[i] = OneDeeper(tree, f[i - 1])
        /\ \A at : SlotsBelow(tree, at) = f[Depth][at]
  BY BelowIs
<1>2. Depth \in Nat
  BY PathsAssumption
<1> DEFINE In(k, d) == p \in ToSet(f[k][d])
           Dir(n, y) == y \in Level(tree, n) /\ IsDir(y.entry)
           Slots(d) == \E i \in DOMAIN tree[d] : p = [dir |-> d, slot |-> i]
<1>3. ASSUME NEW n \in Nat, NEW y, Dir(n, y)
      PROVE  y \in Places(tree) /\ y.entry.at \in DOMAIN tree
  BY <1>3, LevelsAre DEF Places
<1>4. ASSUME NEW n \in Nat, NEW y, Dir(n, y), NEW k \in Nat, k < Depth
      PROVE  In(k + 1, y.entry.at) <=>
               \/ Slots(y.entry.at)
               \/ \E x \in InDir(tree, y) : Dir(n + 1, x) /\ In(k, x.entry.at)
  <2>1. PICK d \in DOMAIN tree : d = y.entry.at
    BY <1>3, <1>4
  <2>2. k \in 0 .. Depth /\ k + 1 \in 1 .. Depth /\ (k + 1) - 1 = k
    BY <1>2, <1>4
  <2>3. f[k] \in [DOMAIN tree -> Seq(Spots(tree))] /\ f[k + 1] = OneDeeper(tree, f[k])
    BY <1>1, <2>2
  <2>4. In(k + 1, d) <=> Slots(d) \/ \E i \in Listed(tree, d) :
                                     IsDir(tree[d][i]) /\ In(k, tree[d][i].at)
    <3>1. In(k + 1, d) <=>
            \E i \in DOMAIN tree[d] :
             \/ p = [dir |-> d, slot |-> i]
             \/ /\ i \in Listed(tree, d) /\ IsDir(tree[d][i])
                /\ In(k, tree[d][i].at)
      BY <2>3, RoundHas
    <3>2. Listed(tree, d) \subseteq DOMAIN tree[d]
      BY DEF Listed
    <3> HIDE DEF In
    <3> QED
      BY <3>1, <3>2
  <2>5. \A x \in InDir(tree, y) : IsDir(x.entry) => Dir(n + 1, x)
    BY <1>4, LevelNext DEF Below
  <2>6. \A i \in Listed(tree, d) : \E x \in InDir(tree, y) : x.entry = tree[d][i]
    <3> TAKE i \in Listed(tree, d)
    <3>1. PICK x : x = [path |-> Append(y.path, tree[d][i].name), entry |-> tree[d][i]]
      OBVIOUS
    <3>2. x \in InDir(tree, y) /\ x.entry = tree[d][i]
      BY <2>1, <3>1 DEF InDir
    <3> QED
      BY <3>2
  <2>7. \A x \in InDir(tree, y) : \E i \in Listed(tree, d) : x.entry = tree[d][i]
    BY <2>1 DEF InDir
  <2>8. \A x : Dir(n + 1, x) => IsDir(x.entry)
    OBVIOUS
  <2> HIDE DEF In, Dir, Slots
  <2> QED
    BY <2>1, <2>4, <2>5, <2>6, <2>7, <2>8
<1>5. \A y : y \in DirsOf(tree) <=> \E n \in Nat : n < Depth /\ Dir(n, y)
  BY ContentsIn
<1> HIDE DEF Dir
<1>6. ASSUME In(Depth, Root) PROVE \E y \in DirsOf(tree) : Slots(y.entry.at)
  <2> DEFINE Goal == \E y \in DirsOf(tree) : Slots(y.entry.at)
             S == {k \in Nat : k <= Depth =>
                     \A n \in Nat : \A y : n + k = Depth /\ Dir(n, y) /\ In(k, y.entry.at) => Goal}
  <2>1. ASSUME NEW j \in Nat, \A k \in 0 .. j - 1 : k \in S
        PROVE  j \in S
    <3> SUFFICES ASSUME j <= Depth, NEW n \in Nat, NEW y, n + j = Depth, Dir(n, y), In(j, y.entry.at)
                 PROVE  Goal
      BY Zenon
    <3>1. CASE j = 0
      <4>1. f[0][y.entry.at] = <<>>
        BY <1>1, <1>3
      <4>2. p \notin ToSet(<<>>)
        BY DEF ToSet
      <4> QED
        BY <3>1, <4>1, <4>2
    <3>2. CASE j # 0
      <4>1. PICK k \in Nat : j = k + 1 /\ k \in 0 .. j - 1 /\ k <= Depth /\ k < Depth /\ n < Depth
                             /\ (n + 1) + k = Depth
        <5>1. j - 1 \in Nat
          BY <3>2
        <5> QED
          BY <1>2, <5>1
      <4>2. CASE Slots(y.entry.at)
        <5>1. y \in DirsOf(tree)
          BY <1>5, <4>1
        <5> QED
          BY <4>2, <5>1
      <4>3. CASE ~Slots(y.entry.at)
        <5>1. k \in S
          <6> HIDE DEF S
          <6> QED
            BY <2>1, <4>1
        <5>2. PICK x \in InDir(tree, y) : Dir(n + 1, x) /\ In(k, x.entry.at)
          <6> HIDE DEF In, Slots
          <6> QED
            BY <1>4, <4>1, <4>3
        <5>3. n + 1 \in Nat
          OBVIOUS
        <5> HIDE DEF In, Goal
        <5> QED
          BY <4>1, <5>1, <5>2, <5>3
      <4> QED
        BY <4>2, <4>3
    <3> QED
      BY <3>1, <3>2
  <2>2. Depth \in S
    <3> HIDE DEF S
    <3> QED
      BY <1>2, <2>1, AllNumbers
  <2>3. Dir(0, RootItself) /\ RootItself.entry.at = Root
    BY LevelNext DEF Dir, RootItself, IsDir
  <2> HIDE DEF In, Goal
  <2>4. Goal
    BY <1>2, <1>6, <2>2, <2>3
  <2> QED
    BY <2>4 DEF Goal
<1>7. ASSUME NEW z \in DirsOf(tree), Slots(z.entry.at) PROVE In(Depth, Root)
  <2> DEFINE S == {n \in Nat : n < Depth =>
                     \A y : \A k \in Nat : k + n = Depth /\ Dir(n, y) /\ In(k, y.entry.at)
                       => In(Depth, Root)}
  <2>1. ASSUME NEW n \in Nat, \A k \in 0 .. n - 1 : k \in S
        PROVE  n \in S
    <3> SUFFICES ASSUME n < Depth, NEW y, NEW k \in Nat, k + n = Depth, Dir(n, y), In(k, y.entry.at)
                 PROVE  In(Depth, Root)
      BY Zenon
    <3> HIDE DEF In
    <3>1. CASE n = 0
      <4>1. y = RootItself
        BY <3>1, LevelNext DEF Dir
      <4> QED
        BY <1>2, <3>1, <4>1 DEF RootItself
    <3>2. CASE n # 0
      <4>1. PICK m \in Nat : n = m + 1 /\ m \in 0 .. n - 1 /\ m < Depth /\ k < Depth
                             /\ (k + 1) + m = Depth /\ k + 1 \in Nat
        <5>1. n - 1 \in Nat
          BY <3>2
        <5> QED
          BY <1>2, <5>1
      <4>2. m \in S
        <5> HIDE DEF S
        <5> QED
          BY <2>1, <4>1
      <4>3. y \in Below(tree, Level(tree, m))
        BY <4>1, LevelNext DEF Dir
      <4>4. PICK x \in Level(tree, m) : IsDir(x.entry) /\ y \in InDir(tree, x)
        BY <4>3 DEF Below
      <4>5. Dir(m, x) /\ Dir(m + 1, y)
        BY <4>1, <4>4 DEF Dir
      <4>6. In(k + 1, x.entry.at)
        BY <1>4, <4>1, <4>4, <4>5
      <4> QED
        BY <4>1, <4>2, <4>5, <4>6
    <3> QED
      BY <3>1, <3>2
  <2>2. Nat \subseteq S
    <3> HIDE DEF S
    <3> QED
      BY <2>1, AllNumbers
  <2>3. PICK n \in Nat : n < Depth /\ Dir(n, z)
    BY <1>5
  <2>4. PICK k \in Nat : k < Depth /\ (k + 1) + n = Depth /\ k + 1 \in Nat
    <3>1. Depth - n - 1 \in Nat
      BY <1>2, <2>3
    <3> QED
      BY <1>2, <3>1
  <2> HIDE DEF In, Slots
  <2>5. In(k + 1, z.entry.at)
    BY <1>4, <1>7, <2>3, <2>4
  <2>6. n \in S
    BY <2>2
  <2> QED
    BY <2>3, <2>4, <2>5, <2>6
<1>8. Searched(tree, Root) = f[Depth][Root]
  BY <1>1 DEF Searched
<1> QED
  BY <1>6, <1>7, <1>8

(* Elsewhere only the directory itself.                                    *)
LEMMA SearchedHere ==
  ASSUME NEW tree, NEW at, at # Root, NEW p
  PROVE  p \in ToSet(Searched(tree, at)) <=> \E i \in DOMAIN tree[at] : p = [dir |-> at, slot |-> i]
BY DEF Searched, ToSet

(* The last name of a path is that of the entry.                           *)
LEMMA LastName ==
  ASSUME NEW tree, WellFormed(tree), NEW y \in Places(tree), IsDir(y.entry),
         NEW x \in InDir(tree, y)
  PROVE  /\ x.path = Append(y.path, x.entry.name) /\ Last(x.path) = x.entry.name
         /\ y.path \in Seq(Seq(Characters)) /\ LegalName(x.entry.name)
         /\ \A names \in Seq(Seq(Characters)) : \A name \in Seq(Characters) :
              x.path = Append(names, name) => names = y.path /\ name = x.entry.name
<1>1. PICK i \in Listed(tree, y.entry.at) :
        x = [path |-> Append(y.path, tree[y.entry.at][i].name), entry |-> tree[y.entry.at][i]]
  BY DEF InDir
<1>2. y.path \in Seq(Seq(Characters)) /\ LegalName(x.entry.name)
  BY <1>1, Deeper
<1>3. x.entry.name \in Seq(Characters)
  BY <1>2, LegalNames
<1>4. x.path = Append(y.path, x.entry.name)
  BY <1>1
<1>5. Last(x.path) = x.entry.name
  <2>1. PICK S : S = Seq(Characters)
    OBVIOUS
  <2>2. y.path \in Seq(S) /\ x.entry.name \in S
    BY <1>2, <1>3, <2>1
  <2>3. /\ Len(x.path) = Len(y.path) + 1
        /\ x.path[Len(y.path) + 1] = x.entry.name
    BY <1>4, <2>2, AppendProperties
  <2> QED
    BY <2>3 DEF Last
<1>6. ASSUME NEW names \in Seq(Seq(Characters)), NEW name \in Seq(Characters),
             x.path = Append(names, name)
      PROVE  names = y.path /\ name = x.entry.name
  <2>1. PICK S : S = Seq(Characters)
    OBVIOUS
  <2>2. names \in Seq(S) /\ name \in S /\ y.path \in Seq(S) /\ x.entry.name \in S
    BY <1>2, <1>3, <2>1
  <2>3. Append(names, name) = Append(y.path, x.entry.name)
    BY <1>4, <1>6
  <2> QED
    BY <2>2, <2>3, AppendInjective
<1> QED
  BY <1>2, <1>4, <1>5, <1>6

(* Directories with the same path are the same.                            *)
LEMMA SamePath ==
  ASSUME NEW tree, WellFormed(tree), Apart(tree), Proper(tree),
         NEW y \in DirsOf(tree), NEW z \in DirsOf(tree), y.path = z.path
  PROVE  y = z
<1>1. IsDir(y.entry) /\ IsDir(z.entry) /\ Found(tree, y) /\ Found(tree, z)
  BY ContentsAre
<1>2. y.entry.at = z.entry.at
  BY <1>1 DEF Found
<1> QED
  BY <1>2 DEF Proper

(* Where an entry that is hit lies.                                        *)
LEMMA HitIn ==
  ASSUME NEW tree, WellFormed(tree), Proper(tree), NEW y \in DirsOf(tree),
         NEW at \in {Root, y.entry.at}, NEW name, NEW d, NEW i, Hit(tree, at, name, d, i)
  PROVE  \E z \in DirsOf(tree) : d = z.entry.at
<1>1. [dir |-> d, slot |-> i] \in ToSet(Searched(tree, at))
  BY DEF Hit
<1>2. CASE at = Root
  <2>1. PICK z \in DirsOf(tree) : \E k \in DOMAIN tree[z.entry.at] :
          [dir |-> d, slot |-> i] = [dir |-> z.entry.at, slot |-> k]
    BY <1>1, <1>2, SearchedRoot
  <2>2. d = z.entry.at
    BY <2>1
  <2> QED
    BY <2>2
<1>3. CASE at # Root
  <2>1. \E k \in DOMAIN tree[at] : [dir |-> d, slot |-> i] = [dir |-> at, slot |-> k]
    BY <1>1, <1>3, SearchedHere
  <2>2. d = y.entry.at
    BY <1>3, <2>1
  <2> QED
    BY <2>2
<1> QED
  BY <1>2, <1>3

(* Where names are apart, only the entry meant is hit.                     *)
LEMMA HitIs ==
  ASSUME NEW tree, WellFormed(tree), Proper(tree), SameStart, AllApart(tree),
         NEW y \in DirsOf(tree), NEW i \in Listed(tree, y.entry.at),
         NEW at \in {Root, y.entry.at}, NEW name, name = tree[y.entry.at][i].name
  PROVE  delete_(tree, at, name) = Without(tree, y.entry.at, i)
<1>1. Apart(tree) /\ SiblingsApart(tree)
  BY DEF Apart, AllApart
<1>2. y \in Places(tree) /\ IsDir(y.entry)
  BY ContentsAre
<1>3. PICK e : e \in DOMAIN tree /\ e = y.entry.at
  BY <1>2, Deeper
<1>4. i \in DOMAIN tree[e] /\ i \in Listed(tree, e) /\ Same(name, name)
  BY <1>1, <1>3, OnlyOne
<1>5. Hit(tree, at, name, e, i)
  <2>1. [dir |-> e, slot |-> i] \in ToSet(Searched(tree, at))
    <3>1. CASE at = Root
      BY <1>3, <1>4, <3>1, SearchedRoot
    <3>2. CASE at # Root
      BY <1>3, <1>4, <3>2, SearchedHere
    <3> QED
      BY <3>1, <3>2
  <2> QED
    BY <1>3, <1>4, <2>1 DEF Hit
<1>6. ASSUME NEW d, NEW k, Hit(tree, at, name, d, k)
      PROVE  d = e /\ k = i
  <2>1. PICK z \in DirsOf(tree) : d = z.entry.at
    BY <1>6, HitIn
  <2>2. z \in Places(tree) /\ IsDir(z.entry)
    BY ContentsAre
  <2>3. k \in Listed(tree, d) /\ Same(tree[d][k].name, name)
    BY <1>6 DEF Hit
  <2>4. PICK v : v = [path |-> Append(z.path, tree[d][k].name), entry |-> tree[d][k]]
    OBVIOUS
  <2>5. PICK w : w = [path |-> Append(y.path, name), entry |-> tree[e][i]]
    OBVIOUS
  <2>6. v \in InDir(tree, z) /\ w \in InDir(tree, y)
    BY <1>3, <1>4, <2>1, <2>3, <2>4, <2>5 DEF InDir
  <2>7. v \in Contents(tree) /\ w \in Contents(tree)
    BY <2>6, ContentsIn
  <2>8. Last(v.path) = tree[d][k].name /\ Last(w.path) = name
    <3>1. v.entry.name = tree[d][k].name /\ w.entry.name = name
      BY <1>3, <2>4, <2>5
    <3> QED
      BY <1>2, <2>2, <2>6, <3>1, LastName
  <2>9. v = w
    BY <2>3, <2>7, <2>8 DEF AllApart
  <2>10. y.path = z.path
    <3>1. v.path = Append(y.path, w.entry.name)
      BY <1>2, <2>6, <2>9, LastName
    <3>2. w.entry.name \in Seq(Characters) /\ y.path \in Seq(Seq(Characters))
      BY <1>2, <2>6, LastName, LegalNames
    <3>3. \A names \in Seq(Seq(Characters)) : \A last \in Seq(Characters) :
            v.path = Append(names, last) => names = z.path
      BY <2>2, <2>6, LastName
    <3> QED
      BY <3>1, <3>2, <3>3, Zenon
  <2>11. d = e
    BY <1>1, <1>3, <2>1, <2>10, SamePath
  <2>12. k = i
    BY <1>1, <1>3, <1>4, <2>3, <2>11 DEF SiblingsApart
  <2> QED
    BY <2>11, <2>12
<1>7. at \in DOMAIN tree
  BY <1>3, EntriesAre
<1>8. PICK rest : rest = delete_(tree, at, name)
  OBVIOUS
<1>9. PICK d, k : Hit(tree, at, name, d, k) /\ rest = Without(tree, d, k)
  BY <1>5, <1>7, <1>8, DeleteIs
<1> QED
  BY <1>3, <1>6, <1>8, <1>9

(* And a name that is apart from all hits nothing.                         *)
LEMMA NothingHit ==
  ASSUME NEW tree, WellFormed(tree), Proper(tree), NEW y \in DirsOf(tree), NEW name,
         \A x \in Contents(tree) : ~Same(Last(x.path), name)
  PROVE  delete_(tree, y.entry.at, name) = tree
<1>1. PICK at : at = y.entry.at
  OBVIOUS
<1>2. at \in DOMAIN tree
  BY <1>1, ContentsAre, Deeper
<1>3. ASSUME NEW d, NEW k, Hit(tree, at, name, d, k)
      PROVE  FALSE
  <2>1. PICK z \in DirsOf(tree) : d = z.entry.at
    BY <1>1, <1>3, HitIn
  <2>2. z \in Places(tree) /\ IsDir(z.entry)
    BY ContentsAre
  <2>3. k \in Listed(tree, d) /\ Same(tree[d][k].name, name)
    BY <1>3 DEF Hit
  <2>4. PICK v : v = [path |-> Append(z.path, tree[d][k].name), entry |-> tree[d][k]]
    OBVIOUS
  <2>5. v \in InDir(tree, z)
    BY <2>1, <2>3, <2>4 DEF InDir
  <2>6. v \in Contents(tree)
    BY <2>5, ContentsIn
  <2>7. Last(v.path) = tree[d][k].name
    <3>1. v.entry.name = tree[d][k].name
      BY <2>4
    <3> QED
      BY <2>2, <2>5, <3>1, LastName
  <2> QED
    BY <2>3, <2>6, <2>7
<1>4. PICK rest : rest = delete_(tree, at, name)
  OBVIOUS
<1>5. rest = tree
  BY <1>2, <1>3, <1>4, DeleteIs
<1> QED
  BY <1>1, <1>4, <1>5

(* A tree without the entry x in slot i of the directory y, and with no    *)
(* other change but below x.                                               *)
CutsOut(tree, rest, y, i, x) ==
  LET d == y.entry.at
  IN  /\ y \in DirsOf(tree) /\ i \in Listed(tree, d)
      /\ x = [path |-> Append(y.path, tree[d][i].name), entry |-> tree[d][i]]
      /\ \A e : e \in Here(rest, d) <=> \E j \in Listed(tree, d) \ {i} : e = tree[d][j]
      /\ \A z \in DirsOf(tree) : z # y /\ ~IsPrefix(x.path, z.path) =>
           Here(rest, z.entry.at) = Here(tree, z.entry.at)

(* What is not below x stays.                                              *)
LEMMA CutOut ==
  ASSUME NEW tree, WellFormed(tree), Proper(tree), Apart(tree), NEW rest, WellFormed(rest),
         NEW y, NEW i, NEW x, CutsOut(tree, rest, y, i, x)
  PROVE  Contents(rest) = {z \in Contents(tree) : ~IsPrefix(x.path, z.path)}
<1>0. PICK d : /\ d = y.entry.at /\ y \in DirsOf(tree) /\ i \in Listed(tree, d)
               /\ x = [path |-> Append(y.path, tree[d][i].name), entry |-> tree[d][i]]
               /\ \A e : e \in Here(rest, d) <=> \E j \in Listed(tree, d) \ {i} : e = tree[d][j]
               /\ \A z \in DirsOf(tree) : z # y /\ ~IsPrefix(x.path, z.path) =>
                    Here(rest, z.entry.at) = Here(tree, z.entry.at)
  BY Zenon DEF CutsOut
<1>1. y \in Places(tree) /\ IsDir(y.entry) /\ x \in InDir(tree, y)
  BY <1>0, ContentsAre DEF InDir
<1>2. d \in DOMAIN tree /\ d = y.entry.at
  BY <1>0, <1>1, Deeper
<1>3. x \in Places(tree) /\ x.path = Append(y.path, x.entry.name)
  BY <1>1, Deeper, LastName
<1>4. x.path \in Seq(Seq(Characters)) /\ x.path # <<>>
  <2>1. PICK S : S = Seq(Characters)
    OBVIOUS
  <2>2. y.path \in Seq(S) /\ x.entry.name \in S
    BY <1>1, <2>1, LastName, LegalNames
  <2>3. Append(y.path, x.entry.name) \in Seq(S) /\ Append(y.path, x.entry.name) # <<>>
    BY <2>2, AppendProperties
  <2> QED
    BY <1>3, <2>1, <2>3
<1>5. ASSUME NEW z \in DirsOf(tree), ~IsPrefix(x.path, z.path)
      PROVE  InDir(rest, z) = {w \in InDir(tree, z) : w.path # x.path}
  <2>1. z \in Places(tree) /\ IsDir(z.entry)
    BY ContentsAre
  <2>2. CASE z = y
    <3>1. ASSUME NEW w, w \in InDir(rest, z)
          PROVE  w \in InDir(tree, z) /\ w.path # x.path
      <4>1. PICK e \in Here(rest, d) : w = [path |-> Append(y.path, e.name), entry |-> e]
        BY <1>2, <2>2, <3>1, InDirIs
      <4>2. PICK j \in Listed(tree, d) \ {i} : e = tree[d][j]
        BY <1>0, <4>1
      <4>3. w \in InDir(tree, z)
        BY <1>2, <2>2, <4>1, <4>2 DEF InDir
      <4>4. ASSUME w.path = x.path PROVE FALSE
        <5>1. w.entry.name = x.entry.name
          <6>1. w.path = Append(y.path, x.entry.name)
            BY <1>3, <4>4
          <6>2. y.path \in Seq(Seq(Characters)) /\ x.entry.name \in Seq(Characters)
            BY <1>1, LastName, LegalNames
          <6>3. \A names \in Seq(Seq(Characters)) : \A last \in Seq(Characters) :
                  w.path = Append(names, last) => last = w.entry.name
            BY <2>1, <4>3, LastName
          <6> QED
            BY <6>1, <6>2, <6>3, Zenon
        <5>2. w.entry = tree[d][j] /\ x.entry = tree[d][i]
          BY <1>0, <4>1, <4>2
        <5>3. \A k \in DOMAIN tree[d] \ {i} : ~Same(tree[d][k].name, tree[d][i].name)
          BY <1>0, <1>2, OnlyOne
        <5>4. Same(tree[d][i].name, tree[d][i].name)
          BY <1>0, <1>2, OnlyOne
        <5>5. j \in DOMAIN tree[d] \ {i}
          BY <4>2 DEF Listed
        <5> QED
          BY <5>1, <5>2, <5>3, <5>4, <5>5
      <4> QED
        BY <4>3, <4>4
    <3>2. ASSUME NEW w \in InDir(tree, z), w.path # x.path
          PROVE  w \in InDir(rest, z)
      <4>1. PICK j \in Listed(tree, d) :
              w = [path |-> Append(y.path, tree[d][j].name), entry |-> tree[d][j]]
        BY <1>2, <2>2 DEF InDir
      <4>2. j # i
        BY <1>0, <3>2, <4>1
      <4>3. tree[d][j] \in Here(rest, d)
        BY <1>0, <4>1, <4>2
      <4> QED
        BY <1>2, <2>2, <4>1, <4>3, InDirIs
    <3> QED
      BY <3>1, <3>2
  <2>3. CASE z # y
    <3>1. Here(rest, z.entry.at) = Here(tree, z.entry.at)
      BY <1>0, <1>5, <2>3
    <3>2. \A w : w \in InDir(rest, z) <=> w \in InDir(tree, z)
      BY <3>1, InDirIs
    <3>3. ASSUME NEW w \in InDir(tree, z), w.path = x.path PROVE FALSE
      <4>1. w.path = Append(y.path, x.entry.name)
        BY <1>3, <3>3
      <4>2. y.path \in Seq(Seq(Characters)) /\ x.entry.name \in Seq(Characters)
        BY <1>1, LastName, LegalNames
      <4>3. \A names \in Seq(Seq(Characters)) : \A last \in Seq(Characters) :
              w.path = Append(names, last) => names = z.path
        BY <2>1, LastName
      <4>4. y.path = z.path
        BY <4>1, <4>2, <4>3, Zenon
      <4> QED
        BY <1>0, <2>3, <4>4, SamePath
    <3> QED
      BY <3>2, <3>3
  <2> QED
    BY <2>2, <2>3
<1>6. PICK path : path = x.path
  OBVIOUS
<1>7. /\ path \in Seq(Seq(Characters)) /\ path # <<>>
      /\ \A z \in DirsOf(tree) : ~IsPrefix(path, z.path) =>
           InDir(rest, z) = {w \in InDir(tree, z) : w.path # path}
  BY <1>4, <1>5, <1>6
<1>8. Contents(rest) = {z \in Contents(tree) : ~IsPrefix(path, z.path)}
  BY <1>7, LevelsCut
<1> QED
  BY <1>6, <1>8

(* What delete_ does in a directory of its own, or in the root.            *)
LEMMA DeletedIs ==
  ASSUME NEW tree, WellFormed(tree), Proper(tree), SameStart, AllApart(tree),
         NEW y \in DirsOf(tree), NEW x \in InDir(tree, y)
  PROVE  Contents(delete_(tree, y.entry.at, x.entry.name)) =
           {z \in Contents(tree) : ~IsPrefix(x.path, z.path)}
<1>1. PICK d \in DOMAIN tree : d = y.entry.at
  BY ContentsAre, Deeper
<1>i. PICK i \in Listed(tree, d) :
        x = [path |-> Append(y.path, tree[d][i].name), entry |-> tree[d][i]]
  BY <1>1 DEF InDir
<1>2. PICK rest : rest = delete_(tree, d, x.entry.name)
  OBVIOUS
<1>3. rest = Without(tree, d, i)
  <2>1. x.entry.name = tree[y.entry.at][i].name
    BY <1>1, <1>i
  <2> QED
    BY <1>1, <1>2, <2>1, HitIs
<1>4. i \in DOMAIN tree[d]
  BY <1>1 DEF Listed
<1>5. /\ WellFormed(rest)
      /\ \A w \in DOMAIN tree \ {d} : rest[w] = tree[w]
      /\ Here(rest, d) = {tree[d][j] : j \in Listed(tree, d) \ {i}}
  BY <1>3, <1>4, WithoutIs
<1>6. Apart(tree)
  BY DEF Apart, AllApart
<1>7. ASSUME NEW z \in DirsOf(tree), z # y
      PROVE  Here(rest, z.entry.at) = Here(tree, z.entry.at)
  <2>1. z.entry.at # d
    BY <1>1, <1>7 DEF Proper
  <2>2. z.entry.at \in DOMAIN tree
    BY ContentsAre, Deeper
  <2> QED
    BY <1>5, <2>1, <2>2 DEF Here, Listed
<1>8. Contents(rest) = {z \in Contents(tree) : ~IsPrefix(x.path, z.path)}
  <2>1. \A e : e \in Here(rest, d) <=> \E j \in Listed(tree, d) \ {i} : e = tree[d][j]
    BY <1>5
  <2>2. \A z \in DirsOf(tree) : z # y /\ ~IsPrefix(x.path, z.path) =>
          Here(rest, z.entry.at) = Here(tree, z.entry.at)
    BY <1>7
  <2>3. CutsOut(tree, rest, y, i, x)
    BY <1>1, <1>i, <2>1, <2>2 DEF CutsOut
  <2> QED
    BY <1>5, <1>6, <2>3, CutOut
<1> QED
  BY <1>1, <1>2, <1>8

(* What emptying a directory other than the root leaves.                   *)
LEMMA EmptiedIs ==
  ASSUME NEW tree, WellFormed(tree), NEW at \in DOMAIN tree, at # Root,
         NEW rest, rest = Emptied(tree, at)
  PROVE  /\ WellFormed(rest) /\ Fewer(tree, rest) /\ DOMAIN rest = DOMAIN tree
         /\ \A d \in DOMAIN tree \ {at} : rest[d] = tree[d]
<1> DEFINE Left(q) == /\ WellFormed(q) /\ Fewer(tree, q) /\ DOMAIN q = DOMAIN tree
                      /\ \A d \in DOMAIN tree \ {at} : q[d] = tree[d]
<1>1. Left(tree)
  BY FewerAgain
<1>2. ASSUME NEW q, Left(q), NEW name PROVE Left(delete_(q, at, name))
  <2>1. PICK last : last = delete_(q, at, name)
    OBVIOUS
  <2>2. CASE last = q
    BY <1>2, <2>1, <2>2
  <2>3. CASE last # q
    <3>1. PICK d, i : Hit(q, at, name, d, i) /\ last = Without(q, d, i)
      BY <1>2, <2>1, <2>3, DeleteIs
    <3>2. d \in DOMAIN q /\ i \in DOMAIN q[d]
      BY <3>1 DEF Hit, Listed
    <3>3. d = at
      <4>1. [dir |-> d, slot |-> i] \in ToSet(Searched(q, at))
        BY <3>1 DEF Hit
      <4>2. \E k \in DOMAIN q[at] : [dir |-> d, slot |-> i] = [dir |-> at, slot |-> k]
        BY <4>1, SearchedHere
      <4> QED
        BY <4>2
    <3>4. /\ WellFormed(last) /\ Fewer(q, last) /\ DOMAIN last = DOMAIN q
          /\ \A z \in DOMAIN q \ {d} : last[z] = q[z]
      BY <1>2, <3>1, <3>2, WithoutIs
    <3>5. Fewer(tree, last)
      BY <1>2, <3>4, FewerAgain
    <3> QED
      BY <1>2, <2>1, <3>3, <3>4, <3>5
  <2> QED
    BY <2>2, <2>3
<1>3. PICK Q : Q = {q \in After(tree) : Left(q)}
  OBVIOUS
<1>4. tree \in Q
  BY <1>1, <1>3 DEF After
<1>5. ASSUME NEW q \in Q, NEW name PROVE delete_(q, at, name) \in Q
  <2>1. q \in After(tree) /\ Left(q)
    BY <1>3
  <2>2. WellFormed(q) /\ at \in DOMAIN q /\ After(q) \subseteq After(tree)
    BY <2>1, AfterAre
  <2>3. delete_(q, at, name) \in After(tree)
    BY <2>2, DeleteLeaves
  <2> HIDE DEF Left
  <2> QED
    BY <1>2, <1>3, <2>1, <2>3
<1>6. rest \in Q
  BY <1>4, <1>5, EmptiedStays
<1> QED
  BY <1>3, <1>6

(* What rmCurrentDir_ leaves.                                              *)
LEMMA DirRemovedIs ==
  ASSUME NEW tree, WellFormed(tree), Proper(tree), SameStart, AllApart(tree),
         NEW y \in DirsOf(tree), NEW x \in InDir(tree, y), IsDir(x.entry)
  PROVE  /\ Contents(rmCurrentDir_(tree, x.entry.at, x.entry.name)) =
              {z \in Contents(tree) : ~IsPrefix(x.path, z.path)}
         /\ Proper(rmCurrentDir_(tree, x.entry.at, x.entry.name))
<1>1. y \in Places(tree) /\ IsDir(y.entry) /\ Apart(tree)
  BY ContentsAre DEF Apart, AllApart
<1>2. PICK d \in DOMAIN tree : d = y.entry.at
  BY <1>1, Deeper
<1>i. PICK i \in Listed(tree, d) :
        x = [path |-> Append(y.path, tree[d][i].name), entry |-> tree[d][i]]
  BY <1>2 DEF InDir
<1>3. PICK at : at = x.entry.at
  OBVIOUS
<1>4. x \in DirsOf(tree) /\ x \in Contents(tree)
  <2>1. x \in Contents(tree)
    BY <1>1, ContentsIn
  <2> QED
    BY <2>1 DEF DirsOf
<1>5. at \in DOMAIN tree
  BY <1>3, <1>4, ContentsAre, Deeper
<1>6. x.path \in Seq(Seq(Characters)) /\ x.path # <<>> /\ ~IsPrefix(x.path, y.path) /\ x # y
  <2>1. PICK S : S = Seq(Characters)
    OBVIOUS
  <2>2. y.path \in Seq(S) /\ x.entry.name \in S
    BY <1>1, <2>1, LastName, LegalNames
  <2>3. Append(y.path, x.entry.name) \in Seq(S) /\ Append(y.path, x.entry.name) # <<>>
        /\ Len(Append(y.path, x.entry.name)) = Len(y.path) + 1 /\ Len(y.path) \in Nat
    BY <2>2, AppendProperties, LenProperties
  <2>4. x.path = Append(y.path, x.entry.name)
    BY <1>1, LastName
  <2>5. x.path \in Seq(S) /\ x.path # <<>> /\ ~(Len(x.path) <= Len(y.path))
    BY <2>3, <2>4
  <2>6. ~IsPrefix(x.path, y.path)
    BY <2>2, <2>5, PrefixIs
  <2>7. x # y
    BY <2>3, <2>5
  <2> QED
    BY <2>1, <2>5, <2>6, <2>7
<1>7. at # Root /\ at # d
  <2>1. RootItself \in DirsOf(tree) /\ RootItself.entry.at = Root /\ RootItself.path = <<>>
    BY ContentsIn DEF RootItself
  <2> QED
    BY <1>2, <1>3, <1>4, <1>6, <2>1 DEF Proper
<1>8. PICK left : left = Emptied(tree, at)
  OBVIOUS
<1>9. /\ WellFormed(left) /\ Fewer(tree, left) /\ DOMAIN left = DOMAIN tree
      /\ \A z \in DOMAIN tree \ {at} : left[z] = tree[z]
  BY <1>5, <1>7, <1>8, EmptiedIs
<1>10. Proper(left) /\ AllApart(left)
  BY <1>9, FewerKeeps
<1>11. left[d] = tree[d] /\ Listed(left, d) = Listed(tree, d)
  BY <1>7, <1>9 DEF Listed
<1>12. y \in DirsOf(left)
  <2>1. ASSUME NEW z \in DirsOf(tree), ~IsPrefix(x.path, z.path)
        PROVE  InDir(left, z) = InDir(tree, z)
    <3>1. z # x
      <4>1. IsPrefix(x.path, x.path)
        <5>1. PICK S : S = Seq(Characters)
          OBVIOUS
        <5>2. x.path \in Seq(S)
          BY <1>6, <5>1
        <5>3. Len(x.path) <= Len(x.path)
          BY <5>2, LenProperties
        <5> QED
          BY <5>2, <5>3, PrefixIs
      <4> QED
        BY <2>1, <4>1
    <3>2. z.entry.at # at
      BY <1>3, <1>4, <3>1 DEF Proper
    <3>3. z.entry.at \in DOMAIN tree
      BY ContentsAre, Deeper
    <3>4. left[z.entry.at] = tree[z.entry.at]
      BY <1>9, <3>2, <3>3
    <3> QED
      BY <3>4 DEF InDir, Listed
  <2>2. PICK n \in Nat : n < Depth /\ y \in Level(left, n)
    BY <1>6, <1>9, <2>1, LevelsStay
  <2> QED
    BY <1>1, <1>9, <1>10, <2>2, ContentsIn
<1>13. PICK rest : rest = delete_(left, Root, x.entry.name)
  OBVIOUS
<1>14. rest = Without(left, d, i)
  <2>1. x.entry.name = left[y.entry.at][i].name /\ i \in Listed(left, y.entry.at)
    BY <1>2, <1>11, <1>i
  <2> QED
    BY <1>2, <1>9, <1>10, <1>12, <1>13, <2>1, HitIs
<1>15. i \in DOMAIN left[d] /\ d \in DOMAIN left
  BY <1>2, <1>9, <1>11 DEF Listed
<1>16. /\ WellFormed(rest) /\ Fewer(left, rest)
       /\ \A w \in DOMAIN left \ {d} : rest[w] = left[w]
       /\ Here(rest, d) = {left[d][j] : j \in Listed(left, d) \ {i}}
  BY <1>9, <1>14, <1>15, WithoutIs
<1>17. ASSUME NEW z \in DirsOf(tree), z # y, ~IsPrefix(x.path, z.path)
       PROVE  Here(rest, z.entry.at) = Here(tree, z.entry.at)
  <2>1. z # x
    <3>1. IsPrefix(x.path, x.path)
      <4>1. PICK S : S = Seq(Characters)
        OBVIOUS
      <4>2. x.path \in Seq(S)
        BY <1>6, <4>1
      <4>3. Len(x.path) <= Len(x.path)
        BY <4>2, LenProperties
      <4> QED
        BY <4>2, <4>3, PrefixIs
    <3> QED
      BY <1>17, <3>1
  <2>2. z.entry.at # d /\ z.entry.at # at
    BY <1>2, <1>3, <1>4, <1>17, <2>1 DEF Proper
  <2>3. z.entry.at \in DOMAIN tree
    BY ContentsAre, Deeper
  <2>4. rest[z.entry.at] = tree[z.entry.at]
    BY <1>9, <1>16, <2>2, <2>3
  <2> QED
    BY <2>4 DEF Here, Listed
<1>18. \A e : e \in Here(rest, d) <=> \E j \in Listed(tree, d) \ {i} : e = tree[d][j]
  BY <1>11, <1>16
<1>19. Contents(rest) = {z \in Contents(tree) : ~IsPrefix(x.path, z.path)}
  <2>1. CutsOut(tree, rest, y, i, x)
    BY <1>2, <1>17, <1>18, <1>i DEF CutsOut
  <2> QED
    BY <1>1, <1>16, <2>1, CutOut
<1>20. Proper(rest)
  BY <1>9, <1>10, <1>16, FewerKeeps
<1> QED
  BY <1>3, <1>8, <1>13, <1>19, <1>20 DEF rmCurrentDir_

(* Whatever is deleted, no entry is added.                                 *)
LEMMA DeleteTakes ==
  ASSUME NEW tree, WellFormed(tree), NEW at \in DOMAIN tree, NEW name,
         NEW rest, rest = delete_(tree, at, name)
  PROVE  WellFormed(rest) /\ Fewer(tree, rest) /\ DOMAIN rest = DOMAIN tree
<1>1. CASE rest = tree
  BY <1>1, FewerAgain
<1>2. CASE rest # tree
  <2>1. PICK d, i : Hit(tree, at, name, d, i) /\ rest = Without(tree, d, i)
    BY <1>2, DeleteIs
  <2>2. d \in DOMAIN tree /\ i \in DOMAIN tree[d]
    BY <2>1 DEF Hit, Listed
  <2> QED
    BY <2>1, <2>2, WithoutIs
<1> QED
  BY <1>1, <1>2

(* So it is when a directory is emptied and removed.                       *)
LEMMA RemoveDirTakes ==
  ASSUME NEW tree, WellFormed(tree), NEW at \in DOMAIN tree, NEW name,
         NEW rest, rest = rmCurrentDir_(tree, at, name)
  PROVE  WellFormed(rest) /\ Fewer(tree, rest) /\ DOMAIN rest = DOMAIN tree
<1>1. ASSUME NEW q, WellFormed(q), Fewer(tree, q), DOMAIN q = DOMAIN tree,
             NEW dir \in DOMAIN tree, NEW last, last = delete_(q, dir, name)
      PROVE  WellFormed(last) /\ Fewer(tree, last) /\ DOMAIN last = DOMAIN tree
  <2>1. WellFormed(last) /\ Fewer(q, last) /\ DOMAIN last = DOMAIN q
    BY <1>1, DeleteTakes
  <2> QED
    BY <1>1, <2>1, FewerAgain
<1>2. PICK Q : Q = {q \in After(tree) : Fewer(tree, q)}
  OBVIOUS
<1>3. tree \in Q
  BY <1>2, FewerAgain DEF After
<1>4. ASSUME NEW q \in Q, NEW word PROVE delete_(q, at, word) \in Q
  <2>1. q \in After(tree) /\ Fewer(tree, q)
    BY <1>2
  <2>2. WellFormed(q) /\ DOMAIN q = DOMAIN tree /\ After(q) \subseteq After(tree)
    BY <2>1, AfterAre
  <2>3. PICK last : last = delete_(q, at, word)
    OBVIOUS
  <2>4. last \in After(tree)
    BY <2>2, <2>3, DeleteLeaves
  <2>5. WellFormed(last) /\ Fewer(q, last)
    BY <2>2, <2>3, DeleteTakes
  <2>6. Fewer(tree, last)
    BY <2>1, <2>2, <2>5, FewerAgain
  <2> QED
    BY <1>2, <2>3, <2>4, <2>6
<1>5. PICK left : left = Emptied(tree, at)
  OBVIOUS
<1>6. left \in Q
  BY <1>3, <1>4, <1>5, EmptiedStays
<1>7. WellFormed(left) /\ DOMAIN left = DOMAIN tree /\ Fewer(tree, left)
  BY <1>2, <1>6, AfterAre
<1>8. rest = delete_(left, Root, name) /\ Root \in DOMAIN tree
  BY <1>5, EntriesAre DEF rmCurrentDir_
<1> QED
  BY <1>1, <1>7, <1>8

(* A tree with one more file.                                              *)
With(tree, d, e) == [tree EXCEPT ![d] = Append(@, e)]

(* It has nothing else.                                                    *)
LEMMA WithIs ==
  ASSUME NEW tree, WellFormed(tree), NEW d \in DOMAIN tree, NEW name, LegalName(name),
         NEW e, e = [name |-> name, kind |-> "file", at |-> Nowhere],
         NEW rest, rest = With(tree, d, e)
  PROVE  /\ WellFormed(rest) /\ DOMAIN rest = DOMAIN tree /\ ~IsDir(e)
         /\ \A z \in DOMAIN tree \ {d} : rest[z] = tree[z]
         /\ Len(rest[d]) = Len(tree[d]) + 1
         /\ Here(rest, d) = Here(tree, d) \cup {e}
<1>1. e \in Good(DOMAIN tree) /\ ~IsDir(e) /\ ~Hidden(e)
  <2>1. name \in Seq(Characters) /\ name[1] # "."
    BY DEF LegalName
  <2>2. e \in Entries /\ ~IsDir(e)
    BY <2>1 DEF Entries, IsDir, Nowhere
  <2>3. ~Hidden(e)
    BY <2>1 DEF Hidden
  <2>4. LegalName(e.name)
    OBVIOUS
  <2> QED
    BY <2>2, <2>3, <2>4 DEF Good
<1>2. PICK S : S = Good(DOMAIN tree)
  OBVIOUS
<1>3. PICK s \in Seq(S) : s = tree[d]
  BY <1>2, TreesAre
<1>4. PICK n \in Nat : n = Len(s)
  BY LenProperties
<1>5. PICK t : t = Append(s, e)
  OBVIOUS
<1>6. t \in Seq(S) /\ Len(t) = n + 1
  BY <1>1, <1>2, <1>4, <1>5, AppendProperties
<1>7. (\A k \in 1 .. n : t[k] = s[k]) /\ t[n + 1] = e
  BY <1>1, <1>2, <1>4, <1>5, AppendProperties
<1>8. DOMAIN s = 1 .. n /\ DOMAIN t = 1 .. n + 1
  BY <1>4, <1>6, LenProperties
<1>9. rest = [tree EXCEPT ![d] = t]
  BY <1>3, <1>5 DEF With
<1>10. WellFormed(rest) /\ DOMAIN rest = DOMAIN tree
  BY <1>2, <1>6, <1>9, Changed
<1>11. rest[d] = t /\ \A z \in DOMAIN tree \ {d} : rest[z] = tree[z]
  BY <1>9
<1>12. Here(rest, d) = Here(tree, d) \cup {e}
  <2>1. \A k : k \in Listed(rest, d) <=> k \in 1 .. n + 1 /\ ~Hidden(t[k])
    BY <1>8, <1>11 DEF Listed
  <2>2. \A k : k \in Listed(tree, d) <=> k \in 1 .. n /\ ~Hidden(s[k])
    BY <1>3, <1>8 DEF Listed
  <2>3. \A k : k \in 1 .. n + 1 <=> k \in 1 .. n \/ k = n + 1
    BY <1>4
  <2>4. \A k : k \in Listed(rest, d) <=> k \in Listed(tree, d) \/ k = n + 1
    BY <1>1, <1>7, <2>1, <2>2, <2>3
  <2>5. \A k \in Listed(tree, d) : rest[d][k] = tree[d][k]
    BY <1>3, <1>7, <1>11, <2>2
  <2>6. rest[d][n + 1] = e
    BY <1>7, <1>11
  <2> QED
    BY <2>4, <2>5, <2>6 DEF Here
<1> QED
  BY <1>1, <1>3, <1>4, <1>6, <1>10, <1>11, <1>12

(* What create_ leaves.                                                    *)
LEMMA CreateIs ==
  ASSUME NEW tree, NEW at, NEW name, NEW rest, rest = delete_(tree, at, name),
         NEW e, e = [name |-> name, kind |-> "file", at |-> Nowhere]
  PROVE  create_(tree, at, name) =
           IF Len(rest[at]) = MaxEntries THEN rest ELSE With(rest, at, e)
BY DEF create_, With

(* It keeps the tree proper.                                               *)
LEMMA CreateProper ==
  ASSUME NEW tree, WellFormed(tree), Proper(tree), NEW at \in DOMAIN tree,
         NEW name, LegalName(name), NEW made, made = create_(tree, at, name)
  PROVE  Proper(made)
<1>1. PICK rest : rest = delete_(tree, at, name)
  OBVIOUS
<1>2. WellFormed(rest) /\ Fewer(tree, rest) /\ DOMAIN rest = DOMAIN tree
  BY <1>1, DeleteTakes
<1>3. Proper(rest)
  BY <1>2, FewerKeeps
<1>4. PICK e : e = [name |-> name, kind |-> "file", at |-> Nowhere]
  OBVIOUS
<1>5. made = IF Len(rest[at]) = MaxEntries THEN rest ELSE With(rest, at, e)
  BY <1>1, <1>4, CreateIs
<1>6. CASE Len(rest[at]) = MaxEntries
  BY <1>3, <1>5, <1>6
<1>7. CASE Len(rest[at]) # MaxEntries
  <2>1. made = With(rest, at, e)
    BY <1>5, <1>7
  <2>2. /\ WellFormed(made) /\ DOMAIN made = DOMAIN rest /\ ~IsDir(e)
        /\ \A z \in DOMAIN rest \ {at} : made[z] = rest[z]
        /\ Len(made[at]) = Len(rest[at]) + 1
        /\ Here(made, at) = Here(rest, at) \cup {e}
    BY <1>2, <1>4, <2>1, WithIs
  <2>3. \A d \in DOMAIN rest : \A x \in Here(made, d) : IsDir(x) => x \in Here(rest, d)
    <3> TAKE d \in DOMAIN rest
    <3>1. CASE d = at
      BY <2>2, <3>1
    <3>2. CASE d # at
      BY <2>2, <3>2 DEF Here, Listed
    <3> QED
      BY <3>1, <3>2
  <2>4. \A d \in DOMAIN made : Len(made[d]) <= MaxEntries
    <3> TAKE d \in DOMAIN made
    <3>1. Len(rest[d]) <= MaxEntries /\ Len(rest[d]) \in Nat /\ MaxEntries \in Nat
      BY <1>2, <1>3, <2>2, EntriesAre, PathsAssumption DEF Proper
    <3>2. CASE d = at
      BY <1>7, <2>2, <3>1, <3>2
    <3>3. CASE d # at
      BY <2>2, <3>1, <3>3
    <3> QED
      BY <3>2, <3>3
  <2> QED
    BY <1>2, <1>3, <2>2, <2>3, <2>4, ProperStays
<1> QED
  BY <1>6, <1>7

(* The paths of a tree.                                                    *)
LEMMA PathsAre ==
  ASSUME NEW tree, WellFormed(tree), Proper(tree)
  PROVE  \A p : p \in PathsOf(tree) <=>
           \E z \in DirsOf(tree) : \E e \in Here(tree, z.entry.at) : p = Append(z.path, e.name)
<1>1. ASSUME NEW x \in Contents(tree)
      PROVE  \E z \in DirsOf(tree) : \E e \in Here(tree, z.entry.at) :
               x.path = Append(z.path, e.name)
  <2>1. PICK z \in DirsOf(tree) : x \in InDir(tree, z)
    BY ContentsIn
  <2>2. PICK e \in Here(tree, z.entry.at) : x = [path |-> Append(z.path, e.name), entry |-> e]
    BY <2>1, InDirIs
  <2>3. x.path = Append(z.path, e.name)
    BY <2>2
  <2> QED
    BY <2>3
<1>2. ASSUME NEW z \in DirsOf(tree), NEW e \in Here(tree, z.entry.at)
      PROVE  \E x \in Contents(tree) : x.path = Append(z.path, e.name)
  <2>1. PICK x : x = [path |-> Append(z.path, e.name), entry |-> e]
    OBVIOUS
  <2>2. x \in InDir(tree, z)
    BY <2>1, InDirIs
  <2>3. x \in Contents(tree) /\ x.path = Append(z.path, e.name)
    BY <2>1, <2>2, ContentsIn
  <2> QED
    BY <2>3
<1>3. \A p : p \in PathsOf(tree) <=> \E x \in Contents(tree) : p = x.path
  BY DEF PathsOf
<1>4. ASSUME NEW p \in PathsOf(tree)
      PROVE  \E z \in DirsOf(tree) : \E e \in Here(tree, z.entry.at) : p = Append(z.path, e.name)
  <2>1. PICK x \in Contents(tree) : p = x.path
    BY <1>3
  <2> QED
    BY <1>1, <2>1
<1>5. ASSUME NEW z \in DirsOf(tree), NEW e \in Here(tree, z.entry.at)
      PROVE  Append(z.path, e.name) \in PathsOf(tree)
  <2>1. PICK x \in Contents(tree) : x.path = Append(z.path, e.name)
    BY <1>2
  <2> QED
    BY <1>3, <2>1
<1> QED
  BY <1>4, <1>5

(* A tree in whose directory d there is a file of that name too, and in    *)
(* which directories are the same.                                         *)
Adds(tree, rest, d, name) ==
  /\ WellFormed(rest) /\ DOMAIN rest = DOMAIN tree
  /\ \A z \in DOMAIN tree : Len(rest[z]) <= MaxEntries
  /\ \A z \in DOMAIN tree \ {d} : rest[z] = tree[z]
  /\ \A e : IsDir(e) => (e \in Here(rest, d) <=> e \in Here(tree, d))
  /\ \A word : (\E e \in Here(rest, d) : e.name = word) <=>
               (\E e \in Here(tree, d) : e.name = word) \/ word = name

(* Its path is added to those of the tree.                                 *)
LEMMA PathAdded ==
  ASSUME NEW tree, WellFormed(tree), Proper(tree), NEW y \in DirsOf(tree),
         NEW d, d = y.entry.at, NEW name, NEW rest, Adds(tree, rest, d, name)
  PROVE  PathsOf(rest) = PathsOf(tree) \cup {Append(y.path, name)}
<1>1. WellFormed(rest) /\ DOMAIN rest = DOMAIN tree
  BY DEF Adds
<1>2. \A z \in DOMAIN tree : \A e \in Here(rest, z) : IsDir(e) => e \in Here(tree, z)
  <2> TAKE z \in DOMAIN tree
  <2>1. CASE z = d
    BY <2>1 DEF Adds
  <2>2. CASE z # d
    <3>1. rest[z] = tree[z]
      BY <2>2 DEF Adds
    <3> QED
      BY <3>1 DEF Here, Listed
  <2> QED
    BY <2>1, <2>2
<1>3. \A z \in DOMAIN rest : \A e \in Here(tree, z) : IsDir(e) => e \in Here(rest, z)
  <2> TAKE z \in DOMAIN rest
  <2>1. CASE z = d
    BY <2>1 DEF Adds
  <2>2. CASE z # d
    <3>1. rest[z] = tree[z]
      BY <1>1, <2>2 DEF Adds
    <3> QED
      BY <3>1 DEF Here, Listed
  <2> QED
    BY <2>1, <2>2
<1>4. \A z \in DOMAIN rest : Len(rest[z]) <= MaxEntries
  BY <1>1 DEF Adds
<1>5. Proper(rest) /\ DirsOf(rest) \subseteq DirsOf(tree)
  BY <1>1, <1>2, <1>4, ProperStays
<1>6. DirsOf(rest) = DirsOf(tree)
  BY <1>1, <1>3, <1>5, ProperStays
<1>7. \A p : p \in PathsOf(tree) <=>
        \E z \in DirsOf(tree) : \E e \in Here(tree, z.entry.at) : p = Append(z.path, e.name)
  BY PathsAre
<1>8. \A p : p \in PathsOf(rest) <=>
        \E z \in DirsOf(tree) : \E e \in Here(rest, z.entry.at) : p = Append(z.path, e.name)
  BY <1>1, <1>5, <1>6, PathsAre
<1>9. \A z \in DirsOf(tree) : z # y => Here(rest, z.entry.at) = Here(tree, z.entry.at)
  <2> SUFFICES ASSUME NEW z \in DirsOf(tree), z # y
               PROVE  Here(rest, z.entry.at) = Here(tree, z.entry.at)
    OBVIOUS
  <2>1. z.entry.at # d
    BY DEF Proper
  <2>2. z.entry.at \in DOMAIN tree
    BY ContentsAre, Deeper
  <2>3. rest[z.entry.at] = tree[z.entry.at]
    BY <2>1, <2>2 DEF Adds
  <2> QED
    BY <2>3 DEF Here, Listed
<1>10. ASSUME NEW p \in PathsOf(rest), p # Append(y.path, name) PROVE p \in PathsOf(tree)
  <2>1. PICK z \in DirsOf(tree) : \E e \in Here(rest, z.entry.at) : p = Append(z.path, e.name)
    BY <1>8
  <2>2. PICK e \in Here(rest, z.entry.at) : p = Append(z.path, e.name)
    BY <2>1
  <2>3. CASE z = y
    <3>1. e.name # name
      BY <1>10, <2>2, <2>3
    <3>2. PICK f \in Here(tree, d) : f.name = e.name
      BY <2>2, <2>3, <3>1, Zenon DEF Adds
    <3> QED
      BY <1>7, <2>2, <2>3, <3>2
  <2>4. CASE z # y
    BY <1>7, <1>9, <2>2, <2>4
  <2> QED
    BY <2>3, <2>4
<1>11. ASSUME NEW p \in PathsOf(tree) PROVE p \in PathsOf(rest)
  <2>1. PICK z \in DirsOf(tree) : \E e \in Here(tree, z.entry.at) : p = Append(z.path, e.name)
    BY <1>7
  <2>2. PICK e \in Here(tree, z.entry.at) : p = Append(z.path, e.name)
    BY <2>1
  <2>3. CASE z = y
    <3>1. PICK f \in Here(rest, d) : f.name = e.name
      BY <2>2, <2>3, Zenon DEF Adds
    <3> QED
      BY <1>8, <2>2, <2>3, <3>1
  <2>4. CASE z # y
    BY <1>8, <1>9, <2>2, <2>4
  <2> QED
    BY <2>3, <2>4
<1>12. Append(y.path, name) \in PathsOf(rest)
  <2>1. PICK f \in Here(rest, d) : f.name = name
    BY Zenon DEF Adds
  <2> QED
    BY <1>8, <2>1
<1> QED
  BY <1>10, <1>11, <1>12

(* A file that is written leaves the paths as they are.                    *)
LEMMA WrittenIs ==
  ASSUME NEW tree, WellFormed(tree), Proper(tree), SameStart, AllApart(tree),
         NEW y \in DirsOf(tree), NEW x \in InDir(tree, y), ~IsDir(x.entry)
  PROVE  PathsOf(create_(tree, y.entry.at, x.entry.name)) = PathsOf(tree)
<1>1. y \in Places(tree) /\ IsDir(y.entry)
  BY ContentsAre
<1>2. PICK d \in DOMAIN tree : d = y.entry.at
  BY <1>1, Deeper
<1>3. PICK i \in Listed(tree, d) :
        x = [path |-> Append(y.path, tree[d][i].name), entry |-> tree[d][i]]
  BY <1>2 DEF InDir
<1>4. PICK name : name = x.entry.name
  OBVIOUS
<1>5. name = tree[d][i].name /\ ~IsDir(tree[d][i]) /\ LegalName(name)
  <2>1. LegalName(name)
    BY <1>1, <1>4, LastName
  <2> QED
    BY <1>3, <1>4, <2>1
<1>6. PICK rest : rest = delete_(tree, d, name)
  OBVIOUS
<1>7. rest = Without(tree, d, i)
  BY <1>2, <1>5, <1>6, HitIs
<1>8. i \in DOMAIN tree[d]
  BY DEF Listed
<1>9. /\ WellFormed(rest) /\ DOMAIN rest = DOMAIN tree
      /\ \A z \in DOMAIN tree \ {d} : rest[z] = tree[z]
      /\ Len(rest[d]) = Len(tree[d]) - 1
      /\ Here(rest, d) = {tree[d][j] : j \in Listed(tree, d) \ {i}}
  BY <1>7, <1>8, WithoutIs
<1>10. PICK e : e = [name |-> name, kind |-> "file", at |-> Nowhere]
  OBVIOUS
<1>11. PICK made : made = create_(tree, d, name)
  OBVIOUS
<1>12. \A z \in DOMAIN tree : Len(tree[z]) <= MaxEntries /\ Len(tree[z]) \in Nat /\ MaxEntries \in Nat
  BY EntriesAre, PathsAssumption DEF Proper
<1>13. made = With(rest, d, e)
  <2>1. made = IF Len(rest[d]) = MaxEntries THEN rest ELSE With(rest, d, e)
    BY <1>6, <1>10, <1>11, CreateIs
  <2>2. Len(rest[d]) # MaxEntries
    BY <1>9, <1>12
  <2> QED
    BY <2>1, <2>2
<1>14. /\ WellFormed(made) /\ DOMAIN made = DOMAIN rest /\ ~IsDir(e)
       /\ \A z \in DOMAIN rest \ {d} : made[z] = rest[z]
       /\ Len(made[d]) = Len(rest[d]) + 1
       /\ Here(made, d) = Here(rest, d) \cup {e}
  <2>1. WellFormed(rest) /\ d \in DOMAIN rest /\ LegalName(name)
    BY <1>5, <1>9
  <2> QED
    BY <1>10, <1>13, <2>1, WithIs
<1>15. \A z \in DOMAIN tree : Len(made[z]) <= MaxEntries
  <2> TAKE z \in DOMAIN tree
  <2>1. CASE z = d
    BY <1>9, <1>12, <1>14, <2>1
  <2>2. CASE z # d
    BY <1>9, <1>12, <1>14, <2>2
  <2> QED
    BY <2>1, <2>2
<1>16. \A f : f \in Here(made, d) <=> f = e \/ \E j \in Listed(tree, d) \ {i} : f = tree[d][j]
  BY <1>9, <1>14
<1>17. \A f : f \in Here(tree, d) <=> \E j \in Listed(tree, d) : f = tree[d][j]
  BY DEF Here
<1>18. \A f : IsDir(f) => (f \in Here(made, d) <=> f \in Here(tree, d))
  BY <1>5, <1>14, <1>16, <1>17
<1>19. \A word : (\E f \in Here(made, d) : f.name = word) <=>
                 (\E f \in Here(tree, d) : f.name = word) \/ word = name
  <2>1. e.name = name
    BY <1>10
  <2> QED
    BY <1>5, <1>16, <1>17, <2>1
<1>20. Adds(tree, made, d, name)
  BY <1>9, <1>14, <1>15, <1>18, <1>19 DEF Adds
<1>21. PathsOf(made) = PathsOf(tree) \cup {Append(y.path, name)}
  BY <1>2, <1>20, PathAdded
<1>22. Append(y.path, name) \in PathsOf(tree)
  <2>1. x \in Contents(tree)
    BY ContentsIn
  <2>2. x.path = Append(y.path, name)
    BY <1>1, <1>4, LastName
  <2> QED
    BY <2>1, <2>2 DEF PathsOf
<1> QED
  BY <1>2, <1>4, <1>11, <1>21, <1>22

(* One that is created adds its path, if a slot is free.                   *)
LEMMA CreatedIs ==
  ASSUME NEW tree, WellFormed(tree), Proper(tree), NEW y \in DirsOf(tree),
         NEW name, LegalName(name), Len(tree[y.entry.at]) < MaxEntries,
         \A x \in Contents(tree) : ~Same(Last(x.path), name)
  PROVE  PathsOf(create_(tree, y.entry.at, name)) = PathsOf(tree) \cup {Append(y.path, name)}
<1>1. PICK d \in DOMAIN tree : d = y.entry.at
  BY ContentsAre, Deeper
<1>2. delete_(tree, d, name) = tree
  BY <1>1, NothingHit
<1>3. PICK e : e = [name |-> name, kind |-> "file", at |-> Nowhere]
  OBVIOUS
<1>4. PICK made : made = create_(tree, d, name)
  OBVIOUS
<1>5. \A z \in DOMAIN tree : Len(tree[z]) <= MaxEntries /\ Len(tree[z]) \in Nat /\ MaxEntries \in Nat
  BY EntriesAre, PathsAssumption DEF Proper
<1>6. made = With(tree, d, e)
  <2>1. made = IF Len(tree[d]) = MaxEntries THEN tree ELSE With(tree, d, e)
    BY <1>2, <1>3, <1>4, CreateIs
  <2>2. Len(tree[d]) # MaxEntries
    BY <1>1, <1>5
  <2> QED
    BY <2>1, <2>2
<1>7. /\ WellFormed(made) /\ DOMAIN made = DOMAIN tree /\ ~IsDir(e)
      /\ \A z \in DOMAIN tree \ {d} : made[z] = tree[z]
      /\ Len(made[d]) = Len(tree[d]) + 1
      /\ Here(made, d) = Here(tree, d) \cup {e}
  BY <1>3, <1>6, WithIs
<1>8. \A z \in DOMAIN tree : Len(made[z]) <= MaxEntries
  <2> TAKE z \in DOMAIN tree
  <2>1. CASE z = d
    BY <1>1, <1>5, <1>7, <2>1
  <2>2. CASE z # d
    BY <1>5, <1>7, <2>2
  <2> QED
    BY <2>1, <2>2
<1>9. \A f : IsDir(f) => (f \in Here(made, d) <=> f \in Here(tree, d))
  BY <1>7
<1>10. \A word : (\E f \in Here(made, d) : f.name = word) <=>
                 (\E f \in Here(tree, d) : f.name = word) \/ word = name
  <2>1. e.name = name
    BY <1>3
  <2>2. \A f : f \in Here(made, d) <=> f \in Here(tree, d) \/ f = e
    BY <1>7
  <2> QED
    BY <2>1, <2>2
<1>11. Adds(tree, made, d, name)
  BY <1>7, <1>8, <1>9, <1>10 DEF Adds
<1>12. PathsOf(made) = PathsOf(tree) \cup {Append(y.path, name)}
  BY <1>1, <1>11, PathAdded
<1> QED
  BY <1>1, <1>4, <1>12

(* Where the callbacks look for a path, and for which name.                *)
LEMMA ContextAt ==
  ASSUME NEW tree, WellFormed(tree), Apart(tree), NEW y \in DirsOf(tree),
         NEW name, LegalName(name), NEW path, path = Spelled(Append(y.path, name))
  PROVE  /\ changeDirAbsolute_(tree, getParentPath(path)).at = y.entry.at
         /\ set_context_by_path(tree, path) = y.entry.at
         /\ stringParseFilename(path) = name
<1>1. IsDir(y.entry) /\ Found(tree, y) /\ y \in Places(tree)
  BY ContentsAre
<1>2. y.path \in Seq(Seq(Characters)) /\ \A i \in 1 .. Len(y.path) : PlainName(y.path[i])
  BY <1>1 DEF Places
<1>3. PlainName(name)
  BY LegalNames
<1>4. /\ changeDirAbsolute_(tree, getParentPath(path)) = WalkNames(tree, y.path)
      /\ stringParseFilename(path) = name
  BY <1>2, <1>3, ContextIs
<1>5. WalkNames(tree, y.path).at = y.entry.at
  BY <1>1 DEF Found
<1> QED
  BY <1>4, <1>5 DEF set_context_by_path

(* The callbacks do to a proper tree what they are meant to.               *)
LEMMA PathFollowed ==
  ASSUME WellFormed(disk), Proper(disk), SameStart
  PROVE  FollowsPath
<1> SUFFICES ASSUME AllApart(disk)
             PROVE  /\ \A x \in Contents(disk) : LET path == Spelled(x.path) IN
                         /\ (IF IsDir(x.entry) THEN Rmdir(path) ELSE Unlink(path)) =>
                              Contents(disk') = {y \in Contents(disk) : ~IsPrefix(x.path, y.path)}
                         /\ ~IsDir(x.entry) /\ CreateOrWrite(path) => PathsOf(disk') = PathsOf(disk)
                    /\ \A names \in New(disk) :
                         /\ CreateOrWrite(Spelled(names)) /\ Len(disk[currentDir'.at]) < MaxEntries
                         /\ \A x \in Contents(disk) : ~Same(Last(x.path), Last(names))
                         => PathsOf(disk') = PathsOf(disk) \cup {names}
  BY DEF FollowsPath
<1>1. PICK tree : tree = disk
  OBVIOUS
<1>2. WellFormed(tree) /\ Proper(tree) /\ AllApart(tree) /\ Apart(tree)
  BY <1>1 DEF Apart, AllApart
<1>3. ASSUME NEW x \in Contents(tree), NEW path, path = Spelled(x.path)
      PROVE  \E y \in DirsOf(tree) :
               /\ x \in InDir(tree, y)
               /\ changeDirAbsolute_(tree, getParentPath(path)).at = y.entry.at
               /\ set_context_by_path(tree, path) = y.entry.at
               /\ stringParseFilename(path) = x.entry.name
  <2>1. PICK y \in DirsOf(tree) : x \in InDir(tree, y)
    BY <1>2, ContentsIn
  <2>2. y \in Places(tree) /\ IsDir(y.entry)
    BY <1>2, ContentsAre
  <2>3. x.path = Append(y.path, x.entry.name) /\ LegalName(x.entry.name)
    BY <1>2, <2>1, <2>2, LastName
  <2>4. PICK name : name = x.entry.name
    OBVIOUS
  <2>5. LegalName(name) /\ path = Spelled(Append(y.path, name))
    BY <1>3, <2>3, <2>4
  <2> QED
    BY <1>2, <2>1, <2>4, <2>5, ContextAt
<1>4. ASSUME NEW x \in Contents(tree), NEW path, path = Spelled(x.path),
             NEW rest, rest = IF IsDir(x.entry) THEN rmDirCallback(tree, path)
                                               ELSE unlinkCallback(tree, path)
      PROVE  Contents(rest) = {y \in Contents(tree) : ~IsPrefix(x.path, y.path)}
  <2>1. PICK y \in DirsOf(tree) : /\ x \in InDir(tree, y)
                                  /\ set_context_by_path(tree, path) = y.entry.at
                                  /\ stringParseFilename(path) = x.entry.name
    BY <1>3, <1>4
  <2>2. CASE IsDir(x.entry)
    <3>1. x \in DirsOf(tree)
      BY <2>2 DEF DirsOf
    <3>2. changeDirAbsolute_(tree, path).at = x.entry.at
      BY <1>2, <1>4, <3>1, DirectoryFound
    <3>3. rest = rmCurrentDir_(tree, x.entry.at, x.entry.name)
      BY <1>4, <2>1, <2>2, <3>2 DEF rmDirCallback
    <3> QED
      BY <1>2, <2>1, <2>2, <3>3, DirRemovedIs
  <2>3. CASE ~IsDir(x.entry)
    <3>1. rest = delete_(tree, y.entry.at, x.entry.name)
      BY <1>4, <2>1, <2>3 DEF unlinkCallback
    <3> QED
      BY <1>2, <2>1, <3>1, DeletedIs
  <2> QED
    BY <2>2, <2>3
<1>5. ASSUME NEW x \in Contents(tree), NEW path, path = Spelled(x.path), ~IsDir(x.entry)
      PROVE  PathsOf(createCallback(tree, path)) = PathsOf(tree)
  <2>1. PICK y \in DirsOf(tree) : /\ x \in InDir(tree, y)
                                  /\ set_context_by_path(tree, path) = y.entry.at
                                  /\ stringParseFilename(path) = x.entry.name
    BY <1>3, <1>5
  <2>2. createCallback(tree, path) = create_(tree, y.entry.at, x.entry.name)
    BY <2>1 DEF createCallback
  <2> QED
    BY <1>2, <1>5, <2>1, <2>2, WrittenIs
<1>6. ASSUME NEW names \in New(tree), NEW path, path = Spelled(names),
             Len(tree[changeDirAbsolute_(tree, getParentPath(path)).at]) < MaxEntries,
             \A x \in Contents(tree) : ~Same(Last(x.path), Last(names))
      PROVE  PathsOf(createCallback(tree, path)) = PathsOf(tree) \cup {names}
  <2>1. PICK y \in DirsOf(tree) : \E name \in NewNames : names = Append(y.path, name)
    BY DEF New
  <2>2. PICK name \in NewNames : names = Append(y.path, name)
    BY <2>1
  <2>3. LegalName(name) /\ name \in Seq(Characters)
    BY PathsAssumption, LegalNames
  <2>4. Last(names) = name
    <3>1. PICK S : S = Seq(Characters)
      OBVIOUS
    <3>2. y.path \in Seq(S) /\ name \in S
      BY <1>2, <2>3, <3>1, ContentsAre DEF Places
    <3>3. Len(names) = Len(y.path) + 1 /\ names[Len(y.path) + 1] = name
      BY <2>2, <3>2, AppendProperties
    <3> QED
      BY <3>3 DEF Last
  <2>5. /\ changeDirAbsolute_(tree, getParentPath(path)).at = y.entry.at
        /\ set_context_by_path(tree, path) = y.entry.at
        /\ stringParseFilename(path) = name
    BY <1>2, <1>6, <2>2, <2>3, ContextAt
  <2>6. createCallback(tree, path) = create_(tree, y.entry.at, name)
    BY <2>5 DEF createCallback
  <2>7. \A x \in Contents(tree) : ~Same(Last(x.path), name)
    BY <1>6, <2>4
  <2>8. Len(tree[y.entry.at]) < MaxEntries
    BY <1>6, <2>5
  <2>9. PathsOf(create_(tree, y.entry.at, name)) = PathsOf(tree) \cup {Append(y.path, name)}
    BY <1>2, <2>3, <2>7, <2>8, CreatedIs
  <2> QED
    BY <2>2, <2>6, <2>9
<1>7. ASSUME NEW x \in Contents(disk), NEW path, path = Spelled(x.path),
             IF IsDir(x.entry) THEN Rmdir(path) ELSE Unlink(path)
      PROVE  Contents(disk') = {y \in Contents(disk) : ~IsPrefix(x.path, y.path)}
  <2>1. PICK rest : rest = disk'
    OBVIOUS
  <2>2. rest = IF IsDir(x.entry) THEN rmDirCallback(tree, path) ELSE unlinkCallback(tree, path)
    BY <1>1, <1>7, <2>1 DEF Rmdir, Unlink
  <2>3. x \in Contents(tree)
    BY <1>1
  <2>4. Contents(rest) = {y \in Contents(tree) : ~IsPrefix(x.path, y.path)}
    BY <1>4, <1>7, <2>2, <2>3
  <2> QED
    BY <1>1, <2>1, <2>4
<1>8. ASSUME NEW x \in Contents(disk), NEW path, path = Spelled(x.path),
             ~IsDir(x.entry), CreateOrWrite(path)
      PROVE  PathsOf(disk') = PathsOf(disk)
  <2>1. PICK rest : rest = disk'
    OBVIOUS
  <2>2. rest = createCallback(tree, path)
    BY <1>1, <1>8, <2>1 DEF CreateOrWrite
  <2>3. PathsOf(rest) = PathsOf(tree)
    BY <1>1, <1>5, <1>8, <2>2
  <2> QED
    BY <1>1, <2>1, <2>3
<1>9. ASSUME NEW names \in New(disk), CreateOrWrite(Spelled(names)),
             Len(disk[currentDir'.at]) < MaxEntries,
             \A x \in Contents(disk) : ~Same(Last(x.path), Last(names))
      PROVE  PathsOf(disk') = PathsOf(disk) \cup {names}
  <2>1. PICK rest, dir, path : rest = disk' /\ dir = currentDir' /\ path = Spelled(names)
    OBVIOUS
  <2>2. rest = createCallback(tree, path) /\ dir = changeDirAbsolute_(tree, getParentPath(path))
    BY <1>1, <1>9, <2>1 DEF CreateOrWrite, InContext
  <2>3. Len(tree[dir.at]) < MaxEntries /\ \A x \in Contents(tree) : ~Same(Last(x.path), Last(names))
    BY <1>1, <1>9, <2>1
  <2>4. PathsOf(rest) = PathsOf(tree) \cup {names}
    BY <1>1, <1>6, <2>1, <2>2, <2>3
  <2> QED
    BY <1>1, <2>1, <2>4
<1> QED
  BY <1>7, <1>8, <1>9

(* On a disk no directory of which lies in two places or as deep as trees  *)
(* are looked at, the callbacks that change it do that to the path they    *)
(* are given and to no other, in trees of any size and whatever was called *)
(* before: delete_ first looks at all that is below the root, but where    *)
(* names are apart it finds the entry that is meant (findEntryAndErase,    *)
(* rmCurrentDir_, create_), and no callback makes a tree for which this    *)
(* would not be so.                                                        *)
THEOREM CallbacksAlwaysFollowPath ==
  ASSUME FusesSame, \A tree \in Trees : Proper(tree)
  PROVE  FuseSpec => CallbacksFollowPath
<1>1. PathsInit => Proper(disk)
  BY DEF PathsInit
<1>2. PathsTypeOK /\ Proper(disk) /\ [FuseNext]_pathVars => Proper(disk)'
  <2> SUFFICES ASSUME PathsTypeOK, Proper(disk), [FuseNext]_pathVars PROVE Proper(disk)'
    OBVIOUS
  <2>1. PICK tree, rest : tree = disk /\ rest = disk' /\ WellFormed(tree) /\ Proper(tree)
    BY DEF PathsTypeOK
  <2>2. SUFFICES Proper(rest)
    BY <2>1
  <2>3. ASSUME rest = tree PROVE Proper(rest)
    BY <2>1, <2>3
  <2>4. CASE UNCHANGED pathVars
    BY <2>1, <2>3, <2>4 DEF pathVars
  <2>5. CASE Readdir(<<Slash>>)
    BY <2>1, <2>3, <2>5 DEF Readdir
  <2>6. ASSUME NEW names, names \in New(tree) \cup {x.path : x \in Contents(tree)},
               NEW path, path = Spelled(names),
               Look(path) \/ Readdir(path) \/ Rmdir(path) \/ CreateOrWrite(path) \/ Unlink(path)
        PROVE  Proper(rest)
    <3>1. PICK at, dir, name : /\ at = changeDirAbsolute_(tree, getParentPath(path)).at
                               /\ dir = changeDirAbsolute_(tree, path).at
                               /\ name = stringParseFilename(path)
      OBVIOUS
    <3>2. at \in DOMAIN tree /\ dir \in DOMAIN tree /\ LegalName(name)
      BY <2>1, <2>6, <3>1, GivenPaths
    <3>3. CASE Look(path) \/ Readdir(path)
      BY <2>1, <2>3, <3>3 DEF Look, Readdir
    <3>4. CASE Rmdir(path)
      <4>1. rest = rmCurrentDir_(tree, dir, name)
        BY <2>1, <3>1, <3>4 DEF Rmdir, rmDirCallback
      <4>2. WellFormed(rest) /\ Fewer(tree, rest)
        BY <2>1, <3>2, <4>1, RemoveDirTakes
      <4> QED
        BY <2>1, <4>2, FewerKeeps
    <3>5. CASE CreateOrWrite(path)
      <4>1. rest = create_(tree, at, name)
        BY <2>1, <3>1, <3>5 DEF CreateOrWrite, createCallback, set_context_by_path
      <4> QED
        BY <2>1, <3>2, <4>1, CreateProper
    <3>6. CASE Unlink(path)
      <4>1. rest = delete_(tree, at, name)
        BY <2>1, <3>1, <3>6 DEF Unlink, unlinkCallback, set_context_by_path
      <4>2. WellFormed(rest) /\ Fewer(tree, rest)
        BY <2>1, <3>2, <4>1, DeleteTakes
      <4> QED
        BY <2>1, <4>2, FewerKeeps
    <3> QED
      BY <2>6, <3>3, <3>4, <3>5, <3>6
  <2>7. ASSUME NEW x \in Contents(disk), NEW path, path = Spelled(x.path),
               Look(path) \/ Readdir(path) \/ Rmdir(path) \/ CreateOrWrite(path) \/ Unlink(path)
        PROVE  Proper(rest)
    <3>1. PICK names : names = x.path
      OBVIOUS
    <3>2. names \in New(tree) \cup {z.path : z \in Contents(tree)} /\ path = Spelled(names)
      BY <2>1, <2>7, <3>1
    <3> QED
      BY <2>6, <2>7, <3>2
  <2>8. ASSUME NEW names \in New(disk), CreateOrWrite(Spelled(names)) PROVE Proper(rest)
    BY <2>1, <2>6, <2>8
  <2> QED
    BY <2>4, <2>5, <2>7, <2>8 DEF FuseNext
<1>3. PathsTypeOK /\ Proper(disk) => FollowsPath
  BY SamesStart, PathFollowed DEF PathsTypeOK
<1> QED
  BY <1>1, <1>2, <1>3, FuseTypeCorrect, PTL DEF FuseSpec, CallbacksFollowPath
=============================================================================
