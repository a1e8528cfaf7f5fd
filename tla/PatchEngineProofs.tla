-------------------------- MODULE PatchEngineProofs --------------------------
(* Proofs about PatchEngine, for texts, patches and edits of any length. *)
EXTENDS PatchEngine, Integers, FiniteSetTheorems, SequenceTheorems,
        WellFoundedInduction, TLAPS

-----------------------------------------------------------------------------
(* Induction over numbers, from the well-foundedness of <                    *)

Smaller == {ss \in Nat \X Nat : ss[1] < ss[2]}

\* Every set of numbers has a least one.
LEMMA Least ==
  ASSUME NEW T \in SUBSET Nat, T # {}
  PROVE  \E m \in T : \A n \in T : m <= n
<1>1. IsWellFoundedOn(Smaller, Nat)
  BY NatLessThanWellFounded, Zenon DEF OpToRel, Smaller
<1>2. PICK m \in T : \A n \in T : ~ (<<n, m>> \in Smaller)
  BY <1>1, WFMin
<1>3. \A n \in T : ~ (n < m)
  BY <1>2 DEF Smaller
<1> QED  BY <1>3

LEMMA Induction ==
  ASSUME NEW S \in SUBSET Nat, 0 \in S, \A n \in S : n + 1 \in S
  PROVE  S = Nat
<1>1. SUFFICES ASSUME Nat \ S # {}  PROVE FALSE
  OBVIOUS
<1>2. PICK m \in Nat \ S : \A n \in Nat \ S : m <= n
  BY <1>1, Least
<1>3. m # 0 /\ m - 1 \in Nat
  BY <1>2
<1>4. m - 1 \in S
  BY <1>2, <1>3
<1> QED  BY <1>2, <1>4

-----------------------------------------------------------------------------
(* What FlattenSeq makes of a sequence of sequences                          *)

\* What FlattenSeq recurses over.
Upto(f, seqs, i) == IF i = 1 THEN seqs[i] ELSE f[i - 1] \o seqs[i]
Flattens(f, seqs, n) == f = [i \in 1 .. n |-> Upto(f, seqs, i)]

LEMMA FlattensAt ==
  ASSUME NEW f, NEW seqs, NEW n, Flattens(f, seqs, n), NEW i \in 1 .. n
  PROVE  f[i] = Upto(f, seqs, i)
<1> DEFINE e == [k \in 1 .. n |-> Upto(f, seqs, k)]
<1>1. e[i] = Upto(f, seqs, i)
  OBVIOUS
<1>2. f = e
  BY DEF Flattens
<1> QED  BY <1>1, <1>2

LEMMA FlattensExists ==
  ASSUME NEW S, NEW seqs \in Seq(Seq(S)), NEW n \in Nat
  PROVE  \E f : Flattens(f, seqs, n)
<1>1. \E f : Flattens(f, seqs, 0)
  <2> DEFINE f == [i \in 1 .. 0 |-> <<>>]
  <2>1. Flattens(f, seqs, 0)
    BY DEF Flattens
  <2> QED  BY <2>1
<1>2. ASSUME NEW m \in Nat, NEW f, Flattens(f, seqs, m)
      PROVE  \E g : Flattens(g, seqs, m + 1)
  <2> DEFINE g == [i \in 1 .. m + 1 |-> IF i <= m THEN f[i] ELSE Upto(f, seqs, i)]
  <2>2. ASSUME NEW i \in 1 .. m + 1  PROVE g[i] = Upto(g, seqs, i)
    <3>1. i # 1 => i - 1 \in 1 .. m /\ g[i - 1] = f[i - 1]
      OBVIOUS
    <3>2. i <= m => f[i] = Upto(f, seqs, i)
      BY <1>2, FlattensAt
    <3>3. g[i] = IF i <= m THEN f[i] ELSE Upto(f, seqs, i)
      OBVIOUS
    <3> HIDE DEF g
    <3>4. Upto(f, seqs, i) = Upto(g, seqs, i)
      BY <3>1 DEF Upto
    <3> QED  BY <3>2, <3>3, <3>4
  <2>3. g = [i \in 1 .. m + 1 |-> g[i]]
    OBVIOUS
  <2> HIDE DEF g
  <2>4. g = [i \in 1 .. m + 1 |-> Upto(g, seqs, i)]
    BY <2>2, <2>3
  <2>5. Flattens(g, seqs, m + 1)
    BY <2>4 DEF Flattens
  <2> QED  BY <2>5
<1> DEFINE Ok == {m \in Nat : \E f : Flattens(f, seqs, m)}
<1>3. Ok \in SUBSET Nat /\ 0 \in Ok /\ \A m \in Ok : m + 1 \in Ok
  BY <1>1, <1>2
<1> HIDE DEF Ok
<1>4. Ok = Nat
  BY <1>3, Induction
<1> QED  BY <1>4 DEF Ok

\* A flattened sequence grows by one of its sequences at a time.
LEMMA FlattenGrows ==
  ASSUME NEW S, NEW seqs \in Seq(Seq(S))
  PROVE  \E f \in [0 .. Len(seqs) -> Seq(S)] :
           /\ f[0] = <<>>
           /\ \A i \in 1 .. Len(seqs) : f[i] = f[i - 1] \o seqs[i]
           /\ FlattenSeq(seqs) = f[Len(seqs)]
<1> DEFINE N == Len(seqs)
           g == CHOOSE g : Flattens(g, seqs, N)
           f == [i \in 0 .. N |-> IF i = 0 THEN <<>> ELSE g[i]]
<1>1. N \in Nat /\ DOMAIN seqs = 1 .. N /\ \A i \in 1 .. N : seqs[i] \in Seq(S)
  BY LenProperties, ElementOfSeq
<1>2. Flattens(g, seqs, N)
  BY <1>1, FlattensExists
<1>3. \A i \in 1 .. N : g[i] = Upto(g, seqs, i)
  BY <1>2, FlattensAt
<1>4. <<>> \in Seq(S) /\ \A s \in Seq(S) : <<>> \o s = s
  BY EmptySeq, ConcatEmptySeq
<1>5. f[0] = <<>>
  BY <1>1
<1>6. \A i \in 1 .. N : f[i] = f[i - 1] \o seqs[i]
  <2> TAKE i \in 1 .. N
  <2>1. f[i] = g[i] /\ i - 1 \in 0 .. N
    BY <1>1
  <2>2. CASE i = 1
    BY <1>1, <1>3, <1>4, <1>5, <2>1, <2>2 DEF Upto
  <2>3. CASE i # 1
    <3>1. f[i - 1] = g[i - 1]
      BY <2>1, <2>3
    <3> HIDE DEF f, g
    <3> QED  BY <1>3, <2>1, <2>3, <3>1 DEF Upto
  <2> QED  BY <2>2, <2>3
<1>7. FlattenSeq(seqs) = f[N]
  <2>1. CASE N = 0
    <3>1. seqs = <<>>
      BY <2>1, EmptySeq
    <3> QED  BY <2>1, <3>1, <1>5 DEF FlattenSeq
  <2>2. CASE N # 0
    <3>1. FlattenSeq(seqs) = g[N]
      BY <2>2 DEF FlattenSeq, Flattens, Upto
    <3> QED  BY <1>1, <2>2, <3>1
  <2> QED  BY <2>1, <2>2
<1> HIDE DEF f
<1>8. \A i \in 0 .. N : f[i] \in Seq(S)
  <2> DEFINE Ok == {i \in Nat : i \in 0 .. N => f[i] \in Seq(S)}
  <2>1. 0 \in Ok
    BY <1>4, <1>5
  <2>2. \A i \in Ok : i + 1 \in Ok
    <3> SUFFICES ASSUME NEW i \in Ok, i + 1 \in 0 .. N  PROVE f[i + 1] \in Seq(S)
      OBVIOUS
    <3>1. i \in 0 .. N /\ i + 1 \in 1 .. N /\ (i + 1) - 1 = i
      BY <1>1
    <3>2. f[i + 1] = f[i] \o seqs[i + 1] /\ f[i] \in Seq(S)
      BY <1>6, <3>1
    <3> QED  BY <1>1, <3>1, <3>2, ConcatProperties
  <2> HIDE DEF Ok
  <2>3. Ok = Nat
    <3>1. Ok \in SUBSET Nat
      BY DEF Ok
    <3> QED  BY <2>1, <2>2, <3>1, Induction
  <2> QED  BY <1>1, <2>3 DEF Ok
<1>9. f \in [0 .. N -> Seq(S)]
  <2>1. f = [i \in 0 .. N |-> f[i]]
    BY DEF f
  <2> QED  BY <1>8, <2>1
<1> QED  BY <1>5, <1>6, <1>7, <1>9

\* Flattening keeps the alphabet.
LEMMA FlattenType ==
  ASSUME NEW S, NEW seqs \in Seq(Seq(S))
  PROVE  FlattenSeq(seqs) \in Seq(S)
<1>1. Len(seqs) \in 0 .. Len(seqs)
  BY LenProperties
<1>2. PICK f \in [0 .. Len(seqs) -> Seq(S)] : FlattenSeq(seqs) = f[Len(seqs)]
  BY FlattenGrows
<1> QED  BY <1>1, <1>2

-----------------------------------------------------------------------------
(* Texts and their lines                                                     *)

Bytes == Glyphs \cup {NL}

\* A text of whole lines: glyphs and newlines take turns.
WholeLines(text, n) ==
  /\ text \in Seq(Bytes)
  /\ Len(text) = 2 * n
  /\ \A i \in 1 .. 2 * n : text[i] = NL <=> \E k \in 1 .. n : i = 2 * k

LEMMA NoLines == WholeLines(<<>>, 0)
BY EmptySeq DEF WholeLines

LEMMA OneMoreLine ==
  ASSUME NEW text, NEW n \in Nat, WholeLines(text, n), NEW g \in Glyphs
  PROVE  WholeLines(text \o <<g, NL>>, n + 1)
<1> DEFINE line == <<g, NL>>
           new == text \o line
<1>1. /\ line \in Seq(Bytes) /\ Len(line) = 2
      /\ line[1] = g /\ line[2] = NL /\ g # NL
  BY EngineAssumption DEF Bytes
<1>2. /\ text \in Seq(Bytes) /\ Len(text) = 2 * n
      /\ \A i \in 1 .. 2 * n : text[i] = NL <=> \E k \in 1 .. n : i = 2 * k
  BY DEF WholeLines
<1> HIDE DEF line
<1>3. /\ new \in Seq(Bytes)
      /\ Len(new) = 2 * n + 2
      /\ \A i \in 1 .. 2 * n + 2 :
           new[i] = IF i <= 2 * n THEN text[i] ELSE line[i - 2 * n]
  <2>1. /\ new \in Seq(Bytes)
        /\ Len(new) = Len(text) + Len(line)
        /\ \A i \in 1 .. Len(text) + Len(line) :
             new[i] = IF i <= Len(text) THEN text[i] ELSE line[i - Len(text)]
    BY <1>1, <1>2, ConcatProperties
  <2> HIDE DEF new
  <2> QED  BY <1>1, <1>2, <2>1
<1> HIDE DEF new
<1>4. ASSUME NEW i \in 1 .. 2 * (n + 1)
      PROVE  new[i] = NL <=> \E k \in 1 .. n + 1 : i = 2 * k
  <2>1. CASE i <= 2 * n
    <3>1. new[i] = text[i] /\ i \in 1 .. 2 * n
      BY <1>3, <2>1
    <3>2. \A k \in 1 .. n + 1 : i = 2 * k => k \in 1 .. n
      BY <2>1
    <3>3. \A k \in 1 .. n : k \in 1 .. n + 1
      OBVIOUS
    <3> QED  BY <1>2, <3>1, <3>2, <3>3
  <2>2. CASE i = 2 * n + 1
    BY <1>1, <1>3, <2>2
  <2>3. CASE i = 2 * n + 2
    BY <1>1, <1>3, <2>3
  <2> QED  BY <2>1, <2>2, <2>3
<1>5. WholeLines(new, n + 1)
  BY <1>3, <1>4 DEF WholeLines
<1> QED  BY <1>5 DEF new, line

\* Whole lines are counted by their newlines.
LEMMA LinesCounted ==
  ASSUME NEW text, NEW n \in Nat, WholeLines(text, n)
  PROVE  Newlines(text) = n /\ NumLines(text) = n
<1> DEFINE at == {i \in DOMAIN text : text[i] = NL}
           f == [k \in 1 .. n |-> 2 * k]
<1>1. DOMAIN text = 1 .. 2 * n
  BY LenProperties DEF WholeLines
<1>2. f \in Bijection(1 .. n, at)
  <2>1. \A k \in 1 .. n : 2 * k \in at
    BY <1>1 DEF WholeLines
  <2>2. \A i \in at : \E k \in 1 .. n : f[k] = i
    BY <1>1 DEF WholeLines
  <2>3. \A j, k \in 1 .. n : f[j] = f[k] => j = k
    OBVIOUS
  <2>4. f \in [1 .. n -> at]
    BY <2>1
  <2> HIDE DEF f, at
  <2> QED  BY <2>2, <2>3, <2>4 
     DEF Bijection, Injection, Surjection, IsInjective
<1>3. IsFiniteSet(1 .. n) /\ Cardinality(1 .. n) = n
  BY FS_Interval
<1>4. Cardinality(at) = n
  BY <1>2, <1>3, FS_Bijection DEF ExistsBijection
<1>5. Newlines(text) = n
  BY <1>4 DEF Newlines
<1>6. text = <<>> \/ Last(text) = NL
  <2>1. CASE n = 0
    BY <2>1, EmptySeq DEF WholeLines
  <2>2. CASE n # 0
    BY <2>2 DEF WholeLines, Last
  <2> QED  BY <2>1, <2>2
<1> QED  BY <1>5, <1>6 DEF NumLines

\* What a line of an edit contributes to one side.
Share(l, other) == IF l.tag = other THEN <<>> ELSE <<l.glyph, NL>>

\* A side of an edit consists of whole lines, one for each line it shares in.
LEMMA SideCount ==
  ASSUME NEW lines \in Seq(Line), NEW other
  PROVE  \E c \in [0 .. Len(lines) -> Nat] :
           /\ c[0] = 0
           /\ \A i \in 1 .. Len(lines) :
                c[i] = c[i - 1] + IF lines[i].tag = other THEN 0 ELSE 1
           /\ WholeLines(Side(lines, other), c[Len(lines)])
<1> DEFINE N == Len(lines)
           seqs == [i \in DOMAIN lines |-> Share(lines[i], other)]
<1>1. /\ N \in Nat /\ DOMAIN lines = 1 .. N
      /\ \A i \in 1 .. N : lines[i] \in Line
  BY LenProperties, ElementOfSeq
<1>2. \A i \in 1 .. N : Share(lines[i], other) \in Seq(Bytes)
  <2> TAKE i \in 1 .. N
  <2>1. lines[i].glyph \in Glyphs
    BY <1>1 DEF Line
  <2>2. <<lines[i].glyph, NL>> \in Seq(Bytes) /\ <<>> \in Seq(Bytes)
    BY <2>1, EmptySeq DEF Bytes
  <2> QED  BY <2>2 DEF Share
<1>3. seqs \in Seq(Seq(Bytes)) /\ Len(seqs) = N /\ DOMAIN seqs = 1 .. N
  <2>1. seqs \in [1 .. N -> Seq(Bytes)]
    BY <1>1, <1>2
  <2>2. seqs \in Seq(Seq(Bytes))
    BY <1>1, <2>1, SeqDef
  <2> QED  BY <1>1, <2>1, <2>2, LenProperties
<1>4. PICK f \in [0 .. N -> Seq(Bytes)] :
        /\ f[0] = <<>>
        /\ \A i \in 1 .. N : f[i] = f[i - 1] \o seqs[i]
        /\ FlattenSeq(seqs) = f[N]
  <2> HIDE DEF seqs, N
  <2>1. \E f \in [0 .. Len(seqs) -> Seq(Bytes)] :
          /\ f[0] = <<>>
          /\ \A i \in 1 .. Len(seqs) : f[i] = f[i - 1] \o seqs[i]
          /\ FlattenSeq(seqs) = f[Len(seqs)]
    BY <1>3, FlattenGrows
  <2> QED  BY <1>3, <2>1, Zenon
<1> DEFINE c == [i \in 0 .. N |-> Newlines(f[i])]
           Ok == {i \in Nat : i \in 0 .. N => \E n \in Nat : WholeLines(f[i], n)}
<1>5. ASSUME NEW i \in 1 .. N, NEW n \in Nat, WholeLines(f[i - 1], n)
      PROVE  WholeLines(f[i], n + IF lines[i].tag = other THEN 0 ELSE 1)
  <2>1. f[i] = f[i - 1] \o Share(lines[i], other)
    BY <1>1, <1>4
  <2>2. CASE lines[i].tag = other
    <3>1. f[i] = f[i - 1]
      BY <1>5, <2>1, <2>2, ConcatEmptySeq DEF Share, WholeLines
    <3> QED  BY <1>5, <2>2, <3>1
  <2>3. CASE lines[i].tag # other
    <3>1. lines[i].glyph \in Glyphs
      BY <1>1 DEF Line
    <3> QED  BY <1>5, <2>1, <2>3, <3>1, OneMoreLine DEF Share
  <2> QED  BY <2>2, <2>3
<1>6. Ok = Nat
  <2>1. 0 \in Ok
    BY <1>4, NoLines
  <2>2. ASSUME NEW i \in Ok  PROVE i + 1 \in Ok
    <3> SUFFICES ASSUME i + 1 \in 0 .. N
                 PROVE  \E n \in Nat : WholeLines(f[i + 1], n)
      OBVIOUS
    <3>1. i + 1 \in 1 .. N /\ (i + 1) - 1 = i /\ i \in 0 .. N
      BY <1>1
    <3>2. PICK n \in Nat : WholeLines(f[i], n)
      BY <3>1
    <3> QED  BY <1>5, <3>1, <3>2
  <2>3. Ok \in SUBSET Nat
    OBVIOUS
  <2> HIDE DEF Ok
  <2> QED  BY <2>1, <2>2, <2>3, Induction
<1>7. ASSUME NEW i \in 0 .. N  PROVE c[i] \in Nat /\ WholeLines(f[i], c[i])
  <2>1. PICK n \in Nat : WholeLines(f[i], n)
    BY <1>1, <1>6
  <2> QED  BY <2>1, LinesCounted
<1>8. c[0] = 0
  BY <1>1, <1>4, NoLines, LinesCounted
<1>9. ASSUME NEW i \in 1 .. N
      PROVE  c[i] = c[i - 1] + IF lines[i].tag = other THEN 0 ELSE 1
  <2> DEFINE n == c[i - 1] + IF lines[i].tag = other THEN 0 ELSE 1
  <2>1. i - 1 \in 0 .. N /\ i \in 0 .. N
    BY <1>1
  <2>2. c[i - 1] \in Nat /\ WholeLines(f[i - 1], c[i - 1])
    BY <1>7, <2>1
  <2> HIDE DEF c
  <2>3. n \in Nat /\ WholeLines(f[i], n)
    BY <1>5, <2>2
  <2> HIDE DEF n
  <2>4. Newlines(f[i]) = n
    BY <2>3, LinesCounted
  <2> QED  BY <2>1, <2>4 DEF n, c
<1>10. c \in [0 .. N -> Nat]
  BY <1>7
<1>11. Side(lines, other) = f[N]
  BY <1>4 DEF Side, Share
<1>12. WholeLines(Side(lines, other), c[N])
  BY <1>1, <1>7, <1>11
<1> HIDE DEF c
<1> QED  BY <1>8, <1>9, <1>10, <1>12

\* A side is at most as long as the edit, and at least as long as any run of
\* lines that all share in it.
LEMMA SideBounds ==
  ASSUME NEW lines \in Seq(Line), NEW other
  PROVE  LET text == Side(lines, other) IN
         /\ text \in Seq(Bytes)
         /\ Len(text) <= 2 * Len(lines)
         /\ Newlines(text) = NumLines(text)
         /\ NumLines(text) \in Nat
         /\ \A a, b \in 0 .. Len(lines) :
              /\ a <= b
              /\ \A i \in a + 1 .. b : lines[i].tag # other
              => b - a <= NumLines(text)
<1> DEFINE N == Len(lines)
           text == Side(lines, other)
<1>1. PICK c \in [0 .. N -> Nat] :
        /\ c[0] = 0
        /\ \A i \in 1 .. N : c[i] = c[i - 1] + IF lines[i].tag = other THEN 0 ELSE 1
        /\ WholeLines(text, c[N])
  BY SideCount
<1>2. N \in Nat
  BY LenProperties
<1> DEFINE Bounded(b) ==
             /\ c[b] <= b
             /\ \A a \in 0 .. b :
                  /\ c[a] <= c[b]
                  /\ (\A i \in a + 1 .. b : lines[i].tag # other) => b - a <= c[b]
           Ok == {b \in Nat : b \in 0 .. N => Bounded(b)}
<1> HIDE DEF Bounded
<1>3. Ok = Nat
  <2>1. 0 \in Ok
    BY <1>1 DEF Bounded
  <2>2. ASSUME NEW b \in Ok  PROVE b + 1 \in Ok
    <3> SUFFICES ASSUME b + 1 \in 0 .. N  PROVE Bounded(b + 1)
      OBVIOUS
    <3>1. b \in 0 .. N /\ b + 1 \in 1 .. N /\ (b + 1) - 1 = b
      BY <1>2
    <3>2. Bounded(b) /\ c[b] \in Nat
      BY <3>1
    <3>3. c[b + 1] = c[b] + IF lines[b + 1].tag = other THEN 0 ELSE 1
      BY <1>1, <3>1
    <3>4. ASSUME NEW a \in 0 .. b + 1
          PROVE  /\ c[a] <= c[b + 1]
                 /\ (\A i \in a + 1 .. b + 1 : lines[i].tag # other)
                      => b + 1 - a <= c[b + 1]
      <4>1. CASE a = b + 1
        BY <1>1, <3>1, <4>1
      <4>2. CASE a # b + 1
        <5>1. a \in 0 .. b /\ a \in 0 .. N /\ c[a] \in Nat
          BY <3>1, <4>2
        <5>2. /\ c[a] <= c[b]
              /\ (\A i \in a + 1 .. b : lines[i].tag # other) => b - a <= c[b]
          BY <3>2, <5>1 DEF Bounded
        <5>3. \A i \in a + 1 .. b : i \in a + 1 .. b + 1
          BY <5>1
        <5>4. b + 1 \in a + 1 .. b + 1
          BY <5>1
        <5> QED  BY <3>2, <3>3, <5>1, <5>2, <5>3, <5>4
      <4> QED  BY <4>1, <4>2
    <3>5. c[b + 1] <= b + 1
      BY <3>1, <3>2, <3>3 DEF Bounded
    <3> QED  BY <3>4, <3>5 DEF Bounded
  <2>3. Ok \in SUBSET Nat
    OBVIOUS
  <2> HIDE DEF Ok
  <2> QED  BY <2>1, <2>2, <2>3, Induction
<1>4. \A b \in 0 .. N : Bounded(b)
  BY <1>2, <1>3
<1>5. c[N] \in Nat /\ Newlines(text) = c[N] /\ NumLines(text) = c[N]
  BY <1>1, <1>2, LinesCounted
<1>6. text \in Seq(Bytes) /\ Len(text) = 2 * c[N]
  BY <1>1 DEF WholeLines
<1>7. c[N] <= N
  BY <1>2, <1>4 DEF Bounded
<1>8. ASSUME NEW a \in 0 .. N, NEW b \in 0 .. N, a <= b,
             \A i \in a + 1 .. b : lines[i].tag # other
      PROVE  b - a <= c[N]
  <2>1. b - a <= c[b]
    BY <1>4, <1>8 DEF Bounded
  <2>2. c[b] <= c[N] /\ c[b] \in Nat
    BY <1>2, <1>4 DEF Bounded
  <2> QED  BY <1>5, <2>1, <2>2
<1> HIDE DEF text
<1>9. Len(text) <= 2 * N
  BY <1>2, <1>5, <1>6, <1>7
<1> QED  BY <1>5, <1>6, <1>8, <1>9 DEF text

-----------------------------------------------------------------------------
(* Where a hunk goes                                                         *)

\* Patches over an alphabet.
PatchesOf(Byte) == Seq([before : Seq(Byte), after : Seq(Byte)])

\* Texts and the sides of hunks are sequences.
Textual ==
  \E Byte : raw.text \in Seq(Byte) /\ hunks \in PatchesOf(Byte)

\* A part that has one place in a text is found there and nowhere else.
LEMMA UniquePlace ==
  ASSUME NEW Byte, NEW part \in Seq(Byte), NEW text \in Seq(Byte),
         Unique(part, text)
  PROVE  Places(part, text) = {CHOOSE i \in Places(part, text) : TRUE}
<1>1. Len(text) \in Nat /\ Len(part) \in Nat
  BY LenProperties
<1>2. IsFiniteSet(Places(part, text))
  <2>1. Places(part, text) \subseteq 1 .. Len(text) + 1 - Len(part)
    BY DEF Places
  <2>2. IsFiniteSet(1 .. Len(text) + 1 - Len(part))
    BY <1>1, FS_Interval
  <2> QED  BY <2>1, <2>2, FS_Subset
<1>3. \E i : Places(part, text) = {i}
  BY <1>2, FS_Singleton DEF Unique
<1> QED  BY <1>3

\* Every hunk where _direction puts it.
Placement(patch, text, reverse) ==
  [k \in DOMAIN patch |-> Begin(patch[k], text, reverse)]

\* A patch that _direction accepts can be read in one way only.
THEOREM OneReading ==
  ASSUME NEW Byte, NEW text \in Seq(Byte), NEW reverse \in BOOLEAN,
         NEW patch \in PatchesOf(Byte),
         Placed(patch, text, reverse)
  PROVE  Readings(patch, text, reverse) = {Placement(patch, text, reverse)}
<1> DEFINE O(k) == Old(patch[k], reverse)
           B == Placement(patch, text, reverse)
<1> USE DEF Placement
<1>1. \A k \in DOMAIN patch : O(k) \in Seq(Byte)
  <2>1. \A k \in DOMAIN patch : patch[k] \in [before : Seq(Byte), after : Seq(Byte)]
    BY ElementOfSeq, LenProperties DEF PatchesOf
  <2> QED  BY <2>1 DEF Old
<1>2. \A k \in DOMAIN patch : Places(O(k), text) = {B[k]}
  BY <1>1, UniquePlace DEF Placed, Begin
<1>3. \A k \in DOMAIN patch : B[k] \in 1 .. Len(text) + 1
  <2> TAKE k \in DOMAIN patch
  <2>1. B[k] \in Places(O(k), text)
    BY <1>2
  <2>2. B[k] \in 1 .. Len(text) + 1 - Len(O(k))
    BY <2>1 DEF Places
  <2>3. Len(text) \in Nat /\ Len(O(k)) \in Nat
    BY <1>1, LenProperties
  <2> HIDE DEF O, B
  <2> QED  BY <2>2, <2>3
<1>4. \A k \in 2 .. Len(patch) : B[k] >= B[k - 1] + Len(O(k - 1))
  BY DEF Placed, InOrder, End
<1>5. B \in Readings(patch, text, reverse)
  BY <1>2, <1>3, <1>4 DEF Readings
<1>6. ASSUME NEW at \in Readings(patch, text, reverse)  PROVE at = B
  <2>1. at \in [DOMAIN patch -> 1 .. Len(text) + 1]
    BY DEF Readings
  <2>2. \A k \in DOMAIN patch : at[k] = B[k]
    BY <1>2 DEF Readings
  <2> QED  BY <2>1, <2>2
<1> QED  BY <1>5, <1>6

\* Whatever the rule and its target are, inspect offers to write only what the
\* diff can mean: in one direction, and read in the one possible way.
THEOREM OnlyMeaning == Textual => OnlyReading
<1> SUFFICES ASSUME Textual, phase = "rule", Inspect(hunks, raw).output # NoRaw
             PROVE  LET back == Inspect(hunks, raw).status = "applied" IN
                    /\ Cardinality(Readings(hunks, raw.text, back)) = 1
                    /\ ~Placed(hunks, raw.text, ~back)
  BY DEF OnlyReading
<1> DEFINE back == Inspect(hunks, raw).status = "applied"
<1>1. ASSUME NEW reverse \in BOOLEAN, Placed(hunks, raw.text, reverse)
      PROVE  Cardinality(Readings(hunks, raw.text, reverse)) = 1
  <2>1. PICK Byte : /\ raw.text \in Seq(Byte)
                    /\ hunks \in PatchesOf(Byte)
    BY DEF Textual
  <2>2. Readings(hunks, raw.text, reverse) = {Placement(hunks, raw.text, reverse)}
    BY <1>1, <2>1, OneReading
  <2> QED  BY <2>2, FS_Singleton
<1>2. CASE Placed(hunks, raw.text, FALSE) /\ ~Placed(hunks, raw.text, TRUE)
  <2>1. back = FALSE
    BY <1>2 DEF Inspect, WouldWrite, Refused
  <2> HIDE DEF back
  <2>2. /\ Cardinality(Readings(hunks, raw.text, back)) = 1
        /\ ~Placed(hunks, raw.text, ~back)
    BY <1>1, <1>2, <2>1
  <2> QED  BY <2>2 DEF back
<1>3. CASE Placed(hunks, raw.text, TRUE) /\ ~Placed(hunks, raw.text, FALSE)
  <2>1. back = TRUE
    BY <1>3 DEF Inspect, WouldWrite, Refused
  <2> HIDE DEF back
  <2>2. /\ Cardinality(Readings(hunks, raw.text, back)) = 1
        /\ ~Placed(hunks, raw.text, ~back)
    BY <1>1, <1>3, <2>1
  <2> QED  BY <2>2 DEF back
<1> QED  BY <1>2, <1>3 DEF Inspect, Refused

-----------------------------------------------------------------------------
\* The editor accepts a patch after a round trip; from then on the target is one
\* of the two texts of that trip, and the edited one is what an Apply leaves.
RoundTripHeld ==
  script # <<>> =>
    /\ phase = "rule" => RoundTrip(hunks)
    /\ raw \in {Ended(Original, "lf"), Ended(Edited, "lf")}
    /\ phase # "rule" => was = NoRaw /\ raw = Ended(Original, "lf")
    /\ was # NoRaw => was = Ended(Original, "lf") /\ raw = Ended(Edited, "lf")

\* However often a rule made in the editor is applied and reverted, what an
\* Apply made of the target can be reverted to the bytes there were.
THEOREM EditsRevert == Spec => []EditReverts
<1>1. Init => RoundTripHeld
  BY DEF Init, RoundTripHeld
<1>2. RoundTripHeld /\ [Next]_vars => RoundTripHeld'
  <2> DEFINE O == Ended(Original, "lf")
             E == Ended(Edited, "lf")
  <2> SUFFICES ASSUME RoundTripHeld, [Next]_vars, script' # <<>>
               PROVE  RoundTripHeld'
    BY DEF RoundTripHeld
  <2>0. script' = script
    BY DEF Next, Widen, Refuse, Accept, Apply, Revert, vars
  <2>1. O' = O /\ E' = E
    BY <2>0 DEF Original, Edited
  <2>2. hunks' = hunks => (RoundTrip(hunks)' <=> RoundTrip(hunks))
    BY <2>1 DEF RoundTrip, Anchored
  <2>3. phase = "rule" =>
          /\ Inspect(hunks, O) = [status |-> "applicable", output |-> E]
          /\ Inspect(hunks, E) = [status |-> "applied", output |-> O]
    BY <2>0 DEF RoundTripHeld, RoundTrip
  <2>4. /\ raw \in {O, E}
        /\ phase = "rule" => RoundTrip(hunks)
        /\ phase # "rule" => was = NoRaw /\ raw = O
        /\ was # NoRaw => was = O /\ raw = E
    BY <2>0 DEF RoundTripHeld
  <2> SUFFICES /\ raw' \in {O', E'}
               /\ phase' = "rule" => RoundTrip(hunks)'
               /\ phase' # "rule" => was' = NoRaw /\ raw' = O'
               /\ was' # NoRaw => was' = O' /\ raw' = E'
    BY DEF RoundTripHeld, NoRaw
  <2>5. CASE Widen \/ Refuse \/ UNCHANGED vars
    BY <2>1, <2>2, <2>4, <2>5 DEF Widen, Refuse, vars
  <2>6. CASE Accept
    <3>1. RoundTrip(Candidate(context)) /\ hunks' = Candidate(context)
      BY <2>6 DEF Accept
    <3>2. RoundTrip(hunks)'
      BY <2>1, <3>1 DEF RoundTrip, Anchored
    <3> QED  BY <2>1, <2>4, <2>6, <3>2 DEF Accept
  <2>7. CASE Apply
    <3>1. raw = O /\ raw' = E /\ was' = O
      BY <2>3, <2>4, <2>7 DEF Apply
    <3> QED  BY <2>1, <2>2, <2>4, <2>7, <3>1 DEF Apply
  <2>8. CASE Revert
    <3>1. raw = E /\ raw' = O /\ was' = NoRaw
      BY <2>3, <2>4, <2>8 DEF Revert
    <3> QED  BY <2>1, <2>2, <2>4, <2>8, <3>1 DEF Revert
  <2> QED  BY <2>5, <2>6, <2>7, <2>8 DEF Next
<1>3. RoundTripHeld => EditReverts
  BY DEF RoundTripHeld, EditReverts, RoundTrip
<1> QED  BY <1>1, <1>2, <1>3, PTL DEF Spec

-----------------------------------------------------------------------------
(* What the editor does when it runs out of context                          *)

Hunks == [before : Seq(Bytes), after : Seq(Bytes)]

LEMMA BoundedType ==
  ASSUME NEW S, NEW n \in Int, NEW s \in BoundedSeq(S, n)
  PROVE  s \in Seq(S) /\ Len(s) \in 0 .. n /\ DOMAIN s = 1 .. Len(s)
<1>1. PICK m \in 0 .. n : s \in [1 .. m -> S]
  BY DEF BoundedSeq, SeqOf
<1>2. m \in Nat /\ s \in Seq(S)
  BY <1>1, SeqDef
<1>3. Len(s) = m
  BY <1>1, <1>2, LenProperties
<1> QED  BY <1>1, <1>2, <1>3

\* An edit has a line that is not kept, and both its texts are sides of it.
LEMMA ScriptType ==
  ASSUME script \in Scripts
  PROVE  /\ script \in Seq(Line) /\ Len(script) \in 1 .. MaxScript
         /\ DOMAIN script = 1 .. Len(script)
         /\ \E j \in DOMAIN script : script[j].tag # "keep"
         /\ Original # <<>> /\ Edited # <<>>
<1>1. /\ script \in Seq(Line) /\ Len(script) \in 0 .. MaxScript
      /\ DOMAIN script = 1 .. Len(script)
  BY BoundedType, EngineAssumption DEF Scripts
<1>2. /\ Original # <<>> /\ Edited # <<>> /\ Original # Edited
  BY DEF Scripts, Original, Edited
<1>3. \E j \in DOMAIN script : script[j].tag # "keep"
  <2> SUFFICES ASSUME \A j \in DOMAIN script : script[j].tag = "keep"
               PROVE  FALSE
    OBVIOUS
  <2>1. ASSUME NEW other \in {"add", "remove"}
        PROVE  Side(script, other) =
                 FlattenSeq([i \in DOMAIN script |-> <<script[i].glyph, NL>>])
    <3>1. [i \in DOMAIN script |->
             IF script[i].tag = other THEN <<>> ELSE <<script[i].glyph, NL>>]
          = [i \in DOMAIN script |-> <<script[i].glyph, NL>>]
      OBVIOUS
    <3> QED  BY <3>1 DEF Side
  <2> QED  BY <1>2, <2>1 DEF Original, Edited
<1> QED  BY <1>1, <1>2, <1>3

\* As much context as the longer text has lines is all there is: the lines from
\* a kept one to the nearest change are lines of either text.
LEMMA AllKept ==
  ASSUME script \in Scripts, NEW n \in Nat, n >= Maximum
  PROVE  Kept(n) = DOMAIN script
<1> DEFINE N == Len(script)
<1>1. /\ script \in Seq(Line) /\ N \in Nat /\ DOMAIN script = 1 .. N
      /\ \E j \in DOMAIN script : script[j].tag # "keep"
  BY ScriptType
<1>2. /\ NumLines(Original) \in Nat
      /\ NumLines(Edited) \in Nat
      /\ \A a, b \in 0 .. N :
           /\ a <= b
           /\ \A k \in a + 1 .. b : script[k].tag # "add"
           => b - a <= NumLines(Original)
  BY <1>1, SideBounds DEF Original, Edited
<1>3. NumLines(Original) <= n
  BY <1>2 DEF Maximum, Longer
<1>4. ASSUME NEW i \in DOMAIN script  PROVE i \in Kept(n)
  <2> DEFINE D == {d \in Nat : \E j \in DOMAIN script :
                     script[j].tag # "keep" /\ (j = i + d \/ j = i - d)}
  <2>1. D \in SUBSET Nat /\ D # {}
    <3>1. PICK j \in DOMAIN script : script[j].tag # "keep"
      BY <1>1
    <3>2. CASE j >= i
      <4>1. j - i \in D
        BY <1>1, <3>1, <3>2
      <4> QED  BY <4>1
    <3>3. CASE j < i
      <4>1. i - j \in D
        BY <1>1, <3>1, <3>3
      <4> QED  BY <4>1
    <3> QED  BY <1>1, <3>2, <3>3
  <2>2. PICK d \in D : \A e \in D : d <= e
    <3> HIDE DEF D
    <3> QED  BY <2>1, Least
  <2>3. PICK j \in DOMAIN script :
          script[j].tag # "keep" /\ (j = i + d \/ j = i - d)
    OBVIOUS
  <2>4. ASSUME NEW k \in DOMAIN script, NEW e \in Nat, e < d,
               k = i + e \/ k = i - e
        PROVE  script[k].tag = "keep"
    <3>1. e \notin D
      BY <2>2, <2>4
    <3> QED  BY <2>4, <3>1
  <2>5. d <= n
    <3>1. CASE j = i + d
      <4>1. \A k \in (i - 1) + 1 .. j - 1 : script[k].tag # "add"
        <5> TAKE k \in (i - 1) + 1 .. j - 1
        <5>1. k - i \in Nat /\ k - i < d /\ k = i + (k - i) /\ k \in DOMAIN script
          BY <1>1, <2>3, <3>1
        <5>2. script[k].tag = "keep"
          BY <2>4, <5>1
        <5> QED  BY <5>2
      <4>2. i - 1 \in 0 .. N /\ j - 1 \in 0 .. N
        BY <1>1, <2>3
      <4>3. i - 1 <= j - 1 /\ (j - 1) - (i - 1) = d
        BY <1>1, <2>3, <3>1
      <4>4. d <= NumLines(Original)
        BY <1>2, <4>1, <4>2, <4>3
      <4> QED  BY <1>2, <1>3, <4>4
    <3>2. CASE j = i - d
      <4>1. \A k \in j + 1 .. i : script[k].tag # "add"
        <5> TAKE k \in j + 1 .. i
        <5>1. i - k \in Nat /\ i - k < d /\ k = i - (i - k) /\ k \in DOMAIN script
          BY <1>1, <2>3, <3>2
        <5>2. script[k].tag = "keep"
          BY <2>4, <5>1
        <5> QED  BY <5>2
      <4>2. j \in 0 .. N /\ i \in 0 .. N /\ j <= i /\ i - j = d
        BY <1>1, <2>3, <3>2
      <4>3. d <= NumLines(Original)
        BY <1>2, <4>1, <4>2
      <4> QED  BY <1>2, <1>3, <4>3
    <3> QED  BY <2>3, <3>1, <3>2
  <2>6. i <= j + n /\ j <= i + n
    BY <1>1, <2>3, <2>5
  <2> QED  BY <2>3, <2>6 DEF Kept
<1> QED  BY <1>4 DEF Kept

\* With all of it as context the candidate is one hunk, the whole edit.
LEMMA OneHunk ==
  ASSUME script \in Scripts, NEW n \in Nat, Kept(n) = DOMAIN script
  PROVE  Candidate(n) = <<[before |-> Original, after |-> Edited]>>
<1> DEFINE N == Len(script)
           hunk == [before |-> Original, after |-> Edited]
           seqs == [i \in DOMAIN script |->
                      IF i \in Kept(n) /\ i - 1 \notin Kept(n)
                        THEN <<HunkFrom(n, i)>> ELSE <<>>]
<1>1. /\ script \in Seq(Line) /\ N \in Nat \ {0} /\ DOMAIN script = 1 .. N
  BY ScriptType
<1>2. RunEnd(n, 1) = N
  <2> DEFINE T == {j \in DOMAIN script : 1 .. j \subseteq Kept(n)}
  <2>1. T = 1 .. N
    BY <1>1
  <2>2. \A x \in T : (\A y \in T : x >= y) <=> x = N
    BY <1>1, <2>1
  <2>3. N \in T
    BY <1>1, <2>1
  <2> HIDE DEF T
  <2>4. Max(T) = N
    BY <2>2, <2>3 DEF Max
  <2> QED  BY <2>4 DEF RunEnd, T
<1>3. HunkFrom(n, 1) = hunk
  <2>1. SubSeq(script, 1, N) = script
    BY <1>1, SubSeqFull
  <2> QED  BY <1>2, <2>1 DEF HunkFrom, Original, Edited
<1>4. hunk \in Hunks
  BY <1>1, SideBounds DEF Hunks, Original, Edited
<1>5. /\ seqs[1] = <<hunk>>
      /\ \A i \in 2 .. N : seqs[i] = <<>>
  <2>1. 1 \in Kept(n) /\ 0 \notin Kept(n) /\ \A i \in 2 .. N : i - 1 \in Kept(n)
    BY <1>1
  <2> QED  BY <1>1, <1>3, <2>1
<1>6. <<hunk>> \in Seq(Hunks) /\ <<>> \in Seq(Hunks)
  BY <1>4, EmptySeq
<1>7. seqs \in Seq(Seq(Hunks)) /\ Len(seqs) = N
  <2>1. \A i \in 1 .. N : seqs[i] \in Seq(Hunks)
    BY <1>5, <1>6
  <2>2. seqs = [i \in 1 .. N |-> seqs[i]]
    BY <1>1
  <2> HIDE DEF seqs
  <2>3. seqs \in [1 .. N -> Seq(Hunks)]
    BY <2>1, <2>2
  <2>4. seqs \in Seq(Seq(Hunks))
    BY <1>1, <2>3, SeqDef
  <2> QED  BY <1>1, <2>3, <2>4, LenProperties
<1> HIDE DEF seqs, hunk, N
<1>8. PICK f \in [0 .. N -> Seq(Hunks)] :
        /\ f[0] = <<>>
        /\ \A i \in 1 .. N : f[i] = f[i - 1] \o seqs[i]
        /\ FlattenSeq(seqs) = f[N]
  <2>1. \E f \in [0 .. Len(seqs) -> Seq(Hunks)] :
          /\ f[0] = <<>>
          /\ \A i \in 1 .. Len(seqs) : f[i] = f[i - 1] \o seqs[i]
          /\ FlattenSeq(seqs) = f[Len(seqs)]
    BY <1>7, FlattenGrows
  <2> QED  BY <1>7, <2>1, Zenon
<1> DEFINE Ok == {i \in Nat : i + 1 \in 1 .. N => f[i + 1] = <<hunk>>}
<1>9. Ok = Nat
  <2>1. 0 \in Ok
    <3>1. f[1] = f[0] \o seqs[1]
      <4>1. 1 \in 1 .. N /\ 1 - 1 = 0
        BY <1>1 DEF N
      <4> QED  BY <1>8, <4>1
    <3> QED  BY <1>5, <1>6, <1>8, <3>1, ConcatEmptySeq
  <2>2. ASSUME NEW i \in Ok  PROVE i + 1 \in Ok
    <3> SUFFICES ASSUME (i + 1) + 1 \in 1 .. N  PROVE f[(i + 1) + 1] = <<hunk>>
      OBVIOUS
    <3>1. /\ i + 1 \in 1 .. N /\ ((i + 1) + 1) - 1 = i + 1
          /\ (i + 1) + 1 \in 2 .. N
      BY <1>1
    <3>2. f[i + 1] = <<hunk>> /\ seqs[(i + 1) + 1] = <<>>
      BY <1>5, <3>1
    <3>3. f[(i + 1) + 1] = f[i + 1] \o seqs[(i + 1) + 1]
      BY <1>8, <3>1
    <3> QED  BY <1>6, <3>2, <3>3, ConcatEmptySeq
  <2>3. Ok \in SUBSET Nat
    OBVIOUS
  <2> HIDE DEF Ok
  <2> QED  BY <2>1, <2>2, <2>3, Induction
<1>10. f[N] = <<hunk>>
  <2>1. N - 1 \in Ok /\ (N - 1) + 1 \in 1 .. N /\ (N - 1) + 1 = N
    <3>1. N \in Nat \ {0}
      BY <1>1 DEF N
    <3> HIDE DEF Ok
    <3> QED  BY <1>9, <3>1
  <2> QED  BY <2>1
<1> QED  BY <1>8, <1>10 DEF Candidate, seqs, hunk

\* A text is found once in itself.
LEMMA SelfPlace ==
  ASSUME NEW S, NEW text \in Seq(S)
  PROVE  Places(text, text) = {1} /\ Unique(text, text)
<1>1. Len(text) \in Nat
  BY LenProperties
<1>2. 1 .. Len(text) + 1 - Len(text) = {1}
  BY <1>1
<1>3. SubSeq(text, 1, 1 + Len(text) - 1) = text
  BY <1>1, SubSeqFull
<1>4. 1 + Len(text) = Len(text) + 1
  BY <1>1
<1>5. Places(text, text) = {1}
  BY <1>2, <1>3, <1>4 DEF Places
<1> QED  BY <1>5, FS_Singleton DEF Unique

\* One hunk whose old side is the whole text makes its new side of it.
LEMMA WholeRewritten ==
  ASSUME NEW h \in Hunks, NEW reverse \in BOOLEAN
  PROVE  Rewritten(<<h>>, Old(h, reverse), reverse) = New(h, reverse)
<1> DEFINE text == Old(h, reverse)
           new == New(h, reverse)
           patch == <<h>>
           Cut(k) == IF k = 0 THEN 1 ELSE End(patch[k], text, reverse)
           Piece(k) == SubSeq(text, Cut(k - 1), Begin(patch[k], text, reverse) - 1)
                         \o New(patch[k], reverse)
           pieces == [k \in DOMAIN patch |-> Piece(k)]
<1>1. /\ text \in Seq(Bytes) /\ new \in Seq(Bytes) /\ Len(text) \in Nat
      /\ DOMAIN patch = {1} /\ patch[1] = h /\ Len(patch) = 1
  BY LenProperties DEF Hunks, Old, New
<1>2. Begin(h, text, reverse) = 1 /\ End(h, text, reverse) = 1 + Len(text)
  <2>1. Places(Old(h, reverse), text) = {1}
    BY <1>1, SelfPlace
  <2> QED  BY <2>1 DEF Begin, End
<1>3. pieces = <<new>>
  <2>1. Cut(0) = 1
    OBVIOUS
  <2>2. SubSeq(text, Cut(0), 0) = <<>>
    BY <2>1, SubSeqEmpty
  <2>3. Piece(1) = new
    BY <1>1, <1>2, <2>2, ConcatEmptySeq
  <2> HIDE DEF Piece
  <2> QED  BY <1>1, <2>3
<1>4. FlattenSeq(pieces) = new
  <2> DEFINE one == <<new>>
  <2>1. one \in Seq(Seq(Bytes)) /\ Len(one) = 1 /\ one[1] = new
    BY <1>1
  <2> HIDE DEF one, new
  <2>2. PICK f \in [0 .. Len(one) -> Seq(Bytes)] :
          /\ f[0] = <<>>
          /\ \A i \in 1 .. Len(one) : f[i] = f[i - 1] \o one[i]
          /\ FlattenSeq(one) = f[Len(one)]
    BY <2>1, FlattenGrows
  <2>3. FlattenSeq(one) = <<>> \o new
    <3>1. f[1] = f[1 - 1] \o one[1]
      BY <2>1, <2>2
    <3>2. 1 - 1 = 0
      OBVIOUS
    <3> QED  BY <2>1, <2>2, <3>1, <3>2
  <2>4. FlattenSeq(one) = new
    BY <1>1, <2>3, ConcatEmptySeq
  <2> QED  BY <1>3, <2>4 DEF one
<1>5. SubSeq(text, Cut(Len(patch)), Len(text)) = <<>>
  BY <1>1, <1>2, SubSeqEmpty
<1>6. Rewritten(patch, text, reverse) =
        FlattenSeq(pieces) \o SubSeq(text, Cut(Len(patch)), Len(text))
  BY DEF Rewritten
<1> HIDE DEF pieces, Cut, patch
<1> QED  BY <1>1, <1>4, <1>5, <1>6, ConcatEmptySeq DEF patch

\* What inspect answers when exactly one direction has its place.
LEMMA InspectForward ==
  ASSUME NEW patch, NEW r, r.ends # "mixed", ~(Size(r) > MaxTarget),
         Placed(patch, r.text, FALSE), ~Placed(patch, r.text, TRUE)
  PROVE  Inspect(patch, r) =
           WouldWrite("applicable", Ended(Rewritten(patch, r.text, FALSE), r.ends))
BY DEF Inspect

LEMMA InspectReverse ==
  ASSUME NEW patch, NEW r, r.ends # "mixed", ~(Size(r) > MaxTarget),
         Placed(patch, r.text, TRUE), ~Placed(patch, r.text, FALSE)
  PROVE  Inspect(patch, r) =
           WouldWrite("applied", Ended(Rewritten(patch, r.text, TRUE), r.ends))
BY DEF Inspect

\* When neither text is found once in the other, the whole edit as one hunk
\* makes the round trip.
LEMMA WholeTrip ==
  ASSUME NEW o \in Seq(Bytes), NEW e \in Seq(Bytes),
         ~Unique(o, e), ~Unique(e, o), Len(o) <= MaxTarget, Len(e) <= MaxTarget
  PROVE  LET patch == <<[before |-> o, after |-> e]>> IN
         /\ Inspect(patch, Ended(o, "lf")) =
              [status |-> "applicable", output |-> Ended(e, "lf")]
         /\ Inspect(patch, Ended(e, "lf")) =
              [status |-> "applied", output |-> Ended(o, "lf")]
<1> DEFINE h == [before |-> o, after |-> e]
           patch == <<h>>
<1>1. h \in Hunks /\ Old(h, FALSE) = o /\ New(h, FALSE) = e
      /\ Old(h, TRUE) = e /\ New(h, TRUE) = o
  BY DEF Hunks, Old, New
<1>2. DOMAIN patch = {1} /\ patch[1] = h /\ Len(patch) = 1
  OBVIOUS
<1>3. ASSUME NEW text, NEW reverse \in BOOLEAN
      PROVE  Placed(patch, text, reverse) <=> Unique(Old(h, reverse), text)
  <2> HIDE DEF patch, h
  <2>1. InOrder(patch, text, reverse)
    BY <1>2 DEF InOrder
  <2> QED  BY <1>2, <2>1 DEF Placed
<1>4. /\ Placed(patch, o, FALSE) /\ ~Placed(patch, o, TRUE)
      /\ Placed(patch, e, TRUE) /\ ~Placed(patch, e, FALSE)
  <2> HIDE DEF patch, h
  <2> QED  BY <1>1, <1>3, SelfPlace
<1>5. /\ Rewritten(patch, o, FALSE) = e
      /\ Rewritten(patch, e, TRUE) = o
  <2> HIDE DEF h
  <2> QED  BY <1>1, WholeRewritten
<1>6. Len(o) \in Nat /\ Len(e) \in Nat
  BY LenProperties
<1>8. /\ Ended(o, "lf") = [text |-> o, ends |-> "lf"]
      /\ Ended(e, "lf") = [text |-> e, ends |-> "lf"]
      /\ Size(Ended(o, "lf")) = Len(o) /\ Size(Ended(e, "lf")) = Len(e)
  BY <1>6 DEF Ended, Size
<1>9. ~(Size(Ended(o, "lf")) > MaxTarget) /\ ~(Size(Ended(e, "lf")) > MaxTarget)
  BY <1>6, <1>8, EngineAssumption
<1> HIDE DEF patch, h
<1>10. Inspect(patch, Ended(o, "lf")) =
         [status |-> "applicable", output |-> Ended(e, "lf")]
  <2> DEFINE r == Ended(o, "lf")
  <2>1. r.text = o /\ r.ends = "lf"
    BY <1>8
  <2> HIDE DEF r
  <2>2. Inspect(patch, r) = WouldWrite("applicable", Ended(e, "lf"))
    BY <1>4, <1>5, <1>9, <2>1, InspectForward DEF r
  <2> QED  BY <1>9, <2>2 DEF WouldWrite, r
<1>11. Inspect(patch, Ended(e, "lf")) =
         [status |-> "applied", output |-> Ended(o, "lf")]
  <2> DEFINE r == Ended(e, "lf")
  <2>1. r.text = e /\ r.ends = "lf"
    BY <1>8
  <2> HIDE DEF r
  <2>2. Inspect(patch, r) = WouldWrite("applied", Ended(o, "lf"))
    BY <1>4, <1>5, <1>9, <2>1, InspectReverse DEF r
  <2> QED  BY <1>9, <2>2 DEF WouldWrite, r
<1> QED  BY <1>10, <1>11 DEF patch, h

\* What the editor is given stays an edit it accepts.
EditGiven ==
  /\ phase = "drafting" => script \in Scripts /\ context \in Nat
  /\ RefusedForCause

\* The editor refuses an edit only for a cause that no amount of context could
\* remove, for edits of any length.
THEOREM RefusalsHaveCause == Spec => []RefusedForCause
<1>1. Init => EditGiven
  BY EngineAssumption DEF Init, EditGiven, RefusedForCause
<1>2. EditGiven /\ [Next]_vars => EditGiven'
  <2> SUFFICES ASSUME EditGiven, [Next]_vars  PROVE EditGiven'
    OBVIOUS
  <2>1. CASE Widen
    <3>1. script \in Scripts /\ context \in Nat
      BY <2>1 DEF Widen, EditGiven
    <3>2. /\ NumLines(Original) \in Nat
          /\ NumLines(Edited) \in Nat
      BY <3>1, ScriptType, SideBounds DEF Original, Edited
    <3>3. Maximum \in Nat
      BY <3>2 DEF Maximum, Longer
    <3>4. context' \in Nat /\ script' = script /\ phase' = "drafting"
      BY <2>1, <3>1, <3>3 DEF Widen
    <3> QED
      BY <3>1, <3>4 DEF EditGiven, RefusedForCause, Scripts, Side
  <2>2. CASE Refuse
    <3>1. script \in Scripts /\ context \in Nat
      BY <2>2 DEF Refuse, EditGiven
    <3>2. ~RoundTrip(Candidate(context)) /\ context >= Maximum
      BY <2>2 DEF Refuse, Exhausted
    <3>3. Candidate(context) = <<[before |-> Original, after |-> Edited]>>
      BY <3>1, <3>2, AllKept, OneHunk
    <3>4. /\ Original \in Seq(Bytes) /\ Len(Original) <= 2 * Len(script)
          /\ Edited \in Seq(Bytes) /\ Len(Edited) <= 2 * Len(script)
      BY <3>1, ScriptType, SideBounds DEF Original, Edited
    <3>5. Len(Original) <= MaxTarget /\ Len(Edited) <= MaxTarget
      <4>1. Len(script) \in 1 .. MaxScript
        BY <3>1, ScriptType
      <4>2. Len(Original) \in Nat /\ Len(Edited) \in Nat
        BY <3>4, LenProperties
      <4> QED  BY <3>4, <4>1, <4>2, EngineAssumption
    <3>6. Anchored(Candidate(context))
      BY <3>1, <3>3, ScriptType DEF Anchored
    <3>7. Unique(Original, Edited) \/ Unique(Edited, Original)
      BY <3>2, <3>3, <3>4, <3>5, <3>6, WholeTrip DEF RoundTrip
    <3>8. Original' = Original /\ Edited' = Edited
      BY <2>2 DEF Refuse, Original, Edited
    <3> QED  BY <2>2, <3>7, <3>8 DEF Refuse, EditGiven, RefusedForCause
  <2>3. CASE Accept \/ Apply \/ Revert
    BY <2>3 DEF Accept, Apply, Revert, EditGiven, RefusedForCause
  <2>4. CASE UNCHANGED vars
    BY <2>4 DEF vars, EditGiven, RefusedForCause, Original, Edited, Scripts
  <2> QED  BY <2>1, <2>2, <2>3, <2>4 DEF Next
<1>3. EditGiven => RefusedForCause
  BY DEF EditGiven
<1> QED  BY <1>1, <1>2, <1>3, PTL DEF Spec

-----------------------------------------------------------------------------
(* What inspect writes                                                       *)

\* Where the part of a text after its first k hunks begins.
After(patch, text, reverse, k) ==
  IF k = 0 THEN 1 ELSE End(patch[k], text, reverse)

\* The text between the hunks before k and hunk k.
Between(patch, text, reverse, k) ==
  SubSeq(text, After(patch, text, reverse, k - 1),
         Begin(patch[k], text, reverse) - 1)

LEMMA SidesType ==
  ASSUME NEW h \in Hunks, NEW reverse \in BOOLEAN
  PROVE  Old(h, reverse) \in Seq(Bytes) /\ New(h, reverse) \in Seq(Bytes)
BY DEF Hunks, Old, New

\* The hunks of a placed patch lie in the text, one after the other.
LEMMA PlacedBounds ==
  ASSUME NEW text \in Seq(Bytes), NEW patch \in Seq(Hunks), NEW reverse \in BOOLEAN,
         Placed(patch, text, reverse), NEW k \in 1 .. Len(patch)
  PROVE  LET b == Begin(patch[k], text, reverse)
             e == End(patch[k], text, reverse)
             old == Old(patch[k], reverse)
         IN
         /\ patch[k] \in Hunks
         /\ Places(old, text) = {b}
         /\ b \in 1 .. Len(text) + 1 /\ e \in b .. Len(text) + 1
         /\ Len(old) \in Nat /\ e = b + Len(old)
         /\ After(patch, text, reverse, k - 1) \in 1 .. b
<1> DEFINE b == Begin(patch[k], text, reverse)
           e == End(patch[k], text, reverse)
           old == Old(patch[k], reverse)
<1>1. /\ Len(patch) \in Nat /\ DOMAIN patch = 1 .. Len(patch)
      /\ \A j \in 1 .. Len(patch) : patch[j] \in Hunks
      /\ Len(text) \in Nat
  BY LenProperties, ElementOfSeq
<1>2. ASSUME NEW j \in 1 .. Len(patch)
      PROVE  /\ Places(Old(patch[j], reverse), text) = {Begin(patch[j], text, reverse)}
             /\ Begin(patch[j], text, reverse) \in
                  1 .. Len(text) + 1 - Len(Old(patch[j], reverse))
             /\ Len(Old(patch[j], reverse)) \in Nat
             /\ End(patch[j], text, reverse) =
                  Begin(patch[j], text, reverse) + Len(Old(patch[j], reverse))
  <2>1. Old(patch[j], reverse) \in Seq(Bytes)
    BY <1>1, SidesType
  <2>2. Unique(Old(patch[j], reverse), text)
    BY <1>1 DEF Placed
  <2>3. Places(Old(patch[j], reverse), text) = {Begin(patch[j], text, reverse)}
    BY <2>1, <2>2, UniquePlace DEF Begin
  <2>4. Begin(patch[j], text, reverse) \in Places(Old(patch[j], reverse), text)
    BY <2>3
  <2>5. Begin(patch[j], text, reverse) \in
          1 .. Len(text) + 1 - Len(Old(patch[j], reverse))
    BY <2>4 DEF Places
  <2>6. Len(Old(patch[j], reverse)) \in Nat
    BY <2>1, LenProperties
  <2> QED  BY <2>3, <2>5, <2>6 DEF End
<1>3. /\ b \in 1 .. Len(text) + 1 /\ e \in b .. Len(text) + 1
  BY <1>1, <1>2
<1>4. After(patch, text, reverse, k - 1) \in 1 .. b
  <2>1. CASE k = 1
    BY <1>3, <2>1 DEF After
  <2>2. CASE k # 1
    <3>1. k \in 2 .. Len(patch) /\ k - 1 \in 1 .. Len(patch)
      BY <1>1, <2>2
    <3>2. Begin(patch[k], text, reverse) >= End(patch[k - 1], text, reverse)
      BY <3>1 DEF Placed, InOrder
    <3>3. End(patch[k - 1], text, reverse) \in Nat \ {0}
      <4>1. ASSUME NEW j \in 1 .. Len(patch)
            PROVE  End(patch[j], text, reverse) \in Nat \ {0}
        BY <1>1, <1>2
      <4> QED  BY <3>1, <4>1
    <3> QED  BY <1>3, <3>1, <3>2, <3>3 DEF After
  <2> QED  BY <2>1, <2>2
<1> QED  BY <1>1, <1>2, <1>3, <1>4

\* The part of a text between two places in it.
LEMMA PartOf ==
  ASSUME NEW S, NEW text \in Seq(S),
         NEW m \in 1 .. Len(text) + 1, NEW n \in m .. Len(text) + 1
  PROVE  /\ SubSeq(text, m, n - 1) \in Seq(S)
         /\ Len(SubSeq(text, m, n - 1)) = n - m
         /\ \A i \in 1 .. n - m : SubSeq(text, m, n - 1)[i] = text[m + i - 1]
<1>1. Len(text) \in Nat /\ \A i \in 1 .. Len(text) : text[i] \in S
  BY LenProperties, ElementOfSeq
<1>2. \A i \in m .. n - 1 : text[i] \in S
  BY <1>1
<1>3. m \in Int /\ n - 1 \in Int
  BY <1>1
<1>4. /\ SubSeq(text, m, n - 1) \in Seq(S)
      /\ Len(SubSeq(text, m, n - 1)) = IF m <= n - 1 THEN (n - 1) - m + 1 ELSE 0
      /\ \A i \in 1 .. (n - 1) - m + 1 : SubSeq(text, m, n - 1)[i] = text[m + i - 1]
  BY <1>2, <1>3, SubSeqProperties
<1>5. /\ (n - 1) - m + 1 = n - m
      /\ (IF m <= n - 1 THEN (n - 1) - m + 1 ELSE 0) = n - m
  BY <1>1
<1> QED  BY <1>4, <1>5

\* A rewritten text is built hunk by hunk.
LEMMA RewrittenGrows ==
  ASSUME NEW text \in Seq(Bytes), NEW patch \in Seq(Hunks), NEW reverse \in BOOLEAN,
         Placed(patch, text, reverse)
  PROVE  \E f \in [0 .. Len(patch) -> Seq(Bytes)] :
           /\ f[0] = <<>>
           /\ \A k \in 1 .. Len(patch) :
                f[k] = f[k - 1] \o (Between(patch, text, reverse, k)
                                      \o New(patch[k], reverse))
           /\ Rewritten(patch, text, reverse) =
                f[Len(patch)]
                  \o SubSeq(text, After(patch, text, reverse, Len(patch)), Len(text))
<1> DEFINE N == Len(patch)
           Piece(k) == Between(patch, text, reverse, k) \o New(patch[k], reverse)
           pieces == [k \in DOMAIN patch |-> Piece(k)]
<1>1. N \in Nat /\ DOMAIN patch = 1 .. N
  BY LenProperties
<1>2. ASSUME NEW k \in 1 .. N  PROVE Piece(k) \in Seq(Bytes)
  <2>1. /\ patch[k] \in Hunks
        /\ Begin(patch[k], text, reverse) \in 1 .. Len(text) + 1
        /\ After(patch, text, reverse, k - 1) \in 1 .. Begin(patch[k], text, reverse)
    BY <1>1, PlacedBounds
  <2>2. Len(text) \in Nat
    BY LenProperties
  <2>3. Between(patch, text, reverse, k) \in Seq(Bytes)
    <3>1. After(patch, text, reverse, k - 1) \in 1 .. Len(text) + 1
      BY <2>1, <2>2
    <3>2. Begin(patch[k], text, reverse) \in
            After(patch, text, reverse, k - 1) .. Len(text) + 1
      BY <2>1, <2>2
    <3> QED  BY <3>1, <3>2, PartOf DEF Between
  <2>4. New(patch[k], reverse) \in Seq(Bytes)
    BY <2>1, SidesType
  <2> QED  BY <2>3, <2>4, ConcatProperties
<1>3. pieces \in Seq(Seq(Bytes)) /\ Len(pieces) = N /\ \A k \in 1 .. N : pieces[k] = Piece(k)
  <2> HIDE DEF Piece
  <2>1. pieces \in [1 .. N -> Seq(Bytes)] /\ \A k \in 1 .. N : pieces[k] = Piece(k)
    BY <1>1, <1>2
  <2>2. pieces \in Seq(Seq(Bytes))
    BY <1>1, <2>1, SeqDef
  <2> QED  BY <1>1, <2>1, <2>2, LenProperties
<1>4. Rewritten(patch, text, reverse) =
        FlattenSeq(pieces)
          \o SubSeq(text, After(patch, text, reverse, N), Len(text))
  BY DEF Rewritten, Between, After
<1> HIDE DEF pieces, Piece
<1>5. \E f \in [0 .. Len(pieces) -> Seq(Bytes)] :
        /\ f[0] = <<>>
        /\ \A k \in 1 .. Len(pieces) : f[k] = f[k - 1] \o pieces[k]
        /\ FlattenSeq(pieces) = f[Len(pieces)]
  BY <1>3, FlattenGrows
<1>6. PICK f \in [0 .. N -> Seq(Bytes)] :
        /\ f[0] = <<>>
        /\ \A k \in 1 .. N : f[k] = f[k - 1] \o pieces[k]
        /\ FlattenSeq(pieces) = f[N]
  <2> HIDE DEF N
  <2> QED  BY <1>3, <1>5, Zenon
<1>7. \A k \in 1 .. N :
        f[k] = f[k - 1] \o (Between(patch, text, reverse, k) \o New(patch[k], reverse))
  BY <1>3, <1>6 DEF Piece
<1> QED  BY <1>4, <1>6, <1>7

\* Where the hunks and what is between them lie in a rewritten text: L[k] is
\* the last position of what hunk k left there.
Lies(patch, text, reverse, res, L) ==
  /\ L \in [0 .. Len(patch) -> Nat] /\ L[0] = 0
  /\ \A k \in 1 .. Len(patch) :
       LET at == L[k - 1] + (Begin(patch[k], text, reverse)
                               - After(patch, text, reverse, k - 1)) + 1
       IN /\ L[k] = at - 1 + Len(New(patch[k], reverse))
          /\ SubSeq(res, L[k - 1] + 1, at - 1) = Between(patch, text, reverse, k)
          /\ SubSeq(res, at, L[k]) = New(patch[k], reverse)
          /\ L[k] <= Len(res)
  /\ Len(res) = L[Len(patch)] + Len(text) + 1 - After(patch, text, reverse, Len(patch))
  /\ SubSeq(res, L[Len(patch)] + 1, Len(res)) =
       SubSeq(text, After(patch, text, reverse, Len(patch)), Len(text))

\* A text starts with three parts, and they are found in it.
StartsWith(res, p, b, n) ==
  LET all == p \o (b \o n) IN
  Len(all) <= Len(res) /\ \A i \in 1 .. Len(all) : res[i] = all[i]
Found(res, p, b, n) ==
  /\ SubSeq(res, Len(p) + 1, Len(p) + Len(b)) = b
  /\ SubSeq(res, Len(p) + Len(b) + 1, Len(p) + Len(b) + Len(n)) = n
  /\ Len(p \o (b \o n)) = Len(p) + Len(b) + Len(n)

LEMMA PartsFound ==
  ASSUME NEW p \in Seq(Bytes), NEW b \in Seq(Bytes), NEW n \in Seq(Bytes), NEW res \in Seq(Bytes),
         StartsWith(res, p, b, n)
  PROVE  Found(res, p, b, n)
<1> DEFINE P == Len(p)  B == Len(b)  N == Len(n)
           all == p \o (b \o n)
<1>0. Len(all) <= Len(res) /\ \A i \in 1 .. Len(all) : res[i] = all[i]
  BY DEF StartsWith
<1>1. P \in Nat /\ B \in Nat /\ N \in Nat /\ Len(res) \in Nat
  BY LenProperties
<1>2. /\ b \o n \in Seq(Bytes) /\ Len(b \o n) = B + N
      /\ \A i \in 1 .. B + N : (b \o n)[i] = IF i <= B THEN b[i] ELSE n[i - B]
  BY ConcatProperties
<1>3. /\ Len(all) = P + (B + N)
      /\ \A i \in 1 .. P + (B + N) : all[i] = IF i <= P THEN p[i] ELSE (b \o n)[i - P]
  BY <1>2, ConcatProperties
<1>4. Len(all) = P + B + N /\ P + B + N <= Len(res)
  BY <1>0, <1>1, <1>3
<1> HIDE DEF all
<1>5. ASSUME NEW i \in 1 .. B  PROVE res[P + i] = b[i]
  <2>1. P + i \in 1 .. P + (B + N) /\ ~ (P + i <= P) /\ (P + i) - P = i /\ i \in 1 .. B + N
    BY <1>1
  <2>2. res[P + i] = all[P + i]
    BY <1>0, <1>3, <2>1
  <2>3. all[P + i] = (b \o n)[i]
    BY <1>3, <2>1
  <2>4. (b \o n)[i] = b[i]
    BY <1>2, <2>1
  <2> QED  BY <2>2, <2>3, <2>4
<1>6. ASSUME NEW i \in 1 .. N  PROVE res[P + B + i] = n[i]
  <2> DEFINE j == P + B + i
  <2>1. /\ j \in 1 .. P + (B + N) /\ ~ (j <= P) /\ j - P = B + i
        /\ B + i \in 1 .. B + N /\ ~ (B + i <= B) /\ (B + i) - B = i
    BY <1>1
  <2> HIDE DEF j
  <2>2. res[j] = all[j]
    BY <1>0, <1>3, <2>1
  <2>3. all[j] = (b \o n)[B + i]
    BY <1>3, <2>1
  <2>4. (b \o n)[B + i] = n[i]
    BY <1>2, <2>1
  <2> QED  BY <2>2, <2>3, <2>4 DEF j
<1> HIDE DEF P, B, N
<1>7. SubSeq(res, P + 1, P + B) = b
  <2> DEFINE m1 == P + 1  m2 == P + B + 1
  <2>1. m1 \in 1 .. Len(res) + 1 /\ m2 \in m1 .. Len(res) + 1 /\ m2 - m1 = B /\ m2 - 1 = P + B
    BY <1>1, <1>4
  <2>2. \A i \in 1 .. B : m1 + i - 1 = P + i
    BY <1>1
  <2> HIDE DEF m1, m2
  <2>3. /\ SubSeq(res, m1, m2 - 1) \in Seq(Bytes) /\ Len(SubSeq(res, m1, m2 - 1)) = B
        /\ \A i \in 1 .. B : SubSeq(res, m1, m2 - 1)[i] = res[m1 + i - 1]
    BY <2>1, PartOf
  <2>4. \A i \in 1 .. B : SubSeq(res, m1, m2 - 1)[i] = b[i]
    BY <1>5, <2>2, <2>3
  <2>5. SubSeq(res, m1, m2 - 1) = b
    BY <2>3, <2>4, SeqEqual DEF B
  <2> QED  BY <2>1, <2>5 DEF m1
<1>8. SubSeq(res, P + B + 1, P + B + N) = n
  <2> DEFINE m1 == P + B + 1  m2 == P + B + N + 1
  <2>1. m1 \in 1 .. Len(res) + 1 /\ m2 \in m1 .. Len(res) + 1 /\ m2 - m1 = N /\ m2 - 1 = P + B + N
    BY <1>1, <1>4
  <2>2. \A i \in 1 .. N : m1 + i - 1 = P + B + i
    BY <1>1
  <2> HIDE DEF m1, m2
  <2>3. /\ SubSeq(res, m1, m2 - 1) \in Seq(Bytes) /\ Len(SubSeq(res, m1, m2 - 1)) = N
        /\ \A i \in 1 .. N : SubSeq(res, m1, m2 - 1)[i] = res[m1 + i - 1]
    BY <2>1, PartOf
  <2>4. \A i \in 1 .. N : SubSeq(res, m1, m2 - 1)[i] = n[i]
    BY <1>6, <2>2, <2>3
  <2>5. SubSeq(res, m1, m2 - 1) = n
    BY <2>3, <2>4, SeqEqual DEF N
  <2> QED  BY <2>1, <2>5 DEF m1
<1> QED  BY <1>4, <1>7, <1>8 DEF P, B, N, all, Found

LEMMA RewrittenLies ==
  ASSUME NEW text \in Seq(Bytes), NEW patch \in Seq(Hunks), NEW reverse \in BOOLEAN,
         Placed(patch, text, reverse)
  PROVE  /\ Rewritten(patch, text, reverse) \in Seq(Bytes)
         /\ \E L : Lies(patch, text, reverse, Rewritten(patch, text, reverse), L)
<1> DEFINE N == Len(patch)
           res == Rewritten(patch, text, reverse)
           A(k) == After(patch, text, reverse, k)
           W(k) == Between(patch, text, reverse, k)
           M(k) == New(patch[k], reverse)
           tail == SubSeq(text, A(N), Len(text))
<1>1. N \in Nat /\ DOMAIN patch = 1 .. N /\ Len(text) \in Nat
  BY LenProperties
<1>2. PICK f \in [0 .. N -> Seq(Bytes)] :
        /\ f[0] = <<>>
        /\ \A k \in 1 .. N : f[k] = f[k - 1] \o (W(k) \o M(k))
        /\ res = f[N] \o tail
  BY RewrittenGrows
<1> HIDE DEF res
<1>3. A(N) \in 1 .. Len(text) + 1
  <2>1. CASE N = 0
    BY <1>1, <2>1 DEF After
  <2>2. CASE N # 0
    <3>1. N \in 1 .. Len(patch)
      BY <1>1, <2>2
    <3>2. /\ Begin(patch[N], text, reverse) \in 1 .. Len(text) + 1
          /\ End(patch[N], text, reverse) \in
               Begin(patch[N], text, reverse) .. Len(text) + 1
      BY <3>1, PlacedBounds
    <3>3. End(patch[N], text, reverse) \in 1 .. Len(text) + 1
      BY <1>1, <3>2
    <3> QED  BY <2>2, <3>3 DEF After
  <2> QED  BY <2>1, <2>2
<1>4. tail \in Seq(Bytes) /\ Len(tail) = Len(text) + 1 - A(N)
  <2> HIDE DEF A
  <2>1. Len(text) + 1 \in A(N) .. Len(text) + 1 /\ (Len(text) + 1) - 1 = Len(text)
    BY <1>1, <1>3
  <2> QED  BY <1>3, <2>1, PartOf
<1>5. ASSUME NEW k \in 1 .. N
      PROVE  /\ W(k) \in Seq(Bytes) /\ M(k) \in Seq(Bytes)
             /\ Len(W(k)) = Begin(patch[k], text, reverse) - A(k - 1)
  <2>1. /\ patch[k] \in Hunks
        /\ Begin(patch[k], text, reverse) \in 1 .. Len(text) + 1
        /\ A(k - 1) \in 1 .. Begin(patch[k], text, reverse)
    BY PlacedBounds
  <2> HIDE DEF A
  <2>2. /\ A(k - 1) \in 1 .. Len(text) + 1
        /\ Begin(patch[k], text, reverse) \in A(k - 1) .. Len(text) + 1
    BY <1>1, <2>1
  <2>3. /\ SubSeq(text, A(k - 1), Begin(patch[k], text, reverse) - 1) \in Seq(Bytes)
        /\ Len(SubSeq(text, A(k - 1), Begin(patch[k], text, reverse) - 1)) =
             Begin(patch[k], text, reverse) - A(k - 1)
    BY <2>2, PartOf
  <2> QED  BY <2>1, <2>3, SidesType DEF Between, A
<1> HIDE DEF A, W, M, tail
<1>6. /\ res \in Seq(Bytes)
      /\ Len(res) = Len(f[N]) + Len(tail)
      /\ \A i \in 1 .. Len(f[N]) : res[i] = f[N][i]
      /\ \A i \in 1 .. Len(tail) : res[Len(f[N]) + i] = tail[i]
  <2>1. f[N] \in Seq(Bytes) /\ Len(f[N]) \in Nat /\ Len(tail) \in Nat
    BY <1>1, <1>2, <1>4, LenProperties
  <2>2. /\ res \in Seq(Bytes) /\ Len(res) = Len(f[N]) + Len(tail)
        /\ \A i \in 1 .. Len(f[N]) + Len(tail) :
             res[i] = IF i <= Len(f[N]) THEN f[N][i] ELSE tail[i - Len(f[N])]
    BY <1>2, <1>4, <2>1, ConcatProperties
  <2>3. \A i \in 1 .. Len(f[N]) : res[i] = f[N][i]
    BY <2>1, <2>2
  <2>4. \A i \in 1 .. Len(tail) : res[Len(f[N]) + i] = tail[i]
    <3> TAKE i \in 1 .. Len(tail)
    <3>1. /\ Len(f[N]) + i \in 1 .. Len(f[N]) + Len(tail)
          /\ ~ (Len(f[N]) + i <= Len(f[N])) /\ (Len(f[N]) + i) - Len(f[N]) = i
      BY <2>1
    <3> QED  BY <2>2, <3>1
  <2> QED  BY <2>2, <2>3, <2>4
<1>7. ASSUME NEW k \in 0 .. N
      PROVE  /\ Len(f[k]) \in Nat /\ Len(f[k]) <= Len(f[N])
             /\ \A i \in 1 .. Len(f[k]) : f[N][i] = f[k][i]
  <2> DEFINE Prefix(d) == /\ Len(f[N - d]) <= Len(f[N])
                          /\ \A i \in 1 .. Len(f[N - d]) : f[N][i] = f[N - d][i]
             Ok == {d \in Nat : d \in 0 .. N => Prefix(d)}
  <2>1. 0 \in Ok
    <3>1. N - 0 = N /\ Len(f[N]) \in Nat
      BY <1>1, <1>2, LenProperties
    <3> QED  BY <3>1
  <2> HIDE DEF Prefix
  <2>2. ASSUME NEW d \in Ok  PROVE d + 1 \in Ok
    <3> SUFFICES ASSUME d + 1 \in 0 .. N  PROVE Prefix(d + 1)
      OBVIOUS
    <3> DEFINE m == N - d
    <3>1. m \in 1 .. N /\ m - 1 \in 0 .. N /\ N - (d + 1) = m - 1 /\ d \in 0 .. N
      BY <1>1
    <3>2. Prefix(d)
      BY <3>1
    <3>3. /\ Len(f[m]) <= Len(f[N])
          /\ \A i \in 1 .. Len(f[m]) : f[N][i] = f[m][i]
      BY <3>2 DEF Prefix
    <3> HIDE DEF m
    <3>4. f[m] = f[m - 1] \o (W(m) \o M(m)) /\ f[m - 1] \in Seq(Bytes)
      BY <1>2, <3>1
    <3> DEFINE added == W(m) \o M(m)
    <3>5. added \in Seq(Bytes)
      BY <1>5, <3>1, ConcatProperties
    <3> HIDE DEF added
    <3>6. f[m] = f[m - 1] \o added
      BY <3>4 DEF added
    <3>7. /\ Len(f[m]) = Len(f[m - 1]) + Len(added)
          /\ \A i \in 1 .. Len(f[m - 1]) + Len(added) :
               f[m][i] = IF i <= Len(f[m - 1]) THEN f[m - 1][i]
                                               ELSE added[i - Len(f[m - 1])]
      BY <3>4, <3>5, <3>6, ConcatProperties
    <3>8. Len(f[m - 1]) \in Nat /\ Len(added) \in Nat /\ Len(f[N]) \in Nat
      BY <1>1, <1>2, <3>4, <3>5, LenProperties
    <3>9. /\ Len(f[m - 1]) <= Len(f[N])
          /\ \A i \in 1 .. Len(f[m - 1]) : f[N][i] = f[m - 1][i]
      BY <3>3, <3>7, <3>8
    <3> QED  BY <3>1, <3>9 DEF Prefix
  <2>3. Ok \in SUBSET Nat
    OBVIOUS
  <2> HIDE DEF Ok
  <2>4. Ok = Nat
    BY <2>1, <2>2, <2>3, Induction
  <2>5. N - k \in Nat /\ N - k \in 0 .. N /\ N - (N - k) = k
    BY <1>1
  <2>6. Prefix(N - k)
    BY <2>4, <2>5 DEF Ok
  <2>7. Len(f[k]) \in Nat
    BY <1>2, LenProperties
  <2> QED  BY <2>5, <2>6, <2>7 DEF Prefix
<1> DEFINE L == [k \in 0 .. N |-> Len(f[k])]
           at(k) == L[k - 1] + (Begin(patch[k], text, reverse) - A(k - 1)) + 1
<1>8. L \in [0 .. N -> Nat] /\ L[0] = 0
  BY <1>1, <1>2, <1>7, EmptySeq
<1>9. ASSUME NEW k \in 1 .. N
      PROVE  /\ L[k] = at(k) - 1 + Len(M(k))
             /\ SubSeq(res, L[k - 1] + 1, at(k) - 1) = W(k)
             /\ SubSeq(res, at(k), L[k]) = M(k)
             /\ L[k] <= Len(res)
  <2>1. k - 1 \in 0 .. N /\ k \in 0 .. N
    BY <1>1
  <2>2. f[k] = f[k - 1] \o (W(k) \o M(k)) /\ f[k - 1] \in Seq(Bytes)
    BY <1>2, <2>1
  <2>3. W(k) \in Seq(Bytes) /\ M(k) \in Seq(Bytes)
    BY <1>5
  <2>4. Len(tail) \in Nat /\ Len(f[N]) \in Nat
    BY <1>1, <1>4, <1>7, LenProperties
  <2>5. /\ Len(f[k]) \in Nat /\ Len(f[k]) <= Len(res)
        /\ \A i \in 1 .. Len(f[k]) : res[i] = f[k][i]
    <3>1. /\ Len(f[k]) \in Nat /\ Len(f[k]) <= Len(f[N])
          /\ \A i \in 1 .. Len(f[k]) : f[N][i] = f[k][i]
      BY <1>7, <2>1
    <3> QED  BY <1>6, <2>4, <3>1
  <2>6. /\ SubSeq(res, Len(f[k - 1]) + 1, Len(f[k - 1]) + Len(W(k))) = W(k)
        /\ SubSeq(res, Len(f[k - 1]) + Len(W(k)) + 1,
                  Len(f[k - 1]) + Len(W(k)) + Len(M(k))) = M(k)
        /\ Len(f[k]) = Len(f[k - 1]) + Len(W(k)) + Len(M(k))
    <3> DEFINE first == f[k - 1]  second == W(k)  third == M(k)
    <3>1. first \in Seq(Bytes)
      BY <2>2
    <3>2. second \in Seq(Bytes)
      BY <2>3
    <3>3. third \in Seq(Bytes)
      BY <2>3
    <3>4. res \in Seq(Bytes)
      BY <1>6
    <3>5. StartsWith(res, first, second, third)
      <4>1. f[k] = first \o (second \o third)
        BY <2>2
      <4> QED  BY <2>5, <4>1 DEF StartsWith
    <3> HIDE DEF first, second, third
    <3>6. Found(res, first, second, third)
      BY <3>1, <3>2, <3>3, <3>4, <3>5, PartsFound
    <3> QED  BY <2>2, <3>6 DEF first, second, third, Found
  <2>7. Len(f[k - 1]) \in Nat /\ Len(W(k)) \in Nat /\ Len(M(k)) \in Nat
    BY <1>7, <2>1, <2>3, LenProperties
  <2>8. L[k] = Len(f[k]) /\ L[k - 1] = Len(f[k - 1])
    BY <2>1
  <2> HIDE DEF L
  <2>9. at(k) = Len(f[k - 1]) + Len(W(k)) + 1
    BY <1>5, <2>8
  <2> HIDE DEF at
  <2>10. at(k) - 1 = Len(f[k - 1]) + Len(W(k))
    BY <2>7, <2>9
  <2> QED  BY <2>5, <2>6, <2>7, <2>8, <2>9, <2>10
<1>10. L[N] = Len(f[N])
  BY <1>1
<1>11. Len(res) = L[N] + Len(text) + 1 - A(N)
  <2>1. Len(f[N]) \in Nat
    BY <1>1, <1>7
  <2> HIDE DEF L
  <2> QED  BY <1>1, <1>3, <1>4, <1>6, <1>10, <2>1
<1>12. SubSeq(res, L[N] + 1, Len(res)) = tail
  <2> HIDE DEF L
  <2> DEFINE m1 == L[N] + 1  m2 == Len(res) + 1
  <2>1. Len(f[N]) \in Nat /\ Len(tail) \in Nat /\ Len(res) \in Nat
    BY <1>1, <1>4, <1>6, <1>7, LenProperties
  <2>2. /\ m1 \in 1 .. Len(res) + 1 /\ m2 \in m1 .. Len(res) + 1
        /\ m2 - m1 = Len(tail) /\ m2 - 1 = Len(res)
        /\ \A i \in 1 .. Len(tail) : m1 + i - 1 = Len(f[N]) + i
    <3>1. Len(res) = L[N] + Len(tail) /\ L[N] \in Nat
      BY <1>6, <1>10, <2>1
    <3> DEFINE a == L[N]  t == Len(tail)  r == Len(res)
    <3>2. a = Len(f[N])
      BY <1>10
    <3>3. a \in Nat /\ t \in Nat /\ r \in Nat /\ r = a + t
      BY <2>1, <3>1
    <3> HIDE DEF a, t, r
    <3>4. /\ a + 1 \in 1 .. r + 1 /\ r + 1 \in a + 1 .. r + 1
          /\ (r + 1) - (a + 1) = t /\ (r + 1) - 1 = r
          /\ \A i \in 1 .. t : (a + 1) + i - 1 = a + i
      BY <3>3
    <3> QED  BY <3>2, <3>4 DEF a, t, r
  <2> HIDE DEF m1, m2
  <2>3. /\ SubSeq(res, m1, m2 - 1) \in Seq(Bytes)
        /\ Len(SubSeq(res, m1, m2 - 1)) = Len(tail)
        /\ \A i \in 1 .. Len(tail) : SubSeq(res, m1, m2 - 1)[i] = res[m1 + i - 1]
    BY <1>6, <2>2, PartOf
  <2>4. \A i \in 1 .. Len(tail) : SubSeq(res, m1, m2 - 1)[i] = tail[i]
    BY <1>6, <2>2, <2>3
  <2>5. SubSeq(res, m1, m2 - 1) = tail
    BY <1>4, <2>3, <2>4, SeqEqual
  <2> QED  BY <2>2, <2>5 DEF m1
<1> HIDE DEF L
<1>13. Lies(patch, text, reverse, res, L)
  BY <1>8, <1>9, <1>11, <1>12 DEF Lies, A, W, M, N, tail, at
<1> QED  BY <1>6, <1>13 DEF res

-----------------------------------------------------------------------------
(* Back to the bytes there were                                              *)

\* parse only accepts hunks with lines on both sides.
Sided(patch) ==
  \A k \in 1 .. Len(patch) : patch[k].before # <<>> /\ patch[k].after # <<>>

\* No new side without its newline is put where the text goes on.
Unglued(patch, text, reverse) ==
  \A k \in 1 .. Len(patch) :
    \/ Last(New(patch[k], reverse)) = NL
    \/ End(patch[k], text, reverse) = Len(text) + 1

\* The numbers of hunk k: where it lies in the text, and in the result.
LEMMA LiesNumbers ==
  ASSUME NEW text \in Seq(Bytes), NEW patch \in Seq(Hunks), NEW res \in Seq(Bytes),
         NEW reverse \in BOOLEAN, NEW L, Lies(patch, text, reverse, res, L),
         Placed(patch, text, reverse), Sided(patch), NEW k \in 1 .. Len(patch)
  PROVE  LET B == Begin(patch[k], text, reverse)
             A == After(patch, text, reverse, k - 1)
             old == Old(patch[k], reverse)
             new == New(patch[k], reverse)
         IN
         /\ new \in Seq(Bytes) /\ Len(new) \in Nat \ {0}
         /\ old \in Seq(Bytes) /\ Len(old) \in Nat \ {0}
         /\ B \in 1 .. Len(text) + 1 /\ A \in 1 .. B
         /\ End(patch[k], text, reverse) = B + Len(old)
         /\ B + Len(old) <= Len(text) + 1
         /\ L[k - 1] \in Nat /\ L[k] \in Nat /\ L[k] <= Len(res)
         /\ L[k] = L[k - 1] + (B - A) + Len(new)
<1> DEFINE B == Begin(patch[k], text, reverse)
           E == End(patch[k], text, reverse)
           A == After(patch, text, reverse, k - 1)
           old == Old(patch[k], reverse)
           new == New(patch[k], reverse)
<1>1. Len(patch) \in Nat /\ Len(text) \in Nat
  BY LenProperties
<1>2. /\ patch[k] \in Hunks
      /\ B \in 1 .. Len(text) + 1 /\ E \in B .. Len(text) + 1
      /\ E = B + Len(old)
      /\ A \in 1 .. B
  BY PlacedBounds
<1>3. old \in Seq(Bytes) /\ new \in Seq(Bytes)
  BY <1>2, SidesType
<1>4. old # <<>> /\ new # <<>>
  BY DEF Sided, Old, New
<1>5. Len(old) \in Nat \ {0} /\ Len(new) \in Nat \ {0}
  BY <1>3, <1>4, EmptySeq, LenProperties
<1>6. L[k - 1] \in Nat /\ L[k] \in Nat
  <2>1. k - 1 \in 0 .. Len(patch) /\ k \in 0 .. Len(patch)
    BY <1>1
  <2> QED  BY <2>1 DEF Lies
<1>7. /\ L[k] = (L[k - 1] + (B - A) + 1) - 1 + Len(new)
      /\ L[k] <= Len(res)
  BY DEF Lies
<1> HIDE DEF B, A, E, old, new
<1>8. L[k] = L[k - 1] + (B - A) + Len(new)
  BY <1>1, <1>2, <1>5, <1>6, <1>7
<1>9. B + Len(old) <= Len(text) + 1
  BY <1>1, <1>2
<1> QED  BY <1>2, <1>3, <1>5, <1>6, <1>7, <1>8, <1>9 DEF B, A, E, old, new

\* What lies there: what was between the hunks, and the new side.
PartsLie(res, L, k, between, new) ==
  /\ SubSeq(res, L[k - 1] + 1, L[k] - Len(new)) = between
  /\ SubSeq(res, L[k] + 1 - Len(new), L[k]) = new

LEMMA LiesParts ==
  ASSUME NEW text \in Seq(Bytes), NEW patch \in Seq(Hunks), NEW res \in Seq(Bytes),
         NEW reverse \in BOOLEAN, NEW L, Lies(patch, text, reverse, res, L),
         Placed(patch, text, reverse), Sided(patch), NEW k \in 1 .. Len(patch)
  PROVE  PartsLie(res, L, k, Between(patch, text, reverse, k), New(patch[k], reverse))
<1> DEFINE B == Begin(patch[k], text, reverse)
           A == After(patch, text, reverse, k - 1)
           new == New(patch[k], reverse)
           at == L[k - 1] + (B - A) + 1
<1>1. Len(patch) \in Nat /\ Len(text) \in Nat
  BY LenProperties
<1>2. /\ Len(new) \in Nat /\ L[k] \in Nat /\ L[k - 1] \in Nat
      /\ B \in 1 .. Len(text) + 1 /\ A \in 1 .. B
      /\ L[k] = L[k - 1] + (B - A) + Len(new)
  BY LiesNumbers
<1>3. /\ SubSeq(res, L[k - 1] + 1, at - 1) = Between(patch, text, reverse, k)
      /\ SubSeq(res, at, L[k]) = new
  BY DEF Lies
<1> HIDE DEF A, B, new
<1>4. at = L[k] + 1 - Len(new) /\ at - 1 = L[k] - Len(new)
  BY <1>1, <1>2
<1> HIDE DEF at
<1> QED  BY <1>3, <1>4 DEF new, PartsLie

LEMMA OldPlace ==
  ASSUME NEW text \in Seq(Bytes), NEW patch \in Seq(Hunks), NEW reverse \in BOOLEAN,
         Placed(patch, text, reverse), NEW k \in 1 .. Len(patch)
  PROVE  Begin(patch[k], text, reverse) \in Places(Old(patch[k], reverse), text)
<1>1. Places(Old(patch[k], reverse), text) = {Begin(patch[k], text, reverse)}
  <2>1. patch[k] \in Hunks /\ k \in DOMAIN patch
    BY LenProperties, ElementOfSeq
  <2>2. Old(patch[k], reverse) \in Seq(Bytes)
    BY <2>1, SidesType
  <2>3. Unique(Old(patch[k], reverse), text)
    BY <2>1 DEF Placed
  <2> QED  BY <2>2, <2>3, UniquePlace DEF Begin
<1> QED  BY <1>1

\* What hunk k left ends with the end of its new side.
LEMMA NewEnds ==
  ASSUME NEW text \in Seq(Bytes), NEW patch \in Seq(Hunks), NEW res \in Seq(Bytes),
         NEW reverse \in BOOLEAN, NEW L, Lies(patch, text, reverse, res, L),
         Placed(patch, text, reverse), Sided(patch), NEW k \in 1 .. Len(patch)
  PROVE  res[L[k]] = Last(New(patch[k], reverse))
<1> DEFINE new == New(patch[k], reverse)
           n == Len(new)
           m == L[k] + 1 - n
           B == Begin(patch[k], text, reverse)
           A == After(patch, text, reverse, k - 1)
<1>1. Len(text) \in Nat /\ Len(res) \in Nat
  BY LenProperties
<1>2. /\ n \in Nat \ {0} /\ L[k] \in Nat /\ L[k - 1] \in Nat /\ L[k] <= Len(res)
      /\ L[k] = L[k - 1] + (B - A) + n
      /\ B \in 1 .. Len(text) + 1 /\ A \in 1 .. B
  BY LiesNumbers
<1>3. SubSeq(res, m, L[k]) = new
  BY LiesParts DEF PartsLie, Between
<1> HIDE DEF n, new, A, B
<1>4. /\ m \in 1 .. Len(res) + 1 /\ L[k] + 1 \in m .. Len(res) + 1
      /\ (L[k] + 1) - 1 = L[k] /\ n \in 1 .. (L[k] + 1) - m /\ m + n - 1 = L[k]
  <2> DEFINE y == L[k]  x == L[k - 1]
  <2>1. /\ n \in Nat \ {0} /\ x \in Nat /\ y <= Len(res) /\ y = x + (B - A) + n
        /\ B \in Nat /\ A \in 1 .. B
    BY <1>1, <1>2
  <2> HIDE DEF x, y
  <2>2. /\ y + 1 - n \in 1 .. Len(res) + 1 /\ y + 1 \in y + 1 - n .. Len(res) + 1
        /\ (y + 1) - 1 = y /\ n \in 1 .. (y + 1) - (y + 1 - n) /\ (y + 1 - n) + n - 1 = y
    BY <1>1, <2>1
  <2> QED  BY <2>2 DEF y
<1> HIDE DEF m
<1>5. \A i \in 1 .. (L[k] + 1) - m : SubSeq(res, m, (L[k] + 1) - 1)[i] = res[m + i - 1]
  BY <1>4, PartOf
<1>6. SubSeq(res, m, L[k])[n] = res[L[k]]
  BY <1>4, <1>5
<1>7. new[n] = res[L[k]]
  BY <1>3, <1>6
<1> QED  BY <1>7 DEF Last, n, new

\* Text kept before a new side ends a line, as it did before the old side.
LEMMA GapEnds ==
  ASSUME NEW text \in Seq(Bytes), NEW patch \in Seq(Hunks), NEW res \in Seq(Bytes),
         NEW reverse \in BOOLEAN, NEW L, Lies(patch, text, reverse, res, L),
         Placed(patch, text, reverse), Sided(patch), NEW k \in 1 .. Len(patch),
         Begin(patch[k], text, reverse) # After(patch, text, reverse, k - 1)
  PROVE  res[L[k] - Len(New(patch[k], reverse))] = NL
<1> DEFINE n == Len(New(patch[k], reverse))
           B == Begin(patch[k], text, reverse)
           A == After(patch, text, reverse, k - 1)
           d == B - A
           m == L[k - 1] + 1
<1>1. Len(text) \in Nat /\ Len(res) \in Nat
  BY LenProperties
<1>2. /\ n \in Nat \ {0} /\ L[k] \in Nat /\ L[k - 1] \in Nat /\ L[k] <= Len(res)
      /\ L[k] = L[k - 1] + (B - A) + n
      /\ B \in 1 .. Len(text) + 1 /\ A \in 1 .. B
  BY LiesNumbers
<1>3. /\ SubSeq(res, L[k - 1] + 1, L[k] - n) = SubSeq(text, A, B - 1)
      /\ SubSeq(res, L[k] + 1 - n, L[k]) = New(patch[k], reverse)
  <2>1. PartsLie(res, L, k, Between(patch, text, reverse, k), New(patch[k], reverse))
    BY LiesParts
  <2> QED  BY <2>1 DEF PartsLie, Between
<1>4. B \in Places(Old(patch[k], reverse), text)
  BY OldPlace
<1>5. B = 1 \/ text[B - 1] = NL
  BY <1>4 DEF Places
<1>6. B # A
  OBVIOUS
<1> HIDE DEF n, A, B
<1>7. text[B - 1] = NL
  BY <1>1, <1>2, <1>5, <1>6
<1>8. /\ A \in 1 .. Len(text) + 1 /\ B \in A .. Len(text) + 1
      /\ d \in 1 .. B - A /\ A + d - 1 = B - 1
  BY <1>1, <1>2, <1>6
<1>9. /\ m \in 1 .. Len(res) + 1 /\ m + d \in m .. Len(res) + 1
      /\ (m + d) - 1 = L[k] - n /\ m + d - 1 = L[k] - n /\ d \in 1 .. (m + d) - m
  <2> DEFINE y == L[k]  x == L[k - 1]
  <2>1. /\ n \in Nat \ {0} /\ x \in Nat /\ y <= Len(res) /\ y = x + (B - A) + n
        /\ B \in Nat /\ A \in 1 .. B /\ B # A
    BY <1>1, <1>2, <1>6
  <2> HIDE DEF x, y
  <2>2. /\ x + 1 \in 1 .. Len(res) + 1 /\ (x + 1) + (B - A) \in x + 1 .. Len(res) + 1
        /\ ((x + 1) + (B - A)) - 1 = y - n /\ (x + 1) + (B - A) - 1 = y - n
        /\ B - A \in 1 .. ((x + 1) + (B - A)) - (x + 1)
    BY <1>1, <2>1
  <2> QED  BY <2>2 DEF x, y
<1>3a. SubSeq(res, m, L[k] - n) = SubSeq(text, A, B - 1)
  BY <1>3
<1> HIDE DEF m, d
<1>10. SubSeq(text, A, B - 1)[d] = text[B - 1]
  <2>1. \A i \in 1 .. B - A : SubSeq(text, A, B - 1)[i] = text[A + i - 1]
    BY <1>8, PartOf
  <2> QED  BY <1>8, <2>1
<1>11. SubSeq(res, m, L[k] - n)[d] = res[L[k] - n]
  <2>1. \A i \in 1 .. (m + d) - m : SubSeq(res, m, (m + d) - 1)[i] = res[m + i - 1]
    BY <1>9, PartOf
  <2> QED  BY <1>9, <2>1
<1>12. res[L[k] - n] = NL
  BY <1>3a, <1>7, <1>10, <1>11
<1> QED  BY <1>12 DEF n

\* Unless lines were glued, every new side is a place of its own in the result.
LEMMA NewPlaces ==
  ASSUME NEW text \in Seq(Bytes), NEW patch \in Seq(Hunks), NEW res \in Seq(Bytes),
         NEW reverse \in BOOLEAN, NEW L, Lies(patch, text, reverse, res, L),
         Placed(patch, text, reverse), Sided(patch), Unglued(patch, text, reverse),
         NEW k \in 1 .. Len(patch)
  PROVE  L[k] + 1 - Len(New(patch[k], reverse)) \in Places(New(patch[k], reverse), res)
<1> DEFINE N == Len(patch)
           new == New(patch[k], reverse)
           n == Len(new)
           at == L[k] + 1 - n
           B == Begin(patch[k], text, reverse)
           A == After(patch, text, reverse, k - 1)
           E == End(patch[k], text, reverse)
<1>1. N \in Nat /\ Len(text) \in Nat /\ Len(res) \in Nat
  BY LenProperties
<1>2. /\ n \in Nat \ {0} /\ L[k] \in Nat /\ L[k - 1] \in Nat /\ L[k] <= Len(res)
      /\ L[k] = L[k - 1] + (B - A) + n
      /\ B \in 1 .. Len(text) + 1 /\ A \in 1 .. B /\ B # Len(text) + 1
  <2>1. /\ B + Len(Old(patch[k], reverse)) <= Len(text) + 1
        /\ Len(Old(patch[k], reverse)) \in Nat \ {0}
        /\ n \in Nat \ {0} /\ L[k] \in Nat /\ L[k - 1] \in Nat /\ L[k] <= Len(res)
        /\ L[k] = L[k - 1] + (B - A) + n
        /\ B \in 1 .. Len(text) + 1 /\ A \in 1 .. B
    BY LiesNumbers
  <2> HIDE DEF n, A, B
  <2> QED  BY <1>1, <2>1
<1>3. /\ at \in 1 .. Len(res) + 1 - n
      /\ at + n - 1 = L[k] /\ at - 1 = L[k] - n /\ at - 1 = L[k - 1] + (B - A)
  <2> DEFINE y == L[k]  x == L[k - 1]
  <2> HIDE DEF n, A, B
  <2>1. /\ n \in Nat \ {0} /\ x \in Nat /\ y <= Len(res) /\ y = x + (B - A) + n
        /\ B \in Nat /\ A \in 1 .. B
    BY <1>1, <1>2
  <2> HIDE DEF x, y
  <2>2. /\ y + 1 - n \in 1 .. Len(res) + 1 - n
        /\ (y + 1 - n) + n - 1 = y /\ (y + 1 - n) - 1 = y - n
        /\ (y + 1 - n) - 1 = x + (B - A)
    BY <1>1, <2>1
  <2> QED  BY <2>2 DEF x, y
<1>4. SubSeq(res, at, at + n - 1) = new
  <2>1. SubSeq(res, at, L[k]) = new
    BY LiesParts DEF PartsLie, Between
  <2> HIDE DEF at, n, new
  <2> QED  BY <1>3, <2>1
<1>5. at = 1 \/ res[at - 1] = NL
  <2>1. CASE B # A
    <3>1. res[L[k] - n] = NL
      BY <2>1, GapEnds
    <3> HIDE DEF at, n
    <3> QED  BY <1>3, <3>1
  <2>2. CASE B = A /\ k = 1
    <3>1. L[k - 1] = 0
      BY <1>1, <2>2 DEF Lies
    <3> HIDE DEF at, n, A, B
    <3> QED  BY <1>1, <1>2, <1>3, <2>2, <3>1
  <2>3. CASE B = A /\ k # 1
    <3> DEFINE j == k - 1
    <3>1. j \in 1 .. Len(patch) /\ j # 0
      BY <1>1, <2>3
    <3>2. at - 1 = L[j]
      <4> HIDE DEF at, n, A, B
      <4> QED  BY <1>1, <1>2, <1>3, <2>3
    <3>3. A = End(patch[j], text, reverse)
      BY <3>1 DEF After
    <3> HIDE DEF j, at
    <3>4. Last(New(patch[j], reverse)) = NL
      BY <1>2, <2>3, <3>1, <3>3 DEF Unglued
    <3>5. res[L[j]] = Last(New(patch[j], reverse))
      BY <3>1, NewEnds
    <3> QED  BY <3>2, <3>4, <3>5
  <2> QED  BY <2>1, <2>2, <2>3
<1>6. Last(new) = NL \/ at + n = Len(res) + 1
  <2> SUFFICES ASSUME Last(new) # NL  PROVE at + n = Len(res) + 1
    OBVIOUS
  <2>1. E = Len(text) + 1
    BY DEF Unglued
  <2>2. k = N
    <3> SUFFICES ASSUME k # N  PROVE FALSE
      OBVIOUS
    <3> DEFINE j == k + 1
    <3>1. j \in 1 .. Len(patch) /\ j \in 2 .. Len(patch) /\ j - 1 = k
      BY <1>1
    <3> HIDE DEF j
    <3>2. Begin(patch[j], text, reverse) >= End(patch[j - 1], text, reverse)
      BY <3>1 DEF Placed, InOrder
    <3>3. ASSUME NEW i \in 1 .. Len(patch)
          PROVE  Begin(patch[i], text, reverse) \in 1 .. Len(text)
      <4> DEFINE b == Begin(patch[i], text, reverse)  o == Len(Old(patch[i], reverse))
      <4>1. b \in 1 .. Len(text) + 1 /\ b + o <= Len(text) + 1 /\ o \in Nat \ {0}
        BY LiesNumbers
      <4> HIDE DEF b, o
      <4>2. b \in 1 .. Len(text)
        BY <1>1, <4>1
      <4> QED  BY <4>2 DEF b
    <3> QED  BY <1>1, <2>1, <3>1, <3>2, <3>3
  <2>3. After(patch, text, reverse, N) = Len(text) + 1
    BY <1>1, <2>1, <2>2 DEF After
  <2>4. Len(res) = L[N] + Len(text) + 1 - After(patch, text, reverse, N)
    BY DEF Lies
  <2>5. Len(res) = L[k]
    BY <1>1, <1>2, <2>2, <2>3, <2>4
  <2> HIDE DEF n
  <2> QED  BY <1>1, <1>2, <2>5
<1> HIDE DEF at, n, new
<1>7. at \in Places(new, res)
  BY <1>3, <1>4, <1>5, <1>6 DEF Places, n
<1> QED  BY <1>7 DEF at, n, new

\* Three adjacent parts of a text, put together.
LEMMA JoinParts ==
  ASSUME NEW text \in Seq(Bytes), NEW a \in 1 .. Len(text) + 1,
         NEW b \in a .. Len(text) + 1, NEW e \in b .. Len(text) + 1
  PROVE  SubSeq(text, 1, a - 1) \o (SubSeq(text, a, b - 1) \o SubSeq(text, b, e - 1))
           = SubSeq(text, 1, e - 1)
<1>1. Len(text) \in Nat
  BY LenProperties
<1>2. SubSeq(text, a, b - 1) \o SubSeq(text, b, e - 1) = SubSeq(text, a, e - 1)
  <2> DEFINE k == b - 1  n == e - 1
  <2>1. k \in a - 1 .. Len(text) /\ n \in k .. Len(text) /\ k + 1 = b
    BY <1>1
  <2> HIDE DEF k, n
  <2>2. SubSeq(text, a, k) \o SubSeq(text, k + 1, n) = SubSeq(text, a, n)
    BY <2>1, ConcatAdjacentSubSeq
  <2> QED  BY <2>1, <2>2 DEF k, n
<1>3. SubSeq(text, 1, a - 1) \o SubSeq(text, a, e - 1) = SubSeq(text, 1, e - 1)
  <2> DEFINE k == a - 1  n == e - 1
  <2>1. /\ 1 \in 1 .. Len(text) + 1 /\ k \in 1 - 1 .. Len(text)
        /\ n \in k .. Len(text) /\ k + 1 = a
    BY <1>1
  <2> HIDE DEF k, n
  <2>2. SubSeq(text, 1, k) \o SubSeq(text, k + 1, n) = SubSeq(text, 1, n)
    BY <2>1, ConcatAdjacentSubSeq
  <2> QED  BY <2>1, <2>2 DEF k, n
<1> QED  BY <1>2, <1>3

\* In the result the hunks are found where they were put, and what is between
\* them is what was between them.
LEMMA FoundBack ==
  ASSUME NEW text \in Seq(Bytes), NEW patch \in Seq(Hunks), NEW res \in Seq(Bytes),
         NEW reverse \in BOOLEAN, NEW back \in BOOLEAN, back # reverse,
         NEW L, Lies(patch, text, reverse, res, L),
         Placed(patch, text, reverse), Sided(patch), Unglued(patch, text, reverse),
         Placed(patch, res, back)
  PROVE  /\ \A k \in 0 .. Len(patch) : After(patch, res, back, k) = L[k] + 1
         /\ \A k \in 1 .. Len(patch) :
              Between(patch, res, back, k) = Between(patch, text, reverse, k)
<1> DEFINE new(k) == New(patch[k], reverse)
<1>1. Len(patch) \in Nat /\ Len(res) \in Nat
  BY LenProperties
<1>2. ASSUME NEW k \in 1 .. Len(patch)
      PROVE  /\ Begin(patch[k], res, back) = L[k] + 1 - Len(new(k))
             /\ End(patch[k], res, back) = L[k] + 1
  <2>1. Old(patch[k], back) = new(k)
    BY DEF Old, New
  <2>2. Places(Old(patch[k], back), res) = {Begin(patch[k], res, back)}
    <3>1. patch[k] \in Hunks /\ k \in DOMAIN patch
      BY LenProperties, ElementOfSeq
    <3>2. Old(patch[k], back) \in Seq(Bytes)
      BY <3>1, SidesType
    <3>3. Unique(Old(patch[k], back), res)
      BY <3>1 DEF Placed
    <3> QED  BY <3>2, <3>3, UniquePlace DEF Begin
  <2>3. L[k] + 1 - Len(new(k)) \in Places(new(k), res)
    BY NewPlaces
  <2>4. Begin(patch[k], res, back) = L[k] + 1 - Len(new(k))
    <3> DEFINE at == L[k] + 1 - Len(new(k))
    <3> HIDE DEF at
    <3> SUFFICES at \in Places(Old(patch[k], back), res) => Begin(patch[k], res, back) = at
      BY <2>1, <2>3 DEF at
    <3> QED  BY <2>2
  <2>5. Len(new(k)) \in Nat /\ L[k] \in Nat
    BY LiesNumbers
  <2>6. End(patch[k], res, back) = Begin(patch[k], res, back) + Len(new(k))
    BY <2>1 DEF End
  <2> DEFINE n == Len(new(k))  y == L[k]
  <2> HIDE DEF n, y
  <2>7. (y + 1 - n) + n = y + 1
    BY <2>5 DEF n, y
  <2> QED  BY <2>4, <2>6, <2>7 DEF n, y
<1>3. ASSUME NEW k \in 0 .. Len(patch)  PROVE After(patch, res, back, k) = L[k] + 1
  <2>1. CASE k = 0
    <3>1. L[0] = 0
      BY DEF Lies
    <3> QED  BY <2>1, <3>1 DEF After
  <2>2. CASE k # 0
    <3>1. k \in 1 .. Len(patch)
      BY <1>1, <2>2
    <3>2. End(patch[k], res, back) = L[k] + 1
      BY <1>2, <3>1
    <3> QED  BY <2>2, <3>2 DEF After
  <2> QED  BY <2>1, <2>2
<1>4. ASSUME NEW k \in 1 .. Len(patch)
      PROVE  Between(patch, res, back, k) = Between(patch, text, reverse, k)
  <2>1. SubSeq(res, L[k - 1] + 1, L[k] - Len(new(k))) = Between(patch, text, reverse, k)
    <3>1. PartsLie(res, L, k, Between(patch, text, reverse, k), New(patch[k], reverse))
      BY LiesParts
    <3> QED  BY <3>1 DEF PartsLie
  <2>2. After(patch, res, back, k - 1) = L[k - 1] + 1
    BY <1>1, <1>3
  <2>3. Begin(patch[k], res, back) - 1 = L[k] - Len(new(k))
    <3>1. Len(new(k)) \in Nat /\ L[k] \in Nat
      BY LiesNumbers
    <3>2. Begin(patch[k], res, back) = L[k] + 1 - Len(new(k))
      BY <1>2
    <3> DEFINE n == Len(new(k))  y == L[k]
    <3> HIDE DEF n, y
    <3>3. (y + 1 - n) - 1 = y - n
      BY <3>1 DEF n, y
    <3> QED  BY <3>2, <3>3 DEF n, y
  <2> QED  BY <2>1, <2>2, <2>3 DEF Between
<1> QED  BY <1>3, <1>4

\* A patch that glued no lines and whose result can be read backwards takes the
\* result back to the text there was, whatever the direction was.
LEMMA Restored ==
  ASSUME NEW text \in Seq(Bytes), NEW patch \in Seq(Hunks),
         NEW reverse \in BOOLEAN, NEW back \in BOOLEAN, back # reverse,
         Placed(patch, text, reverse), Sided(patch), Unglued(patch, text, reverse),
         NEW res, res = Rewritten(patch, text, reverse), Placed(patch, res, back)
  PROVE  Rewritten(patch, res, back) = text
<1> DEFINE N == Len(patch)
           A(k) == After(patch, text, reverse, k)
<1>1. N \in Nat /\ Len(text) \in Nat
  BY LenProperties
<1>2. res \in Seq(Bytes) /\ \E L : Lies(patch, text, reverse, res, L)
  BY RewrittenLies
<1>3. PICK L : Lies(patch, text, reverse, res, L)
  BY <1>2
<1>4. /\ \A k \in 0 .. N : After(patch, res, back, k) = L[k] + 1
      /\ \A k \in 1 .. N : Between(patch, res, back, k) = Between(patch, text, reverse, k)
  BY <1>2, <1>3, FoundBack
<1>5. PICK g \in [0 .. N -> Seq(Bytes)] :
        /\ g[0] = <<>>
        /\ \A k \in 1 .. N :
             g[k] = g[k - 1] \o (Between(patch, res, back, k) \o New(patch[k], back))
        /\ Rewritten(patch, res, back) =
             g[N] \o SubSeq(res, After(patch, res, back, N), Len(res))
  BY <1>2, RewrittenGrows
<1>6. ASSUME NEW k \in 1 .. N
      PROVE  /\ New(patch[k], back) = Old(patch[k], reverse)
             /\ Old(patch[k], reverse) =
                  SubSeq(text, Begin(patch[k], text, reverse), A(k) - 1)
             /\ A(k - 1) \in 1 .. Len(text) + 1
             /\ Begin(patch[k], text, reverse) \in A(k - 1) .. Len(text) + 1
             /\ A(k) \in Begin(patch[k], text, reverse) .. Len(text) + 1
  <2> DEFINE B == Begin(patch[k], text, reverse)
             old == Old(patch[k], reverse)
  <2>1. New(patch[k], back) = old
    BY DEF Old, New
  <2>2. /\ B \in 1 .. Len(text) + 1 /\ A(k - 1) \in 1 .. B
        /\ End(patch[k], text, reverse) = B + Len(old)
        /\ B + Len(old) <= Len(text) + 1
        /\ Len(old) \in Nat
    BY <1>2, <1>3, LiesNumbers
  <2>3. A(k) = B + Len(old)
    BY <1>1, <2>2 DEF After
  <2>4. SubSeq(text, B, B + Len(old) - 1) = old
    <3>1. B \in Places(old, text)
      BY OldPlace
    <3> QED  BY <3>1 DEF Places
  <2> HIDE DEF A, B, old
  <2>5. /\ A(k - 1) \in 1 .. Len(text) + 1 /\ B \in A(k - 1) .. Len(text) + 1
        /\ A(k) \in B .. Len(text) + 1
    BY <1>1, <2>2, <2>3
  <2>6. old = SubSeq(text, B, A(k) - 1)
    <3> DEFINE n == Len(old)
    <3>1. n \in Nat /\ B \in Nat /\ A(k) = B + n
      BY <1>1, <2>2, <2>3
    <3> HIDE DEF n
    <3>2. A(k) - 1 = B + (n - 1)
      BY <3>1
    <3>3. SubSeq(text, B, B + (n - 1)) = old
      BY <2>4 DEF n
    <3> QED  BY <3>2, <3>3, Zenon
  <2> QED  BY <2>1, <2>5, <2>6 DEF A, B, old
<1> DEFINE Ok == {k \in Nat : k \in 0 .. N => g[k] = SubSeq(text, 1, A(k) - 1)}
<1>7. Ok = Nat
  <2>1. 0 \in Ok
    <3>1. A(0) - 1 = 0
      BY DEF After
    <3>2. SubSeq(text, 1, 0) = <<>>
      BY SubSeqEmpty
    <3> HIDE DEF A
    <3> QED  BY <1>5, <3>1, <3>2
  <2>2. ASSUME NEW j \in Ok  PROVE j + 1 \in Ok
    <3> SUFFICES ASSUME j + 1 \in 0 .. N
                 PROVE  g[j + 1] = SubSeq(text, 1, A(j + 1) - 1)
      OBVIOUS
    <3> DEFINE k == j + 1  B == Begin(patch[k], text, reverse)
    <3>1. k \in 1 .. N /\ k - 1 = j /\ j \in 0 .. N
      BY <1>1
    <3>2. g[j] = SubSeq(text, 1, A(j) - 1)
      BY <3>1
    <3> HIDE DEF k
    <3>3. /\ Between(patch, res, back, k) = SubSeq(text, A(j), B - 1)
          /\ New(patch[k], back) = SubSeq(text, B, A(k) - 1)
      BY <1>4, <1>6, <3>1 DEF Between
    <3>4. g[k] = g[j] \o (Between(patch, res, back, k) \o New(patch[k], back))
      BY <1>5, <3>1
    <3>5. /\ A(j) \in 1 .. Len(text) + 1 /\ B \in A(j) .. Len(text) + 1
          /\ A(k) \in B .. Len(text) + 1
      BY <1>6, <3>1
    <3> HIDE DEF A, B
    <3>6. SubSeq(text, 1, A(j) - 1) \o (SubSeq(text, A(j), B - 1) \o SubSeq(text, B, A(k) - 1))
            = SubSeq(text, 1, A(k) - 1)
      BY <3>5, JoinParts
    <3>7. g[k] = SubSeq(text, 1, A(k) - 1)
      BY <3>2, <3>3, <3>4, <3>6
    <3> QED  BY <3>7 DEF k
  <2>3. Ok \in SUBSET Nat
    OBVIOUS
  <2> HIDE DEF Ok
  <2> QED  BY <2>1, <2>2, <2>3, Induction
<1>8. g[N] = SubSeq(text, 1, A(N) - 1)
  BY <1>1, <1>7
<1>9. SubSeq(res, After(patch, res, back, N), Len(res)) = SubSeq(text, A(N), Len(text))
  <2>1. After(patch, res, back, N) = L[N] + 1
    BY <1>1, <1>4
  <2>2. SubSeq(res, L[N] + 1, Len(res)) = SubSeq(text, A(N), Len(text))
    BY <1>3 DEF Lies
  <2> QED  BY <2>1, <2>2
<1>10. A(N) \in 1 .. Len(text) + 1
  <2>1. CASE N = 0
    BY <1>1, <2>1 DEF After
  <2>2. CASE N # 0
    <3>1. N \in 1 .. N
      BY <1>1, <2>2
    <3>2. /\ A(N - 1) \in 1 .. Len(text) + 1
          /\ Begin(patch[N], text, reverse) \in A(N - 1) .. Len(text) + 1
          /\ A(N) \in Begin(patch[N], text, reverse) .. Len(text) + 1
      BY <1>6, <3>1
    <3> HIDE DEF A
    <3> QED  BY <1>1, <3>2
  <2> QED  BY <2>1, <2>2
<1>11. SubSeq(text, 1, A(N) - 1) \o SubSeq(text, A(N), Len(text)) = text
  <2> DEFINE k == A(N) - 1  n == Len(text)
  <2> HIDE DEF A
  <2>1. /\ 1 \in 1 .. Len(text) + 1 /\ k \in 1 - 1 .. Len(text)
        /\ n \in k .. Len(text) /\ k + 1 = A(N)
    BY <1>1, <1>10
  <2> HIDE DEF k, n
  <2>2. SubSeq(text, 1, k) \o SubSeq(text, k + 1, n) = SubSeq(text, 1, n)
    BY <2>1, ConcatAdjacentSubSeq
  <2>3. SubSeq(text, 1, n) = text
    BY SubSeqFull DEF n
  <2> QED  BY <2>1, <2>2, <2>3 DEF k, n
<1> QED  BY <1>5, <1>8, <1>9, <1>11

-----------------------------------------------------------------------------
(* What the rule and its target are                                          *)

LEMMA TextsType ==
  ASSUME NEW n \in Int, NEW t \in TextsUpTo(n)
  PROVE  t \in Seq(Bytes)
<1>1. ASSUME NEW m \in Int, NEW l \in BoundedSeq(Glyphs, m)
      PROVE  Terminated(l) \in Seq(Bytes)
  <2>1. l \in Seq(Glyphs) /\ DOMAIN l = 1 .. Len(l) /\ Len(l) \in Nat
    BY BoundedType, LenProperties
  <2> DEFINE seqs == [i \in DOMAIN l |-> <<l[i], NL>>]
  <2>2. \A i \in 1 .. Len(l) : <<l[i], NL>> \in Seq(Bytes)
    <3> TAKE i \in 1 .. Len(l)
    <3>1. l[i] \in Bytes /\ NL \in Bytes
      BY <2>1, ElementOfSeq DEF Bytes
    <3> QED  BY <3>1
  <2>3. seqs \in [1 .. Len(l) -> Seq(Bytes)]
    BY <2>1, <2>2
  <2>4. seqs \in Seq(Seq(Bytes))
    BY <2>1, <2>3, SeqDef
  <2> QED  BY <2>4, FlattenType DEF Terminated
<1>2. CASE t \in {Terminated(l) : l \in BoundedSeq(Glyphs, n)}
  BY <1>1, <1>2
<1>3. ASSUME NEW l \in BoundedSeq(Glyphs, n)  PROVE Front(Terminated(l)) \in Seq(Bytes)
  <2> DEFINE u == Terminated(l)
  <2>1. u \in Seq(Bytes) /\ Len(u) \in Nat /\ \A i \in 1 .. Len(u) : u[i] \in Bytes
    BY <1>1, LenProperties, ElementOfSeq
  <2> HIDE DEF u
  <2>2. SubSeq(u, 1, Len(u) - 1) \in Seq(Bytes)
    <3>1. \A i \in 1 .. Len(u) - 1 : u[i] \in Bytes
      BY <2>1
    <3>2. Len(u) - 1 \in Int
      BY <2>1
    <3> QED  BY <3>1, <3>2, SubSeqProperties
  <2> QED  BY <2>2 DEF Front, u
<1>4. CASE t \in {Front(Terminated(l)) : l \in BoundedSeq(Glyphs, n) \ {<<>>}}
  BY <1>3, <1>4
<1> QED  BY <1>2, <1>4 DEF TextsUpTo

LEMMA ExplicitType ==
  ASSUME NEW p \in ExplicitPatches
  PROVE  p \in Seq(Hunks) /\ Sided(p)
<1>1. PICK n \in 1 .. 3 : p \in [1 .. n -> HunksUpTo(MaxPatchLines + 1 - 2 * n)]
  BY DEF ExplicitPatches
<1> DEFINE m == MaxPatchLines + 1 - 2 * n
<1>2. m \in Int
  BY EngineAssumption
<1> HIDE DEF m
<1>3. ASSUME NEW h \in HunksUpTo(m)
      PROVE  h \in Hunks /\ h.before # <<>> /\ h.after # <<>>
  BY <1>2, TextsType DEF HunksUpTo, Hunks
<1>4. p \in [1 .. n -> HunksUpTo(m)]
  BY <1>1 DEF m
<1>5. p \in [1 .. n -> Hunks]
  BY <1>3, <1>4
<1>6. p \in Seq(Hunks) /\ Len(p) = n
  BY <1>5, SeqDef, LenProperties
<1> QED  BY <1>3, <1>4, <1>6 DEF Sided

\* A set of positions has a last one.
LEMMA LastOf ==
  ASSUME NEW N \in Nat, NEW T \in SUBSET (1 .. N), T # {}
  PROVE  Max(T) \in T
<1> DEFINE D == {N - j : j \in T}
<1>1. D \in SUBSET Nat /\ D # {}
  <2>1. \A j \in T : N - j \in Nat
    OBVIOUS
  <2>2. PICK j \in T : TRUE
    OBVIOUS
  <2>3. N - j \in D
    OBVIOUS
  <2> QED  BY <2>1, <2>3
<1>2. PICK d \in D : \A e \in D : d <= e
  BY <1>1, Least
<1>3. PICK j \in T : d = N - j
  BY <1>2
<1>4. \A i \in T : j >= i
  <2> TAKE i \in T
  <2>1. N - i \in D
    OBVIOUS
  <2>2. d <= N - i
    BY <1>2, <2>1
  <2> QED  BY <1>3, <2>2
<1> QED  BY <1>3, <1>4 DEF Max

LEMMA CandidateType ==
  ASSUME script \in Scripts, NEW n
  PROVE  Candidate(n) \in Seq(Hunks)
<1> DEFINE N == Len(script)
<1>1. script \in Seq(Line) /\ N \in Nat /\ DOMAIN script = 1 .. N
  BY ScriptType
<1>2. ASSUME NEW i \in Kept(n)  PROVE HunkFrom(n, i) \in Hunks
  <2> DEFINE T == {j \in DOMAIN script : i .. j \subseteq Kept(n)}
             lines == SubSeq(script, i, RunEnd(n, i))
  <2>1. i \in 1 .. N
    BY <1>1 DEF Kept
  <2>2. T \in SUBSET (1 .. N) /\ i \in T
    BY <1>1, <2>1
  <2>3. RunEnd(n, i) \in 1 .. N
    <3> HIDE DEF T
    <3>1. Max(T) \in T
      BY <1>1, <2>2, LastOf
    <3> QED  BY <2>2, <3>1 DEF RunEnd, T
  <2>4. lines \in Seq(Line)
    <3>1. \A j \in i .. RunEnd(n, i) : script[j] \in Line
      BY <1>1, <2>1, <2>3, ElementOfSeq
    <3>2. i \in Int /\ RunEnd(n, i) \in Int
      BY <1>1, <2>1, <2>3
    <3> QED  BY <3>1, <3>2, SubSeqProperties
  <2>5. Side(lines, "add") \in Seq(Bytes) /\ Side(lines, "remove") \in Seq(Bytes)
    BY <2>4, SideBounds
  <2> QED  BY <2>5 DEF HunkFrom, Hunks
<1> DEFINE seqs == [i \in DOMAIN script |->
                      IF i \in Kept(n) /\ i - 1 \notin Kept(n)
                        THEN <<HunkFrom(n, i)>> ELSE <<>>]
<1>3. \A i \in 1 .. N : seqs[i] \in Seq(Hunks)
  <2> TAKE i \in 1 .. N
  <2>1. i \in Kept(n) => <<HunkFrom(n, i)>> \in Seq(Hunks)
    BY <1>2
  <2>2. <<>> \in Seq(Hunks)
    BY EmptySeq
  <2> QED  BY <1>1, <2>1, <2>2
<1>4. seqs \in [1 .. N -> Seq(Hunks)]
  <2>1. seqs = [i \in 1 .. N |-> seqs[i]]
    BY <1>1
  <2> HIDE DEF seqs
  <2> QED  BY <1>3, <2>1
<1>5. seqs \in Seq(Seq(Hunks))
  BY <1>1, <1>4, SeqDef
<1>6. Candidate(n) = FlattenSeq(seqs)
  BY DEF Candidate
<1> QED  BY <1>5, <1>6, FlattenType

\* What inspect offers to write, in either direction.
LEMMA Offers ==
  ASSUME NEW patch, NEW r
  PROVE  LET seen == Inspect(patch, r) IN
         /\ seen.status = "applicable" =>
              /\ Placed(patch, r.text, FALSE)
              /\ seen.output = Ended(Rewritten(patch, r.text, FALSE), r.ends)
         /\ seen.status = "applied" =>
              /\ Placed(patch, r.text, TRUE)
              /\ seen.output = Ended(Rewritten(patch, r.text, TRUE), r.ends)
<1>1. CASE Placed(patch, r.text, FALSE) /\ ~Placed(patch, r.text, TRUE)
  BY <1>1 DEF Inspect, WouldWrite, Refused
<1>2. CASE Placed(patch, r.text, TRUE) /\ ~Placed(patch, r.text, FALSE)
  BY <1>2 DEF Inspect, WouldWrite, Refused
<1>3. CASE Placed(patch, r.text, FALSE) <=> Placed(patch, r.text, TRUE)
  BY <1>3 DEF Inspect, WouldWrite, Refused
<1> QED  BY <1>1, <1>2, <1>3

\* A text without a newline has no line endings to remember.
TargetType(r) ==
  /\ r.text \in Seq(Bytes)
  /\ Newlines(r.text) = 0 => r.ends = "lf"

\* The rule is parsed, the target is text, and what an Apply left is what
\* inspect made of the bytes there were.
RuleInv ==
  /\ phase = "drafting" => script \in Scripts
  /\ hunks \in Seq(Hunks)
  /\ phase = "rule" => Sided(hunks)
  /\ TargetType(raw)
  /\ was # NoRaw =>
       /\ phase = "rule"
       /\ TargetType(was)
       /\ Inspect(hunks, was).status = "applicable"
       /\ raw = Inspect(hunks, was).output

LEMMA RewrittenType ==
  ASSUME NEW patch \in Seq(Hunks), NEW text \in Seq(Bytes), NEW reverse \in BOOLEAN,
         Placed(patch, text, reverse), NEW ends
  PROVE  TargetType(Ended(Rewritten(patch, text, reverse), ends))
<1>1. Rewritten(patch, text, reverse) \in Seq(Bytes)
  BY RewrittenLies
<1> QED  BY <1>1 DEF TargetType, Ended

LEMMA OutputType ==
  ASSUME NEW patch \in Seq(Hunks), NEW r, TargetType(r),
         Inspect(patch, r).status \in {"applicable", "applied"}
  PROVE  TargetType(Inspect(patch, r).output)
<1>1. r.text \in Seq(Bytes)
  BY DEF TargetType
<1>2. PICK back \in BOOLEAN :
        /\ Placed(patch, r.text, back)
        /\ Inspect(patch, r).output = Ended(Rewritten(patch, r.text, back), r.ends)
  <2>1. CASE Inspect(patch, r).status = "applicable"
    <3>1. /\ Placed(patch, r.text, FALSE)
          /\ Inspect(patch, r).output = Ended(Rewritten(patch, r.text, FALSE), r.ends)
      BY <2>1, Offers
    <3> QED  BY <3>1, Zenon
  <2>2. CASE Inspect(patch, r).status = "applied"
    <3>1. /\ Placed(patch, r.text, TRUE)
          /\ Inspect(patch, r).output = Ended(Rewritten(patch, r.text, TRUE), r.ends)
      BY <2>2, Offers
    <3> QED  BY <3>1, Zenon
  <2> QED  BY <2>1, <2>2
<1> QED  BY <1>1, <1>2, RewrittenType

LEMMA RuleInvHolds == Spec => []RuleInv
<1>1. Init => RuleInv
  <2> SUFFICES ASSUME Init  PROVE RuleInv
    OBVIOUS
  <2>1. was = NoRaw
    BY DEF Init
  <2>2. CASE phase = "rule" /\ hunks \in ExplicitPatches /\ raw \in Raws
    <3>1. hunks \in Seq(Hunks) /\ Sided(hunks)
      BY <2>2, ExplicitType
    <3>2. TargetType(raw)
      <4>1. MaxLines \in Int /\ 2 \in Int
        BY EngineAssumption
      <4>2. CASE raw \in {r \in [text : TextsUpTo(MaxLines), ends : {"lf", "crlf"}] :
                            Newlines(r.text) = 0 => r.ends = "lf"}
        BY <4>1, <4>2, TextsType DEF TargetType
      <4>3. CASE raw \in {r \in [text : TextsUpTo(2), ends : {"mixed"}] :
                            Newlines(r.text) = 2}
        BY <4>1, <4>3, TextsType DEF TargetType
      <4> QED  BY <2>2, <4>2, <4>3 DEF Raws
    <3> QED  BY <2>1, <2>2, <3>1, <3>2 DEF RuleInv
  <2>3. CASE phase = "drafting" /\ hunks = <<>> /\ script \in Scripts
             /\ raw = Ended(Original, "lf")
    <3>1. hunks \in Seq(Hunks)
      BY <2>3, EmptySeq
    <3>2. Original \in Seq(Bytes)
      BY <2>3, ScriptType, SideBounds DEF Original
    <3>3. TargetType(raw)
      BY <2>3, <3>2 DEF TargetType, Ended
    <3> QED  BY <2>1, <2>3, <3>1, <3>3 DEF RuleInv
  <2> QED  BY <2>2, <2>3 DEF Init
<1>2. RuleInv /\ [Next]_vars => RuleInv'
  <2> SUFFICES ASSUME RuleInv, [Next]_vars  PROVE RuleInv'
    OBVIOUS
  <2>1. CASE Widen \/ Refuse \/ UNCHANGED vars
    <3>1. /\ script' = script /\ hunks' = hunks /\ raw' = raw /\ was' = was
          /\ phase' = phase \/ (phase = "drafting" /\ phase' = "refused")
      BY <2>1 DEF Widen, Refuse, vars
    <3> QED  BY <3>1 DEF RuleInv, TargetType, NoRaw, Scripts, Sided
  <2>2. CASE Accept
    <3>1. /\ phase = "drafting" /\ phase' = "rule" /\ raw' = raw /\ was' = was
          /\ hunks' = Candidate(context) /\ Anchored(Candidate(context))
      BY <2>2 DEF Accept, RoundTrip
    <3>2. hunks' \in Seq(Hunks)
      BY <3>1, CandidateType DEF RuleInv
    <3>3. \A k \in 1 .. Len(hunks') : hunks'[k].before # <<>> /\ hunks'[k].after # <<>>
      BY <3>1, <3>2, LenProperties DEF Anchored
    <3>4. was = NoRaw
      BY <3>1 DEF RuleInv
    <3> QED  BY <3>1, <3>2, <3>3, <3>4 DEF RuleInv, TargetType, NoRaw, Sided
  <2>3. CASE Apply
    <3>1. /\ phase = "rule" /\ phase' = "rule" /\ hunks' = hunks /\ script' = script
          /\ was' = raw /\ raw' = Inspect(hunks, raw).output
          /\ Inspect(hunks, raw).status = "applicable"
      BY <2>3 DEF Apply
    <3>2. hunks \in Seq(Hunks) /\ Sided(hunks) /\ TargetType(raw)
      BY <3>1 DEF RuleInv
    <3>3. TargetType(Inspect(hunks, raw).output)
      BY <3>1, <3>2, OutputType
    <3> QED  BY <3>1, <3>2, <3>3 DEF RuleInv, TargetType, NoRaw, Sided
  <2>4. CASE Revert
    <3>1. /\ phase = "rule" /\ phase' = "rule" /\ hunks' = hunks /\ script' = script
          /\ was' = NoRaw /\ raw' = Inspect(hunks, raw).output
          /\ Inspect(hunks, raw).status = "applied"
      BY <2>4 DEF Revert
    <3>2. hunks \in Seq(Hunks) /\ Sided(hunks) /\ TargetType(raw)
      BY <3>1 DEF RuleInv
    <3>3. TargetType(Inspect(hunks, raw).output)
      BY <3>1, <3>2, OutputType
    <3> QED  BY <3>1, <3>2, <3>3 DEF RuleInv, TargetType, NoRaw, Sided
  <2> QED  BY <2>1, <2>2, <2>3, <2>4 DEF Next
<1> QED  BY <1>1, <1>2, PTL DEF Spec

\* Whatever rule is applied to whatever target, inspect offers to write only
\* what the diff can mean: in one direction, read in the one possible way.
THEOREM OnlyReadingHolds == Spec => []OnlyReading
<1>1. RuleInv => OnlyReading
  <2> SUFFICES ASSUME RuleInv  PROVE Textual
    BY OnlyMeaning
  <2>1. raw.text \in Seq(Bytes) /\ hunks \in PatchesOf(Bytes)
    BY DEF RuleInv, TargetType, PatchesOf, Hunks
  <2> QED  BY <2>1 DEF Textual
<1> QED  BY <1>1, RuleInvHolds, PTL

\* For targets and patches of any length: when no lines were glued and the
\* result of an Apply counts as applied, a Revert restores the bytes there were.
THEOREM AppliedReverts == Spec => []RevertRestores
<1>1. RuleInv => RevertRestores
  <2> SUFFICES ASSUME RuleInv, was # NoRaw, ~Glued(hunks, was.text),
                      Inspect(hunks, raw).status = "applied"
               PROVE  /\ Inspect(hunks, raw).output.text = was.text
                      /\ Newlines(raw.text) > 0 =>
                           Inspect(hunks, raw).output.ends = was.ends
    BY DEF RevertRestores
  <2>1. /\ hunks \in Seq(Hunks) /\ Sided(hunks) /\ TargetType(raw) /\ TargetType(was)
        /\ Inspect(hunks, was).status = "applicable"
        /\ raw = Inspect(hunks, was).output
    BY DEF RuleInv
  <2>2. /\ Placed(hunks, was.text, FALSE)
        /\ raw = Ended(Rewritten(hunks, was.text, FALSE), was.ends)
    BY <2>1, Offers
  <2>3. /\ Placed(hunks, raw.text, TRUE)
        /\ Inspect(hunks, raw).output = Ended(Rewritten(hunks, raw.text, TRUE), raw.ends)
    BY Offers
  <2>4. raw.text = Rewritten(hunks, was.text, FALSE)
    BY <2>2 DEF Ended
  <2>5. \A k \in 1 .. Len(hunks) :
          \/ Last(hunks[k].after) = NL
          \/ End(hunks[k], was.text, FALSE) = Len(was.text) + 1
    <3>1. DOMAIN hunks = 1 .. Len(hunks)
      BY <2>1, LenProperties
    <3> QED  BY <3>1 DEF Glued
  <2>6. \A k \in 1 .. Len(hunks) : New(hunks[k], FALSE) = hunks[k].after
    BY DEF New
  <2>7. Unglued(hunks, was.text, FALSE)
    BY <2>5, <2>6 DEF Unglued
  <2>8. was.text \in Seq(Bytes)
    BY <2>1 DEF TargetType
  <2> DEFINE fwd == FALSE  back == TRUE
  <2>9. /\ fwd \in BOOLEAN /\ back \in BOOLEAN /\ back # fwd
        /\ Placed(hunks, was.text, fwd) /\ Unglued(hunks, was.text, fwd)
        /\ raw.text = Rewritten(hunks, was.text, fwd)
        /\ Placed(hunks, raw.text, back)
    BY <2>2, <2>3, <2>4, <2>7
  <2> HIDE DEF fwd, back
  <2>10. Rewritten(hunks, raw.text, back) = was.text
    BY <2>1, <2>8, <2>9, Restored
  <2>11. Inspect(hunks, raw).output = Ended(was.text, raw.ends)
    BY <2>3, <2>10 DEF back
  <2>12. Inspect(hunks, raw).output.text = was.text
    BY <2>11 DEF Ended
  <2>13. ASSUME Newlines(raw.text) > 0
         PROVE  Inspect(hunks, raw).output.ends = was.ends
    <3>1. Newlines(raw.text) # 0
      BY <2>13
    <3>2. raw.ends = was.ends
      BY <2>2, <3>1 DEF Ended
    <3> QED  BY <2>1, <2>11, <3>2 DEF Ended, TargetType
  <2> QED  BY <2>12, <2>13
<1> QED  BY <1>1, RuleInvHolds, PTL
=============================================================================
