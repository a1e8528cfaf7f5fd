------------------------- MODULE YamlAuthorityProofs -------------------------
(* Proofs about YamlAuthority, for files, drafts and includes of any number, *)
(* any depth of includes and any number of writes at any point of a scan.    *)
EXTENDS YamlAuthority, Integers, FiniteSetTheorems, SequenceTheorems,
        WellFoundedInduction, TLAPS

-----------------------------------------------------------------------------
(* Induction over numbers, from the well-foundedness of <                    *)

Smaller == {ss \in Nat \X Nat : ss[1] < ss[2]}

\* Every set of numbers has a least one.
LEMMA Least ==
  ASSUME NEW T \in SUBSET Nat, T # {}
  PROVE  \E m \in T : \A n \in T : m <= n
<1>1. IsWellFoundedOn(Smaller, Nat)
  BY NatLessThanWellFounded, Zenon DEF OpToRel, Smaller
<1>2. PICK m \in T : \A n \in T : ~ (<<n, m>> \in Smaller)
  BY <1>1, WFMin
<1>3. \A n \in T : ~ (n < m)
  BY <1>2 DEF Smaller
<1> QED  BY <1>3

LEMMA Induction ==
  ASSUME NEW S \in SUBSET Nat, 0 \in S, \A n \in S : n + 1 \in S
  PROVE  S = Nat
<1>1. SUFFICES ASSUME Nat \ S # {}  PROVE FALSE
  OBVIOUS
<1>2. PICK m \in Nat \ S : \A n \in Nat \ S : m <= n
  BY <1>1, Least
<1>3. m # 0 /\ m - 1 \in Nat
  BY <1>2
<1>4. m - 1 \in S
  BY <1>2, <1>3
<1> QED  BY <1>2, <1>4

-----------------------------------------------------------------------------
(* Sequences                                                                *)

\* What FlattenSeq recurses over.
Upto(f, seqs, i) == IF i = 1 THEN seqs[i] ELSE f[i - 1] \o seqs[i]
Flattens(f, seqs, n) == f = [i \in 1 .. n |-> Upto(f, seqs, i)]

LEMMA FlattensAt ==
  ASSUME NEW f, NEW seqs, NEW n, Flattens(f, seqs, n), NEW i \in 1 .. n
  PROVE  f[i] = Upto(f, seqs, i)
<1> DEFINE e == [k \in 1 .. n |-> Upto(f, seqs, k)]
<1>1. e[i] = Upto(f, seqs, i)
  OBVIOUS
<1>2. f = e
  BY DEF Flattens
<1> QED  BY <1>1, <1>2

LEMMA FlattensExists ==
  ASSUME NEW S, NEW seqs \in Seq(Seq(S)), NEW n \in Nat
  PROVE  \E f : Flattens(f, seqs, n)
<1>1. \E f : Flattens(f, seqs, 0)
  <2> DEFINE f == [i \in 1 .. 0 |-> <<>>]
  <2>1. Flattens(f, seqs, 0)
    BY DEF Flattens
  <2> QED  BY <2>1
<1>2. ASSUME NEW m \in Nat, NEW f, Flattens(f, seqs, m)
      PROVE  \E g : Flattens(g, seqs, m + 1)
  <2> DEFINE g == [i \in 1 .. m + 1 |-> IF i <= m THEN f[i] ELSE Upto(f, seqs, i)]
  <2>2. ASSUME NEW i \in 1 .. m + 1  PROVE g[i] = Upto(g, seqs, i)
    <3>1. i # 1 => i - 1 \in 1 .. m /\ g[i - 1] = f[i - 1]
      OBVIOUS
    <3>2. i <= m => f[i] = Upto(f, seqs, i)
      BY <1>2, FlattensAt
    <3>3. g[i] = IF i <= m THEN f[i] ELSE Upto(f, seqs, i)
      OBVIOUS
    <3> HIDE DEF g
    <3>4. Upto(f, seqs, i) = Upto(g, seqs, i)
      BY <3>1 DEF Upto
    <3> QED  BY <3>2, <3>3, <3>4
  <2>3. g = [i \in 1 .. m + 1 |-> g[i]]
    OBVIOUS
  <2> HIDE DEF g
  <2>4. g = [i \in 1 .. m + 1 |-> Upto(g, seqs, i)]
    BY <2>2, <2>3
  <2>5. Flattens(g, seqs, m + 1)
    BY <2>4 DEF Flattens
  <2> QED  BY <2>5
<1> DEFINE Ok == {m \in Nat : \E f : Flattens(f, seqs, m)}
<1>3. Ok \in SUBSET Nat /\ 0 \in Ok /\ \A m \in Ok : m + 1 \in Ok
  BY <1>1, <1>2
<1> HIDE DEF Ok
<1>4. Ok = Nat
  BY <1>3, Induction
<1> QED  BY <1>4 DEF Ok

LEMMA SetOfConcat ==
  ASSUME NEW S, NEW s \in Seq(S), NEW t \in Seq(S)
  PROVE  s \o t \in Seq(S) /\ ToSet(s \o t) = ToSet(s) \cup ToSet(t)
<1>1. /\ s \o t \in Seq(S) /\ Len(s \o t) = Len(s) + Len(t)
      /\ \A i \in 1 .. Len(s) + Len(t) :
           (s \o t)[i] = IF i <= Len(s) THEN s[i] ELSE t[i - Len(s)]
  BY ConcatProperties
<1>2. /\ DOMAIN s = 1 .. Len(s) /\ DOMAIN t = 1 .. Len(t)
      /\ DOMAIN (s \o t) = 1 .. Len(s \o t)
      /\ Len(s) \in Nat /\ Len(t) \in Nat
  BY <1>1, LenProperties
<1>3. \A i \in DOMAIN s : i \in DOMAIN (s \o t) /\ (s \o t)[i] = s[i]
  BY <1>1, <1>2
<1>4. \A i \in DOMAIN t : Len(s) + i \in DOMAIN (s \o t) /\ (s \o t)[Len(s) + i] = t[i]
  BY <1>1, <1>2
<1>5. \A i \in DOMAIN (s \o t) :
        \/ i \in DOMAIN s /\ (s \o t)[i] = s[i]
        \/ i - Len(s) \in DOMAIN t /\ (s \o t)[i] = t[i - Len(s)]
  BY <1>1, <1>2
<1>6. ASSUME NEW x \in ToSet(s \o t)  PROVE x \in ToSet(s) \cup ToSet(t)
  BY <1>5 DEF ToSet
<1>7. ASSUME NEW x \in ToSet(s) \cup ToSet(t)  PROVE x \in ToSet(s \o t)
  BY <1>3, <1>4 DEF ToSet
<1> QED  BY <1>1, <1>6, <1>7

\* Flattening loses and adds nothing.
LEMMA SetOfFlatten ==
  ASSUME NEW S, NEW seqs \in Seq(Seq(S))
  PROVE  /\ FlattenSeq(seqs) \in Seq(S)
         /\ ToSet(FlattenSeq(seqs)) = UNION {ToSet(s) : s \in ToSet(seqs)}
<1> DEFINE N == Len(seqs)
           f == CHOOSE f : Flattens(f, seqs, N)
<1>1. N \in Nat /\ DOMAIN seqs = 1 .. N /\ \A i \in 1 .. N : seqs[i] \in Seq(S)
  BY LenProperties, ElementOfSeq
<1>2. CASE N = 0
  <2>1. FlattenSeq(seqs) = seqs /\ seqs = <<>>
    BY <1>2, EmptySeq DEF FlattenSeq
  <2> QED  BY <1>1, <1>2, <2>1 DEF ToSet
<1>3. CASE N # 0
  <2>1. Flattens(f, seqs, N)
    BY <1>1, FlattensExists
  <2>2. FlattenSeq(seqs) = f[N]
    BY <1>3 DEF FlattenSeq, Flattens, Upto
  <2> HIDE DEF f
  <2> DEFINE P(n) == n \in 1 .. N =>
                      /\ f[n] \in Seq(S)
                      /\ ToSet(f[n]) = UNION {ToSet(seqs[i]) : i \in 1 .. n}
  <2>3. ASSUME NEW n \in Nat, P(n)  PROVE P(n + 1)
    <3> SUFFICES ASSUME n + 1 \in 1 .. N
                 PROVE  /\ f[n + 1] \in Seq(S)
                        /\ ToSet(f[n + 1]) = UNION {ToSet(seqs[i]) : i \in 1 .. n + 1}
      OBVIOUS
    <3>1. seqs[n + 1] \in Seq(S)
      BY <1>1
    <3>2. 1 .. n + 1 = (1 .. n) \cup {n + 1}
      OBVIOUS
    <3>3. f[n + 1] = IF n + 1 = 1 THEN seqs[n + 1] ELSE f[n] \o seqs[n + 1]
      <4> HIDE DEF P, N
      <4>1. f[n + 1] = Upto(f, seqs, n + 1)
        BY <2>1, FlattensAt
      <4>2. n + 1 - 1 = n
        OBVIOUS
      <4> QED  BY <4>1, <4>2 DEF Upto
    <3>4. CASE n = 0
      BY <3>1, <3>2, <3>3, <3>4
    <3>5. CASE n # 0
      <4>1. f[n] \in Seq(S) /\ ToSet(f[n]) = UNION {ToSet(seqs[i]) : i \in 1 .. n}
        BY <1>1, <2>3, <3>5
      <4>2. f[n + 1] \in Seq(S) /\ ToSet(f[n + 1]) = ToSet(f[n]) \cup ToSet(seqs[n + 1])
        BY <3>1, <3>3, <3>5, <4>1, SetOfConcat
      <4> QED  BY <3>2, <4>1, <4>2
    <3> QED  BY <3>4, <3>5
  <2> DEFINE Ok == {n \in Nat : P(n)}
  <2>4. Ok \in SUBSET Nat /\ 0 \in Ok /\ \A n \in Ok : n + 1 \in Ok
    <3> HIDE DEF P
    <3>1. P(0)
      BY DEF P
    <3> QED  BY <2>3, <3>1
  <2> HIDE DEF Ok
  <2>5. Ok = Nat
    BY <2>4, Induction
  <2>6. f[N] \in Seq(S) /\ ToSet(f[N]) = UNION {ToSet(seqs[i]) : i \in 1 .. N}
    <3>1. P(N)
      BY <1>1, <2>5 DEF Ok
    <3> QED  BY <1>1, <1>3, <3>1
  <2>7. {ToSet(s) : s \in ToSet(seqs)} = {ToSet(seqs[i]) : i \in 1 .. N}
    <3> DEFINE G(s) == ToSet(s)
    <3> HIDE DEF G
    <3>1. {G(s) : s \in {seqs[i] : i \in 1 .. N}} = {G(seqs[i]) : i \in 1 .. N}
      OBVIOUS
    <3> QED  BY <1>1, <3>1 DEF G, ToSet
  <2> QED  BY <2>2, <2>6, <2>7
<1> QED  BY <1>2, <1>3

\* An order of a finite set has all of it.
LEMMA OrdersAreComplete ==
  ASSUME NEW S, IsFiniteSet(S), NEW order \in SetToSeqs(S)
  PROVE  order \in Seq(S) /\ ToSet(order) = S
<1> DEFINE D == 1 .. Cardinality(S)
<1>1. Cardinality(S) \in Nat
  BY FS_CardinalityType
<1>2. order \in [D -> S] /\ \A i, j \in D : i # j => order[i] # order[j]
  BY DEF SetToSeqs
<1>3. order \in Injection(D, S)
  BY <1>2 DEF Injection, IsInjective
<1>4. IsFiniteSet(D) /\ Cardinality(D) = Cardinality(S)
  BY <1>1, FS_Interval
<1>5. order \in Surjection(D, S)
  BY <1>3, <1>4, FS_Injection
<1>6. \A x \in S : \E i \in D : order[i] = x
  BY <1>5 DEF Surjection
<1> QED  BY <1>1, <1>2, <1>6, SeqDef DEF ToSet

-----------------------------------------------------------------------------
(* What Home Assistant reaches                                              *)

Spread(f, D, n) ==
  IF n = 0 THEN {RootPlace} ELSE f[n - 1] \cup UNION {IncludedAt(D, p) : p \in f[n - 1]}
Spreads(f, D, n) == f = [k \in 0 .. n |-> Spread(f, D, k)]

LEMMA SpreadsAt ==
  ASSUME NEW f, NEW D, NEW n, Spreads(f, D, n), NEW i \in 0 .. n
  PROVE  f[i] = Spread(f, D, i)
<1> DEFINE e == [k \in 0 .. n |-> Spread(f, D, k)]
<1>1. e[i] = Spread(f, D, i)
  OBVIOUS
<1>2. f = e
  BY DEF Spreads
<1> QED  BY <1>1, <1>2

LEMMA SpreadsExists ==
  ASSUME NEW D, NEW n \in Nat
  PROVE  \E f : Spreads(f, D, n)
<1>1. \E f : Spreads(f, D, 0)
  <2> DEFINE f == [k \in 0 .. 0 |-> {RootPlace}]
  <2>1. f = [k \in 0 .. 0 |-> Spread(f, D, k)]
    BY DEF Spread
  <2> HIDE DEF f
  <2> QED  BY <2>1 DEF Spreads
<1>2. ASSUME NEW m \in Nat, NEW f, Spreads(f, D, m)
      PROVE  \E g : Spreads(g, D, m + 1)
  <2> DEFINE g == [k \in 0 .. m + 1 |-> IF k <= m THEN f[k] ELSE Spread(f, D, k)]
  <2>1. ASSUME NEW k \in 0 .. m + 1  PROVE g[k] = Spread(g, D, k)
    <3>1. k # 0 => k - 1 \in 0 .. m /\ g[k - 1] = f[k - 1]
      OBVIOUS
    <3>2. k <= m => f[k] = Spread(f, D, k)
      BY <1>2, SpreadsAt
    <3>3. g[k] = IF k <= m THEN f[k] ELSE Spread(f, D, k)
      OBVIOUS
    <3> HIDE DEF g
    <3>4. Spread(f, D, k) = Spread(g, D, k)
      BY <3>1 DEF Spread
    <3> QED  BY <3>2, <3>3, <3>4
  <2>2. g = [k \in 0 .. m + 1 |-> g[k]]
    OBVIOUS
  <2> HIDE DEF g
  <2>3. Spreads(g, D, m + 1)
    BY <2>1, <2>2 DEF Spreads
  <2> QED  BY <2>3
<1> DEFINE Ok == {m \in Nat : \E f : Spreads(f, D, m)}
<1>3. Ok \in SUBSET Nat /\ 0 \in Ok /\ \A m \in Ok : m + 1 \in Ok
  BY <1>1, <1>2
<1> HIDE DEF Ok
<1>4. Ok = Nat
  BY <1>3, Induction
<1> QED  BY <1>4 DEF Ok

LEMMA ReachedSpreads ==
  ASSUME NEW D
  PROVE  \A n \in 0 .. MaxDepth + 1 : ReachedIn(D)[n] = Spread(ReachedIn(D), D, n)
<1>1. \E f : f = [n \in 0 .. MaxDepth + 1 |->
                 IF n = 0 THEN {RootPlace}
                 ELSE f[n - 1] \cup UNION {IncludedAt(D, p) : p \in f[n - 1]}]
  <2>1. MaxDepth + 1 \in Nat
    BY FilesAssumption
  <2>2. PICK f : Spreads(f, D, MaxDepth + 1)
    BY <2>1, SpreadsExists
  <2> QED  BY <2>2 DEF Spreads, Spread
<1>2. Spreads(ReachedIn(D), D, MaxDepth + 1)
  BY <1>1 DEF ReachedIn, Spreads, Spread
<1> QED  BY <1>2, SpreadsAt

\* A set of places that includes do not leave has all of them.
LEMMA ReachedWithin ==
  ASSUME NEW D, NEW S, RootPlace \in S, \A p \in S : IncludedAt(D, p) \subseteq S
  PROVE  \A n \in 0 .. MaxDepth + 1 : ReachedIn(D)[n] \subseteq S
<1> DEFINE R == ReachedIn(D)
           Ok == {n \in Nat : n <= MaxDepth + 1 => R[n] \subseteq S}
<1>0. MaxDepth \in Nat
  BY FilesAssumption
<1>1. \A n \in 0 .. MaxDepth + 1 : R[n] = Spread(R, D, n)
  BY ReachedSpreads
<1> HIDE DEF R
<1>2. 0 \in Ok
  <2>1. R[0] = Spread(R, D, 0)
    BY <1>0, <1>1
  <2> QED  BY <2>1 DEF Spread
<1>3. ASSUME NEW n \in Nat, n \in Ok  PROVE n + 1 \in Ok
  <2>1. SUFFICES ASSUME n + 1 <= MaxDepth + 1  PROVE R[n + 1] \subseteq S
    OBVIOUS
  <2>2. R[n + 1] = Spread(R, D, n + 1) /\ R[n] \subseteq S
    BY <1>0, <1>1, <1>3, <2>1
  <2>3. n + 1 # 0 /\ n + 1 - 1 = n
    OBVIOUS
  <2>4. R[n + 1] = R[n] \cup UNION {IncludedAt(D, p) : p \in R[n]}
    BY <2>2, <2>3 DEF Spread
  <2> QED  BY <2>2, <2>4
<1>4. Ok \in SUBSET Nat /\ \A n \in Ok : n + 1 \in Ok
  BY <1>3
<1> HIDE DEF Ok
<1>5. Ok = Nat
  BY <1>2, <1>4, Induction
<1> QED  BY <1>0, <1>5 DEF Ok, R

-----------------------------------------------------------------------------
(* What a scan has found of the files of D                                  *)

Places == [file : Files, at : Seq(STRING)]
DiskType(D) ==
  \A f \in Files : D[f] \notin Missing =>
    Written(D[f]) /\ (f \in Secrets => \A l \in ToSet(D[f]) : l.tag = "plain")

Noted(g, f, at) == f \in FilesOf(g) /\ (DefinesGrants(at) => f \in g.grants)

\* The places that the items T still lead to.
Leads(D, T, p) ==
  /\ p \in Places
  /\ \E i \in T : /\ p.at = i.at
                  /\ \/ i.kind = "file" /\ p.file = i.of
                     \/ i.kind = "folder" /\ p.file \in Listing(D, i.of)

Known(D, S, T, p) == D[p.file] # Absent => p \in S \/ Leads(D, T, p)

Asked(D, T, g, s, at) ==
  \/ \E i \in T : i.kind = "secret" /\ i.of = s /\ i.at = at
  \/ s \in g.secrets /\ (D[s] # Absent => Noted(g, s, at))

Listed(T, g, d) ==
  \/ \E i \in T : i.kind = "folder" /\ i.of = d
  \/ \E q \in g.listings : q.folder = d

\* What follows from place p is found or still led to.
Followed(D, S, T, g, p) ==
  /\ Noted(g, p.file, p.at)
  /\ \A q \in IncludedAt(D, p) : Known(D, S, T, q)
  /\ \A l \in Leaves(D, p.file) :
       /\ l.tag = "secret" =>
            \A s \in ToSet(SecretsOf[p.file]) : Asked(D, T, g, s, p.at \o l.at)
       /\ l.tag = "folder" => Listed(T, g, l.of)

\* S has been visited, T is still to be visited, and g is the graph so far.
Explored(D, S, T, g) ==
  /\ S \subseteq Places
  /\ Known(D, S, T, RootPlace)
  /\ \A p \in S : Followed(D, S, T, g, p)

\* What leaf l of the file of item i makes the scan visit.
Follows(T, i, l) ==
  /\ l.tag = "include" =>
       \E k \in T : k.kind = "file" /\ k.of = l.of /\ k.at = i.at \o l.at
  /\ l.tag = "folder" =>
       \E k \in T : k.kind = "folder" /\ k.of = l.of /\ k.at = i.at \o l.at
  /\ l.tag = "secret" =>
       \A s \in ToSet(SecretsOf[i.of]) :
         \E k \in T : k.kind = "secret" /\ k.of = s /\ k.at = i.at \o l.at

\* What visiting item i leaves behind.
Visited(D, i, T, g) ==
  CASE i.kind = "file" ->
         /\ Noted(g, i.of, i.at)
         /\ \A l \in Leaves(D, i.of) : Follows(T, i, l)
    [] i.kind = "secret" -> i.of \in g.secrets /\ (D[i.of] # Absent => Noted(g, i.of, i.at))
    [] i.kind = "folder" ->
         /\ \E q \in g.listings : q.folder = i.of
         /\ \A f \in Listing(D, i.of) : \E k \in T : k.kind = "file" /\ k.of = f /\ k.at = i.at

Grows(g, h) ==
  /\ g.sources \subseteq h.sources /\ g.listings \subseteq h.listings
  /\ g.secrets \subseteq h.secrets /\ g.grants \subseteq h.grants

LEMMA RootIsPlace == RootPlace \in Places
BY FilesAssumption DEF RootPlace, Places

LEMMA LeafTypes ==
  ASSUME NEW D, DiskType(D), NEW f \in Files, NEW l \in Leaves(D, f)
  PROVE  /\ l.at \in Seq(STRING) /\ l.tag \in Tags
         /\ l.tag = "include" => l.of \in Files
         /\ l.tag = "folder" => l.of \in Folders
         /\ f \in Secrets => l.tag = "plain"
<1>1. D[f] \notin Missing /\ l \in ToSet(D[f])
  BY DEF Leaves
<1>2. Written(D[f]) /\ (f \in Secrets => l.tag = "plain")
  BY <1>1 DEF DiskType
<1>3. Leaf(l)
  BY <1>1, <1>2 DEF ToSet, Written
<1>4. l \in [at : Seq(STRING), tag : Tags, of : {l.of}]
  BY <1>3 DEF Leaf
<1> QED  BY <1>2, <1>3, <1>4 DEF Leaf

LEMMA IncludedEqual ==
  ASSUME NEW D, NEW p
  PROVE  IncludedAt(D, p) =
           {[file |-> l.of, at |-> p.at \o l.at] : l \in Tagged(D, p.file, "include")} \cup
           UNION {{[file |-> f, at |-> p.at \o l.at] : f \in Listing(D, l.of)} :
                    l \in Tagged(D, p.file, "folder")}
BY Zenon DEF IncludedAt

\* Where a place leads.
LEMMA Included ==
  ASSUME NEW D, DiskType(D), NEW p \in Places, NEW q \in IncludedAt(D, p)
  PROVE  /\ q \in Places
         /\ \E l \in Leaves(D, p.file) :
              /\ q.at = p.at \o l.at
              /\ \/ l.tag = "include" /\ q.file = l.of
                 \/ l.tag = "folder" /\ q.file \in Listing(D, l.of)
<1>1. p.file \in Files /\ p.at \in Seq(STRING)
  BY DEF Places
<1>2. \E l \in Leaves(D, p.file) : \E f :
        /\ q = [file |-> f, at |-> p.at \o l.at]
        /\ \/ l.tag = "include" /\ f = l.of
           \/ l.tag = "folder" /\ f \in Listing(D, l.of)
  <2>1. CASE q \in {[file |-> l.of, at |-> p.at \o l.at] : l \in Tagged(D, p.file, "include")}
    <3>1. PICK l \in Tagged(D, p.file, "include") : q = [file |-> l.of, at |-> p.at \o l.at]
      BY <2>1
    <3>2. l \in Leaves(D, p.file) /\ l.tag = "include"
      BY <3>1 DEF Tagged
    <3>3. \E f : q = [file |-> f, at |-> p.at \o l.at] /\ f = l.of
      BY <3>1
    <3> QED  BY <3>2, <3>3
  <2>2. CASE q \in UNION {{[file |-> f, at |-> p.at \o l.at] : f \in Listing(D, l.of)} :
                          l \in Tagged(D, p.file, "folder")}
    <3> DEFINE G(l) == {[file |-> f, at |-> p.at \o l.at] : f \in Listing(D, l.of)}
    <3>0. q \in UNION {G(l) : l \in Tagged(D, p.file, "folder")}
      BY <2>2
    <3> HIDE DEF G
    <3>1. PICK l \in Tagged(D, p.file, "folder") : q \in G(l)
      BY <3>0
    <3> USE DEF G
    <3>2. PICK f \in Listing(D, l.of) : q = [file |-> f, at |-> p.at \o l.at]
      BY <3>1
    <3> QED  BY <3>1, <3>2 DEF Tagged
  <2> QED  BY <2>1, <2>2, IncludedEqual
<1>3. PICK l \in Leaves(D, p.file) : \E f :
        /\ q = [file |-> f, at |-> p.at \o l.at]
        /\ \/ l.tag = "include" /\ f = l.of
           \/ l.tag = "folder" /\ f \in Listing(D, l.of)
  BY <1>2
<1>4. PICK f : /\ q = [file |-> f, at |-> p.at \o l.at]
               /\ \/ l.tag = "include" /\ f = l.of
                  \/ l.tag = "folder" /\ f \in Listing(D, l.of)
  BY <1>3
<1>5. l.at \in Seq(STRING) /\ (l.tag = "include" => l.of \in Files)
  BY <1>1, LeafTypes
<1>6. p.at \o l.at \in Seq(STRING)
  BY <1>1, <1>5, ConcatProperties
<1>7. f \in Files
  BY <1>4, <1>5 DEF Listing
<1>8. q.file = f /\ q.at = p.at \o l.at
  BY <1>4
<1> QED  BY <1>4, <1>6, <1>7, <1>8 DEF Places

LEMMA IncludedLeaf ==
  ASSUME NEW D, NEW p \in Places, NEW l \in Leaves(D, p.file), NEW f,
         \/ l.tag = "include" /\ f = l.of
         \/ l.tag = "folder" /\ f \in Listing(D, l.of)
  PROVE  [file |-> f, at |-> p.at \o l.at] \in IncludedAt(D, p)
<1> DEFINE q == [file |-> f, at |-> p.at \o l.at]
<1>1. CASE l.tag = "include" /\ f = l.of
  <2>1. l \in Tagged(D, p.file, "include")
    BY <1>1 DEF Tagged
  <2> QED  BY <1>1, <2>1, IncludedEqual
<1>2. CASE l.tag = "folder" /\ f \in Listing(D, l.of)
  <2>1. l \in Tagged(D, p.file, "folder")
    BY <1>2 DEF Tagged
  <2>2. q \in {[file |-> e, at |-> p.at \o l.at] : e \in Listing(D, l.of)}
    BY <1>2
  <2> HIDE DEF q
  <2>3. q \in UNION {{[file |-> e, at |-> p.at \o k.at] : e \in Listing(D, k.of)} :
                     k \in Tagged(D, p.file, "folder")}
    BY <2>1, <2>2
  <2> QED  BY <2>3, IncludedEqual DEF q
<1> QED  BY <1>1, <1>2

\* Visiting item i keeps everything accounted for.
LEMMA Explore ==
  ASSUME NEW D, DiskType(D), NEW S, NEW T, NEW g, Explored(D, S, T, g),
         NEW i \in T, i.kind \in {"file", "secret", "folder"},
         i.kind = "file" => i.of \in Files, i.at \in Seq(STRING),
         NEW U, T \ {i} \subseteq U, NEW h, Grows(g, h), Visited(D, i, U, h)
  PROVE  \E Z : Explored(D, Z, U, h)
<1> DEFINE here == [file |-> i.of, at |-> i.at]
           Z == IF i.kind = "file" THEN S \cup {here} ELSE S
<1>1. here.file = i.of /\ here.at = i.at /\ (i.kind = "file" => here \in Places)
  BY DEF Places
<1> HIDE DEF here
<1>2. Z \subseteq Places
  BY <1>1 DEF Explored
<1>3. ASSUME NEW q, Known(D, S, T, q)  PROVE Known(D, Z, U, q)
  <2>1. SUFFICES ASSUME D[q.file] # Absent, q \notin S, q \in Places,
                        NEW k \in T, q.at = k.at,
                        \/ k.kind = "file" /\ q.file = k.of
                        \/ k.kind = "folder" /\ q.file \in Listing(D, k.of)
                 PROVE  q \in Z \/ Leads(D, U, q)
    BY <1>3 DEF Known, Leads
  <2>2. CASE k # i
    <3>1. k \in U
      BY <2>2
    <3> QED  BY <2>1, <3>1 DEF Leads
  <2>3. CASE k = i /\ k.kind = "file"
    <3>1. q = here
      BY <1>1, <2>1, <2>3 DEF Places
    <3> QED  BY <2>3, <3>1
  <2>4. CASE k = i /\ k.kind = "folder"
    <3>1. q.file \in Listing(D, i.of)
      BY <2>1, <2>4
    <3>2. PICK e \in U : e.kind = "file" /\ e.of = q.file /\ e.at = i.at
      BY <2>4, <3>1 DEF Visited
    <3> QED  BY <2>1, <2>4, <3>2 DEF Leads
  <2> QED  BY <2>1, <2>2, <2>3, <2>4
<1>4. ASSUME NEW s, NEW at, Asked(D, T, g, s, at)  PROVE Asked(D, U, h, s, at)
  <2>1. CASE s \in g.secrets /\ (D[s] # Absent => Noted(g, s, at))
    BY <2>1 DEF Asked, Grows, Noted, FilesOf
  <2>2. ASSUME NEW k \in T, k.kind = "secret", k.of = s, k.at = at
        PROVE  Asked(D, U, h, s, at)
    <3>1. CASE k # i
      <4>1. k \in U
        BY <3>1
      <4> QED  BY <2>2, <4>1 DEF Asked
    <3>2. CASE k = i
      <4>1. i.of \in h.secrets /\ (D[i.of] # Absent => Noted(h, i.of, i.at))
        BY <2>2, <3>2 DEF Visited
      <4> QED  BY <2>2, <3>2, <4>1 DEF Asked
    <3> QED  BY <3>1, <3>2
  <2> QED  BY <1>4, <2>1, <2>2 DEF Asked
<1>5. ASSUME NEW d, Listed(T, g, d)  PROVE Listed(U, h, d)
  <2>1. CASE \E q \in g.listings : q.folder = d
    BY <2>1 DEF Listed, Grows
  <2>2. ASSUME NEW k \in T, k.kind = "folder", k.of = d  PROVE Listed(U, h, d)
    <3>1. CASE k # i
      <4>1. k \in U
        BY <3>1
      <4> QED  BY <2>2, <4>1 DEF Listed
    <3>2. CASE k = i
      <4>1. \E q \in h.listings : q.folder = i.of
        BY <2>2, <3>2 DEF Visited
      <4> QED  BY <2>2, <3>2, <4>1 DEF Listed
    <3> QED  BY <3>1, <3>2
  <2> QED  BY <1>5, <2>1, <2>2 DEF Listed
<1>6. ASSUME NEW p \in S  PROVE Followed(D, Z, U, h, p)
  <2>1. Followed(D, S, T, g, p)
    BY DEF Explored
  <2>2. Noted(h, p.file, p.at)
    BY <2>1 DEF Followed, Noted, FilesOf, Grows
  <2> QED  BY <1>3, <1>4, <1>5, <2>1, <2>2 DEF Followed
<1>7. ASSUME i.kind = "file"  PROVE Followed(D, Z, U, h, here)
  <2>1. /\ Noted(h, i.of, i.at)
        /\ \A l \in Leaves(D, i.of) : Follows(U, i, l)
    BY <1>7 DEF Visited
  <2>2. ASSUME NEW q \in IncludedAt(D, here)  PROVE Known(D, Z, U, q)
    <3>1. q \in Places
      BY <1>1, <1>7, Included
    <3>2. PICK l \in Leaves(D, here.file) :
            /\ q.at = here.at \o l.at
            /\ \/ l.tag = "include" /\ q.file = l.of
               \/ l.tag = "folder" /\ q.file \in Listing(D, l.of)
      BY <1>1, <1>7, Included
    <3>3. q.at = i.at \o l.at /\ l \in Leaves(D, i.of)
      BY <1>1, <3>2
    <3>4. CASE l.tag = "include" /\ q.file = l.of
      <4>1. PICK k \in U : k.kind = "file" /\ k.of = l.of /\ k.at = i.at \o l.at
        BY <2>1, <3>3, <3>4 DEF Follows
      <4>2. Leads(D, U, q)
        BY <3>1, <3>3, <3>4, <4>1 DEF Leads
      <4> QED  BY <4>2 DEF Known
    <3>5. CASE l.tag = "folder" /\ q.file \in Listing(D, l.of)
      <4>1. PICK k \in U : k.kind = "folder" /\ k.of = l.of /\ k.at = i.at \o l.at
        BY <2>1, <3>3, <3>5 DEF Follows
      <4>2. Leads(D, U, q)
        BY <3>1, <3>3, <3>5, <4>1 DEF Leads
      <4> QED  BY <4>2 DEF Known
    <3> QED  BY <3>2, <3>4, <3>5
  <2>3. ASSUME NEW l \in Leaves(D, here.file)
        PROVE  /\ l.tag = "secret" =>
                    \A s \in ToSet(SecretsOf[here.file]) : Asked(D, U, h, s, here.at \o l.at)
               /\ l.tag = "folder" => Listed(U, h, l.of)
    <3>1. l \in Leaves(D, i.of)
      BY <1>1
    <3>2. ASSUME l.tag = "secret", NEW s \in ToSet(SecretsOf[i.of])
          PROVE  Asked(D, U, h, s, i.at \o l.at)
      <4>1. PICK k \in U : k.kind = "secret" /\ k.of = s /\ k.at = i.at \o l.at
        BY <2>1, <3>1, <3>2 DEF Follows
      <4> QED  BY <4>1 DEF Asked
    <3>3. ASSUME l.tag = "folder"  PROVE Listed(U, h, l.of)
      <4>1. PICK k \in U : k.kind = "folder" /\ k.of = l.of /\ k.at = i.at \o l.at
        BY <2>1, <3>1, <3>3 DEF Follows
      <4> QED  BY <4>1 DEF Listed
    <3> QED  BY <1>1, <3>2, <3>3
  <2> QED  BY <1>1, <2>1, <2>2, <2>3 DEF Followed
<1>8. Known(D, Z, U, RootPlace)
  BY <1>3 DEF Explored
<1>9. Explored(D, Z, U, h)
  BY <1>2, <1>6, <1>7, <1>8 DEF Explored
<1> QED  BY <1>9

-----------------------------------------------------------------------------
(* What is visited and found                                                *)

Visitable ==
  {i \in [kind : {"file", "secret", "folder"}, of : Files \cup Folders, at : Seq(STRING),
          above : SUBSET Files, depth : 0 .. MaxDepth + 1] :
     /\ i.kind = "file" => i.of \in Files
     /\ i.kind = "secret" => i.of \in Secrets
     /\ i.kind = "folder" => i.of \in Folders}

Graphs ==
  {g \in [sources : SUBSET [file : Files, version : Nat],
          listings : SUBSET [folder : Folders, files : SUBSET Files],
          secrets : SUBSET Secrets, grants : SUBSET Files] :
     /\ \A s, q \in g.sources : s.file = q.file => s = q
     /\ g.grants \subseteq {s.file : s \in g.sources}}

LEMMA SecretsAreFiles ==
  /\ Secrets \subseteq Files
  /\ \A f \in Files : /\ SecretsOf[f] \in Seq(Files)
                      /\ \A n \in DOMAIN SecretsOf[f] : SecretsOf[f][n] \in Secrets
<1>1. ASSUME NEW f \in Files
      PROVE  /\ SecretsOf[f] \in Seq(Files) /\ ToSet(SecretsOf[f]) \subseteq Files
             /\ \A n \in DOMAIN SecretsOf[f] : SecretsOf[f][n] \in ToSet(SecretsOf[f])
  <2>1. SecretsOf[f] \in Seq(Files)
    BY FilesAssumption
  <2>2. \A n \in DOMAIN SecretsOf[f] : SecretsOf[f][n] \in Files
    BY <2>1
  <2> QED  BY <2>1, <2>2 DEF ToSet
<1> QED  BY <1>1 DEF Secrets

LEMMA FreshType == Fresh \in [todo : Seq(Visitable), got : Graphs] /\ NoGraph \in Graphs
<1> DEFINE i == [kind |-> "file", of |-> Root, at |-> <<>>, above |-> {}, depth |-> 0]
<1>1. i \in Visitable
  BY FilesAssumption DEF Visitable
<1>2. <<i>> \in Seq(Visitable)
  BY <1>1
<1>3. NoGraph \in Graphs
  BY DEF NoGraph, Graphs
<1> QED  BY <1>2, <1>3 DEF Fresh

\* The items that leaf l of the file of item i makes the scan visit.
LEMMA VisitType ==
  ASSUME NEW i \in Visitable, i.of \in Files, i.depth <= MaxDepth, NEW l,
         l.at \in Seq(STRING), l.tag \in Tags,
         l.tag = "include" => l.of \in Files, l.tag = "folder" => l.of \in Folders
  PROVE  /\ Visit(i, l) \in Seq(Visitable)
         /\ Follows(ToSet(Visit(i, l)), i, l)
<1>1. /\ i.at \o l.at \in Seq(STRING) /\ i.above \cup {i.of} \in SUBSET Files
      /\ i.depth + 1 \in 0 .. MaxDepth + 1 /\ 0 \in 0 .. MaxDepth + 1
  <2>1. i.at \in Seq(STRING)
    BY DEF Visitable
  <2>2. i.at \o l.at \in Seq(STRING)
    BY <2>1, ConcatProperties
  <2> QED  BY <2>2, FilesAssumption DEF Visitable
<1>2. CASE l.tag = "plain"
  <2>1. Visit(i, l) = <<>>
    BY <1>2 DEF Visit
  <2> QED  BY <1>2, <2>1 DEF Follows
<1>3. CASE l.tag = "secret"
  <2> DEFINE s == SecretsOf[i.of]
             e(n) == Item("secret", s[n], i.at \o l.at, i, 0)
  <2>1. Visit(i, l) = [n \in DOMAIN s |-> e(n)]
    BY <1>3 DEF Visit
  <2>2. s \in Seq(Files) /\ \A n \in DOMAIN s : s[n] \in Secrets
    BY SecretsAreFiles
  <2>3. \A n \in DOMAIN s : e(n) \in Visitable /\ e(n).kind = "secret" /\ e(n).of = s[n]
                            /\ e(n).at = i.at \o l.at
    BY <1>1, <2>2, SecretsAreFiles DEF Item, Visitable
  <2>4. DOMAIN s = 1 .. Len(s) /\ Len(s) \in Nat
    BY <2>2, LenProperties
  <2> HIDE DEF e, s
  <2>5. Visit(i, l) \in Seq(Visitable)
    <3>1. Visit(i, l) \in [1 .. Len(s) -> Visitable]
      BY <2>1, <2>3, <2>4
    <3> QED  BY <2>4, <3>1, SeqDef
  <2>6. \A n \in DOMAIN s : e(n) \in ToSet(Visit(i, l))
    BY <2>1 DEF ToSet
  <2>7. ToSet(SecretsOf[i.of]) = {s[n] : n \in DOMAIN s}
    BY DEF ToSet, s
  <2>8. \A x \in ToSet(SecretsOf[i.of]) :
          \E k \in ToSet(Visit(i, l)) : k.kind = "secret" /\ k.of = x /\ k.at = i.at \o l.at
    BY <2>3, <2>6, <2>7
  <2> QED  BY <1>3, <2>5, <2>8 DEF Follows
<1>4. CASE l.tag \in {"include", "folder"}
  <2> DEFINE k == Item(IF l.tag = "include" THEN "file" ELSE "folder",
                       l.of, i.at \o l.at, i, i.depth + 1)
  <2>1. Visit(i, l) = <<k>>
    BY <1>4 DEF Visit
  <2>2. /\ k \in Visitable /\ k.of = l.of /\ k.at = i.at \o l.at
        /\ k.kind = IF l.tag = "include" THEN "file" ELSE "folder"
    BY <1>1, <1>4 DEF Item, Visitable
  <2> HIDE DEF k
  <2>3. Visit(i, l) \in Seq(Visitable) /\ k \in ToSet(Visit(i, l))
    <3>1. DOMAIN <<k>> = {1} /\ <<k>>[1] = k
      OBVIOUS
    <3>2. k \in ToSet(<<k>>)
      BY <3>1 DEF ToSet
    <3> QED  BY <2>1, <2>2, <3>2
  <2> QED  BY <1>4, <2>2, <2>3 DEF Follows
<1> QED  BY <1>2, <1>3, <1>4 DEF Tags

\* The items that the whole file of item i makes the scan visit.
LEMMA VisitsType ==
  ASSUME DiskType(disk), NEW i \in Visitable, i.of \in Files, i.depth <= MaxDepth,
         disk[i.of] \notin Missing
  PROVE  /\ Visits(i) \in Seq(Visitable)
         /\ \A l \in Leaves(disk, i.of) : ToSet(Visit(i, l)) \subseteq ToSet(Visits(i))
<1> DEFINE d == disk[i.of]
           v == [n \in DOMAIN d |-> Visit(i, d[n])]
<1>1. d \in Seq(ToSet(d))
  BY DEF DiskType, Written, ToSet
<1>2. DOMAIN d = 1 .. Len(d) /\ Len(d) \in Nat
  BY <1>1, LenProperties
<1>3. \A n \in DOMAIN d : d[n] \in Leaves(disk, i.of)
  BY DEF Leaves, ToSet
<1>4. \A n \in DOMAIN d : Visit(i, d[n]) \in Seq(Visitable)
  BY <1>3, LeafTypes, VisitType
<1>5. v \in [1 .. Len(d) -> Seq(Visitable)]
  BY <1>2, <1>4
<1>6. v \in Seq(Seq(Visitable))
  BY <1>2, <1>5, SeqDef
<1>7. Visits(i) \in Seq(Visitable) /\ ToSet(Visits(i)) = UNION {ToSet(s) : s \in ToSet(v)}
  BY <1>6, SetOfFlatten DEF Visits
<1>8. ASSUME NEW l \in Leaves(disk, i.of)  PROVE Visit(i, l) \in ToSet(v)
  <2>1. PICK n \in DOMAIN d : l = d[n]
    BY DEF Leaves, ToSet
  <2> QED  BY <2>1 DEF ToSet
<1> QED  BY <1>7, <1>8

-----------------------------------------------------------------------------
(* Types                                                                    *)

DiskInv ==
  /\ disk = [f \in Files |-> disk[f]] /\ \A f \in Files : disk[f] \in Drafts[f]
  /\ version \in [Files -> Nat]
ScanInv ==
  /\ phase \in Phases
  /\ scan \in [todo : Seq(Visitable), got : Graphs]
  /\ graph \in Graphs
GhostInv ==
  /\ stood = [f \in Files |-> stood[f]] /\ DiskType(stood)
  /\ {agreed, calm, mattered} \subseteq BOOLEAN
TypeInv == DiskInv /\ ScanInv /\ GhostInv

LEMMA DraftsTyped ==
  ASSUME NEW D, \A f \in Files : D[f] \in Drafts[f]
  PROVE  DiskType(D)
<1> SUFFICES ASSUME NEW f \in Files, D[f] \notin Missing
             PROVE  Written(D[f]) /\ (f \in Secrets => \A l \in ToSet(D[f]) : l.tag = "plain")
  BY DEF DiskType
<1>1. D[f] \in Drafts[f] \ Missing
  OBVIOUS
<1>2. Written(D[f]) /\ (f \in Secrets => \A n \in DOMAIN D[f] : D[f][n].tag = "plain")
  BY <1>1, FilesAssumption
<1> QED  BY <1>2 DEF ToSet

\* The first item of the list.
LEMMA NextItem ==
  ASSUME ScanInv, scan.todo # <<>>
  PROVE  /\ Next1 \in Visitable /\ Tail(scan.todo) \in Seq(Visitable)
         /\ Next1 \in ToSet(scan.todo)
         /\ ToSet(scan.todo) \ {Next1} \subseteq ToSet(Tail(scan.todo))
<1> DEFINE t == scan.todo
<1>1. t \in Seq(Visitable) /\ t # <<>>
  BY DEF ScanInv
<1> HIDE DEF t
<1>2. /\ Head(t) \in Visitable /\ Tail(t) \in Seq(Visitable)
      /\ Len(t) \in Nat \ {0} /\ DOMAIN t = 1 .. Len(t) /\ Head(t) = t[1]
      /\ DOMAIN Tail(t) = 1 .. Len(t) - 1 /\ \A n \in 1 .. Len(t) - 1 : Tail(t)[n] = t[n + 1]
  BY <1>1
<1>3. Head(t) \in ToSet(t)
  BY <1>2 DEF ToSet
<1>4. ASSUME NEW n \in DOMAIN t, t[n] # Head(t)  PROVE t[n] \in ToSet(Tail(t))
  <2>1. n - 1 \in DOMAIN Tail(t) /\ Tail(t)[n - 1] = t[n]
    BY <1>2, <1>4
  <2> QED  BY <2>1 DEF ToSet
<1>5. ToSet(t) \ {Head(t)} \subseteq ToSet(Tail(t))
  BY <1>4 DEF ToSet
<1> QED  BY <1>2, <1>3, <1>5 DEF t, Next1

-----------------------------------------------------------------------------
(* One step of a scan                                                       *)

Continued(i) ==
  /\ scan' \in [todo : Seq(Visitable), got : Graphs]
  /\ Grows(scan.got, scan'.got)
  /\ ToSet(scan.todo) \ {i} \subseteq ToSet(scan'.todo)

\* What the files D make of item i is on the disk.
OnDisk(D, i) ==
  /\ DiskType(D) /\ \A f \in Files : D[f] # Absent => disk[f] # Absent
  /\ i.kind = "file" => \A l \in Leaves(D, i.of) : l.tag # "plain" => l \in Leaves(disk, i.of)

VisitedAsOn(i) == \A D : OnDisk(D, i) => Visited(D, i, ToSet(scan'.todo), scan'.got)

LEMMA LoadSourceStep ==
  ASSUME TypeInv, LoadSource
  PROVE  /\ Continued(Next1) /\ VisitedAsOn(Next1)
         /\ scan'.got.sources =
              scan.got.sources \cup {[file |-> Next1.of, version |-> version[Next1.of]]}
         /\ scan'.got.listings = scan.got.listings
         /\ scan'.got.secrets = IF Next1.kind = "secret" THEN scan.got.secrets \cup {Next1.of}
                                ELSE scan.got.secrets
<1> DEFINE i == Next1
           new == [file |-> i.of, version |-> version[i.of]]
<1>1. /\ scan.todo # <<>> /\ i.kind # "folder" /\ disk[i.of] \notin Missing
      /\ ~Inadmissible(i)
      /\ scan' = [todo |-> Visits(i) \o Tail(scan.todo),
                  got |-> [scan.got EXCEPT
                    !.sources = @ \cup {new},
                    !.grants  = IF DefinesGrants(i.at) THEN @ \cup {i.of} ELSE @,
                    !.secrets = IF i.kind = "secret" THEN @ \cup {i.of} ELSE @]]
  BY DEF LoadSource
<1>2. /\ i \in Visitable /\ Tail(scan.todo) \in Seq(Visitable)
      /\ ToSet(scan.todo) \ {i} \subseteq ToSet(Tail(scan.todo))
  BY <1>1, NextItem DEF TypeInv
<1>3. DiskType(disk) /\ scan.got \in Graphs /\ version \in [Files -> Nat]
  BY DraftsTyped DEF TypeInv, DiskInv, ScanInv
<1> HIDE DEF i
<1>4. /\ i.of \in Files /\ i.at \in Seq(STRING) /\ i.depth <= MaxDepth
      /\ i.kind \in {"file", "secret"} /\ (i.kind = "secret" => i.of \in Secrets)
  BY <1>1, <1>2, SecretsAreFiles, FilesAssumption DEF Visitable, Inadmissible
<1>5. new \in [file : Files, version : Nat] /\ new.file = i.of /\ new.version = version[i.of]
  BY <1>3, <1>4
<1>6. \A s \in scan.got.sources : s.file = i.of => s.version = version[i.of]
  BY <1>1 DEF Inadmissible
<1> HIDE DEF new
<1> DEFINE h == scan'.got
<1>7. /\ h = [sources |-> scan.got.sources \cup {new}, listings |-> scan.got.listings,
              secrets |-> IF i.kind = "secret" THEN scan.got.secrets \cup {i.of}
                          ELSE scan.got.secrets,
              grants |-> IF DefinesGrants(i.at) THEN scan.got.grants \cup {i.of}
                         ELSE scan.got.grants]
      /\ scan' = [todo |-> scan'.todo, got |-> h]
      /\ scan'.todo = Visits(i) \o Tail(scan.todo)
  BY <1>1, <1>3 DEF Graphs
<1>8. h \in Graphs
  <2>1. \A s, q \in scan.got.sources \cup {new} : s.file = q.file => s = q
    <3>1. \A s \in scan.got.sources : s = [file |-> s.file, version |-> s.version]
      BY <1>3 DEF Graphs
    <3>2. new = [file |-> i.of, version |-> version[i.of]]
      BY DEF new
    <3> QED  BY <1>3, <1>6, <3>1, <3>2 DEF Graphs
  <2>2. /\ scan.got.grants \subseteq {s.file : s \in scan.got.sources \cup {new}}
        /\ i.of \in {s.file : s \in scan.got.sources \cup {new}}
    BY <1>3, <1>5 DEF Graphs
  <2> QED  BY <1>3, <1>4, <1>5, <1>7, <2>1, <2>2 DEF Graphs
<1>9. Grows(scan.got, h)
  BY <1>7 DEF Grows
<1>10. /\ Visits(i) \in Seq(Visitable)
       /\ \A l \in Leaves(disk, i.of) : ToSet(Visit(i, l)) \subseteq ToSet(Visits(i))
  BY <1>1, <1>2, <1>3, <1>4, VisitsType
<1>11. /\ scan'.todo \in Seq(Visitable)
       /\ ToSet(scan'.todo) = ToSet(Visits(i)) \cup ToSet(Tail(scan.todo))
  <2> DEFINE v == Visits(i)
             t == Tail(scan.todo)
  <2>1. v \in Seq(Visitable) /\ t \in Seq(Visitable)
    BY <1>2, <1>10
  <2>2. scan'.todo = v \o t
    BY <1>7
  <2> HIDE DEF v, t
  <2>3. v \o t \in Seq(Visitable) /\ ToSet(v \o t) = ToSet(v) \cup ToSet(t)
    BY <2>1, SetOfConcat
  <2>4. scan'.todo \in Seq(Visitable) /\ ToSet(scan'.todo) = ToSet(v) \cup ToSet(t)
    BY <2>2, <2>3
  <2> QED  BY <2>4 DEF v, t
<1>12. Continued(i)
  BY <1>2, <1>7, <1>8, <1>9, <1>11 DEF Continued
<1>13. Noted(h, i.of, i.at)
  BY <1>5, <1>7 DEF Noted, FilesOf
<1> HIDE DEF h
<1>14. ASSUME NEW D, OnDisk(D, i)  PROVE Visited(D, i, ToSet(scan'.todo), h)
  <2>1. CASE i.kind = "secret"
    BY <1>7, <1>13, <2>1 DEF Visited, h
  <2>2. CASE i.kind = "file"
    <3>1. ASSUME NEW l \in Leaves(D, i.of), l.tag # "plain"
          PROVE  Follows(ToSet(scan'.todo), i, l)
      <4>1. l \in Leaves(disk, i.of)
        BY <1>14, <2>2, <3>1 DEF OnDisk
      <4>2. /\ l.at \in Seq(STRING) /\ l.tag \in Tags
            /\ l.tag = "include" => l.of \in Files
            /\ l.tag = "folder" => l.of \in Folders
        BY <1>3, <1>4, <4>1, LeafTypes
      <4>3. ToSet(Visit(i, l)) \subseteq ToSet(scan'.todo)
        BY <1>10, <1>11, <4>1
      <4>4. Follows(ToSet(Visit(i, l)), i, l)
        BY <1>2, <1>4, <4>2, VisitType
      <4> QED  BY <4>3, <4>4 DEF Follows
    <3>2. \A l \in Leaves(D, i.of) : Follows(ToSet(scan'.todo), i, l)
      BY <3>1 DEF Follows
    <3> QED  BY <1>13, <2>2, <3>2 DEF Visited
  <2> QED  BY <1>4, <2>1, <2>2
<1>15. VisitedAsOn(i)
  BY <1>14 DEF VisitedAsOn, h
<1>16. /\ scan'.got.sources = scan.got.sources \cup {new}
       /\ scan'.got.listings = scan.got.listings
       /\ scan'.got.secrets = IF i.kind = "secret" THEN scan.got.secrets \cup {i.of}
                              ELSE scan.got.secrets
  BY <1>7 DEF h
<1> QED  BY <1>12, <1>15, <1>16 DEF i, new

LEMMA NoSecretsStep ==
  ASSUME TypeInv, NoSecrets
  PROVE  /\ Continued(Next1) /\ VisitedAsOn(Next1)
         /\ scan'.got.sources = scan.got.sources
         /\ scan'.got.listings = scan.got.listings
         /\ scan'.got.secrets = scan.got.secrets \cup {Next1.of}
<1> DEFINE i == Next1
<1>1. /\ scan.todo # <<>> /\ i.kind = "secret" /\ disk[i.of] = Absent
      /\ scan' = [todo |-> Tail(scan.todo),
                  got |-> [scan.got EXCEPT !.secrets = @ \cup {i.of}]]
  BY DEF NoSecrets, Rest
<1>2. /\ i \in Visitable /\ Tail(scan.todo) \in Seq(Visitable)
      /\ ToSet(scan.todo) \ {i} \subseteq ToSet(Tail(scan.todo))
  BY <1>1, NextItem DEF TypeInv
<1>3. scan.got \in Graphs
  BY DEF TypeInv, ScanInv
<1> HIDE DEF i
<1>4. i.of \in Secrets /\ i.of \in Files
  BY <1>1, <1>2, SecretsAreFiles DEF Visitable
<1> DEFINE t == Tail(scan.todo)
           h == [scan.got EXCEPT !.secrets = @ \cup {i.of}]
<1>5. h = [sources |-> scan.got.sources, listings |-> scan.got.listings,
           secrets |-> scan.got.secrets \cup {i.of}, grants |-> scan.got.grants]
  BY <1>3 DEF Graphs
<1>6. h \in Graphs /\ Grows(scan.got, h)
  BY <1>3, <1>4, <1>5 DEF Graphs, Grows
<1>7. Continued(i) /\ scan'.got = h
  <2>1. scan' = [todo |-> t, got |-> h] /\ t \in Seq(Visitable)
    BY <1>1, <1>2
  <2>2. ToSet(scan.todo) \ {i} \subseteq ToSet(t)
    BY <1>2
  <2> HIDE DEF t, h
  <2>3. scan' \in [todo : Seq(Visitable), got : Graphs] /\ scan'.todo = t /\ scan'.got = h
    BY <1>6, <2>1
  <2> QED  BY <1>6, <2>2, <2>3 DEF Continued
<1>8. ASSUME NEW D, OnDisk(D, i)  PROVE Visited(D, i, ToSet(scan'.todo), scan'.got)
  BY <1>1, <1>4, <1>5, <1>7, <1>8 DEF Visited, OnDisk
<1>9. VisitedAsOn(i)
  BY <1>8 DEF VisitedAsOn
<1>10. /\ scan'.got.sources = scan.got.sources /\ scan'.got.listings = scan.got.listings
       /\ scan'.got.secrets = scan.got.secrets \cup {i.of}
  BY <1>5, <1>7
<1> QED  BY <1>7, <1>9, <1>10 DEF i

LEMMA ListFolderStep ==
  ASSUME TypeInv, ListFolder
  PROVE  /\ Continued(Next1) /\ VisitedAsOn(Next1)
         /\ scan'.got.sources = scan.got.sources
         /\ scan'.got.listings =
              scan.got.listings \cup {[folder |-> Next1.of, files |-> Listing(disk, Next1.of)]}
         /\ scan'.got.secrets = scan.got.secrets
<1> DEFINE i == Next1
           files == Listing(disk, i.of)
<1>1. PICK order \in SetToSeqs(files) :
        /\ scan.todo # <<>> /\ i.kind = "folder"
        /\ scan' = [todo |-> [n \in DOMAIN order |-> [i EXCEPT !.kind = "file", !.of = order[n]]]
                               \o Tail(scan.todo),
                    got |-> [scan.got EXCEPT
                      !.listings = @ \cup {[folder |-> i.of, files |-> files]}]]
  BY DEF ListFolder
<1>2. /\ i \in Visitable /\ Tail(scan.todo) \in Seq(Visitable)
      /\ ToSet(scan.todo) \ {i} \subseteq ToSet(Tail(scan.todo))
  BY <1>1, NextItem DEF TypeInv
<1>3. scan.got \in Graphs
  BY DEF TypeInv, ScanInv
<1> HIDE DEF i
<1>4. files \subseteq Files /\ IsFiniteSet(files)
  <2>1. files \subseteq Files
    BY DEF Listing
  <2> QED  BY <2>1, FilesAssumption, FS_Subset
<1>5. order \in Seq(files) /\ ToSet(order) = files
  BY <1>1, <1>4, OrdersAreComplete
<1>6. [folder |-> i.of, files |-> files] \in [folder : Folders, files : SUBSET Files]
  BY <1>1, <1>2, <1>4 DEF Visitable
<1> DEFINE e(n) == [i EXCEPT !.kind = "file", !.of = order[n]]
           t == [n \in DOMAIN order |-> e(n)]
<1>7. \A n \in DOMAIN order : order[n] \in Files
  BY <1>4, <1>5 DEF ToSet
<1>8. \A n \in DOMAIN order : /\ e(n) \in Visitable /\ e(n).kind = "file"
                              /\ e(n).of = order[n] /\ e(n).at = i.at
  BY <1>1, <1>2, <1>7 DEF Visitable
<1> DEFINE h == [scan.got EXCEPT
                   !.listings = @ \cup {[folder |-> i.of, files |-> files]}]
<1>9. scan' = [todo |-> t \o Tail(scan.todo), got |-> h]
  BY <1>1
<1>10. h = [sources |-> scan.got.sources,
            listings |-> scan.got.listings \cup {[folder |-> i.of, files |-> files]},
            secrets |-> scan.got.secrets, grants |-> scan.got.grants]
  BY <1>3 DEF Graphs
<1> HIDE DEF e, files
<1>11. t \in Seq(Visitable)
  <2>1. DOMAIN order = 1 .. Len(order) /\ Len(order) \in Nat
    BY <1>5, LenProperties
  <2>2. t \in [1 .. Len(order) -> Visitable]
    BY <1>8, <2>1
  <2> QED  BY <2>1, <2>2, SeqDef
<1>12. \A n \in DOMAIN order : e(n) \in ToSet(t)
  BY DEF ToSet
<1> HIDE DEF t
<1>13. scan'.todo \in Seq(Visitable) /\ ToSet(scan'.todo) = ToSet(t) \cup ToSet(Tail(scan.todo))
  <2> DEFINE r == Tail(scan.todo)
  <2>1. r \in Seq(Visitable) /\ scan'.todo = t \o r
    BY <1>2, <1>9
  <2> HIDE DEF r
  <2>2. t \o r \in Seq(Visitable) /\ ToSet(t \o r) = ToSet(t) \cup ToSet(r)
    BY <1>11, <2>1, SetOfConcat
  <2>3. scan'.todo \in Seq(Visitable) /\ ToSet(scan'.todo) = ToSet(t) \cup ToSet(r)
    BY <2>1, <2>2
  <2> QED  BY <2>3 DEF r
<1>14. h \in Graphs /\ Grows(scan.got, h)
  BY <1>3, <1>6, <1>10 DEF Graphs, Grows
<1>15. scan'.got = h
  BY <1>9
<1> HIDE DEF h
<1>16. Continued(i)
  <2>1. scan' \in [todo : Seq(Visitable), got : Graphs]
    BY <1>9, <1>13, <1>14
  <2> QED  BY <1>2, <1>13, <1>14, <1>15, <2>1 DEF Continued
<1>17. ASSUME NEW D, OnDisk(D, i)  PROVE Visited(D, i, ToSet(scan'.todo), scan'.got)
  <2>1. \E q \in scan'.got.listings : q.folder = i.of
    <3> DEFINE q == [folder |-> i.of, files |-> files]
    <3>1. q.folder = i.of
      OBVIOUS
    <3> HIDE DEF q
    <3>2. q \in scan'.got.listings
      BY <1>10, <1>15 DEF q
    <3> QED  BY <3>1, <3>2
  <2>2. ASSUME NEW f \in Listing(D, i.of)
        PROVE  \E k \in ToSet(scan'.todo) : k.kind = "file" /\ k.of = f /\ k.at = i.at
    <3>1. f \in files
      BY <1>17 DEF OnDisk, Listing, files
    <3>2. PICK n \in DOMAIN order : order[n] = f
      BY <1>5, <3>1 DEF ToSet
    <3> QED  BY <1>8, <1>12, <1>13, <3>2
  <2> QED  BY <1>1, <2>1, <2>2 DEF Visited
<1>18. VisitedAsOn(i)
  BY <1>17 DEF VisitedAsOn
<1>19. /\ scan'.got.sources = scan.got.sources
       /\ scan'.got.listings = scan.got.listings \cup {[folder |-> i.of, files |-> files]}
       /\ scan'.got.secrets = scan.got.secrets
  BY <1>10, <1>15
<1> QED  BY <1>16, <1>18, <1>19 DEF i, files

-----------------------------------------------------------------------------
(* What stands during a check                                               *)

\* All of D that is there, and all that leads on, is in E as well.
Within(D, E) ==
  \A f \in Files : /\ D[f] # Absent => E[f] # Absent
                   /\ \A l \in Leaves(D, f) : l.tag # "plain" => l \in Leaves(E, f)

LEMMA WithinOnDisk ==
  ASSUME NEW D, DiskType(D), Within(D, disk), NEW i \in Visitable
  PROVE  OnDisk(D, i)
BY DEF Within, OnDisk, Visitable

\* What was found of more was found of less.
LEMMA ExploredWithin ==
  ASSUME NEW D, NEW E, DiskType(D), DiskType(E), Within(D, E),
         NEW S, NEW T, NEW g, Explored(E, S, T, g)
  PROVE  Explored(D, S, T, g)
<1>1. ASSUME NEW q \in Places, Known(E, S, T, q)  PROVE Known(D, S, T, q)
  <2>1. q.file \in Files
    BY DEF Places
  <2>2. SUFFICES ASSUME D[q.file] # Absent, q \notin S  PROVE Leads(D, T, q)
    BY DEF Known
  <2>3. Leads(E, T, q)
    BY <1>1, <2>1, <2>2 DEF Known, Within
  <2>4. \A d : q.file \in Listing(E, d) => q.file \in Listing(D, d)
    BY <2>2 DEF Listing
  <2> QED  BY <2>3, <2>4 DEF Leads
<1>2. ASSUME NEW p \in S  PROVE Followed(D, S, T, g, p)
  <2>1. Followed(E, S, T, g, p) /\ p \in Places /\ p.file \in Files
    BY DEF Explored, Places
  <2>2. ASSUME NEW q \in IncludedAt(D, p)  PROVE Known(D, S, T, q)
    <3>1. q \in Places
      BY <2>1, Included
    <3>2. PICK l \in Leaves(D, p.file) :
            /\ q.at = p.at \o l.at
            /\ \/ l.tag = "include" /\ q.file = l.of
               \/ l.tag = "folder" /\ q.file \in Listing(D, l.of)
      BY <2>1, Included
    <3>3. l \in Leaves(E, p.file)
      BY <2>1, <3>2 DEF Within
    <3>4. q.file \in Listing(D, l.of) => q.file \in Listing(E, l.of)
      BY DEF Listing, Within
    <3>5. [file |-> q.file, at |-> p.at \o l.at] \in IncludedAt(E, p)
      BY <2>1, <3>2, <3>3, <3>4, IncludedLeaf
    <3>6. q = [file |-> q.file, at |-> p.at \o l.at]
      BY <3>1, <3>2 DEF Places
    <3>7. Known(E, S, T, q)
      BY <2>1, <3>5, <3>6 DEF Followed
    <3> QED  BY <1>1, <3>1, <3>7
  <2>3. ASSUME NEW l \in Leaves(D, p.file)
        PROVE  /\ l.tag = "secret" =>
                    \A s \in ToSet(SecretsOf[p.file]) : Asked(D, T, g, s, p.at \o l.at)
               /\ l.tag = "folder" => Listed(T, g, l.of)
    <3>1. l.tag # "plain" => l \in Leaves(E, p.file)
      BY <2>1 DEF Within
    <3>2. ASSUME NEW s \in ToSet(SecretsOf[p.file]), Asked(E, T, g, s, p.at \o l.at)
          PROVE  Asked(D, T, g, s, p.at \o l.at)
      <4>1. s \in Files
        BY <2>1, SecretsAreFiles DEF Secrets
      <4> QED  BY <3>2, <4>1 DEF Asked, Within
    <3> QED  BY <2>1, <3>1, <3>2 DEF Followed
  <2> QED  BY <2>1, <2>2, <2>3 DEF Followed
<1> QED  BY <1>1, <1>2, RootIsPlace DEF Explored

LEMMA StandingType ==
  ASSUME NEW was, Written(was), NEW is,
         NEW e, e = [n \in DOMAIN was |-> IF was[n] \in ToSet(is) THEN was[n]
                                         ELSE [was[n] EXCEPT !.tag = "plain"]]
  PROVE  /\ Written(e) /\ DOMAIN e = DOMAIN was
         /\ \A n \in DOMAIN e : \/ e[n].tag = "plain"
                                \/ e[n] = was[n] /\ was[n] \in ToSet(is)
         /\ \A n \in DOMAIN e : was[n].tag = "plain" => e[n].tag = "plain"
<1>1. ASSUME NEW n \in DOMAIN was
      PROVE  /\ Leaf(e[n])
             /\ \/ e[n].tag = "plain"
                \/ e[n] = was[n] /\ was[n] \in ToSet(is)
             /\ was[n].tag = "plain" => e[n].tag = "plain"
  <2> DEFINE l == was[n]
             k == [l EXCEPT !.tag = "plain"]
  <2>1. Leaf(l)
    BY DEF Written
  <2>2. e[n] = IF l \in ToSet(is) THEN l ELSE k
    OBVIOUS
  <2> HIDE DEF l
  <2>3. Leaf(k) /\ k.tag = "plain"
    BY <2>1 DEF Leaf, Tags
  <2> HIDE DEF k
  <2>4. CASE l \in ToSet(is)
    BY <2>1, <2>2, <2>4 DEF l
  <2>5. CASE l \notin ToSet(is)
    <3>1. e[n] = k
      BY <2>2, <2>5
    <3> QED  BY <2>3, <3>1
  <2> QED  BY <2>4, <2>5
<1>2. DOMAIN e = DOMAIN was
  OBVIOUS
<1>3. e \in Seq({e[n] : n \in DOMAIN e})
  <2>1. DOMAIN was = 1 .. Len(was) /\ Len(was) \in Nat
    BY LenProperties DEF Written
  <2>2. e \in [1 .. Len(was) -> {e[n] : n \in DOMAIN e}]
    BY <2>1
  <2> QED  BY <2>1, <2>2, SeqDef
<1> QED  BY <1>1, <1>2, <1>3 DEF Written

\* Where a leaf of what stood is still there, its includes are on the disk.
StoodInv == Within(stood, disk)

LEMMA StandingWithin ==
  ASSUME TypeInv, StoodInv, NEW f \in Files, Write(f)
  PROVE  DiskInv' /\ GhostInv' /\ StoodInv' /\ Within(stood', stood)
<1>1. PICK draft \in Drafts[f] :
        /\ disk' = [disk EXCEPT ![f] = draft]
        /\ mattered' = (mattered \/ Bears(f, disk'))
  BY DEF Write
<1>2. /\ version' = [version EXCEPT ![f] = @ + 1]
      /\ agreed' = (agreed \/ Document(disk') = boot)
      /\ stood' = [stood EXCEPT ![f] = Standing(@, disk'[f])]
      /\ calm' = FALSE
  BY DEF Write
<1>3. /\ disk' = [e \in Files |-> IF e = f THEN draft ELSE disk[e]]
      /\ stood' = [e \in Files |-> IF e = f THEN Standing(stood[f], draft) ELSE stood[e]]
  BY <1>1, <1>2 DEF TypeInv, DiskInv, GhostInv
<1>4. DiskInv'
  <2>1. disk' = [e \in Files |-> disk'[e]] /\ \A e \in Files : disk'[e] \in Drafts[e]
    BY <1>3 DEF TypeInv, DiskInv
  <2>2. version' \in [Files -> Nat]
    BY <1>2 DEF TypeInv, DiskInv
  <2> QED  BY <2>1, <2>2 DEF DiskInv
<1>5. DiskType(disk') /\ DiskType(stood)
  BY <1>4, DraftsTyped DEF DiskInv, TypeInv, GhostInv
<1> DEFINE was == stood[f]
           is == Standing(was, draft)
<1>6. /\ is \notin Missing =>
           Written(is) /\ (f \in Secrets => \A l \in ToSet(is) : l.tag = "plain")
      /\ is # Absent => was # Absent /\ draft # Absent
      /\ is \notin Missing =>
           /\ was \notin Missing /\ draft \notin Missing
           /\ \A l \in ToSet(is) : l.tag # "plain" => l \in ToSet(was) /\ l \in ToSet(draft)
  <2>1. CASE Absent \in {was, draft}
    BY <2>1 DEF Standing, Missing
  <2>2. CASE Absent \notin {was, draft} /\ Unsafe \in {was, draft}
    BY <2>2 DEF Standing, Missing
  <2>3. CASE was \notin Missing /\ draft \notin Missing
    <3>1. Written(was) /\ (f \in Secrets => \A l \in ToSet(was) : l.tag = "plain")
      BY <1>5, <2>3 DEF DiskType
    <3> DEFINE e == [n \in DOMAIN was |-> IF was[n] \in ToSet(draft) THEN was[n]
                                         ELSE [was[n] EXCEPT !.tag = "plain"]]
    <3>2. is = e
      BY <2>3 DEF Standing, Missing
    <3> HIDE DEF e, was
    <3>3. /\ Written(e) /\ DOMAIN e = DOMAIN was
          /\ \A n \in DOMAIN e : \/ e[n].tag = "plain"
                                 \/ e[n] = was[n] /\ was[n] \in ToSet(draft)
          /\ \A n \in DOMAIN e : was[n].tag = "plain" => e[n].tag = "plain"
      BY <3>1, StandingType DEF e
    <3>4. \A l \in ToSet(e) : l.tag # "plain" => l \in ToSet(was) /\ l \in ToSet(draft)
      BY <3>3 DEF ToSet
    <3>5. f \in Secrets => \A l \in ToSet(e) : l.tag = "plain"
      BY <3>1, <3>3 DEF ToSet
    <3> HIDE DEF is
    <3>6. Absent \notin {was, draft}
      BY <2>3 DEF Missing
    <3> QED  BY <2>3, <3>2, <3>3, <3>4, <3>5, <3>6
  <2> QED  BY <2>1, <2>2, <2>3 DEF Missing
<1> HIDE DEF is
<1>7. stood'[f] = is /\ disk'[f] = draft
  BY <1>3 DEF is
<1>8. \A e \in Files \ {f} : stood'[e] = stood[e] /\ disk'[e] = disk[e]
  BY <1>3
<1>9. DiskType(stood')
  <2> SUFFICES ASSUME NEW e \in Files, stood'[e] \notin Missing
               PROVE  /\ Written(stood'[e])
                      /\ e \in Secrets => \A l \in ToSet(stood'[e]) : l.tag = "plain"
    BY DEF DiskType
  <2> QED  BY <1>5, <1>6, <1>7, <1>8 DEF DiskType
<1>10. GhostInv'
  <2>1. stood' = [e \in Files |-> stood'[e]]
    BY <1>3
  <2>2. agreed' \in BOOLEAN /\ calm' \in BOOLEAN /\ mattered' \in BOOLEAN
    BY <1>1, <1>2, Zenon
  <2> QED  BY <1>9, <2>1, <2>2 DEF GhostInv
<1>11. Within(stood', stood)
  <2> SUFFICES ASSUME NEW e \in Files
               PROVE  /\ stood'[e] # Absent => stood[e] # Absent
                      /\ \A l \in Leaves(stood', e) : l.tag # "plain" => l \in Leaves(stood, e)
    BY DEF Within
  <2> QED  BY <1>6, <1>7, <1>8 DEF Leaves
<1>12. Within(stood', disk')
  <2> SUFFICES ASSUME NEW e \in Files
               PROVE  /\ stood'[e] # Absent => disk'[e] # Absent
                      /\ \A l \in Leaves(stood', e) : l.tag # "plain" => l \in Leaves(disk', e)
    BY DEF Within
  <2> QED  BY <1>6, <1>7, <1>8 DEF Leaves, StoodInv, Within
<1> QED  BY <1>4, <1>10, <1>11, <1>12 DEF StoodInv

ScanStepOf == LoadSource \/ NoSecrets \/ ListFolder

LEMMA ScanStepContinues ==
  ASSUME TypeInv, ScanStepOf
  PROVE  /\ Continued(Next1) /\ VisitedAsOn(Next1)
         /\ scan.todo # <<>> /\ Next1 \in Visitable /\ Next1 \in ToSet(scan.todo)
         /\ Scanning /\ UNCHANGED <<disk, version, boot, phase, graph, raw, ghosts>>
<1>1. Continued(Next1) /\ VisitedAsOn(Next1)
  BY LoadSourceStep, NoSecretsStep, ListFolderStep DEF ScanStepOf
<1>2. /\ scan.todo # <<>> /\ Scanning
      /\ UNCHANGED <<disk, version, boot, phase, graph, raw, ghosts>>
  BY DEF ScanStepOf, LoadSource, NoSecrets, ListFolder
<1> QED  BY <1>1, <1>2, NextItem DEF TypeInv

LEMMA TypeOKFollows == TypeInv => TypeOK
<1> SUFFICES ASSUME TypeInv  PROVE TypeOK
  OBVIOUS
<1>1. \A f \in Files : disk[f] \in Drafts[f] /\ version[f] \in Nat
  BY DEF TypeInv, DiskInv
<1>2. ASSUME NEW n \in DOMAIN scan.todo
      PROVE  /\ scan.todo[n].kind \in {"file", "secret", "folder"}
             /\ scan.todo[n].above \subseteq Files /\ scan.todo[n].depth \in 0 .. MaxDepth + 1
  <2>1. scan.todo \in Seq(Visitable)
    BY DEF TypeInv, ScanInv
  <2>2. scan.todo[n] \in Visitable
    BY <2>1
  <2> QED  BY <2>2 DEF Visitable
<1>3. ASSUME NEW g \in {graph, scan.got}
      PROVE  /\ g.sources \subseteq [file : Files, version : Nat]
             /\ \A s, q \in g.sources : s.file = q.file => s = q
             /\ g.grants \subseteq {s.file : s \in g.sources}
             /\ g.secrets \subseteq Secrets
  <2>1. g \in Graphs
    BY DEF TypeInv, ScanInv
  <2> QED  BY <2>1 DEF Graphs
<1> QED  BY <1>1, <1>2, <1>3 DEF TypeOK, TypeInv, ScanInv, GhostInv

LEMMA InitTypes == Init => TypeInv /\ StoodInv
<1> SUFFICES ASSUME Init  PROVE TypeInv /\ StoodInv
  OBVIOUS
<1>1. DiskInv
  BY AuthorityAssumption DEF Init, DiskInv
<1>2. ScanInv
  <2>1. phase \in Phases
    BY DEF Init, Phases, Loading
  <2> QED  BY <2>1, FreshType DEF Init, ScanInv
<1>3. GhostInv /\ StoodInv
  <2>1. stood = [f \in Files |-> Absent]
    BY DEF Init
  <2>2. \A f \in Files : stood[f] = Absent /\ Leaves(stood, f) = {}
    BY <2>1 DEF Leaves, Missing
  <2>3. {agreed, calm, mattered} \subseteq BOOLEAN
    BY DEF Init
  <2> QED  BY <2>1, <2>2, <2>3 DEF GhostInv, StoodInv, Within, DiskType, Missing
<1> QED  BY <1>1, <1>2, <1>3 DEF TypeInv

LEMMA NextTypes ==
  ASSUME TypeInv, StoodInv, [Next]_vars
  PROVE  TypeInv' /\ StoodInv'
<1> USE DEF TypeInv
<1>1. CASE ScanStepOf
  <2>1. /\ Continued(Next1)
        /\ UNCHANGED <<disk, version, boot, phase, graph, raw, agreed, stood, calm, mattered>>
    BY <1>1, ScanStepContinues DEF ghosts
  <2>2. ScanInv'
    BY <2>1 DEF ScanInv, Continued
  <2>3. DiskInv' /\ GhostInv' /\ StoodInv'
    BY <2>1 DEF DiskInv, GhostInv, StoodInv, Within, DiskType, Leaves
  <2> QED  BY <2>2, <2>3
<1>2. CASE \/ ScanDenied \/ FirstScanned \/ LoadRaw \/ ValidateMain \/ SecondScanned
           \/ CheckScanned
  <2>1. /\ UNCHANGED <<disk, version, agreed, stood, calm>> /\ mattered' \in {FALSE, mattered}
        /\ phase' \in Phases /\ scan' \in {scan, Fresh} /\ graph' \in {graph, scan.got}
    BY <1>2 DEF ScanDenied, FirstScanned, LoadRaw, ValidateMain, SecondScanned, CheckScanned,
                Deny, ghosts, Phases, Loading, Frozen
  <2>2. ScanInv'
    BY <2>1, FreshType DEF ScanInv
  <2>3. DiskInv' /\ StoodInv'
    BY <2>1 DEF DiskInv, StoodInv, Within, Leaves
  <2>4. GhostInv'
    BY <2>1 DEF GhostInv, DiskType
  <2> QED  BY <2>2, <2>3, <2>4
<1>3. CASE BeginCheck
  <2>1. /\ UNCHANGED <<disk, version, graph, mattered>> /\ stood' = disk /\ calm' = TRUE
        /\ agreed' = (Document(disk) = boot) /\ phase' = "checking" /\ scan' = Fresh
    BY <1>3 DEF BeginCheck
  <2>2. ScanInv'
    BY <2>1, FreshType DEF ScanInv, Phases, Frozen
  <2>3. DiskInv'
    BY <2>1 DEF DiskInv
  <2>4. DiskType(disk)
    BY DraftsTyped DEF DiskInv
  <2>5. agreed' \in BOOLEAN
    BY <2>1
  <2>6. GhostInv'
    BY <2>1, <2>4, <2>5 DEF GhostInv, DiskInv
  <2>7. StoodInv'
    BY <2>1 DEF StoodInv, Within
  <2> QED  BY <2>2, <2>3, <2>6, <2>7
<1>4. ASSUME NEW f \in Files, Write(f)  PROVE TypeInv' /\ StoodInv'
  <2>1. UNCHANGED <<phase, scan, graph>>
    BY <1>4 DEF Write
  <2>2. ScanInv'
    BY <2>1 DEF ScanInv
  <2> QED  BY <1>4, <2>2, StandingWithin
<1>5. CASE UNCHANGED vars
  BY <1>5 DEF vars, DiskInv, ScanInv, GhostInv, StoodInv, Within, DiskType, Leaves
<1> QED  BY <1>1, <1>2, <1>3, <1>4, <1>5 DEF Next, ScanStep, ScanStepOf, LoadStep

\* TypeOK: every reachable state is well typed, and no scan holds one file in two versions.
THEOREM TypeCorrect == Spec => []TypeOK
<1>1. Init => TypeInv /\ StoodInv
  BY InitTypes
<1>2. TypeInv /\ StoodInv /\ [Next]_vars => (TypeInv /\ StoodInv)'
  BY NextTypes
<1> QED  BY <1>1, <1>2, TypeOKFollows, PTL DEF Spec

-----------------------------------------------------------------------------
(* A completed scan, and the files that stood                               *)

LEMMA FreshExplored ==
  ASSUME NEW D
  PROVE  Explored(D, {}, ToSet(Fresh.todo), NoGraph)
<1> DEFINE i == [kind |-> "file", of |-> Root, at |-> <<>>, above |-> {}, depth |-> 0]
           t == <<i>>
<1>1. Fresh.todo = t
  BY DEF Fresh
<1>2. 1 \in DOMAIN t /\ t[1] = i
  OBVIOUS
<1>3. i \in ToSet(t)
  BY <1>2 DEF ToSet
<1>4. i.kind = "file" /\ i.of = RootPlace.file /\ i.at = RootPlace.at
  BY DEF RootPlace
<1> HIDE DEF i
<1>5. Leads(D, ToSet(t), RootPlace)
  BY <1>3, <1>4, RootIsPlace DEF Leads
<1> QED  BY <1>1, <1>5 DEF Explored, Known

\* A completed scan has visited every place that is there.
LEMMA ReachedFound ==
  ASSUME NEW D, DiskType(D), NEW S, NEW g, Explored(D, S, {}, g)
  PROVE  \A n \in 0 .. MaxDepth + 1 : \A p \in ReachedIn(D)[n] :
           p \in Places /\ (D[p.file] # Absent => p \in S)
<1> DEFINE Z == S \cup {p \in Places : D[p.file] = Absent}
<1>1. \A q \in Places : Known(D, S, {}, q) => q \in Z
  BY DEF Known, Leads
<1>2. RootPlace \in Z
  BY <1>1, RootIsPlace DEF Explored
<1>3. ASSUME NEW p \in Z, NEW q \in IncludedAt(D, p)  PROVE q \in Z
  <2>1. p \in Places
    BY DEF Explored
  <2>2. q \in Places /\ \E l \in Leaves(D, p.file) : TRUE
    BY <2>1, Included
  <2>3. D[p.file] # Absent
    BY <2>2 DEF Leaves, Missing
  <2>4. Followed(D, S, {}, g, p)
    BY <2>3 DEF Explored
  <2> QED  BY <1>1, <2>2, <2>4 DEF Followed
<1>4. \A p \in Z : p \in Places /\ (D[p.file] # Absent => p \in S)
  BY DEF Explored
<1> HIDE DEF Z
<1>5. \A n \in 0 .. MaxDepth + 1 : ReachedIn(D)[n] \subseteq Z
  BY <1>2, <1>3, ReachedWithin
<1> QED  BY <1>4, <1>5

\* Whatever Home Assistant would read is in the graph of a completed scan.
LEMMA ReadFound ==
  ASSUME NEW D, DiskType(D), NEW S, NEW g, Explored(D, S, {}, g)
  PROVE  ReadByHA(D) \subseteq FilesOf(g) \cup g.secrets
<1>1. \A p \in Reached(D) : p \in Places /\ (D[p.file] # Absent => p \in S)
  <2>1. MaxDepth + 1 \in 0 .. MaxDepth + 1
    BY FilesAssumption
  <2> QED  BY <2>1, ReachedFound DEF Reached
<1>2. ASSUME NEW p \in Reached(D), D[p.file] # Absent
      PROVE  p.file \in FilesOf(g)
  BY <1>1, <1>2 DEF Explored, Followed, Noted
<1>3. ASSUME NEW p \in Reached(D), Tagged(D, p.file, "secret") # {},
             NEW s \in ToSet(SecretsOf[p.file])
      PROVE  s \in g.secrets
  <2>1. PICK l \in Leaves(D, p.file) : l.tag = "secret"
    BY <1>3 DEF Tagged
  <2>2. p \in S
    BY <1>1, <2>1 DEF Leaves, Missing
  <2>3. Asked(D, {}, g, s, p.at \o l.at)
    BY <2>1, <2>2 DEF Explored, Followed
  <2> QED  BY <2>3 DEF Asked
<1>4. ASSUME NEW t \in ReadByHA(D)  PROVE t \in FilesOf(g) \cup g.secrets
  <2>1. CASE t \in {p.file : p \in {q \in Reached(D) : D[q.file] # Absent}}
    BY <1>2, <2>1
  <2>2. CASE t \in UNION {{s \in ToSet(SecretsOf[p.file]) : D[s] # Absent} :
                          p \in {q \in Reached(D) : Tagged(D, q.file, "secret") # {}}}
    <3> DEFINE G(p) == {s \in ToSet(SecretsOf[p.file]) : D[s] # Absent}
               R == {q \in Reached(D) : Tagged(D, q.file, "secret") # {}}
    <3>1. t \in UNION {G(p) : p \in R}
      BY <2>2
    <3> HIDE DEF G
    <3>2. PICK p \in R : t \in G(p)
      BY <3>1
    <3> QED  BY <1>3, <3>2 DEF G
  <2> QED  BY <2>1, <2>2 DEF ReadByHA
<1> QED  BY <1>4

-----------------------------------------------------------------------------
(* The files of the configuration are never authorized                      *)

ProtectInv ==
  /\ phase = "checking" => \E S : Explored(stood, S, ToSet(scan.todo), scan.got)
  /\ phase = "passed" =>
       \E S, g : /\ FilesOf(g) = FilesOf(graph) /\ g.secrets = graph.secrets
                 /\ Explored(stood, S, {}, g)

LEMMA InitProtects == Init => ProtectInv
BY DEF Init, ProtectInv

LEMMA NextProtects ==
  ASSUME TypeInv, StoodInv, ProtectInv, [Next]_vars
  PROVE  ProtectInv'
<1>0. DiskType(stood) /\ DiskType(stood')
  BY NextTypes DEF TypeInv, GhostInv
<1>1. CASE ScanStepOf
  <2>1. /\ Continued(Next1) /\ VisitedAsOn(Next1)
        /\ Next1 \in Visitable /\ Next1 \in ToSet(scan.todo)
        /\ Scanning /\ UNCHANGED <<phase, graph, stood>>
    BY <1>1, ScanStepContinues DEF ghosts
  <2>2. CASE phase = "checking"
    <3>1. PICK S : Explored(stood, S, ToSet(scan.todo), scan.got)
      BY <2>2 DEF ProtectInv
    <3>2. Visited(stood, Next1, ToSet(scan'.todo), scan'.got)
      BY <1>0, <2>1, WithinOnDisk DEF VisitedAsOn, StoodInv
    <3>3. /\ Next1.kind \in {"file", "secret", "folder"}
          /\ Next1.kind = "file" => Next1.of \in Files
          /\ Next1.at \in Seq(STRING)
      BY <2>1 DEF Visitable
    <3>4. \E Z : Explored(stood, Z, ToSet(scan'.todo), scan'.got)
      BY <1>0, <2>1, <3>1, <3>2, <3>3, Explore DEF Continued
    <3> QED  BY <2>1, <2>2, <3>4 DEF ProtectInv
  <2>3. CASE phase \in {"first", "second"}
    BY <2>1, <2>3 DEF ProtectInv
  <2> QED  BY <2>1, <2>2, <2>3 DEF Scanning
<1>2. CASE ScanDenied \/ FirstScanned \/ LoadRaw \/ ValidateMain \/ SecondScanned
  BY <1>2 DEF ScanDenied, FirstScanned, LoadRaw, ValidateMain, SecondScanned, Deny, ProtectInv,
              Loading
<1>3. CASE BeginCheck
  <2>1. phase' = "checking" /\ scan'.todo = Fresh.todo /\ scan'.got = NoGraph
    BY <1>3 DEF BeginCheck, Fresh
  <2> QED  BY <2>1, FreshExplored DEF ProtectInv
<1>4. CASE CheckScanned
  <2>1. /\ UNCHANGED <<graph, stood>> /\ phase = "checking" /\ scan.todo = <<>>
        /\ phase' # "checking" /\ (phase' = "passed" => SameAuthority(scan.got))
    BY <1>4 DEF CheckScanned, Scanned, Deny, ghosts, Loading
  <2>2. PICK S : Explored(stood, S, ToSet(scan.todo), scan.got)
    BY <2>1 DEF ProtectInv
  <2>3. ToSet(scan.todo) = {}
    BY <2>1 DEF ToSet
  <2> QED  BY <2>1, <2>2, <2>3 DEF ProtectInv, SameAuthority, FilesOf
<1>5. ASSUME NEW f \in Files, Write(f)  PROVE ProtectInv'
  <2>1. Within(stood', stood) /\ UNCHANGED <<phase, scan, graph>>
    BY <1>5, StandingWithin DEF Write
  <2>2. \A S, T, g : Explored(stood, S, T, g) => Explored(stood', S, T, g)
    BY <1>0, <2>1, ExploredWithin
  <2> QED  BY <2>1, <2>2 DEF ProtectInv, FilesOf
<1>6. CASE UNCHANGED vars
  BY <1>6 DEF vars, ProtectInv, FilesOf
<1> QED  BY <1>1, <1>2, <1>3, <1>4, <1>5, <1>6 DEF Next, ScanStep, ScanStepOf, LoadStep

\* SourcesProtected: no path is authorized that Home Assistant would read along what
\* stood all through the check, with any writes by others between its readings.
THEOREM NoSourceAuthorized == Spec => []SourcesProtected
<1>1. Init => TypeInv /\ StoodInv /\ ProtectInv
  BY InitTypes, InitProtects
<1>2. TypeInv /\ StoodInv /\ ProtectInv /\ [Next]_vars => (TypeInv /\ StoodInv /\ ProtectInv)'
  BY NextTypes, NextProtects
<1>3. TypeInv /\ ProtectInv => SourcesProtected
  <2> SUFFICES ASSUME TypeInv, ProtectInv, phase = "passed"
               PROVE  Authorized \cap ReadByHA(stood) = {}
    BY DEF SourcesProtected
  <2>1. PICK S, g : /\ FilesOf(g) = FilesOf(graph) /\ g.secrets = graph.secrets
                    /\ Explored(stood, S, {}, g)
    BY DEF ProtectInv
  <2>2. ReadByHA(stood) \subseteq FilesOf(graph) \cup graph.secrets
    BY <2>1, ReadFound DEF TypeInv, GhostInv
  <2>3. \A t \in Authorized : t \notin FilesOf(graph) \cup graph.secrets
    BY DEF Authorized, Protects
  <2> QED  BY <2>2, <2>3
<1> QED  BY <1>1, <1>2, <1>3, PTL DEF Spec

-----------------------------------------------------------------------------
(* The grant sources decide                                                 *)

LEMMA ReachedGrows ==
  ASSUME NEW D
  PROVE  \A n \in 0 .. MaxDepth + 1 : ReachedIn(D)[n] \subseteq Reached(D)
<1> DEFINE R == ReachedIn(D)
           N == MaxDepth + 1
           Ok == {n \in Nat : n <= N => R[N - n] \subseteq R[N]}
<1>0. N \in Nat
  BY FilesAssumption
<1>1. \A n \in 0 .. N : n # 0 => R[n - 1] \subseteq R[n]
  <2>1. \A n \in 0 .. N : R[n] = Spread(R, D, n)
    BY ReachedSpreads
  <2> HIDE DEF R, N
  <2> QED  BY <2>1 DEF Spread
<1> HIDE DEF R, N
<1>2. ASSUME NEW n \in Nat, n \in Ok  PROVE n + 1 \in Ok
  <2>1. SUFFICES ASSUME n + 1 <= N  PROVE R[N - (n + 1)] \subseteq R[N]
    OBVIOUS
  <2>2. N - n \in 0 .. N /\ N - n # 0 /\ (N - n) - 1 = N - (n + 1)
    BY <1>0, <2>1
  <2>3. R[N - (n + 1)] \subseteq R[N - n]
    BY <1>1, <2>2
  <2>4. R[N - n] \subseteq R[N]
    BY <1>0, <1>2, <2>1
  <2> QED  BY <2>3, <2>4
<1>3. 0 \in Ok
  BY <1>0
<1>4. Ok \in SUBSET Nat /\ \A n \in Ok : n + 1 \in Ok
  BY <1>2
<1> HIDE DEF Ok
<1>5. Ok = Nat
  BY <1>3, <1>4, Induction
<1>6. ASSUME NEW n \in 0 .. N  PROVE R[n] \subseteq R[N]
  <2>1. N - n \in Nat /\ N - n <= N /\ N - (N - n) = n
    BY <1>0
  <2>2. N - n \in Ok
    BY <1>5, <2>1
  <2> QED  BY <2>1, <2>2 DEF Ok
<1> QED  BY <1>6 DEF R, N, Reached

LEMMA ReachedPlaces ==
  ASSUME NEW D, DiskType(D)
  PROVE  \A n \in 0 .. MaxDepth + 1 : ReachedIn(D)[n] \subseteq Places
<1>1. \A p \in Places : IncludedAt(D, p) \subseteq Places
  BY Included
<1> QED  BY <1>1, RootIsPlace, ReachedWithin

\* What is included under keys that define no grants defines none either.
LEMMA GrantsAbove ==
  ASSUME NEW a \in Seq(STRING), NEW b \in Seq(STRING), DefinesGrants(a \o b)
  PROVE  DefinesGrants(a)
<1>1. CASE a = <<>>
  BY <1>1 DEF DefinesGrants
<1>2. CASE a # <<>>
  <2>1. Len(a) \in Nat \ {0} /\ Len(b) \in Nat
    BY <1>2
  <2> DEFINE m == Len(a)
             n == Len(b)
             c == a \o b
  <2>2. Len(c) = m + n /\ \A i \in 1 .. m + n : c[i] = IF i <= m THEN a[i] ELSE b[i - m]
    BY ConcatProperties
  <2>3. c # <<>>
    BY <1>2
  <2> HIDE DEF m, n, c
  <2>4. m \in Nat \ {0} /\ n \in Nat
    BY <2>1 DEF m, n
  <2>5. c[1] = a[1] /\ (m >= 2 => c[2] = a[2]) /\ (m = 1 \/ m >= 2) /\ (Len(c) = 1 => m = 1)
    BY <2>2, <2>4
  <2> QED  BY <2>3, <2>5 DEF DefinesGrants, c, m
<1> QED  BY <1>1, <1>2

\* The values that bear on grants.
Granting(D) == {v \in Values(D) : DefinesGrants(v.at)}

\* Leaf l at place p says x.
Says(D, p, l, x) ==
  \/ l.tag = "plain" /\ x = l.of
  \/ l.tag = "secret" /\ x \in SecretValues(D, p.file, l.of)

LEMMA ValueFrom ==
  ASSUME NEW D, NEW v
  PROVE  v \in Values(D) <=>
           \E p \in Reached(D) : \E l \in Leaves(D, p.file) : \E x :
             v = [at |-> p.at \o l.at, of |-> x] /\ Says(D, p, l, x)
<1> DEFINE A(p) == {[at |-> p.at \o l.at, of |-> l.of] : l \in Tagged(D, p.file, "plain")}
           B(p, l) == {[at |-> p.at \o l.at, of |-> x] : x \in SecretValues(D, p.file, l.of)}
           C(p) == A(p) \cup UNION {B(p, l) : l \in Tagged(D, p.file, "secret")}
<1>1. Values(D) = UNION {C(p) : p \in Reached(D)}
  BY Zenon DEF Values
<1>2. ASSUME NEW p
      PROVE  /\ v \in A(p) <=> \E l \in Leaves(D, p.file) : \E x :
                  v = [at |-> p.at \o l.at, of |-> x] /\ l.tag = "plain" /\ x = l.of
             /\ \A l : v \in B(p, l) <=> \E x \in SecretValues(D, p.file, l.of) :
                         v = [at |-> p.at \o l.at, of |-> x]
  <2>1. \A l : l \in Tagged(D, p.file, "plain") <=> l \in Leaves(D, p.file) /\ l.tag = "plain"
    BY DEF Tagged
  <2>2. v \in A(p) <=> \E l \in Tagged(D, p.file, "plain") :
                         v = [at |-> p.at \o l.at, of |-> l.of]
    OBVIOUS
  <2>3. \A l : v \in B(p, l) <=> \E x \in SecretValues(D, p.file, l.of) :
                 v = [at |-> p.at \o l.at, of |-> x]
    OBVIOUS
  <2> QED  BY <2>1, <2>2, <2>3, Zenon
<1> HIDE DEF A, B
<1>3. \A p, l : l \in Tagged(D, p.file, "secret") <=> l \in Leaves(D, p.file) /\ l.tag = "secret"
  BY DEF Tagged
<1>4. \A p : v \in C(p) <=> \/ v \in A(p)
                            \/ \E l \in Tagged(D, p.file, "secret") : v \in B(p, l)
  OBVIOUS
<1> HIDE DEF C
<1>5. v \in Values(D) <=> \E p \in Reached(D) : v \in C(p)
  BY <1>1
<1> QED  BY <1>2, <1>3, <1>4, <1>5, Zenon DEF Says

LEMMA ReachedType ==
  ASSUME NEW D, DiskType(D), NEW p \in Reached(D)
  PROVE  p \in Places /\ p.file \in Files /\ p.at \in Seq(STRING)
<1>1. MaxDepth + 1 \in 0 .. MaxDepth + 1
  BY FilesAssumption
<1>2. p \in Places
  BY <1>1, ReachedPlaces DEF Reached
<1> QED  BY <1>2 DEF Places

LEMMA ValueType ==
  ASSUME NEW D, DiskType(D), NEW v \in Values(D)
  PROVE  v.at \in Seq(STRING)
<1>0. PICK p \in Reached(D) :
        \E l \in Leaves(D, p.file) : \E x :
          v = [at |-> p.at \o l.at, of |-> x] /\ Says(D, p, l, x)
  BY ValueFrom
<1>1. PICK l \in Leaves(D, p.file) : \E x : v = [at |-> p.at \o l.at, of |-> x]
  BY <1>0, Zenon
<1>2. p.file \in Files /\ p.at \in Seq(STRING)
  BY ReachedType
<1>3. l.at \in Seq(STRING)
  BY <1>2, LeafTypes
<1>4. p.at \o l.at \in Seq(STRING)
  BY <1>2, <1>3, ConcatProperties
<1> QED  BY <1>1, <1>4

\* What the document says is said by values that bear on grants.
LEMMA DocumentOf ==
  ASSUME NEW D, NEW E, DiskType(D), DiskType(E), Granting(D) = Granting(E)
  PROVE  Document(D) = Document(E)
<1> DEFINE main == <<"hapatchy", "allowed_files">>
           dirs == <<"homeassistant", "allowlist_external_dirs">>
           pack == <<"homeassistant", "packages", "hapatchy">>
<1>1. DefinesGrants(main) /\ DefinesGrants(dirs)
  BY DEF DefinesGrants
<1>2. ASSUME NEW a \in Seq(STRING), IsPrefix(pack, a)  PROVE DefinesGrants(a)
  <2>1. /\ Len(pack) = 3 /\ Len(a) \in Nat
        /\ pack[1] = "homeassistant" /\ pack[2] = "packages"
    OBVIOUS
  <2>2. Len(a) >= 3 /\ SubSeq(pack, 1, 3) = SubSeq(a, 1, 3)
    BY <1>2, <2>1 DEF IsPrefix
  <2>3. /\ SubSeq(pack, 1, 3)[1] = "homeassistant" /\ SubSeq(pack, 1, 3)[2] = "packages"
        /\ SubSeq(a, 1, 3)[1] = a[1] /\ SubSeq(a, 1, 3)[2] = a[2]
    BY <2>1, <2>2
  <2> QED  BY <2>2, <2>3 DEF DefinesGrants
<1> HIDE DEF main, dirs, pack
<1>3. ASSUME NEW F, DiskType(F)
      PROVE  Document(F) = [files |-> {v.of : v \in {x \in Granting(F) : x.at = main}},
                            dirs  |-> {v.of : v \in {x \in Granting(F) : x.at = dirs}},
                            packaged |-> \E v \in Granting(F) : IsPrefix(pack, v.at)]
  <2>1. {x \in Values(F) : x.at = main} = {x \in Granting(F) : x.at = main}
    BY <1>1 DEF Granting
  <2>2. {x \in Values(F) : x.at = dirs} = {x \in Granting(F) : x.at = dirs}
    BY <1>1 DEF Granting
  <2>3. (\E v \in Values(F) : IsPrefix(pack, v.at)) <=> \E v \in Granting(F) : IsPrefix(pack, v.at)
    BY <1>2, <1>3, ValueType DEF Granting
  <2>4. (\E v \in Values(F) : IsPrefix(pack, v.at)) = \E v \in Granting(F) : IsPrefix(pack, v.at)
    BY <2>3
  <2>5. Document(F) = [files |-> {v.of : v \in {x \in Values(F) : x.at = main}},
                       dirs  |-> {v.of : v \in {x \in Values(F) : x.at = dirs}},
                       packaged |-> \E v \in Values(F) : IsPrefix(pack, v.at)]
    BY Zenon DEF Document, main, dirs, pack
  <2> QED  BY <2>1, <2>2, <2>4, <2>5, Zenon
<1> QED  BY <1>3, Zenon

\* E has what the graph g of a completed scan of D pins.
Agrees(D, E, g) ==
  /\ \A f \in g.grants : E[f] = D[f]
  /\ \A q \in g.listings : Listing(E, q.folder) = Listing(D, q.folder)
  /\ \A s \in g.secrets : E[s] # Absent <=> s \in FilesOf(g)

\* Where p defines grants, it leads to the same and says the same.
SameAt(D, E, p) ==
  /\ Leaves(D, p.file) = Leaves(E, p.file)
  /\ IncludedAt(D, p) = IncludedAt(E, p)
  /\ \A l \in Leaves(D, p.file) : (l.tag = "secret" /\ DefinesGrants(p.at \o l.at)) =>
       SecretValues(D, p.file, l.of) = SecretValues(E, p.file, l.of)

LEMMA SecretsSame ==
  ASSUME NEW D, NEW E, NEW f \in Files, NEW name,
         \A s \in ToSet(SecretsOf[f]) : Leaves(D, s) = Leaves(E, s)
  PROVE  SecretValues(D, f, name) = SecretValues(E, f, name)
<1> DEFINE N == DOMAIN SecretsOf[f]
           a(n) == Named(D, SecretsOf[f][n], name)
           b(n) == Named(E, SecretsOf[f][n], name)
<1>1. \A n \in N : a(n) = b(n)
  BY DEF ToSet, Named
<1> HIDE DEF a, b
<1>2. Nearest(D, f, name) = Nearest(E, f, name)
  <2>1. /\ Nearest(D, f, name) = {n \in N : \A m \in 1 .. n - 1 : a(m) = {}}
        /\ Nearest(E, f, name) = {n \in N : \A m \in 1 .. n - 1 : b(m) = {}}
    BY Zenon DEF Nearest, a, b
  <2>2. N = 1 .. Len(SecretsOf[f]) /\ Len(SecretsOf[f]) \in Nat
    BY SecretsAreFiles, LenProperties
  <2> HIDE DEF N
  <2>3. \A n \in N : \A m \in 1 .. n - 1 : m \in N
    BY <2>2
  <2> QED  BY <1>1, <2>1, <2>3
<1> HIDE DEF N
<1>3. Nearest(D, f, name) \subseteq N
  BY DEF Nearest, N
<1>4. /\ SecretValues(D, f, name) = {l.of : l \in UNION {a(n) : n \in Nearest(D, f, name)}}
      /\ SecretValues(E, f, name) = {l.of : l \in UNION {b(n) : n \in Nearest(E, f, name)}}
  BY Zenon DEF SecretValues, a, b
<1>5. {a(n) : n \in Nearest(D, f, name)} = {b(n) : n \in Nearest(D, f, name)}
  BY <1>1, <1>3
<1> QED  BY <1>2, <1>4, <1>5, Zenon

LEMMA SamePlaces ==
  ASSUME NEW D, NEW E, DiskType(D), DiskType(E), NEW S, NEW g, Explored(D, S, {}, g),
         \A f \in FilesOf(g) : D[f] \notin Missing, Agrees(D, E, g),
         NEW p \in S, DefinesGrants(p.at)
  PROVE  SameAt(D, E, p)
<1>1. Followed(D, S, {}, g, p) /\ p \in Places /\ p.file \in Files /\ p.at \in Seq(STRING)
  BY DEF Explored, Places
<1>2. D[p.file] = E[p.file]
  BY <1>1 DEF Followed, Noted, Agrees
<1>3. \A f : D[f] = E[f] => Leaves(D, f) = Leaves(E, f)
  BY DEF Leaves
<1>4. Leaves(D, p.file) = Leaves(E, p.file)
  BY <1>2, <1>3
<1>5. IncludedAt(D, p) = IncludedAt(E, p)
  <2>1. \A tag : Tagged(D, p.file, tag) = Tagged(E, p.file, tag)
    BY <1>4 DEF Tagged
  <2>2. ASSUME NEW l \in Tagged(D, p.file, "folder")
        PROVE  Listing(D, l.of) = Listing(E, l.of)
    <3>1. l \in Leaves(D, p.file) /\ l.tag = "folder"
      BY DEF Tagged
    <3>2. Listed({}, g, l.of)
      BY <1>1, <3>1 DEF Followed
    <3> QED  BY <3>2 DEF Listed, Agrees
  <2> DEFINE F(X, l) == {[file |-> f, at |-> p.at \o l.at] : f \in Listing(X, l.of)}
  <2>3. \A l \in Tagged(D, p.file, "folder") : F(D, l) = F(E, l)
    BY <2>2
  <2>4. \A X : IncludedAt(X, p) =
           {[file |-> l.of, at |-> p.at \o l.at] : l \in Tagged(X, p.file, "include")} \cup
           UNION {F(X, l) : l \in Tagged(X, p.file, "folder")}
    BY IncludedEqual, Zenon
  <2> HIDE DEF F
  <2>5. {F(D, l) : l \in Tagged(D, p.file, "folder")} = {F(E, l) : l \in Tagged(D, p.file, "folder")}
    BY <2>3
  <2>6. {F(E, l) : l \in Tagged(D, p.file, "folder")} = {F(E, l) : l \in Tagged(E, p.file, "folder")}
    BY <2>1
  <2>7. {[file |-> l.of, at |-> p.at \o l.at] : l \in Tagged(D, p.file, "include")} =
          {[file |-> l.of, at |-> p.at \o l.at] : l \in Tagged(E, p.file, "include")}
    BY <2>1
  <2> QED  BY <2>4, <2>5, <2>6, <2>7, Zenon
<1>6. ASSUME NEW l \in Leaves(D, p.file), l.tag = "secret", DefinesGrants(p.at \o l.at),
             NEW s \in ToSet(SecretsOf[p.file])
      PROVE  Leaves(D, s) = Leaves(E, s)
  <2>1. s \in g.secrets /\ (D[s] # Absent => Noted(g, s, p.at \o l.at))
    BY <1>1, <1>6 DEF Followed, Asked
  <2>2. CASE D[s] # Absent
    <3>1. s \in g.grants
      BY <1>6, <2>1, <2>2 DEF Noted
    <3> QED  BY <1>3, <3>1 DEF Agrees
  <2>3. CASE D[s] = Absent
    <3>1. s \notin FilesOf(g)
      BY <2>3 DEF Missing
    <3>2. E[s] = Absent
      BY <2>1, <3>1 DEF Agrees
    <3> QED  BY <1>3, <2>3, <3>2
  <2> QED  BY <2>2, <2>3
<1>7. ASSUME NEW l \in Leaves(D, p.file), l.tag = "secret", DefinesGrants(p.at \o l.at)
      PROVE  SecretValues(D, p.file, l.of) = SecretValues(E, p.file, l.of)
  BY <1>1, <1>6, <1>7, SecretsSame
<1> QED  BY <1>4, <1>5, <1>7 DEF SameAt

\* Where grants are defined, D and E lead to the same places.
LEMMA SameReached ==
  ASSUME NEW D, NEW E, DiskType(D), DiskType(E), NEW S, Reached(D) \subseteq S,
         \A p \in S : DefinesGrants(p.at) => SameAt(D, E, p)
  PROVE  \A p : DefinesGrants(p.at) => (p \in Reached(D) <=> p \in Reached(E))
<1> DEFINE R == ReachedIn(D)
           Q == ReachedIn(E)
           N == MaxDepth + 1
           Ok == {n \in Nat : n <= N =>
                    \A p : DefinesGrants(p.at) => (p \in R[n] <=> p \in Q[n])}
<1>0. N \in Nat
  BY FilesAssumption
<1>1. \A n \in 0 .. N : /\ R[n] = Spread(R, D, n) /\ Q[n] = Spread(Q, E, n)
                        /\ R[n] \subseteq Places /\ Q[n] \subseteq Places
                        /\ R[n] \subseteq S
  BY ReachedSpreads, ReachedPlaces, ReachedGrows
<1> HIDE DEF R, Q, N
<1>2. 0 \in Ok
  <2>1. 0 \in 0 .. N
    BY <1>0
  <2>2. R[0] = {RootPlace} /\ Q[0] = {RootPlace}
    BY <1>1, <2>1 DEF Spread
  <2> QED  BY <2>2
<1>3. ASSUME NEW n \in Nat, n \in Ok  PROVE n + 1 \in Ok
  <2>1. SUFFICES ASSUME n + 1 <= N
                 PROVE  \A p : DefinesGrants(p.at) => (p \in R[n + 1] <=> p \in Q[n + 1])
    OBVIOUS
  <2>2. n \in 0 .. N /\ n + 1 \in 0 .. N /\ n + 1 # 0 /\ n + 1 - 1 = n
    BY <1>0, <2>1
  <2>3. /\ R[n + 1] = R[n] \cup UNION {IncludedAt(D, p) : p \in R[n]}
        /\ Q[n + 1] = Q[n] \cup UNION {IncludedAt(E, p) : p \in Q[n]}
    <3>1. R[n + 1] = Spread(R, D, n + 1) /\ Q[n + 1] = Spread(Q, E, n + 1)
      BY <1>1, <2>2
    <3>2. n + 1 # 0 /\ n + 1 - 1 = n
      BY <2>2
    <3>3. R[n + 1] = R[n] \cup UNION {IncludedAt(D, p) : p \in R[n]}
      BY <3>1, <3>2 DEF Spread
    <3>4. Q[n + 1] = Q[n] \cup UNION {IncludedAt(E, p) : p \in Q[n]}
      BY <3>1, <3>2 DEF Spread
    <3> QED  BY <3>3, <3>4
  <2>4. \A p : DefinesGrants(p.at) => (p \in R[n] <=> p \in Q[n])
    BY <1>3, <2>2
  <2>5. R[n] \subseteq Places /\ Q[n] \subseteq Places /\ R[n] \subseteq S
    BY <1>1, <2>2
  <2>6. ASSUME NEW X, DiskType(X), NEW p \in Places, NEW q \in IncludedAt(X, p), DefinesGrants(q.at)
        PROVE  DefinesGrants(p.at)
    <3>1. PICK l \in Leaves(X, p.file) :
            /\ q.at = p.at \o l.at
            /\ \/ l.tag = "include" /\ q.file = l.of
               \/ l.tag = "folder" /\ q.file \in Listing(X, l.of)
      BY <2>6, Included
    <3>2. p.at \in Seq(STRING) /\ p.file \in Files
      BY DEF Places
    <3>3. l.at \in Seq(STRING)
      BY <2>6, <3>2, LeafTypes
    <3> QED  BY <2>6, <3>1, <3>2, <3>3, GrantsAbove
  <2>7. ASSUME NEW q, DefinesGrants(q.at), NEW p \in R[n], q \in IncludedAt(D, p)
        PROVE  q \in Q[n + 1]
    <3>1. DefinesGrants(p.at)
      BY <2>5, <2>6, <2>7
    <3>2. p \in Q[n] /\ IncludedAt(D, p) = IncludedAt(E, p)
      BY <2>4, <2>5, <3>1 DEF SameAt
    <3> QED  BY <2>3, <2>7, <3>2
  <2>8. ASSUME NEW q, DefinesGrants(q.at), NEW p \in Q[n], q \in IncludedAt(E, p)
        PROVE  q \in R[n + 1]
    <3>1. DefinesGrants(p.at)
      BY <2>5, <2>6, <2>8
    <3>2. p \in R[n] /\ IncludedAt(D, p) = IncludedAt(E, p)
      BY <2>4, <2>5, <3>1 DEF SameAt
    <3> QED  BY <2>3, <2>8, <3>2
  <2> QED  BY <2>3, <2>4, <2>7, <2>8
<1>4. Ok \in SUBSET Nat /\ \A n \in Ok : n + 1 \in Ok
  BY <1>3
<1> HIDE DEF Ok
<1>5. Ok = Nat
  BY <1>2, <1>4, Induction
<1> QED  BY <1>0, <1>5 DEF Ok, R, Q, N, Reached

\* As long as what the graph pins is as it was, the document is as it was.
LEMMA Decides ==
  ASSUME NEW D, NEW E, DiskType(D), DiskType(E), NEW S, NEW g, Explored(D, S, {}, g),
         Loads(D), \A f \in FilesOf(g) : D[f] \notin Missing, Agrees(D, E, g)
  PROVE  Document(E) = Document(D)
<1>1. Reached(D) \subseteq S
  <2>1. MaxDepth + 1 \in 0 .. MaxDepth + 1
    BY FilesAssumption
  <2>2. \A p \in Reached(D) : D[p.file] # Absent
    BY DEF Loads, Missing
  <2> QED  BY <2>1, <2>2, ReachedFound DEF Reached
<1>2. \A p \in S : DefinesGrants(p.at) => SameAt(D, E, p)
  BY SamePlaces
<1>3. \A p : DefinesGrants(p.at) => (p \in Reached(D) <=> p \in Reached(E))
  BY <1>1, <1>2, SameReached
<1>4. ASSUME NEW X, DiskType(X), NEW p \in Reached(X), NEW l \in Leaves(X, p.file),
             DefinesGrants(p.at \o l.at)
      PROVE  DefinesGrants(p.at)
  <2>1. p.file \in Files /\ p.at \in Seq(STRING)
    BY <1>4, ReachedType
  <2>2. l.at \in Seq(STRING)
    BY <1>4, <2>1, LeafTypes
  <2> QED  BY <1>4, <2>1, <2>2, GrantsAbove
<1>5. ASSUME NEW X, NEW Y, DiskType(X), NEW v \in Granting(X),
             \A p \in Reached(X) : DefinesGrants(p.at) => p \in Reached(Y) /\ SameAt(D, E, p),
             <<X, Y>> \in {<<D, E>>, <<E, D>>}
      PROVE  v \in Granting(Y)
  <2>1. v \in Values(X) /\ DefinesGrants(v.at)
    BY DEF Granting
  <2>2. PICK p \in Reached(X) :
          \E l \in Leaves(X, p.file) : \E x :
            v = [at |-> p.at \o l.at, of |-> x] /\ Says(X, p, l, x)
    BY <2>1, ValueFrom
  <2>3. PICK l \in Leaves(X, p.file) : \E x :
          v = [at |-> p.at \o l.at, of |-> x] /\ Says(X, p, l, x)
    BY <2>2
  <2>4. PICK x : v = [at |-> p.at \o l.at, of |-> x] /\ Says(X, p, l, x)
    BY <2>3
  <2>5. DefinesGrants(p.at \o l.at)
    BY <2>1, <2>4
  <2>6. p \in Reached(Y) /\ SameAt(D, E, p)
    BY <1>4, <1>5, <2>5
  <2>7. l \in Leaves(D, p.file) /\ l \in Leaves(E, p.file)
    BY <1>5, <2>3, <2>6 DEF SameAt
  <2>8. Says(Y, p, l, x)
    <3>1. l.tag = "secret" => SecretValues(D, p.file, l.of) = SecretValues(E, p.file, l.of)
      BY <2>5, <2>6, <2>7 DEF SameAt
    <3> QED  BY <1>5, <2>4, <3>1 DEF Says
  <2>9. l \in Leaves(Y, p.file)
    BY <1>5, <2>7
  <2>10. v \in Values(Y)
    BY <2>4, <2>6, <2>8, <2>9, ValueFrom
  <2> QED  BY <2>1, <2>10 DEF Granting
<1>6. \A p \in Reached(D) : DefinesGrants(p.at) => p \in Reached(E) /\ SameAt(D, E, p)
  BY <1>1, <1>2, <1>3
<1>7. \A p \in Reached(E) : DefinesGrants(p.at) => p \in Reached(D) /\ SameAt(D, E, p)
  BY <1>1, <1>2, <1>3
<1>8. Granting(D) = Granting(E)
  <2>1. ASSUME NEW v \in Granting(D)  PROVE v \in Granting(E)
    BY <1>5, <1>6
  <2>2. ASSUME NEW v \in Granting(E)  PROVE v \in Granting(D)
    BY <1>5, <1>7
  <2> QED  BY <2>1, <2>2
<1> QED  BY <1>8, DocumentOf

-----------------------------------------------------------------------------
(* What was frozen.  D and V are what the disk and the versions were when   *)
(* the document was read (LoadRaw).                                         *)

\* The graph g is not from after the versions V, and lists D.
UpTo(D, V, g) ==
  /\ \A s \in g.sources : s.version <= V[s.file]
  /\ \A q \in g.listings : q.files = Listing(D, q.folder)

\* Every source of g is in the version that V has.
Exactly(V, g) == \A s \in g.sources : s.version = V[s.file]

Read(D, g) == \A f \in FilesOf(g) : D[f] \notin Missing

\* D has not come back since.
Since(D, V) ==
  /\ DiskType(D) /\ V \in [Files -> Nat]
  /\ \A f \in Files : version[f] >= V[f] /\ (version[f] = V[f] => disk[f] = D[f])

\* The second scan goes over D, unless it meets something newer.
Rescanned(D, V) ==
  /\ \A s \in scan.got.sources : s.version >= V[s.file]
  /\ Exactly(V, scan.got) =>
       Read(D, scan.got) /\ \E S : Explored(D, S, ToSet(scan.todo), scan.got)

Frozen1(D, V) ==
  /\ Exactly(V, graph) /\ Read(D, graph) /\ \E S : Explored(D, S, {}, graph)
  /\ \A q \in graph.listings : q.files = Listing(D, q.folder)

FromRaw(D, V) ==
  /\ Since(D, V) /\ Loads(D) /\ raw = Document(D)
  /\ phase \in {"main", "second"} =>
       UpTo(D, V, graph) /\ \A f \in Files : disk[f] = Absent <=> D[f] = Absent
  /\ phase = "second" => boot = Document(D) /\ Rescanned(D, V)
  /\ phase \in Frozen => boot = Document(D) /\ Frozen1(D, V)

FreezeInv ==
  /\ \E B : boot = Document(B)
  /\ phase = "first" => UpTo(disk, version, scan.got)
  /\ phase = "raw" => UpTo(disk, version, graph)
  /\ phase \in {"raw", "main"} => scan = Fresh
  /\ phase \in {"main", "second"} \cup Frozen => \E D, V : FromRaw(D, V)

LEMMA InitFreezes == Init => FreezeInv
<1> SUFFICES ASSUME Init  PROVE FreezeInv
  OBVIOUS
<1>1. UpTo(disk, version, scan.got)
  BY DEF Init, Fresh, NoGraph, UpTo
<1> QED  BY <1>1 DEF Init, FreezeInv, Frozen

\* Writes that no file comes or goes by change no listing.
LEMMA SameListing ==
  ASSUME NEW D, NEW E, \A f \in Files : D[f] = Absent <=> E[f] = Absent
  PROVE  \A d : Listing(D, d) = Listing(E, d)
BY DEF Listing

LEMMA SteadyWrite ==
  ASSUME TypeInv, "flicker" \notin Faults, NEW f \in Files, Write(f)
  PROVE  /\ disk' = [disk EXCEPT ![f] = disk'[f]] /\ version'[f] = version[f] + 1
         /\ \A e \in Files \ {f} : disk'[e] = disk[e] /\ version'[e] = version[e]
         /\ \A e \in Files : version'[e] >= version[e] /\ version[e] \in Nat
         /\ phase \in Loading \cup {"checking"} =>
              \A e \in Files : disk'[e] = Absent <=> disk[e] = Absent
<1>1. PICK draft : disk' = [disk EXCEPT ![f] = draft] /\ Steady(f, draft)
  BY DEF Write
<1>2. version' = [version EXCEPT ![f] = @ + 1]
  BY DEF Write
<1>3. disk' = [e \in Files |-> IF e = f THEN draft ELSE disk[e]]
  BY <1>1 DEF TypeInv, DiskInv
<1>4. /\ version'[f] = version[f] + 1 /\ \A e \in Files \ {f} : version'[e] = version[e]
      /\ \A e \in Files : version[e] \in Nat
  BY <1>2 DEF TypeInv, DiskInv
<1>5. disk'[f] = draft /\ \A e \in Files \ {f} : disk'[e] = disk[e]
  BY <1>3
<1>6. phase \in Loading \cup {"checking"} => (draft = Absent <=> disk[f] = Absent)
  BY <1>1 DEF Steady
<1>7. \A e \in Files : version'[e] >= version[e]
  BY <1>4
<1> QED  BY <1>1, <1>4, <1>5, <1>6, <1>7

LEMMA ScanFreezes ==
  ASSUME TypeInv, FreezeInv, ScanStepOf
  PROVE  FreezeInv'
<1>1. /\ Continued(Next1) /\ VisitedAsOn(Next1)
      /\ scan.todo # <<>> /\ Next1 \in Visitable /\ Next1 \in ToSet(scan.todo)
      /\ Scanning /\ UNCHANGED <<disk, version, boot, phase, graph, raw>>
  BY ScanStepContinues DEF ghosts
<1>2. /\ \/ scan'.got.sources = scan.got.sources
         \/ /\ scan'.got.sources = scan.got.sources \cup
                                     {[file |-> Next1.of, version |-> version[Next1.of]]}
            /\ Next1.of \in Files /\ disk[Next1.of] \notin Missing
      /\ \/ scan'.got.listings = scan.got.listings
         \/ scan'.got.listings = scan.got.listings \cup
              {[folder |-> Next1.of, files |-> Listing(disk, Next1.of)]}
      /\ Next1.kind = "file" =>
           [file |-> Next1.of, version |-> version[Next1.of]] \in scan'.got.sources
  <2>1. CASE LoadSource
    <3>1. /\ scan'.got.sources = scan.got.sources \cup
                                   {[file |-> Next1.of, version |-> version[Next1.of]]}
          /\ scan'.got.listings = scan.got.listings
      BY <2>1, LoadSourceStep
    <3>2. disk[Next1.of] \notin Missing /\ Next1.kind # "folder"
      BY <2>1 DEF LoadSource
    <3>3. Next1.of \in Files
      BY <1>1, <3>2, SecretsAreFiles DEF Visitable
    <3> QED  BY <3>1, <3>2, <3>3
  <2>2. CASE NoSecrets
    <3>1. Next1.kind # "file"
      BY <2>2 DEF NoSecrets
    <3> QED  BY <2>2, <3>1, NoSecretsStep
  <2>3. CASE ListFolder
    <3>1. Next1.kind # "file"
      BY <2>3 DEF ListFolder
    <3> QED  BY <2>3, <3>1, ListFolderStep
  <2> QED  BY <2>1, <2>2, <2>3 DEF ScanStepOf
<1> DEFINE i == Next1
           new == [file |-> i.of, version |-> version[i.of]]
           list == [folder |-> i.of, files |-> Listing(disk, i.of)]
<1>3. /\ new.file = i.of /\ new.version = version[i.of]
      /\ list.folder = i.of /\ list.files = Listing(disk, i.of)
  OBVIOUS
<1> HIDE DEF i, new, list
<1>4. /\ \A s \in scan'.got.sources : s \in scan.got.sources \/
           (s = new /\ i.of \in Files /\ disk[i.of] \notin Missing)
      /\ \A q \in scan'.got.listings : q \in scan.got.listings \/ q = list
      /\ scan.got.sources \subseteq scan'.got.sources
      /\ i.kind = "file" => new \in scan'.got.sources
  BY <1>2 DEF i, new, list
<1>5. version \in [Files -> Nat]
  BY DEF TypeInv, DiskInv
<1>6. CASE phase = "first"
  <2>1. UpTo(disk, version, scan'.got)
    BY <1>3, <1>4, <1>5, <1>6 DEF FreezeInv, UpTo
  <2> QED  BY <1>1, <1>6, <2>1 DEF FreezeInv, Frozen, UpTo, Listing
<1>7. CASE phase = "second"
  <2>1. PICK D, V : FromRaw(D, V)
    BY <1>7 DEF FreezeInv
  <2>2. /\ Since(D, V) /\ Rescanned(D, V) /\ V \in [Files -> Nat]
        /\ \A f \in Files : disk[f] = Absent <=> D[f] = Absent
    BY <1>7, <2>1 DEF FromRaw, Since
  <2>3. \A s \in scan'.got.sources : s.version >= V[s.file]
    BY <1>3, <1>4, <2>2 DEF Rescanned, Since
  <2>4. ASSUME Exactly(V, scan'.got)
        PROVE  Read(D, scan'.got) /\ \E S : Explored(D, S, ToSet(scan'.todo), scan'.got)
    <3>1. Exactly(V, scan.got)
      BY <1>4, <2>4 DEF Exactly
    <3>2. PICK S : Explored(D, S, ToSet(scan.todo), scan.got)
      BY <2>2, <3>1 DEF Rescanned
    <3>3. new \in scan'.got.sources /\ i.of \in Files => disk[i.of] = D[i.of]
      BY <1>3, <2>2, <2>4 DEF Exactly, Since
    <3>4. Read(D, scan'.got)
      <4>1. Read(D, scan.got)
        BY <2>2, <3>1 DEF Rescanned
      <4> QED  BY <1>3, <1>4, <3>3, <4>1 DEF Read, FilesOf
    <3>5. OnDisk(D, i)
      <4>1. i.kind = "file" => i.of \in Files
        BY <1>1 DEF Visitable, i
      <4>2. i.kind = "file" => Leaves(D, i.of) = Leaves(disk, i.of)
        BY <1>4, <3>3, <4>1 DEF Leaves
      <4> QED  BY <2>2, <4>2 DEF OnDisk, Since
    <3>6. Visited(D, i, ToSet(scan'.todo), scan'.got)
      BY <1>1, <3>5 DEF VisitedAsOn, i
    <3>7. /\ i \in ToSet(scan.todo) /\ i.kind \in {"file", "secret", "folder"}
          /\ i.kind = "file" => i.of \in Files
          /\ i.at \in Seq(STRING)
          /\ ToSet(scan.todo) \ {i} \subseteq ToSet(scan'.todo) /\ Grows(scan.got, scan'.got)
      BY <1>1 DEF Visitable, Continued, i
    <3>8. \E Z : Explored(D, Z, ToSet(scan'.todo), scan'.got)
      BY <2>2, <3>2, <3>6, <3>7, Explore DEF Since
    <3> QED  BY <3>4, <3>8
  <2>5. Rescanned(D, V)'
    BY <2>3, <2>4 DEF Rescanned
  <2>6. FromRaw(D, V)'
    BY <1>1, <1>7, <2>1, <2>5 DEF FromRaw, Since, UpTo, Frozen
  <2> QED  BY <1>1, <1>7, <2>6 DEF FreezeInv
<1>8. CASE phase = "checking"
  <2>1. PICK D, V : FromRaw(D, V)
    BY <1>8 DEF FreezeInv, Frozen
  <2>2. FromRaw(D, V)'
    BY <1>1, <1>8, <2>1 DEF FromRaw, Since, Frozen, Frozen1, Exactly, Read, FilesOf
  <2> QED  BY <1>1, <1>8, <2>2 DEF FreezeInv
<1> QED  BY <1>1, <1>6, <1>7, <1>8 DEF Scanning

LEMMA WriteFreezes ==
  ASSUME TypeInv, FreezeInv, "flicker" \notin Faults, NEW f \in Files, Write(f)
  PROVE  FreezeInv'
<1>1. /\ version'[f] = version[f] + 1
      /\ \A e \in Files \ {f} : disk'[e] = disk[e] /\ version'[e] = version[e]
      /\ \A e \in Files : version'[e] >= version[e] /\ version[e] \in Nat
      /\ phase \in Loading \cup {"checking"} =>
           \A e \in Files : disk'[e] = Absent <=> disk[e] = Absent
  BY SteadyWrite
<1>2. UNCHANGED <<boot, phase, scan, graph, raw>>
  BY DEF Write
<1>3. ASSUME NEW g \in Graphs, UpTo(disk, version, g), phase \in {"first", "raw"}
      PROVE  UpTo(disk', version', g)
  <2>1. \A d : Listing(disk', d) = Listing(disk, d)
    BY <1>1, <1>3, SameListing DEF Loading
  <2>2. \A s \in g.sources : s.file \in Files /\ s.version \in Nat
    BY DEF Graphs
  <2>3. version' \in [Files -> Nat]
    <3>1. version' = [version EXCEPT ![f] = @ + 1]
      BY DEF Write
    <3> QED  BY <3>1 DEF TypeInv, DiskInv
  <2> QED  BY <1>1, <1>3, <2>1, <2>2, <2>3 DEF UpTo
<1>4. ASSUME NEW D, NEW V, FromRaw(D, V)  PROVE FromRaw(D, V)'
  <2>1. Since(D, V)'
    <3>1. /\ DiskType(D) /\ V \in [Files -> Nat]
          /\ \A e \in Files : version[e] >= V[e] /\ (version[e] = V[e] => disk[e] = D[e])
      BY <1>4 DEF FromRaw, Since
    <3>2. ASSUME NEW e \in Files
          PROVE  version'[e] >= V[e] /\ (version'[e] = V[e] => disk'[e] = D[e])
      <4>1. V[e] \in Nat /\ version[e] \in Nat /\ version[e] >= V[e]
        BY <1>1, <3>1
      <4>2. CASE e = f
        BY <1>1, <4>1, <4>2
      <4>3. CASE e # f
        BY <1>1, <3>1, <4>3
      <4> QED  BY <4>2, <4>3
    <3> QED  BY <3>1, <3>2 DEF Since
  <2>2. phase \in {"main", "second"} => \A e \in Files : disk'[e] = Absent <=> D[e] = Absent
    BY <1>1, <1>4 DEF FromRaw, Loading
  <2>3. Rescanned(D, V) => Rescanned(D, V)'
    BY <1>2 DEF Rescanned
  <2>4. Frozen1(D, V) => Frozen1(D, V)'
    BY <1>2 DEF Frozen1
  <2> QED  BY <1>2, <1>4, <2>1, <2>2, <2>3, <2>4 DEF FromRaw
<1>5. scan.got \in Graphs /\ graph \in Graphs
  BY DEF TypeInv, ScanInv
<1> QED  BY <1>2, <1>3, <1>4, <1>5 DEF FreezeInv

LEMMA LoadFreezes ==
  ASSUME TypeInv, FreezeInv, FirstScanned \/ LoadRaw \/ ValidateMain \/ SecondScanned
  PROVE  FreezeInv'
<1>1. CASE FirstScanned
  <2>1. phase = "first" /\ phase' = "raw" /\ graph' = scan.got /\ scan' = Fresh
        /\ UNCHANGED <<disk, version, boot>>
    BY <1>1 DEF FirstScanned
  <2> QED  BY <2>1 DEF FreezeInv, UpTo, Frozen, Listing
<1>2. CASE LoadRaw
  <2>1. UNCHANGED <<disk, version, boot, scan, graph>> /\ phase = "raw"
    BY <1>2 DEF LoadRaw
  <2>2. CASE ~Loads(disk)
    BY <1>2, <2>1, <2>2 DEF LoadRaw, Deny, Loading, FreezeInv, Frozen
  <2>3. CASE Loads(disk)
    <3>1. raw' = Document(disk) /\ phase' = "main"
      BY <1>2, <2>3 DEF LoadRaw
    <3>2. ASSUME NEW D, NEW V, D = disk, V = version  PROVE FromRaw(D, V)'
      <4>1. /\ DiskType(D) /\ V \in [Files -> Nat] /\ Loads(D) /\ raw' = Document(D)
            /\ UpTo(D, V, graph')
        BY <2>1, <2>3, <3>1, <3>2, DraftsTyped DEF TypeInv, DiskInv, FreezeInv
      <4>2. Since(D, V)'
        BY <2>1, <3>2, <4>1 DEF Since
      <4> QED  BY <2>1, <3>1, <3>2, <4>1, <4>2 DEF FromRaw, Frozen
    <3>3. \E D, V : FromRaw(D, V)'
      BY <3>2
    <3> QED  BY <2>1, <3>1, <3>3 DEF FreezeInv
  <2> QED  BY <2>2, <2>3
<1>3. CASE ValidateMain
  <2>1. UNCHANGED <<disk, version, boot, scan, graph, raw>> /\ phase = "main"
    BY <1>3 DEF ValidateMain
  <2>2. CASE ~(MainValid /\ Matches)
    BY <1>3, <2>1, <2>2 DEF ValidateMain, Deny, Loading, FreezeInv, Frozen
  <2>3. CASE MainValid /\ Matches
    <3>1. phase' = "second"
      BY <1>3, <2>3 DEF ValidateMain
    <3>2. PICK D, V : FromRaw(D, V)
      BY <2>1 DEF FreezeInv
    <3>3. boot = Document(D)
      <4>1. PICK B : boot = Document(B)
        BY DEF FreezeInv
      <4>2. \A X : /\ Document(X) = [files |-> Document(X).files, dirs |-> Document(X).dirs,
                                     packaged |-> Document(X).packaged]
                   /\ Document(X).packaged \in BOOLEAN
        BY DEF Document
      <4>3. raw = Document(D)
        BY <3>2 DEF FromRaw
      <4>4. raw.files = boot.files /\ raw.dirs = boot.dirs /\ ~raw.packaged /\ ~boot.packaged
        BY <2>3 DEF Matches
      <4>5. raw.packaged = boot.packaged
        BY <4>1, <4>2, <4>3, <4>4
      <4>6. /\ raw = [files |-> raw.files, dirs |-> raw.dirs, packaged |-> raw.packaged]
            /\ boot = [files |-> boot.files, dirs |-> boot.dirs, packaged |-> boot.packaged]
        BY <4>1, <4>2, <4>3
      <4>7. raw = boot
        BY <4>4, <4>5, <4>6
      <4> QED  BY <4>3, <4>7
    <3>4. Rescanned(D, V)
      <4>1. scan = Fresh
        BY <2>1 DEF FreezeInv
      <4>2. scan.got = NoGraph /\ scan.todo = Fresh.todo
        BY <4>1 DEF Fresh
      <4>3. Explored(D, {}, ToSet(scan.todo), scan.got)
        BY <4>2, FreshExplored
      <4>4. scan.got.sources = {}
        BY <4>2 DEF NoGraph
      <4> QED  BY <4>3, <4>4 DEF Rescanned, Read, FilesOf
    <3>5. FromRaw(D, V)'
      BY <2>1, <3>1, <3>2, <3>3, <3>4 DEF FromRaw, Since, Rescanned, Frozen
    <3> QED  BY <2>1, <3>1, <3>5 DEF FreezeInv
  <2> QED  BY <2>2, <2>3
<1>4. CASE SecondScanned
  <2>1. /\ UNCHANGED <<disk, version, boot, graph, raw>> /\ phase = "second" /\ scan.todo = <<>>
        /\ phase' \in {"idle", "denied"} /\ (phase' = "idle" => scan.got = graph)
    BY <1>4 DEF SecondScanned, Scanned, Deny, Loading
  <2>2. CASE phase' = "denied"
    BY <2>1, <2>2 DEF FreezeInv, Frozen
  <2>3. CASE phase' = "idle"
    <3>1. PICK D, V : FromRaw(D, V)
      BY <2>1 DEF FreezeInv
    <3>2. scan.got = graph /\ ToSet(scan.todo) = {}
      BY <2>1, <2>3 DEF ToSet
    <3>3. /\ UpTo(D, V, graph) /\ Rescanned(D, V) /\ V \in [Files -> Nat]
          /\ \A s \in graph.sources : s.file \in Files /\ s.version \in Nat
      BY <2>1, <3>1 DEF FromRaw, Since, TypeInv, ScanInv, Graphs
    <3>4. Exactly(V, graph)
      BY <3>2, <3>3 DEF UpTo, Rescanned, Exactly
    <3>5. Frozen1(D, V)
      BY <3>2, <3>3, <3>4 DEF Rescanned, Frozen1, UpTo
    <3>6. FromRaw(D, V)'
      BY <2>1, <2>3, <3>1, <3>5 DEF FromRaw, Since, Frozen1, Exactly, Read, FilesOf
    <3> QED  BY <2>1, <2>3, <3>6 DEF FreezeInv
  <2> QED  BY <2>1, <2>2, <2>3
<1> QED  BY <1>1, <1>2, <1>3, <1>4

LEMMA NextFreezes ==
  ASSUME TypeInv, FreezeInv, "flicker" \notin Faults, [Next]_vars
  PROVE  FreezeInv'
<1>1. CASE ScanDenied
  <2>1. /\ UNCHANGED <<disk, version, boot, graph, raw>> /\ phase \in {"first", "second", "checking"}
        /\ phase' = IF phase \in Loading THEN "denied" ELSE "refused"
    BY <1>1 DEF ScanDenied, Deny, Scanning
  <2>2. CASE phase = "checking"
    <3>1. PICK D, V : FromRaw(D, V)
      BY <2>2 DEF FreezeInv, Frozen
    <3>2. FromRaw(D, V)'
      BY <2>1, <2>2, <3>1
         DEF FromRaw, Since, Frozen, Frozen1, Exactly, Read, FilesOf, Loading
    <3> QED  BY <2>1, <2>2, <3>2 DEF FreezeInv, Loading
  <2> QED  BY <2>1, <2>2 DEF FreezeInv, Loading, Frozen
<1>2. CASE BeginCheck \/ CheckScanned
  <2>1. /\ UNCHANGED <<disk, version, boot, graph, raw>>
        /\ phase \in Frozen /\ phase' \in Frozen
    BY <1>2 DEF BeginCheck, CheckScanned, Deny, Loading, Frozen
  <2>2. PICK D, V : FromRaw(D, V)
    BY <2>1 DEF FreezeInv
  <2>3. FromRaw(D, V)'
    BY <2>1, <2>2 DEF FromRaw, Since, Frozen, Frozen1, Exactly, Read, FilesOf
  <2> QED  BY <2>1, <2>3 DEF FreezeInv, Frozen
<1>3. CASE UNCHANGED vars
  <2>1. UNCHANGED <<disk, version, boot, phase, scan, graph, raw>>
    BY <1>3 DEF vars
  <2>2. \A D, V : FromRaw(D, V) => FromRaw(D, V)'
    BY <2>1 DEF FromRaw, Since, UpTo, Rescanned, Frozen1, Exactly, Read, FilesOf
  <2>3. /\ UpTo(disk, version, scan.got)' = UpTo(disk, version, scan.got)
        /\ UpTo(disk, version, graph)' = UpTo(disk, version, graph)
    BY <2>1 DEF UpTo, Listing
  <2> QED  BY <2>1, <2>2, <2>3 DEF FreezeInv
<1> QED  BY <1>1, <1>2, <1>3, ScanFreezes, LoadFreezes, WriteFreezes
         DEF Next, ScanStep, ScanStepOf, LoadStep

\* What the frozen graph pins is on the disk.
Pinned ==
  /\ \A s \in graph.sources : s.file \in graph.grants => s.version = version[s.file]
  /\ \A q \in graph.listings : q.files = Listing(disk, q.folder)
  /\ \A s \in graph.secrets : disk[s] # Absent <=> s \in FilesOf(graph)

LEMMA PinnedDecides ==
  ASSUME TypeInv, FreezeInv, phase \in Frozen, Pinned
  PROVE  Document(disk) = boot
<1>1. PICK D, V : FromRaw(D, V)
  BY DEF FreezeInv
<1>2. /\ Since(D, V) /\ Loads(D) /\ boot = Document(D)
      /\ Exactly(V, graph) /\ Read(D, graph)
      /\ \A q \in graph.listings : q.files = Listing(D, q.folder)
  BY <1>1 DEF FromRaw, Frozen1
<1>3. PICK S : Explored(D, S, {}, graph)
  BY <1>1 DEF FromRaw, Frozen1
<1>4. DiskType(D) /\ DiskType(disk)
  BY <1>2, DraftsTyped DEF Since, TypeInv, DiskInv
<1>5. \A f \in graph.grants : disk[f] = D[f]
  <2> SUFFICES ASSUME NEW f \in graph.grants  PROVE disk[f] = D[f]
    OBVIOUS
  <2>1. PICK s \in graph.sources : s.file = f /\ f \in Files
    BY DEF TypeInv, ScanInv, Graphs
  <2> QED  BY <1>2, <2>1 DEF Pinned, Exactly, Since
<1>6. Agrees(D, disk, graph)
  BY <1>2, <1>5 DEF Agrees, Pinned
<1> QED  BY <1>2, <1>3, <1>4, <1>6, Decides DEF Read

\* PinsSuffice: what was frozen decides what Home Assistant would be granted, as long
\* as no file comes or goes while HAPatchY scans.
THEOREM PinsDecide ==
  ASSUME "flicker" \notin Faults
  PROVE  Spec => []PinsSuffice
<1>1. Init => TypeInv /\ StoodInv /\ FreezeInv
  BY InitTypes, InitFreezes
<1>2. TypeInv /\ StoodInv /\ FreezeInv /\ [Next]_vars => (TypeInv /\ StoodInv /\ FreezeInv)'
  BY NextTypes, NextFreezes
<1>3. TypeInv /\ FreezeInv => PinsSuffice
  BY PinnedDecides DEF PinsSuffice, PinsHold, Pinned
<1> QED  BY <1>1, <1>2, <1>3, PTL DEF Spec

-----------------------------------------------------------------------------
(* A check that passes was right at some moment                             *)

\* What is pinned and not there any more, and will not be found by the running scan.
SourceLost ==
  \E s \in graph.sources :
    /\ s.file \in graph.grants /\ version[s.file] > s.version
    /\ \A q \in scan.got.sources : q.file = s.file => q.version > s.version
ListingLost ==
  \E q \in graph.listings : q.files # Listing(disk, q.folder) /\ q \notin scan.got.listings
SecretsLost ==
  \E s \in graph.secrets :
    /\ ~(disk[s] # Absent <=> s \in FilesOf(graph))
    /\ disk[s] = Absent => s \notin FilesOf(scan.got)
    /\ disk[s] # Absent /\ s \in scan.got.secrets => s \in FilesOf(scan.got)
Lost == SourceLost \/ ListingLost \/ SecretsLost

AgreeInv ==
  /\ phase = "checking" => agreed \/ Lost
  /\ phase = "passed" => agreed

LEMMA BeginLost ==
  ASSUME TypeInv, FreezeInv, phase \in Frozen, ~Pinned, UNCHANGED <<disk, version, graph>>,
         scan' = Fresh
  PROVE  Lost'
<1>1. scan'.got.sources = {} /\ scan'.got.listings = {} /\ scan'.got.secrets = {}
  BY DEF Fresh, NoGraph
<1>2. ASSUME NEW s \in graph.sources, s.file \in graph.grants, s.version # version[s.file]
      PROVE  version[s.file] > s.version
  <2>1. PICK D, V : FromRaw(D, V)
    BY DEF FreezeInv
  <2>2. Since(D, V) /\ Exactly(V, graph)
    BY <2>1 DEF FromRaw, Frozen1
  <2>3. s.file \in Files /\ version[s.file] \in Nat
    BY DEF TypeInv, DiskInv, ScanInv, Graphs
  <2>4. s.version = V[s.file] /\ V[s.file] \in Nat /\ version[s.file] >= V[s.file]
    BY <2>2, <2>3 DEF Since, Exactly
  <2> QED  BY <1>2, <2>3, <2>4
<1>3. CASE ~\A s \in graph.sources : s.file \in graph.grants => s.version = version[s.file]
  BY <1>1, <1>2, <1>3 DEF Lost, SourceLost
<1>4. CASE ~\A q \in graph.listings : q.files = Listing(disk, q.folder)
  BY <1>1, <1>4 DEF Lost, ListingLost, Listing
<1>5. CASE ~\A s \in graph.secrets : disk[s] # Absent <=> s \in FilesOf(graph)
  BY <1>1, <1>5 DEF Lost, SecretsLost, FilesOf
<1> QED  BY <1>3, <1>4, <1>5 DEF Pinned

LEMMA ScanLost ==
  ASSUME TypeInv, Lost, ScanStepOf
  PROVE  Lost'
<1> DEFINE i == Next1
           new == [file |-> i.of, version |-> version[i.of]]
           list == [folder |-> i.of, files |-> Listing(disk, i.of)]
<1>1. UNCHANGED <<disk, version, graph>>
  BY ScanStepContinues
<1>2. /\ \A q \in scan'.got.sources :
           \/ q \in scan.got.sources
           \/ q = new /\ disk[i.of] # Absent
      /\ \A q \in scan'.got.listings : q \in scan.got.listings \/ q = list
      /\ \A s \in scan'.got.secrets :
           \/ s \in scan.got.secrets
           \/ s = i.of /\ (disk[s] = Absent \/ new \in scan'.got.sources)
      /\ scan.got.sources \subseteq scan'.got.sources
  <2>1. CASE LoadSource
    <3>1. disk[Next1.of] # Absent
      BY <2>1 DEF LoadSource, Missing
    <3> QED  BY <2>1, <3>1, LoadSourceStep
  <2>2. CASE NoSecrets
    <3>1. disk[Next1.of] = Absent
      BY <2>2 DEF NoSecrets
    <3> QED  BY <2>2, <3>1, NoSecretsStep
  <2>3. CASE ListFolder
    BY <2>3, ListFolderStep
  <2> QED  BY <2>1, <2>2, <2>3 DEF ScanStepOf
<1>3. /\ new.file = i.of /\ new.version = version[i.of]
      /\ list.folder = i.of /\ list.files = Listing(disk, i.of)
  OBVIOUS
<1> HIDE DEF i, new, list
<1>4. ASSUME SourceLost  PROVE SourceLost'
  BY <1>1, <1>2, <1>3, <1>4 DEF SourceLost
<1>5. ASSUME ListingLost  PROVE ListingLost'
  <2>1. \A d : Listing(disk', d) = Listing(disk, d)
    BY <1>1
  <2> QED  BY <1>1, <1>2, <1>3, <1>5, <2>1 DEF ListingLost
<1>6. ASSUME SecretsLost  PROVE SecretsLost'
  <2>1. PICK s \in graph.secrets :
          /\ ~(disk[s] # Absent <=> s \in FilesOf(graph))
          /\ disk[s] = Absent => s \notin FilesOf(scan.got)
          /\ disk[s] # Absent /\ s \in scan.got.secrets => s \in FilesOf(scan.got)
    BY <1>6 DEF SecretsLost
  <2>2. disk[s] = Absent => s \notin FilesOf(scan'.got)
    BY <1>2, <1>3, <2>1 DEF FilesOf
  <2>3. disk[s] # Absent /\ s \in scan'.got.secrets => s \in FilesOf(scan'.got)
    BY <1>2, <1>3, <2>1 DEF FilesOf
  <2> QED  BY <1>1, <2>1, <2>2, <2>3 DEF SecretsLost, FilesOf
<1> QED  BY <1>4, <1>5, <1>6 DEF Lost

LEMMA WriteLost ==
  ASSUME TypeInv, Lost, "flicker" \notin Faults, phase = "checking",
         NEW f \in Files, Write(f)
  PROVE  Lost'
<1>1. /\ \A e \in Files : version'[e] >= version[e] /\ version[e] \in Nat
      /\ \A e \in Files : disk'[e] = Absent <=> disk[e] = Absent
      /\ version' \in [Files -> Nat]
  <2>1. version' = [version EXCEPT ![f] = @ + 1]
    BY DEF Write
  <2>2. version' \in [Files -> Nat]
    BY <2>1 DEF TypeInv, DiskInv
  <2> QED  BY <2>2, SteadyWrite
<1>2. UNCHANGED <<graph, scan>>
  BY DEF Write
<1>3. ASSUME SourceLost  PROVE SourceLost'
  <2>1. \A s \in graph.sources : s.file \in Files /\ s.version \in Nat
    BY DEF TypeInv, ScanInv, Graphs
  <2> QED  BY <1>1, <1>2, <1>3, <2>1 DEF SourceLost
<1>4. ASSUME ListingLost  PROVE ListingLost'
  <2>1. \A d : Listing(disk', d) = Listing(disk, d)
    BY <1>1, SameListing
  <2> QED  BY <1>2, <1>4, <2>1 DEF ListingLost
<1>5. ASSUME SecretsLost  PROVE SecretsLost'
  <2>1. graph.secrets \subseteq Files
    BY SecretsAreFiles DEF TypeInv, ScanInv, Graphs
  <2>2. \A s \in graph.secrets : disk'[s] = Absent <=> disk[s] = Absent
    BY <1>1, <2>1
  <2> QED  BY <1>2, <1>5, <2>2 DEF SecretsLost, FilesOf
<1> QED  BY <1>3, <1>4, <1>5 DEF Lost

\* A scan that lost something is not of the same authority.
LEMMA LostIsRefused ==
  ASSUME TypeInv, Lost
  PROVE  ~SameAuthority(scan.got)
<1> SUFFICES ASSUME SameAuthority(scan.got)  PROVE FALSE
  OBVIOUS
<1>1. scan.got \in Graphs /\ graph \in Graphs
  BY DEF TypeInv, ScanInv
<1>2. CASE SourceLost
  <2>1. PICK s \in graph.sources :
          /\ s.file \in graph.grants
          /\ \A q \in scan.got.sources : q.file = s.file => q.version > s.version
    BY <1>2 DEF SourceLost
  <2>2. PICK q \in scan.got.sources : q.file = s.file
    BY <1>1, <2>1 DEF SameAuthority, Graphs
  <2>3. q \in graph.sources
    BY <2>1, <2>2 DEF SameAuthority
  <2>4. q = s /\ s.version \in Nat
    BY <1>1, <2>2, <2>3 DEF Graphs
  <2> QED  BY <2>1, <2>2, <2>4
<1>3. CASE ListingLost
  BY <1>3 DEF ListingLost, SameAuthority
<1>4. CASE SecretsLost
  BY <1>4 DEF SecretsLost, SameAuthority
<1> QED  BY <1>2, <1>3, <1>4 DEF Lost

LEMMA NextAgrees ==
  ASSUME TypeInv, FreezeInv, AgreeInv, "flicker" \notin Faults, [Next]_vars
  PROVE  AgreeInv'
<1>1. CASE ScanStepOf
  <2>1. UNCHANGED <<phase, agreed>>
    BY <1>1, ScanStepContinues DEF ghosts
  <2> QED  BY <1>1, <2>1, ScanLost DEF AgreeInv
<1>2. CASE ScanDenied \/ LoadStep
  <2>1. phase' \notin {"checking", "passed"}
    BY <1>2 DEF ScanDenied, LoadStep, FirstScanned, LoadRaw, ValidateMain, SecondScanned, Deny
  <2> QED  BY <2>1 DEF AgreeInv
<1>3. CASE BeginCheck
  <2>1. /\ UNCHANGED <<disk, version, graph>> /\ phase \in Frozen /\ phase' = "checking"
        /\ scan' = Fresh /\ agreed' = (Document(disk) = boot)
    BY <1>3 DEF BeginCheck, Frozen
  <2>2. CASE Pinned
    BY <2>1, <2>2, PinnedDecides DEF AgreeInv
  <2>3. CASE ~Pinned
    BY <2>1, <2>3, BeginLost DEF AgreeInv
  <2> QED  BY <2>2, <2>3
<1>4. CASE CheckScanned
  <2>1. /\ UNCHANGED agreed /\ phase = "checking" /\ phase' # "checking"
        /\ phase' = "passed" => SameAuthority(scan.got)
    BY <1>4 DEF CheckScanned, Deny, Loading, ghosts
  <2> QED  BY <2>1, LostIsRefused DEF AgreeInv
<1>5. ASSUME NEW f \in Files, Write(f)  PROVE AgreeInv'
  <2>1. UNCHANGED phase /\ (agreed => agreed')
    BY <1>5 DEF Write
  <2>2. phase = "checking" /\ Lost => Lost'
    BY <1>5, WriteLost
  <2> QED  BY <2>1, <2>2 DEF AgreeInv
<1>6. CASE UNCHANGED vars
  <2>1. UNCHANGED <<disk, version, phase, scan, graph, agreed>>
    BY <1>6 DEF vars
  <2>2. Lost => Lost'
    BY <2>1 DEF Lost, SourceLost, ListingLost, SecretsLost, FilesOf, Listing
  <2> QED  BY <2>1, <2>2 DEF AgreeInv
<1> QED  BY <1>1, <1>2, <1>3, <1>4, <1>5, <1>6 DEF Next, ScanStep, ScanStepOf

\* PassedCheckAgreed: a check that passes was right at some moment while it ran,
\* whatever was written meanwhile, as long as no file comes or goes while it scans.
THEOREM PassedChecksAgreed ==
  ASSUME "flicker" \notin Faults
  PROVE  Spec => []PassedCheckAgreed
<1> DEFINE I == TypeInv /\ StoodInv /\ FreezeInv /\ AgreeInv
<1>1. Init => I
  BY InitTypes, InitFreezes DEF Init, AgreeInv
<1>2. I /\ [Next]_vars => I'
  BY NextTypes, NextFreezes, NextAgrees
<1>3. I => PassedCheckAgreed
  BY DEF AgreeInv, PassedCheckAgreed
<1> HIDE DEF I
<1> QED  BY <1>1, <1>2, <1>3, PTL DEF Spec

-----------------------------------------------------------------------------
(* All that a scan can meet                                                 *)

FreshItem == [kind |-> "file", of |-> Root, at |-> <<>>, above |-> {}, depth |-> 0]

\* What item i leads to on disk D, unless the includes are too deep.
Onward(D, i) ==
  IF i.kind = "folder" THEN {[i EXCEPT !.kind = "file", !.of = f] : f \in Listing(D, i.of)}
  ELSE IF i.depth <= MaxDepth THEN UNION {ToSet(Visit(i, l)) : l \in Leaves(D, i.of)}
  ELSE {}

Closed(D, T) == FreshItem \in T /\ \A i \in T : Onward(D, i) \subseteq T
Met(D) == {i \in Visitable : \A T \in SUBSET Visitable : Closed(D, T) => i \in T}

\* What is visited because of leaf l of the file of item i.
LEMMA VisitItem ==
  ASSUME NEW i \in Visitable, NEW l, l.tag \in Tags, NEW k \in ToSet(Visit(i, l))
  PROVE  /\ l.tag # "plain" /\ k.at = i.at \o l.at
         /\ l.tag = "include" => k.kind = "file" /\ k.of = l.of /\ k.depth = i.depth + 1
         /\ l.tag = "folder" => k.kind = "folder" /\ k.of = l.of /\ k.depth = i.depth + 1
         /\ l.tag = "secret" => /\ k.kind = "secret" /\ k.depth = 0
                                /\ k.of \in ToSet(SecretsOf[i.of])
<1>1. CASE l.tag = "plain"
  <2>1. Visit(i, l) = <<>>
    BY <1>1 DEF Visit
  <2> QED  BY <2>1 DEF ToSet
<1>2. CASE l.tag = "secret"
  <2>1. Visit(i, l) = [n \in DOMAIN SecretsOf[i.of] |->
                         Item("secret", SecretsOf[i.of][n], i.at \o l.at, i, 0)]
    BY <1>2 DEF Visit
  <2>2. PICK n \in DOMAIN SecretsOf[i.of] :
          k = Item("secret", SecretsOf[i.of][n], i.at \o l.at, i, 0)
    BY <2>1 DEF ToSet
  <2> QED  BY <1>2, <2>2 DEF Item, ToSet
<1>3. CASE l.tag \in {"include", "folder"}
  <2> DEFINE e == Item(IF l.tag = "include" THEN "file" ELSE "folder",
                       l.of, i.at \o l.at, i, i.depth + 1)
  <2>1. Visit(i, l) = <<e>>
    BY <1>3 DEF Visit
  <2>2. k = e
    <3> HIDE DEF e
    <3> QED  BY <2>1 DEF ToSet
  <2> QED  BY <1>3, <2>2 DEF Item
<1> QED  BY <1>1, <1>2, <1>3 DEF Tags

LEMMA OnwardType ==
  ASSUME NEW D, DiskType(D), NEW i \in Visitable
  PROVE  Onward(D, i) \subseteq Visitable
<1>1. CASE i.kind = "folder"
  <2>1. ASSUME NEW f \in Listing(D, i.of)
        PROVE  [i EXCEPT !.kind = "file", !.of = f] \in Visitable
    <3>1. f \in Files
      BY DEF Listing
    <3> QED  BY <1>1, <3>1 DEF Visitable
  <2> QED  BY <1>1, <2>1 DEF Onward
<1>2. CASE i.kind # "folder" /\ i.depth <= MaxDepth
  <2>1. i.of \in Files
    BY <1>2, SecretsAreFiles DEF Visitable
  <2>2. ASSUME NEW l \in Leaves(D, i.of)
        PROVE  ToSet(Visit(i, l)) \subseteq Visitable
    <3>1. Visit(i, l) \in Seq(Visitable)
      BY <1>2, <2>1, LeafTypes, VisitType
    <3> QED  BY <3>1 DEF ToSet
  <2> QED  BY <1>2, <2>2 DEF Onward
<1> QED  BY <1>1, <1>2 DEF Onward

LEMMA FreshItemType == FreshItem \in Visitable /\ ToSet(Fresh.todo) = {FreshItem}
<1>1. FreshItem \in Visitable
  BY FilesAssumption DEF Visitable, FreshItem
<1>2. Fresh.todo = <<FreshItem>>
  BY DEF Fresh, FreshItem
<1> QED  BY <1>1, <1>2 DEF ToSet

\* It is closed, and nothing less is.
LEMMA MetClosed ==
  ASSUME NEW D, DiskType(D)
  PROVE  /\ Closed(D, Met(D)) /\ Met(D) \subseteq Visitable
         /\ \A T \in SUBSET Visitable : Closed(D, T) => Met(D) \subseteq T
<1>1. FreshItem \in Met(D)
  BY FreshItemType DEF Met, Closed
<1>2. ASSUME NEW i \in Met(D), NEW k \in Onward(D, i)  PROVE k \in Met(D)
  <2>1. k \in Visitable
    BY <1>2, OnwardType DEF Met
  <2>2. ASSUME NEW T \in SUBSET Visitable, Closed(D, T)  PROVE k \in T
    BY <1>2, <2>2 DEF Met, Closed
  <2> QED  BY <2>1, <2>2 DEF Met
<1> QED  BY <1>1, <1>2 DEF Met, Closed

LEMMA MetWithin ==
  ASSUME NEW D, NEW E, DiskType(D), DiskType(E),
         \A i \in Met(D) : Onward(D, i) \subseteq Onward(E, i)
  PROVE  Met(D) \subseteq Met(E)
<1> DEFINE T == Met(D) \cap Met(E)
<1>1. T \in SUBSET Visitable /\ Closed(D, T)
  BY MetClosed DEF Closed
<1> QED  BY <1>1, MetClosed

-----------------------------------------------------------------------------
(* What a scan meets, Home Assistant reads                                  *)

Stands(D, i) ==
  /\ i.kind = "file" => [file |-> i.of, at |-> i.at] \in ReachedIn(D)[i.depth]
  /\ i.kind = "folder" =>
       /\ i.depth > 0
       /\ \E p \in ReachedIn(D)[i.depth - 1] : \E l \in Tagged(D, p.file, "folder") :
            l.of = i.of /\ i.at = p.at \o l.at
  /\ i.kind = "secret" =>
       /\ i.depth = 0
       /\ \E p \in Reached(D) : \E l \in Tagged(D, p.file, "secret") :
            i.of \in ToSet(SecretsOf[p.file]) /\ i.at = p.at \o l.at

\* What is included is there.
LEMMA IncludedThere ==
  ASSUME NEW D, NEW p, NEW l \in Leaves(D, p.file)
  PROVE  /\ l.tag = "include" => [file |-> l.of, at |-> p.at \o l.at] \in IncludedAt(D, p)
         /\ l.tag = "folder" => \A f \in Listing(D, l.of) :
                                 [file |-> f, at |-> p.at \o l.at] \in IncludedAt(D, p)
<1>1. CASE l.tag = "include"
  <2>1. l \in Tagged(D, p.file, "include")
    BY <1>1 DEF Tagged
  <2> QED  BY <1>1, <2>1, IncludedEqual
<1>2. CASE l.tag = "folder"
  <2> DEFINE F == {[file |-> f, at |-> p.at \o l.at] : f \in Listing(D, l.of)}
             G(m) == {[file |-> f, at |-> p.at \o m.at] : f \in Listing(D, m.of)}
  <2>1. l \in Tagged(D, p.file, "folder")
    BY <1>2 DEF Tagged
  <2>2. \A f \in Listing(D, l.of) : [file |-> f, at |-> p.at \o l.at] \in F
    OBVIOUS
  <2>3. UNION {G(m) : m \in Tagged(D, p.file, "folder")} \subseteq IncludedAt(D, p)
    BY IncludedEqual
  <2>4. F = G(l)
    OBVIOUS
  <2> HIDE DEF F, G
  <2>5. F \subseteq IncludedAt(D, p)
    BY <2>1, <2>3, <2>4
  <2> QED  BY <1>2, <2>2, <2>5
<1> QED  BY <1>1, <1>2

LEMMA NextReached ==
  ASSUME NEW D, NEW n \in 0 .. MaxDepth, NEW p \in ReachedIn(D)[n]
  PROVE  IncludedAt(D, p) \subseteq ReachedIn(D)[n + 1]
<1> DEFINE R == ReachedIn(D)
<1>1. n + 1 \in 0 .. MaxDepth + 1 /\ n + 1 # 0 /\ n + 1 - 1 = n
  BY FilesAssumption
<1>2. R[n + 1] = Spread(R, D, n + 1)
  BY <1>1, ReachedSpreads
<1>3. p \in R[n]
  OBVIOUS
<1> HIDE DEF R
<1>4. IncludedAt(D, p) \subseteq R[n + 1]
  BY <1>1, <1>2, <1>3 DEF Spread
<1> QED  BY <1>4 DEF R

LEMMA MetStands ==
  ASSUME NEW D, DiskType(D)
  PROVE  \A i \in Met(D) : Stands(D, i)
<1> DEFINE T == {i \in Visitable : Stands(D, i)}
<1>1. FreshItem \in T
  <2>1. 0 \in 0 .. MaxDepth + 1
    BY FilesAssumption
  <2>2. ReachedIn(D)[0] = {RootPlace}
    BY <2>1, ReachedSpreads DEF Spread
  <2> QED  BY <2>2, FreshItemType DEF FreshItem, Stands, RootPlace
<1>2. ASSUME NEW i \in T, NEW k \in Onward(D, i)  PROVE Stands(D, k)
  <2>1. i \in Visitable /\ Stands(D, i) /\ i.depth \in 0 .. MaxDepth + 1 /\ MaxDepth \in Nat
    BY FilesAssumption DEF Visitable
  <2>2. CASE i.kind = "folder"
    <3>1. PICK f \in Listing(D, i.of) : k = [i EXCEPT !.kind = "file", !.of = f]
      BY <1>2, <2>2 DEF Onward
    <3>2. k.kind = "file" /\ k.of = f /\ k.at = i.at /\ k.depth = i.depth
      BY <2>1, <3>1 DEF Visitable
    <3>3. PICK p \in ReachedIn(D)[i.depth - 1] :
            /\ i.depth > 0
            /\ \E l \in Tagged(D, p.file, "folder") : l.of = i.of /\ i.at = p.at \o l.at
      BY <2>1, <2>2 DEF Stands
    <3> PICK l \in Tagged(D, p.file, "folder") : l.of = i.of /\ i.at = p.at \o l.at
      BY <3>3
    <3>4. [file |-> f, at |-> p.at \o l.at] \in IncludedAt(D, p)
      BY <3>1, IncludedThere DEF Tagged
    <3>5. i.depth - 1 \in 0 .. MaxDepth /\ i.depth - 1 + 1 = i.depth
      BY <2>1, <3>3
    <3>6. [file |-> f, at |-> p.at \o l.at] \in ReachedIn(D)[i.depth]
      BY <3>4, <3>5, NextReached
    <3> QED  BY <3>2, <3>3, <3>6 DEF Stands
  <2>3. CASE i.kind # "folder"
    <3>1. i.depth <= MaxDepth
      BY <1>2, <2>3 DEF Onward
    <3>2. PICK l \in Leaves(D, i.of) : k \in ToSet(Visit(i, l))
      BY <1>2, <2>3, <3>1 DEF Onward
    <3>3. i.of \in Files /\ (i.kind = "secret" => i.of \in Secrets)
      BY <2>1, <2>3, SecretsAreFiles DEF Visitable
    <3>4. l.tag \in Tags /\ (i.of \in Secrets => l.tag = "plain")
      BY <3>3, LeafTypes
    <3>5. /\ l.tag # "plain" /\ k.at = i.at \o l.at
          /\ l.tag = "include" => k.kind = "file" /\ k.of = l.of /\ k.depth = i.depth + 1
          /\ l.tag = "folder" => k.kind = "folder" /\ k.of = l.of /\ k.depth = i.depth + 1
          /\ l.tag = "secret" => /\ k.kind = "secret" /\ k.depth = 0
                                 /\ k.of \in ToSet(SecretsOf[i.of])
      BY <2>1, <3>2, <3>4, VisitItem
    <3> DEFINE p == [file |-> i.of, at |-> i.at]
    <3>6. i.kind = "file"
      BY <2>1, <2>3, <3>3, <3>4, <3>5 DEF Visitable
    <3>7. p \in ReachedIn(D)[i.depth] /\ p.file = i.of /\ p.at = i.at
      BY <2>1, <3>6 DEF Stands
    <3>8. i.depth \in 0 .. MaxDepth /\ i.depth + 1 > 0 /\ i.depth + 1 - 1 = i.depth
      BY <2>1, <3>1
    <3>9. IncludedAt(D, p) \subseteq ReachedIn(D)[i.depth + 1]
      BY <3>7, <3>8, NextReached
    <3>10. p \in Reached(D)
      BY <2>1, <3>7, ReachedGrows
    <3>11. l \in Tagged(D, p.file, l.tag)
      BY <3>2, <3>7 DEF Tagged
    <3> HIDE DEF p
    <3>12. CASE l.tag = "include"
      <4>1. [file |-> l.of, at |-> p.at \o l.at] \in IncludedAt(D, p)
        BY <3>11, <3>12, IncludedThere DEF Tagged
      <4> QED  BY <3>5, <3>7, <3>9, <3>12, <4>1 DEF Stands
    <3>13. CASE l.tag = "folder"
      <4>1. k.kind = "folder" /\ k.of = l.of /\ k.at = p.at \o l.at
        BY <3>5, <3>7, <3>13
      <4>2. k.depth > 0 /\ p \in ReachedIn(D)[k.depth - 1]
        <5>1. k.depth = i.depth + 1
          BY <3>5, <3>13
        <5>2. k.depth > 0 /\ k.depth - 1 = i.depth
          BY <3>8, <5>1
        <5> QED  BY <3>7, <5>2
      <4>3. l \in Tagged(D, p.file, "folder")
        BY <3>11, <3>13
      <4> QED  BY <4>1, <4>2, <4>3 DEF Stands
    <3>14. CASE l.tag = "secret"
      BY <3>5, <3>7, <3>10, <3>11, <3>14 DEF Stands
    <3> QED  BY <3>4, <3>5, <3>12, <3>13, <3>14 DEF Tags
  <2> QED  BY <2>2, <2>3
<1>3. \A i \in T : Onward(D, i) \subseteq T
  BY <1>2, OnwardType
<1>4. T \in SUBSET Visitable /\ Closed(D, T)
  BY <1>1, <1>3 DEF Closed
<1> HIDE DEF T
<1>5. Met(D) \subseteq T
  BY <1>4, MetClosed
<1> QED  BY <1>5 DEF T

LEMMA MetIsRead ==
  ASSUME NEW D, DiskType(D), NEW i \in Met(D), i.kind # "folder", D[i.of] # Absent
  PROVE  i.of \in ReadByHA(D)
<1>1. Stands(D, i) /\ i \in Visitable
  BY MetStands DEF Met
<1>2. CASE i.kind = "file"
  <2>1. [file |-> i.of, at |-> i.at] \in Reached(D)
    BY <1>1, <1>2, ReachedGrows DEF Stands, Visitable
  <2> QED  BY <2>1 DEF ReadByHA
<1>3. CASE i.kind = "secret"
  <2>1. PICK p \in Reached(D) : Tagged(D, p.file, "secret") # {} /\ i.of \in ToSet(SecretsOf[p.file])
    BY <1>1, <1>3 DEF Stands
  <2> QED  BY <2>1 DEF ReadByHA
<1> QED  BY <1>1, <1>2, <1>3 DEF Visitable

LEMMA PrefixAt ==
  ASSUME NEW S, NEW s \in Seq(S), NEW t \in Seq(S), Len(s) <= Len(t),
         \A i \in 1 .. Len(s) : s[i] = t[i]
  PROVE  IsPrefix(s, t)
<1> DEFINE n == Len(s)
           a == SubSeq(s, 1, n)
           b == SubSeq(t, 1, n)
<1>1. n \in Nat /\ n <= Len(t) /\ Len(t) \in Nat
  OBVIOUS
<1>2. a \in Seq(S) /\ Len(a) = n /\ \A i \in 1 .. n : a[i] = s[i]
  BY <1>1, SubSeqProperties
<1>3. b \in Seq(S) /\ Len(b) = n /\ \A i \in 1 .. n : b[i] = t[i]
  BY <1>1, SubSeqProperties
<1>4. a = b
  <2> HIDE DEF a, b
  <2> QED  BY <1>2, <1>3, SeqEqual
<1> QED  BY <1>1, <1>4 DEF IsPrefix

LEMMA PairOf ==
  ASSUME NEW S, NEW x \in S, NEW y \in S
  PROVE  <<x, y>> \in Seq(S) /\ Len(<<x, y>>) = 2 /\ <<x, y>>[1] = x /\ <<x, y>>[2] = y
<1>1. <<x>> \in Seq(S) /\ Len(<<x>>) = 1 /\ <<x>>[1] = x
  OBVIOUS
<1>2. <<x, y>> = Append(<<x>>, y)
  OBVIOUS
<1>3. <<x, y>> \in Seq(S) /\ Len(<<x, y>>) = 2
  BY <1>1, <1>2
<1> QED  BY <1>3

\* The scanner takes nothing for a grant that cannot be one.
LEMMA GrantsMayGrant ==
  ASSUME NEW at \in Seq(STRING), DefinesGrants(at)
  PROVE  MayGrant(at)
<1> DEFINE a == <<"hapatchy">>
           h == <<"homeassistant">>
           b == <<"homeassistant", "allowlist_external_dirs">>
           c == <<"homeassistant", "packages">>
<1>1. {a, b, c} = AuthorityKeys
  BY DEF AuthorityKeys
<1>2. CASE at = <<>>
  <2>1. IsPrefix(at, a)
    BY <1>2 DEF IsPrefix
  <2> QED  BY <1>1, <2>1 DEF MayGrant
<1>3. CASE at # <<>> /\ at[1] = "hapatchy"
  <2>1. IsPrefix(a, at)
    BY <1>3 DEF IsPrefix
  <2> QED  BY <1>1, <2>1 DEF MayGrant
<1>4. CASE at # <<>> /\ at[1] = "homeassistant" /\ Len(at) = 1
  <2>1. IsPrefix(at, b)
    BY <1>4 DEF IsPrefix
  <2> QED  BY <1>1, <2>1 DEF MayGrant
<1>5. CASE /\ at # <<>> /\ at[1] = "homeassistant" /\ Len(at) # 1
           /\ at[2] \in {"allowlist_external_dirs", "packages"}
  <2>1. Len(at) >= 2
    BY <1>5
  <2> DEFINE keys == {"homeassistant", "allowlist_external_dirs", "packages"}
             S == STRING \cup keys
  <2>2. \A x, y \in keys : /\ <<x, y>> \in Seq(S) /\ Len(<<x, y>>) = 2
                           /\ <<x, y>>[1] = x /\ <<x, y>>[2] = y
    <3> HIDE DEF keys
    <3> QED  BY PairOf
  <2>3. b \in Seq(S) /\ Len(b) = 2 /\ b[1] = "homeassistant" /\ b[2] = "allowlist_external_dirs"
    BY <2>2
  <2>4. c \in Seq(S) /\ Len(c) = 2 /\ c[1] = "homeassistant" /\ c[2] = "packages"
    BY <2>2
  <2>5. at \in Seq(S)
    OBVIOUS
  <2> HIDE DEF S
  <2> HIDE DEF b, c
  <2>6. \A i \in 1 .. 2 : i = 1 \/ i = 2
    OBVIOUS
  <2>7. CASE at[2] = "packages"
    <3>1. \A i \in 1 .. Len(c) : c[i] = at[i]
      BY <1>5, <2>4, <2>6, <2>7
    <3>2. IsPrefix(c, at)
      BY <2>1, <2>4, <2>5, <3>1, PrefixAt
    <3> QED  BY <1>1, <3>2 DEF MayGrant
  <2>8. CASE at[2] = "allowlist_external_dirs"
    <3>1. \A i \in 1 .. Len(b) : b[i] = at[i]
      BY <1>5, <2>3, <2>6, <2>8
    <3>2. IsPrefix(b, at)
      BY <2>1, <2>3, <2>5, <3>1, PrefixAt
    <3> QED  BY <1>1, <3>2 DEF MayGrant
  <2> QED  BY <1>5, <2>7, <2>8
<1> QED  BY <1>2, <1>3, <1>4, <1>5 DEF DefinesGrants

LEMMA MetMayGrant ==
  ASSUME NEW D, DiskType(D), NEW i \in Met(D), i.kind # "folder", DefinesGrants(i.at)
  PROVE  i.of \in GrantSources(D)
<1>1. Stands(D, i) /\ i \in Visitable
  BY MetStands DEF Met
<1>2. MayGrant(i.at)
  BY <1>1, GrantsMayGrant DEF Visitable
<1>3. CASE i.kind = "file"
  <2>1. [file |-> i.of, at |-> i.at] \in Reached(D)
    BY <1>1, <1>3, ReachedGrows DEF Stands, Visitable
  <2> QED  BY <1>2, <2>1 DEF GrantSources
<1>4. CASE i.kind = "secret"
  <2>1. PICK p \in Reached(D) :
          \E l \in Tagged(D, p.file, "secret") :
            i.of \in ToSet(SecretsOf[p.file]) /\ i.at = p.at \o l.at
    BY <1>1, <1>4 DEF Stands
  <2> QED  BY <1>2, <2>1 DEF GrantSources
<1> QED  BY <1>1, <1>3, <1>4 DEF Visitable

-----------------------------------------------------------------------------
(* Writes that do not bear on authority                                     *)

\* What a scan finds at item i is the same on both disks.
SameFor(D, E, i) ==
  /\ Onward(D, i) = Onward(E, i)
  /\ i.kind = "folder" => Listing(D, i.of) = Listing(E, i.of)
  /\ i.kind # "folder" => /\ D[i.of] = Absent <=> E[i.of] = Absent
                          /\ D[i.of] \in Missing <=> E[i.of] \in Missing

\* A file that is not read leads nowhere.
LEMMA UnreadOnward ==
  ASSUME NEW D, NEW E, DiskType(D), DiskType(E), NEW f \in Files \ ReadByHA(D),
         \A e \in Files \ {f} : D[e] = E[e], NEW i \in Met(D)
  PROVE  /\ Onward(D, i) \subseteq Onward(E, i)
         /\ i.kind = "folder" => Listing(D, i.of) \subseteq Listing(E, i.of)
         /\ i.kind # "folder" /\ D[i.of] # Absent => i.of # f
<1>1. i \in Visitable
  BY DEF Met
<1>2. CASE i.kind = "folder"
  <2>1. ASSUME NEW e \in Listing(D, i.of)  PROVE e \in Listing(E, i.of)
    <3>1. e \in Files /\ D[e] # Absent
      BY DEF Listing
    <3> DEFINE k == [i EXCEPT !.kind = "file", !.of = e]
    <3>2. k \in Onward(D, i) /\ k.kind = "file" /\ k.of = e
      BY <1>1, <1>2 DEF Onward, Visitable
    <3> HIDE DEF k
    <3>3. k \in Met(D)
      BY <3>2, MetClosed DEF Closed
    <3>4. e # f
      BY <3>1, <3>2, <3>3, MetIsRead
    <3> QED  BY <3>1, <3>4 DEF Listing
  <2>2. Onward(D, i) \subseteq Onward(E, i)
    BY <1>2, <2>1 DEF Onward
  <2> QED  BY <1>2, <2>1, <2>2
<1>3. CASE i.kind # "folder"
  <2>1. D[i.of] # Absent => i.of # f
    BY <1>3, MetIsRead
  <2>2. i.of \in Files
    BY <1>1, <1>3, SecretsAreFiles DEF Visitable
  <2>3. Leaves(D, i.of) \subseteq Leaves(E, i.of)
    BY <2>1, <2>2 DEF Leaves, Missing
  <2>4. Onward(D, i) \subseteq Onward(E, i)
    BY <1>3, <2>3 DEF Onward
  <2> QED  BY <1>3, <2>1, <2>4
<1> QED  BY <1>2, <1>3

LEMMA UnreadMeets ==
  ASSUME NEW D, NEW E, DiskType(D), DiskType(E),
         NEW f \in Files \ (ReadByHA(D) \cup ReadByHA(E)),
         \A e \in Files \ {f} : D[e] = E[e]
  PROVE  Met(D) = Met(E) /\ \A i \in Met(D) : SameFor(D, E, i)
<1>1. Met(D) = Met(E)
  BY UnreadOnward, MetWithin
<1>2. ASSUME NEW i \in Met(D)  PROVE SameFor(D, E, i)
  <2>1. /\ i.kind = "folder" => Listing(D, i.of) = Listing(E, i.of)
        /\ i.kind # "folder" /\ (D[i.of] # Absent \/ E[i.of] # Absent) => i.of # f
    <3>1. /\ i.kind = "folder" => Listing(D, i.of) \subseteq Listing(E, i.of)
          /\ i.kind # "folder" /\ D[i.of] # Absent => i.of # f
      BY UnreadOnward
    <3>2. /\ i.kind = "folder" => Listing(E, i.of) \subseteq Listing(D, i.of)
          /\ i.kind # "folder" /\ E[i.of] # Absent => i.of # f
      BY <1>1, UnreadOnward
    <3> QED  BY <3>1, <3>2
  <2>2. i.kind # "folder" => i.of \in Files
    BY SecretsAreFiles DEF Met, Visitable
  <2>3. Onward(D, i) = Onward(E, i)
    <3>1. Onward(D, i) \subseteq Onward(E, i)
      BY UnreadOnward
    <3>2. Onward(E, i) \subseteq Onward(D, i)
      BY <1>1, UnreadOnward
    <3> QED  BY <3>1, <3>2
  <2> QED  BY <2>1, <2>2, <2>3 DEF SameFor
<1> QED  BY <1>1, <1>2

LEMMA SameShapeMeets ==
  ASSUME NEW D, NEW E, DiskType(D), DiskType(E), NEW f \in Files, SameShape(D[f], E[f]),
         \A e \in Files \ {f} : D[e] = E[e]
  PROVE  Met(D) = Met(E) /\ \A i \in Met(D) : SameFor(D, E, i)
<1>1. \A e \in Files : /\ D[e] = Absent <=> E[e] = Absent
                       /\ D[e] \in Missing <=> E[e] \in Missing
  BY DEF SameShape, Missing
<1>2. \A e \in Files : {l \in Leaves(D, e) : l.tag # "plain"} = {l \in Leaves(E, e) : l.tag # "plain"}
  BY <1>1 DEF SameShape, Leading, Leaves
<1>3. \A d : Listing(D, d) = Listing(E, d)
  BY <1>1, SameListing
<1>4. ASSUME NEW i \in Visitable  PROVE Onward(D, i) = Onward(E, i)
  <2>1. CASE i.kind = "folder"
    BY <1>3, <2>1 DEF Onward
  <2>2. CASE i.kind # "folder"
    <3>1. i.of \in Files
      BY <2>2, SecretsAreFiles DEF Visitable
    <3>2. \A l : l.tag = "plain" => ToSet(Visit(i, l)) = {}
      BY DEF Visit, ToSet
    <3> DEFINE V(l) == ToSet(Visit(i, l))
               A == Leaves(D, i.of)
               B == Leaves(E, i.of)
    <3>3. \A l : l.tag = "plain" => V(l) = {}
      BY <3>2
    <3>4. {l \in A : l.tag # "plain"} = {l \in B : l.tag # "plain"}
      BY <1>2, <3>1
    <3>5. /\ i.depth <= MaxDepth => Onward(D, i) = UNION {V(l) : l \in A}
          /\ i.depth <= MaxDepth => Onward(E, i) = UNION {V(l) : l \in B}
          /\ ~(i.depth <= MaxDepth) => Onward(D, i) = {} /\ Onward(E, i) = {}
      BY <2>2 DEF Onward
    <3> HIDE DEF V, A, B
    <3>6. UNION {V(l) : l \in A} = UNION {V(l) : l \in B}
      BY <3>3, <3>4
    <3> QED  BY <3>5, <3>6
  <2> QED  BY <2>1, <2>2
<1>5. Met(D) = Met(E)
  BY <1>4, MetWithin, MetClosed
<1>6. ASSUME NEW i \in Met(D)  PROVE SameFor(D, E, i)
  BY <1>1, <1>3, <1>4, SecretsAreFiles DEF SameFor, Met, Visitable
<1> QED  BY <1>5, <1>6

LEMMA OrdinaryWrite ==
  ASSUME TypeInv, NEW f \in Files, Write(f), ~Bears(f, disk')
  PROVE  /\ Met(disk') = Met(disk) /\ \A i \in Met(disk) : SameFor(disk, disk', i)
         /\ \A i \in Met(disk) : /\ i.kind # "folder" /\ disk[i.of] # Absent
                                /\ DefinesGrants(i.at)
                                => version'[i.of] = version[i.of]
<1>1. /\ disk' = [disk EXCEPT ![f] = disk'[f]] /\ disk'[f] \in Drafts[f]
      /\ version' = [version EXCEPT ![f] = @ + 1]
  BY DEF Write, TypeInv, DiskInv
<1>2. /\ \A e \in Files \ {f} : disk[e] = disk'[e] /\ version[e] = version'[e]
      /\ \A e \in Files : disk'[e] \in Drafts[e]
  BY <1>1 DEF TypeInv, DiskInv
<1>3. DiskType(disk) /\ DiskType(disk')
  BY <1>2, DraftsTyped DEF TypeInv, DiskInv
<1>4. CASE f \notin ReadByHA(disk) \cup ReadByHA(disk')
  <2>1. Met(disk) = Met(disk') /\ \A i \in Met(disk) : SameFor(disk, disk', i)
    BY <1>2, <1>3, <1>4, UnreadMeets
  <2>2. ASSUME NEW i \in Met(disk), i.kind # "folder", disk[i.of] # Absent  PROVE i.of # f
    BY <1>3, <1>4, <2>2, MetIsRead
  <2>3. \A i \in Met(disk) : i.kind # "folder" => i.of \in Files
    BY SecretsAreFiles DEF Met, Visitable
  <2> QED  BY <1>2, <2>1, <2>2, <2>3
<1>5. CASE SameShape(disk[f], disk'[f]) /\ f \notin GrantSources(disk)
  <2>1. Met(disk) = Met(disk') /\ \A i \in Met(disk) : SameFor(disk, disk', i)
    BY <1>2, <1>3, <1>5, SameShapeMeets
  <2>2. ASSUME NEW i \in Met(disk), i.kind # "folder", DefinesGrants(i.at)  PROVE i.of # f
    BY <1>3, <1>5, <2>2, MetMayGrant
  <2>3. \A i \in Met(disk) : i.kind # "folder" => i.of \in Files
    BY SecretsAreFiles DEF Met, Visitable
  <2> QED  BY <1>2, <2>1, <2>2, <2>3
<1> QED  BY <1>4, <1>5 DEF Bears

-----------------------------------------------------------------------------
(* A scan of what can be met                                                *)

Admitted(D, i) ==
  i.kind # "folder" =>
    /\ i.depth <= MaxDepth /\ i.of \notin i.above
    /\ D[i.of] \notin Missing \/ (i.kind = "secret" /\ D[i.of] = Absent)

\* The items that have a source behind them.
Sources(D, S) == {i \in S : i.kind # "folder" /\ D[i.of] # Absent}

\* Graph g is what there is to find at the items S.
Drawn(D, S, g) ==
  /\ \A x : x \in FilesOf(g) <=> \E i \in Sources(D, S) : i.of = x
  /\ \A x : x \in g.grants <=> \E i \in Sources(D, S) : i.of = x /\ DefinesGrants(i.at)
  /\ \A x : x \in g.secrets <=> \E i \in S : i.kind = "secret" /\ i.of = x
  /\ \A x : x \in g.listings <=>
             \E i \in S : i.kind = "folder" /\ x = [folder |-> i.of, files |-> Listing(D, i.of)]

Current(g) == \A s \in g.sources : s.file \in g.grants => s.version = version[s.file]

\* The running scan has visited S.
HasVisited(S) ==
  /\ S \cup ToSet(scan.todo) \subseteq Met(disk)
  /\ FreshItem \in S \cup ToSet(scan.todo)
  /\ \A i \in S : Admitted(disk, i) /\ Onward(disk, i) \subseteq S \cup ToSet(scan.todo)
  /\ Drawn(disk, S, scan.got) /\ Current(scan.got)

LEMMA FreshVisited ==
  ASSUME TypeInv, disk' = disk, scan' = Fresh
  PROVE  HasVisited({})'
<1>1. DiskType(disk)
  BY DraftsTyped DEF TypeInv, DiskInv
<1>2. ToSet(scan'.todo) = {FreshItem} /\ FreshItem \in Met(disk')
  BY <1>1, FreshItemType, MetClosed DEF Closed
<1>3. scan'.got = NoGraph
  BY DEF Fresh
<1> QED  BY <1>2, <1>3 DEF HasVisited, Drawn, Sources, NoGraph, FilesOf, Current

\* What one step adds to the graph and to the list.
Adds(i) ==
  LET source == i.kind # "folder" /\ disk[i.of] # Absent IN
  /\ scan'.got.sources =
       IF source THEN scan.got.sources \cup {[file |-> i.of, version |-> version[i.of]]}
                 ELSE scan.got.sources
  /\ scan'.got.grants =
       IF source /\ DefinesGrants(i.at) THEN scan.got.grants \cup {i.of} ELSE scan.got.grants
  /\ scan'.got.secrets =
       IF i.kind = "secret" THEN scan.got.secrets \cup {i.of} ELSE scan.got.secrets
  /\ scan'.got.listings =
       IF i.kind = "folder"
       THEN scan.got.listings \cup {[folder |-> i.of, files |-> Listing(disk, i.of)]}
       ELSE scan.got.listings
  /\ ToSet(scan'.todo) = Onward(disk, i) \cup ToSet(Tail(scan.todo))
  /\ (i.kind = "secret" => i.depth = 0) => Admitted(disk, i)
  /\ source => \A s \in scan.got.sources : s.file = i.of => s.version = version[i.of]

LEMMA LoadSourceAdds ==
  ASSUME TypeInv, LoadSource
  PROVE  Adds(Next1)
<1> DEFINE i == Next1
           new == [file |-> i.of, version |-> version[i.of]]
           t == Tail(scan.todo)
<1>1. /\ scan.todo # <<>> /\ i.kind # "folder" /\ disk[i.of] \notin Missing
      /\ ~Inadmissible(i)
      /\ scan' = [todo |-> Visits(i) \o t,
                  got |-> [scan.got EXCEPT
                    !.sources = @ \cup {new},
                    !.grants  = IF DefinesGrants(i.at) THEN @ \cup {i.of} ELSE @,
                    !.secrets = IF i.kind = "secret" THEN @ \cup {i.of} ELSE @]]
  BY DEF LoadSource
<1>2. i \in Visitable /\ t \in Seq(Visitable)
  BY <1>1, NextItem DEF TypeInv
<1>3. DiskType(disk) /\ scan.got \in Graphs
  BY DraftsTyped DEF TypeInv, DiskInv, ScanInv
<1> HIDE DEF i, t
<1>4. /\ i.of \in Files /\ i.depth <= MaxDepth /\ i.of \notin i.above /\ disk[i.of] # Absent
      /\ \A s \in scan.got.sources : s.file = i.of => s.version = version[i.of]
  BY <1>1, <1>2, SecretsAreFiles, FilesAssumption DEF Visitable, Inadmissible, Missing
<1> DEFINE d == disk[i.of]
           v == [n \in DOMAIN d |-> Visit(i, d[n])]
           h == scan'.got
<1>5. h = [sources |-> scan.got.sources \cup {new}, listings |-> scan.got.listings,
           secrets |-> IF i.kind = "secret" THEN scan.got.secrets \cup {i.of}
                       ELSE scan.got.secrets,
           grants |-> IF DefinesGrants(i.at) THEN scan.got.grants \cup {i.of}
                      ELSE scan.got.grants]
      /\ scan'.todo = Visits(i) \o t
  BY <1>1, <1>3 DEF Graphs
<1>6. v \in Seq(Seq(Visitable))
  <2>1. d \in Seq(ToSet(d)) /\ \A n \in DOMAIN d : d[n] \in Leaves(disk, i.of)
    BY <1>1, <1>3, <1>4 DEF DiskType, Written, ToSet, Leaves
  <2>2. DOMAIN d = 1 .. Len(d) /\ Len(d) \in Nat
    BY <2>1, LenProperties
  <2>3. \A n \in DOMAIN d : Visit(i, d[n]) \in Seq(Visitable)
    BY <1>2, <1>3, <1>4, <2>1, LeafTypes, VisitType
  <2>4. v \in [1 .. Len(d) -> Seq(Visitable)]
    BY <2>2, <2>3
  <2> QED  BY <2>2, <2>4, SeqDef
<1>7. ToSet(Visits(i)) = UNION {ToSet(s) : s \in ToSet(v)} /\ Visits(i) \in Seq(Visitable)
  BY <1>6, SetOfFlatten DEF Visits
<1>8. ToSet(Visits(i)) = Onward(disk, i)
  <2>1. ToSet(v) = {Visit(i, l) : l \in Leaves(disk, i.of)}
    BY <1>1 DEF ToSet, Leaves
  <2> DEFINE G(s) == ToSet(s)
             L == Leaves(disk, i.of)
             W(l) == Visit(i, l)
  <2> HIDE DEF G, L, W
  <2>2. UNION {G(s) : s \in {W(l) : l \in L}} = UNION {G(W(l)) : l \in L}
    OBVIOUS
  <2>3. UNION {ToSet(s) : s \in {Visit(i, l) : l \in Leaves(disk, i.of)}}
          = UNION {ToSet(Visit(i, l)) : l \in Leaves(disk, i.of)}
    BY <2>2 DEF G, L, W
  <2> QED  BY <1>1, <1>4, <1>7, <2>1, <2>3 DEF Onward
<1>9. ToSet(scan'.todo) = Onward(disk, i) \cup ToSet(t)
  <2> DEFINE w == Visits(i)
  <2>1. w \in Seq(Visitable) /\ scan'.todo = w \o t /\ ToSet(w) = Onward(disk, i)
    BY <1>5, <1>7, <1>8
  <2> HIDE DEF w
  <2> QED  BY <1>2, <2>1, SetOfConcat
<1> HIDE DEF v
<1>10. Admitted(disk, i)
  BY <1>1, <1>4 DEF Admitted
<1> HIDE DEF h
<1>11. /\ h.sources = scan.got.sources \cup {new} /\ h.listings = scan.got.listings
       /\ h.secrets = IF i.kind = "secret" THEN scan.got.secrets \cup {i.of}
                      ELSE scan.got.secrets
       /\ h.grants = IF DefinesGrants(i.at) THEN scan.got.grants \cup {i.of}
                     ELSE scan.got.grants
  BY <1>5
<1> QED  BY <1>1, <1>4, <1>9, <1>10, <1>11 DEF Adds, h, i, t

LEMMA NoSecretsAdds ==
  ASSUME TypeInv, NoSecrets
  PROVE  Adds(Next1)
<1> DEFINE i == Next1
<1>1. /\ scan.todo # <<>> /\ i.kind = "secret" /\ disk[i.of] = Absent /\ i.of \notin i.above
      /\ scan' = [todo |-> Tail(scan.todo),
                  got |-> [scan.got EXCEPT !.secrets = @ \cup {i.of}]]
  BY DEF NoSecrets, Rest
<1>2. i \in Visitable /\ scan.got \in Graphs
  BY <1>1, NextItem DEF TypeInv, ScanInv
<1> HIDE DEF i
<1>3. /\ scan'.got.sources = scan.got.sources /\ scan'.got.listings = scan.got.listings
      /\ scan'.got.secrets = scan.got.secrets \cup {i.of}
      /\ scan'.got.grants = scan.got.grants /\ scan'.todo = Tail(scan.todo)
  BY <1>1, <1>2 DEF Graphs
<1>4. Onward(disk, i) = {}
  BY <1>1 DEF Onward, Leaves, Missing
<1>5. (i.kind = "secret" => i.depth = 0) => Admitted(disk, i)
  BY <1>1, FilesAssumption DEF Admitted
<1> QED  BY <1>1, <1>3, <1>4, <1>5 DEF Adds, i

LEMMA ListFolderAdds ==
  ASSUME TypeInv, ListFolder
  PROVE  Adds(Next1)
<1> DEFINE i == Next1
           files == Listing(disk, i.of)
<1>1. PICK order \in SetToSeqs(files) :
        /\ scan.todo # <<>> /\ i.kind = "folder"
        /\ scan' = [todo |-> [n \in DOMAIN order |-> [i EXCEPT !.kind = "file", !.of = order[n]]]
                               \o Tail(scan.todo),
                    got |-> [scan.got EXCEPT
                      !.listings = @ \cup {[folder |-> i.of, files |-> files]}]]
  BY DEF ListFolder
<1>2. i \in Visitable /\ Tail(scan.todo) \in Seq(Visitable) /\ scan.got \in Graphs
  BY <1>1, NextItem DEF TypeInv, ScanInv
<1> HIDE DEF i
<1>3. files \subseteq Files /\ IsFiniteSet(files)
  <2>1. files \subseteq Files
    BY DEF Listing
  <2> QED  BY <2>1, FilesAssumption, FS_Subset
<1>4. order \in Seq(files) /\ ToSet(order) = files
  BY <1>1, <1>3, OrdersAreComplete
<1> DEFINE e(n) == [i EXCEPT !.kind = "file", !.of = order[n]]
           a(f) == [i EXCEPT !.kind = "file", !.of = f]
           t == [n \in DOMAIN order |-> e(n)]
           h == [scan.got EXCEPT !.listings = @ \cup {[folder |-> i.of, files |-> files]}]
<1>5. scan'.todo = t \o Tail(scan.todo) /\ scan'.got = h
  BY <1>1
<1>6. /\ h.sources = scan.got.sources /\ h.grants = scan.got.grants
      /\ h.secrets = scan.got.secrets
      /\ h.listings = scan.got.listings \cup {[folder |-> i.of, files |-> files]}
  BY <1>2 DEF Graphs
<1>7. \A n \in DOMAIN order : e(n) = a(order[n]) /\ e(n) \in Visitable
  <2>1. \A n \in DOMAIN order : order[n] \in Files
    BY <1>3, <1>4 DEF ToSet
  <2> QED  BY <1>1, <1>2, <2>1 DEF Visitable
<1>8. Onward(disk, i) = {a(f) : f \in files}
  BY <1>1 DEF Onward
<1> HIDE DEF e, a, h, files
<1>9. t \in Seq(Visitable)
  <2>1. DOMAIN order = 1 .. Len(order) /\ Len(order) \in Nat
    BY <1>4, LenProperties
  <2>2. t \in [1 .. Len(order) -> Visitable]
    BY <1>7, <2>1
  <2> QED  BY <2>1, <2>2, SeqDef
<1>10. ToSet(t) = {a(f) : f \in files}
  BY <1>4, <1>7 DEF ToSet
<1> HIDE DEF t
<1>11. ToSet(scan'.todo) = Onward(disk, i) \cup ToSet(Tail(scan.todo))
  <2> DEFINE r == Tail(scan.todo)
  <2>1. r \in Seq(Visitable) /\ scan'.todo = t \o r
    BY <1>2, <1>5
  <2> HIDE DEF r
  <2>2. ToSet(scan'.todo) = ToSet(t) \cup ToSet(r)
    BY <1>9, <2>1, SetOfConcat
  <2> QED  BY <1>8, <1>10, <2>2 DEF r
<1>12. Admitted(disk, i)
  BY <1>1 DEF Admitted
<1> QED  BY <1>1, <1>5, <1>6, <1>11, <1>12 DEF Adds, i, files

LEMMA DrawnAdds ==
  ASSUME NEW S, NEW i, Drawn(disk, S, scan.got), Adds(i)
  PROVE  Drawn(disk, S \cup {i}, scan'.got)
<1> DEFINE g == scan.got
           h == scan'.got
           source == i.kind # "folder" /\ disk[i.of] # Absent
           T == S \cup {i}
<1>1. /\ h.sources = IF source THEN g.sources \cup {[file |-> i.of, version |-> version[i.of]]}
                     ELSE g.sources
      /\ h.grants = IF source /\ DefinesGrants(i.at) THEN g.grants \cup {i.of} ELSE g.grants
      /\ h.secrets = IF i.kind = "secret" THEN g.secrets \cup {i.of} ELSE g.secrets
      /\ h.listings = IF i.kind = "folder"
                      THEN g.listings \cup {[folder |-> i.of, files |-> Listing(disk, i.of)]}
                      ELSE g.listings
  BY DEF Adds
<1>2. \A k : k \in Sources(disk, T) <=> k \in Sources(disk, S) \/ (k = i /\ source)
  BY DEF Sources
<1>3. /\ \A x : x \in FilesOf(g) <=> \E k \in Sources(disk, S) : k.of = x
      /\ \A x : x \in g.grants <=> \E k \in Sources(disk, S) : k.of = x /\ DefinesGrants(k.at)
      /\ \A x : x \in g.secrets <=> \E k \in S : k.kind = "secret" /\ k.of = x
      /\ \A x : x \in g.listings <=>
           \E k \in S : k.kind = "folder" /\ x = [folder |-> k.of, files |-> Listing(disk, k.of)]
  BY DEF Drawn
<1> HIDE DEF g, h, source
<1>4. \A x : x \in FilesOf(h) <=> x \in FilesOf(g) \/ (source /\ x = i.of)
  <2>1. CASE source
    <3> DEFINE new == [file |-> i.of, version |-> version[i.of]]
    <3>1. h.sources = g.sources \cup {new} /\ new.file = i.of
      BY <1>1, <2>1
    <3> HIDE DEF new
    <3> QED  BY <2>1, <3>1 DEF FilesOf
  <2>2. CASE ~source
    BY <1>1, <2>2 DEF FilesOf
  <2> QED  BY <2>1, <2>2
<1>5. \A x : x \in FilesOf(h) <=> \E k \in Sources(disk, T) : k.of = x
  BY <1>2, <1>3, <1>4
<1>6. \A x : x \in h.grants <=> \E k \in Sources(disk, T) : k.of = x /\ DefinesGrants(k.at)
  <2>1. \A x : x \in h.grants <=> x \in g.grants \/ (source /\ DefinesGrants(i.at) /\ x = i.of)
    BY <1>1
  <2> DEFINE D == {k.of : k \in {q \in Sources(disk, S) : DefinesGrants(q.at)}}
  <2>2. \A x : x \in g.grants <=> x \in D
    BY <1>3
  <2>3. \A x : (\E k \in Sources(disk, T) : k.of = x /\ DefinesGrants(k.at))
                <=> x \in D \/ (source /\ DefinesGrants(i.at) /\ x = i.of)
    BY <1>2
  <2> QED  BY <2>1, <2>2, <2>3
<1>7. \A x : x \in h.secrets <=> \E k \in T : k.kind = "secret" /\ k.of = x
  BY <1>1, <1>3
<1>8. \A x : x \in h.listings <=>
        \E k \in T : k.kind = "folder" /\ x = [folder |-> k.of, files |-> Listing(disk, k.of)]
  BY <1>1, <1>3
<1> QED  BY <1>5, <1>6, <1>7, <1>8 DEF Drawn, h

\* A scan step visits the next item.
LEMMA ScanVisits ==
  ASSUME TypeInv, ScanStepOf, NEW S, HasVisited(S), NEW i, i = Next1
  PROVE  /\ HasVisited(S \cup {i})'
         /\ (\A s \in scan.got.sources : s.version = version[s.file]) =>
              \A s \in scan'.got.sources : s.version' = version'[s.file]
<1>1. /\ scan.todo # <<>> /\ i \in Visitable /\ i \in ToSet(scan.todo)
      /\ UNCHANGED <<disk, version>> /\ DiskType(disk)
  BY ScanStepContinues, DraftsTyped DEF TypeInv, DiskInv
<1>2. Adds(i)
  BY LoadSourceAdds, NoSecretsAdds, ListFolderAdds DEF ScanStepOf
<1>3. ToSet(scan.todo) = {i} \cup ToSet(Tail(scan.todo))
  <2> DEFINE t == scan.todo
  <2>1. t \in Seq(Visitable) /\ t # <<>>
    BY <1>1 DEF TypeInv, ScanInv
  <2> HIDE DEF t
  <2>2. /\ DOMAIN t = 1 .. Len(t) /\ DOMAIN Tail(t) = 1 .. Len(t) - 1 /\ Len(t) \in Nat
        /\ \A n \in 1 .. Len(t) - 1 : Tail(t)[n] = t[n + 1]
    BY <2>1
  <2>3. ToSet(Tail(t)) \subseteq ToSet(t)
    BY <2>2 DEF ToSet
  <2> QED  BY <1>1, <2>3, NextItem DEF TypeInv, t
<1>4. i \in Met(disk) /\ Onward(disk, i) \subseteq Met(disk)
  BY <1>1, MetClosed DEF HasVisited, Closed
<1>5. i.kind = "secret" => i.depth = 0
  BY <1>1, <1>4, MetStands DEF Stands
<1>6. /\ ToSet(scan'.todo) = Onward(disk, i) \cup ToSet(Tail(scan.todo))
      /\ Admitted(disk, i)
  BY <1>2, <1>5 DEF Adds
<1>7. /\ S \cup {i} \cup ToSet(scan'.todo) \subseteq Met(disk)
      /\ FreshItem \in S \cup {i} \cup ToSet(scan'.todo)
      /\ \A k \in S \cup {i} : /\ Admitted(disk, k)
                              /\ Onward(disk, k) \subseteq S \cup {i} \cup ToSet(scan'.todo)
  BY <1>3, <1>4, <1>6 DEF HasVisited
<1>8. Drawn(disk, S \cup {i}, scan'.got)
  BY <1>2, DrawnAdds DEF HasVisited
<1>9. \A s \in scan'.got.sources : s.file \in scan'.got.grants => s.version = version[s.file]
  <2> SUFFICES ASSUME NEW s \in scan'.got.sources, s.file \in scan'.got.grants
               PROVE  s.version = version[s.file]
    OBVIOUS
  <2>1. CASE s \in scan.got.sources /\ s.file \in scan.got.grants
    BY <2>1 DEF HasVisited, Current
  <2>2. CASE s \in scan.got.sources /\ s.file \notin scan.got.grants
    <3>1. i.kind # "folder" /\ disk[i.of] # Absent /\ s.file = i.of
      BY <1>2, <2>2 DEF Adds
    <3> QED  BY <1>2, <2>2, <3>1 DEF Adds
  <2>3. CASE s \notin scan.got.sources
    <3>1. s = [file |-> i.of, version |-> version[i.of]]
      BY <1>2, <2>3 DEF Adds
    <3> QED  BY <3>1
  <2> QED  BY <2>1, <2>2, <2>3
<1>10. ASSUME \A s \in scan.got.sources : s.version = version[s.file],
              NEW s \in scan'.got.sources
       PROVE  s.version = version[s.file]
  <2>1. CASE s \in scan.got.sources
    BY <1>10, <2>1
  <2>2. CASE s \notin scan.got.sources
    <3>1. s = [file |-> i.of, version |-> version[i.of]]
      BY <1>2, <2>2 DEF Adds
    <3> QED  BY <3>1
  <2> QED  BY <2>1, <2>2
<1>11. UNCHANGED <<disk, version>>
  BY <1>1
<1> QED  BY <1>7, <1>8, <1>9, <1>10, <1>11 DEF HasVisited, Current

\* All that can be met is admitted, and graph g is what there is to find at it.
Whole(g) ==
  /\ \A i \in Met(disk) : Admitted(disk, i)
  /\ Drawn(disk, Met(disk), g) /\ Current(g)

LEMMA AllVisited ==
  ASSUME TypeInv, NEW S, HasVisited(S), scan.todo = <<>>
  PROVE  Whole(scan.got)
<1>1. ToSet(scan.todo) = {} /\ DiskType(disk)
  BY DraftsTyped DEF ToSet, TypeInv, DiskInv
<1>2. Met(disk) \subseteq Visitable /\ \A T \in SUBSET Visitable : Closed(disk, T) => Met(disk) \subseteq T
  BY <1>1, MetClosed
<1>3. S \in SUBSET Visitable /\ Closed(disk, S)
  BY <1>1, <1>2 DEF HasVisited, Closed
<1>4. S = Met(disk)
  BY <1>1, <1>2, <1>3 DEF HasVisited
<1> QED  BY <1>4 DEF HasVisited, Whole

\* Two graphs of what there is to find have the same authority.
LEMMA WholesAgree ==
  ASSUME TypeInv, Whole(graph), Whole(scan.got)
  PROVE  SameAuthority(scan.got)
<1>1. /\ graph \in Graphs /\ scan.got \in Graphs
      /\ Drawn(disk, Met(disk), graph) /\ Drawn(disk, Met(disk), scan.got)
  BY DEF TypeInv, ScanInv, Whole
<1>2. /\ FilesOf(scan.got) = FilesOf(graph) /\ scan.got.grants = graph.grants
      /\ scan.got.secrets = graph.secrets /\ scan.got.listings = graph.listings
  <2>1. \A x : /\ x \in FilesOf(scan.got) <=> x \in FilesOf(graph)
               /\ x \in scan.got.grants <=> x \in graph.grants
               /\ x \in scan.got.secrets <=> x \in graph.secrets
               /\ x \in scan.got.listings <=> x \in graph.listings
    BY <1>1 DEF Drawn
  <2>2. FilesOf(scan.got) = FilesOf(graph)
    BY <2>1
  <2>3. scan.got.grants = graph.grants
    BY <2>1
  <2>4. scan.got.secrets = graph.secrets
    BY <2>1
  <2>5. scan.got.listings = graph.listings
    BY <2>1
  <2> QED  BY <2>2, <2>3, <2>4, <2>5
<1>3. ASSUME NEW s \in scan.got.sources, s.file \in scan.got.grants
      PROVE  s \in graph.sources
  <2>1. PICK q \in graph.sources : q.file = s.file
    BY <1>2 DEF FilesOf
  <2>2. q.version = version[q.file] /\ s.version = version[s.file]
    BY <1>2, <1>3, <2>1 DEF Whole, Current
  <2>3. {s, q} \subseteq [file : Files, version : Nat]
    BY <1>1 DEF Graphs
  <2>4. s = q
    BY <2>1, <2>2, <2>3
  <2> QED  BY <2>4
<1> QED  BY <1>2, <1>3 DEF SameAuthority

\* A scan that reads every file as it is now denies nothing that is admitted.
LEMMA NotDenied ==
  ASSUME TypeInv, NEW S, HasVisited(S), \A i \in Met(disk) : Admitted(disk, i),
         \A s \in scan.got.sources : s.version = version[s.file]
  PROVE  ~ScanDenied
<1> SUFFICES ASSUME ScanDenied  PROVE FALSE
  OBVIOUS
<1> DEFINE i == Next1
<1>1. /\ scan.todo # <<>>
      /\ IF i.kind = "folder" THEN Relisted(i)
         ELSE \/ i.depth > MaxDepth \/ i.of \in i.above
              \/ disk[i.of] = Unsafe
              \/ i.kind = "file" /\ disk[i.of] = Absent
              \/ disk[i.of] # Absent /\ Inadmissible(i)
  BY DEF ScanDenied
<1>2. i \in Visitable /\ i \in Met(disk)
  BY <1>1, NextItem DEF TypeInv, HasVisited
<1> HIDE DEF i
<1>3. CASE i.kind = "folder"
  <2>1. PICK s \in scan.got.listings : s.folder = i.of /\ s.files # Listing(disk, i.of)
    BY <1>1, <1>3 DEF Relisted
  <2>2. PICK k \in S : s = [folder |-> k.of, files |-> Listing(disk, k.of)]
    BY DEF HasVisited, Drawn
  <2> QED  BY <2>1, <2>2
<1>4. CASE i.kind # "folder"
  <2>1. /\ i.depth <= MaxDepth /\ i.of \notin i.above
        /\ disk[i.of] \notin Missing \/ (i.kind = "secret" /\ disk[i.of] = Absent)
    BY <1>2, <1>4 DEF Admitted
  <2>2. i.depth \in Nat /\ MaxDepth \in Nat /\ ~(i.depth > MaxDepth)
    BY <1>2, <2>1, FilesAssumption DEF Visitable
  <2>3. disk[i.of] # Absent /\ Inadmissible(i)
    BY <1>1, <1>4, <2>1, <2>2, FilesAssumption DEF Missing
  <2> QED  BY <2>1, <2>2, <2>3 DEF Inadmissible
<1> QED  BY <1>3, <1>4

-----------------------------------------------------------------------------
(* An ordinary edit revokes nothing                                         *)

EditInv ==
  /\ phase \in {"raw", "main"} => scan = Fresh
  /\ phase = "second" /\ ~mattered => \E S : HasVisited(S)
  /\ phase \in Frozen /\ ~mattered => Whole(graph)
  /\ phase = "checking" /\ calm /\ ~mattered =>
       /\ \E S : HasVisited(S)
       /\ \A s \in scan.got.sources : s.version = version[s.file]
  /\ OrdinaryEditsTolerated

\* What was found before a write that does not bear on authority is there after it.
LEMMA OrdinaryWriteKeeps ==
  ASSUME TypeInv, NEW f \in Files, Write(f), ~Bears(f, disk')
  PROVE  /\ \A S : HasVisited(S) => HasVisited(S)'
         /\ Whole(graph) => Whole(graph)'
<1>1. /\ Met(disk') = Met(disk) /\ \A i \in Met(disk) : SameFor(disk, disk', i)
      /\ \A i \in Met(disk) : /\ i.kind # "folder" /\ disk[i.of] # Absent
                              /\ DefinesGrants(i.at)
                              => version'[i.of] = version[i.of]
      /\ UNCHANGED <<scan, graph>>
  BY OrdinaryWrite DEF Write
<1>2. ASSUME NEW i \in Met(disk)
      PROVE  /\ Admitted(disk, i) => Admitted(disk', i)
             /\ Onward(disk, i) = Onward(disk', i)
  BY <1>1 DEF SameFor, Admitted
<1>3. ASSUME NEW S, S \subseteq Met(disk), NEW g, Drawn(disk, S, g)
      PROVE  /\ Drawn(disk', S, g)
             /\ Current(g) => \A s \in g.sources : s.file \in g.grants => s.version = version'[s.file]
  <2>1. Sources(disk', S) = Sources(disk, S)
    BY <1>1, <1>3 DEF Sources, SameFor
  <2>2. \A i \in S : i.kind = "folder" => Listing(disk', i.of) = Listing(disk, i.of)
    BY <1>1, <1>3 DEF SameFor
  <2>3. \A x : x \in g.listings <=>
          \E i \in S : i.kind = "folder" /\ x = [folder |-> i.of, files |-> Listing(disk', i.of)]
    BY <1>3, <2>2 DEF Drawn
  <2>4. Drawn(disk', S, g)
    BY <1>3, <2>1, <2>3 DEF Drawn
  <2>5. ASSUME NEW x \in g.grants  PROVE version'[x] = version[x]
    <3>1. PICK i \in Sources(disk, S) : i.of = x /\ DefinesGrants(i.at)
      BY <1>3 DEF Drawn
    <3> QED  BY <1>1, <1>3, <3>1 DEF Sources
  <2> QED  BY <2>4, <2>5 DEF Current
<1>4. ASSUME NEW S, HasVisited(S)  PROVE HasVisited(S)'
  <2>1. S \subseteq Met(disk) /\ Drawn(disk, S, scan.got) /\ Current(scan.got)
    BY <1>4 DEF HasVisited
  <2>2. /\ Drawn(disk', S, scan.got)
        /\ \A s \in scan.got.sources : s.file \in scan.got.grants => s.version = version'[s.file]
    BY <1>3, <2>1
  <2>3. scan' = scan
    BY <1>1
  <2>4. Drawn(disk', S, scan'.got) /\ Current(scan.got)'
    BY <2>2, <2>3 DEF Current
  <2> QED  BY <1>1, <1>2, <1>4, <2>1, <2>4 DEF HasVisited
<1>5. ASSUME Whole(graph)  PROVE Whole(graph)'
  <2>1. Drawn(disk, Met(disk), graph) /\ Current(graph)
    BY <1>5 DEF Whole
  <2>2. /\ Drawn(disk', Met(disk), graph)
        /\ \A s \in graph.sources : s.file \in graph.grants => s.version = version'[s.file]
    BY <1>3, <2>1
  <2>3. graph' = graph
    BY <1>1
  <2>4. Drawn(disk', Met(disk'), graph') /\ Current(graph)'
    BY <1>1, <2>2, <2>3 DEF Current
  <2> QED  BY <1>1, <1>2, <1>5, <2>4 DEF Whole
<1> QED  BY <1>4, <1>5

LEMMA ScanEdits ==
  ASSUME TypeInv, EditInv, ScanStepOf
  PROVE  EditInv'
<1>1. /\ UNCHANGED <<disk, version, phase, graph, calm, mattered>>
      /\ phase \in {"first", "second", "checking"}
  BY ScanStepContinues DEF ghosts, Scanning
<1>2. PICK i : i = Next1
  OBVIOUS
<1>3. ASSUME NEW S, HasVisited(S)
      PROVE  /\ \E T : HasVisited(T)'
             /\ (\A s \in scan.got.sources : s.version = version[s.file]) =>
                  \A s \in scan'.got.sources : s.version = version'[s.file]
  <2> DEFINE T == S \cup {i}
  <2>1. /\ HasVisited(T)'
        /\ (\A s \in scan.got.sources : s.version = version[s.file]) =>
             \A s \in scan'.got.sources : s.version = version'[s.file]
    BY <1>2, <1>3, ScanVisits
  <2> HIDE DEF T
  <2> QED  BY <2>1
<1>4. Whole(graph)' <=> Whole(graph)
  BY <1>1 DEF Whole, Current
<1> QED  BY <1>1, <1>3, <1>4 DEF EditInv, OrdinaryEditsTolerated, Frozen

LEMMA NextEdits ==
  ASSUME TypeInv, EditInv, [Next]_vars
  PROVE  EditInv'
<1>1. CASE ScanDenied
  <2>1. /\ UNCHANGED <<disk, version, graph, calm, mattered>> /\ scan' = Fresh
        /\ phase \in {"first", "second", "checking"}
        /\ phase' = IF phase \in Loading THEN "denied" ELSE "refused"
    BY <1>1 DEF ScanDenied, Deny, Scanning, ghosts
  <2>2. CASE phase = "checking"
    <3>1. calm => mattered
      BY <1>1, <2>2, NotDenied DEF EditInv, Frozen, Whole
    <3>2. Whole(graph)' <=> Whole(graph)
      BY <2>1 DEF Whole, Current
    <3> QED  BY <2>1, <2>2, <3>1, <3>2
             DEF EditInv, OrdinaryEditsTolerated, Frozen, Loading
  <2> QED  BY <2>1, <2>2 DEF EditInv, OrdinaryEditsTolerated, Frozen, Loading
<1>2. CASE FirstScanned
  <2>1. phase' = "raw" /\ scan' = Fresh
    BY <1>2 DEF FirstScanned
  <2> QED  BY <2>1 DEF EditInv, OrdinaryEditsTolerated, Frozen
<1>3. CASE LoadRaw
  <2>1. phase = "raw" /\ phase' \in {"main", "denied"} /\ scan' = scan
    BY <1>3 DEF LoadRaw, Deny, Loading
  <2> QED  BY <2>1 DEF EditInv, OrdinaryEditsTolerated, Frozen
<1>4. CASE ValidateMain
  <2>1. phase = "main" /\ phase' \in {"second", "denied"} /\ scan' = scan /\ scan = Fresh
    BY <1>4 DEF ValidateMain, Deny, Loading, EditInv
  <2>2. HasVisited({})'
    BY <1>4, <2>1, FreshVisited DEF ValidateMain
  <2>3. \E S : HasVisited(S)'
    BY <2>2
  <2> QED  BY <2>1, <2>3 DEF EditInv, OrdinaryEditsTolerated, Frozen
<1>5. CASE SecondScanned
  <2>1. /\ UNCHANGED <<disk, version, graph, mattered>> /\ phase = "second" /\ scan.todo = <<>>
        /\ phase' \in {"idle", "denied"} /\ (phase' = "idle" => scan.got = graph)
    BY <1>5 DEF SecondScanned, Scanned, Deny, Loading, ghosts
  <2>2. phase' = "idle" /\ ~mattered => Whole(graph)
    BY <2>1, AllVisited DEF EditInv
  <2>3. Whole(graph)' <=> Whole(graph)
    BY <2>1 DEF Whole, Current
  <2> QED  BY <2>1, <2>2, <2>3 DEF EditInv, OrdinaryEditsTolerated, Frozen
<1>6. CASE BeginCheck
  <2>1. /\ UNCHANGED <<disk, version, graph, mattered>> /\ phase \in Frozen
        /\ phase' = "checking" /\ scan' = Fresh
    BY <1>6 DEF BeginCheck, Frozen
  <2>2. Whole(graph)' <=> Whole(graph)
    BY <2>1 DEF Whole, Current
  <2>3. HasVisited({})'
    BY <2>1, FreshVisited
  <2>4. \E S : HasVisited(S)'
    BY <2>3
  <2>5. scan'.got.sources = {}
    BY <2>1 DEF Fresh, NoGraph
  <2> QED  BY <2>1, <2>2, <2>4, <2>5 DEF EditInv, OrdinaryEditsTolerated, Frozen
<1>7. CASE CheckScanned
  <2>1. /\ UNCHANGED <<disk, version, graph, calm, mattered>> /\ phase = "checking"
        /\ scan.todo = <<>> /\ phase' \in {"passed", "refused"}
        /\ phase' = "refused" => ~SameAuthority(scan.got)
    BY <1>7 DEF CheckScanned, Scanned, Deny, Loading, ghosts
  <2>2. Whole(graph)' <=> Whole(graph)
    BY <2>1 DEF Whole, Current
  <2>3. phase' = "refused" /\ calm => mattered
    BY <2>1, AllVisited, WholesAgree DEF EditInv, Frozen
  <2> QED  BY <2>1, <2>2, <2>3 DEF EditInv, OrdinaryEditsTolerated, Frozen
<1>8. ASSUME NEW f \in Files, Write(f)  PROVE EditInv'
  <2>1. /\ UNCHANGED <<phase, scan, graph>> /\ calm' = FALSE
        /\ mattered' = (mattered \/ Bears(f, disk'))
    BY <1>8 DEF Write
  <2>2. CASE mattered'
    BY <2>1, <2>2 DEF EditInv, OrdinaryEditsTolerated
  <2>3. CASE ~mattered'
    <3>1. ~mattered /\ ~Bears(f, disk')
      BY <2>1, <2>3
    <3>2. /\ \A S : HasVisited(S) => HasVisited(S)'
          /\ Whole(graph) => Whole(graph)'
      BY <1>8, <3>1, OrdinaryWriteKeeps
    <3> QED  BY <2>1, <3>1, <3>2 DEF EditInv, OrdinaryEditsTolerated
  <2> QED  BY <2>2, <2>3
<1>9. CASE UNCHANGED vars
  <2>1. UNCHANGED <<disk, version, phase, scan, graph, calm, mattered>>
    BY <1>9 DEF vars
  <2>2. \A S : HasVisited(S) => HasVisited(S)'
    BY <2>1 DEF HasVisited, Current
  <2>3. Whole(graph)' <=> Whole(graph)
    BY <2>1 DEF Whole, Current
  <2> QED  BY <2>1, <2>2, <2>3 DEF EditInv, OrdinaryEditsTolerated
<1> QED  BY <1>1, <1>2, <1>3, <1>4, <1>5, <1>6, <1>7, <1>8, <1>9, ScanEdits
         DEF Next, ScanStep, ScanStepOf, LoadStep

\* OrdinaryEditsTolerated: a check during which nothing is written is refused only if,
\* since the files were scanned for freezing, a write has changed the structure of what
\* Home Assistant reads or a file that grants may stand in.  It holds for every set of
\* files, includes and writes, and with files that come and go while others scan.
THEOREM OrdinaryEditsPass == Spec => []OrdinaryEditsTolerated
<1> DEFINE I == TypeInv /\ StoodInv /\ EditInv
<1>1. Init => I
  <2>1. Init => phase = "first"
    BY DEF Init
  <2> QED  BY <2>1, InitTypes DEF EditInv, OrdinaryEditsTolerated, Frozen
<1>2. I /\ [Next]_vars => I'
  BY NextTypes, NextEdits
<1>3. I => OrdinaryEditsTolerated
  BY DEF EditInv
<1> HIDE DEF I
<1> QED  BY <1>1, <1>2, <1>3, PTL DEF Spec
=============================================================================
