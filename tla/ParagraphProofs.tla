--------------------------- MODULE ParagraphProofs ---------------------------
(***************************************************************************)
(* The paragraphs of a paper hold the letters of its body, each once, in   *)
(* order and under its own section, whatever was recognized.               *)
(*                                                                         *)
(* Letters is what a text says apart from its spaces, and Spelled what a   *)
(* list of pieces does, each letter with its section.  Every function of   *)
(* build_paragraphs is shown to keep it: NormalizeKeeps and StripKeeps for *)
(* a text, MergedKeeps for the list of pieces, SplitKeeps for the chunks   *)
(* of a long one, ItemsSpell for the pieces that the loop takes from the   *)
(* blocks.  That the blocks come in order is left by split_blocks, after   *)
(* the deduplication (SplitBlocksRises).                                   *)
(*                                                                         *)
(* Then one pass over a page: merge_in_reading_order sorts the regions and *)
(* the words left over by a place between the regions, and the words stay  *)
(* in the order of their column (WordsInTurn, MergedKept); a table's rows  *)
(* have the words whose center is there, these and all of these, so a      *)
(* large one is not left over (CenterTouches, WordRowsHold, MixedReadOnce).*)
(*                                                                         *)
(* Last the parser of tables: there is a placement of the cells read so    *)
(* far, each at its first column, that the rows show and the pending       *)
(* columns owe (BetweenRows, WithinRow); every tag extends it (OpensRow,   *)
(* EndsCell, ClosesRow).                                                   *)
(***************************************************************************)
EXTENDS ExtractionProofs

-----------------------------------------------------------------------------
(* Letters of a text. *)

\* Nothing is kept of nothing.
LEMMA OnlyNone == ASSUME NEW s PROVE Only(s, {}) = <<>>
<1>1. Cardinality({}) = 0
  BY FS_EmptySet
<1> QED BY <1>1 DEF Only

\* s and t have the same elements at the indices in keep
Agree(s, t, n, keep) ==
    n \in Nat /\ keep \subseteq 1..n /\ \A i \in keep : s[i] = t[i]
\* What is kept depends on nothing else.
LEMMA OnlySame ==
    ASSUME NEW n, NEW s, NEW t, NEW keep, Agree(s, t, n, keep)
    PROVE  Only(s, keep) = Only(t, keep)
<1>0. n \in Nat /\ keep \in SUBSET (1..n)
  BY DEF Agree
<1> DEFINE a == Only(s, keep)
           b == Only(t, keep)
<1>1. Enumerates(a, s, keep) /\ Enumerates(b, t, keep)
  BY <1>0, OnlyRanks
<1> HIDE DEF a, b
<1>2. ASSUME NEW k \in 1..Cardinality(keep) PROVE a[k] = b[k]
  <2>1. PICK i \in keep : Rank(keep, i) = k /\ a[k] = s[i]
    BY <1>1 DEF Enumerates
  <2>2. b[Rank(keep, i)] = t[i]
    BY <1>1 DEF Enumerates
  <2> QED BY <2>1, <2>2 DEF Agree
<1>3. a = b
  <2>1. a = [k \in 1..Cardinality(keep) |-> a[k]] /\ b = [k \in 1..Cardinality(keep) |-> b[k]]
    BY <1>1 DEF Enumerates
  <2> QED BY <2>1, <1>2
<1> QED BY <1>3 DEF a, b

\* A sequence with one more element, by index.
LEMMA Appended ==
    ASSUME NEW B, NEW a \in Seq(B), NEW e \in B
    PROVE  Append(a, e) = [k \in 1..(Len(a) + 1) |-> IF k = Len(a) + 1 THEN e ELSE a[k]]
<1>1. /\ DOMAIN Append(a, e) = 1..(Len(a) + 1) /\ Len(a) \in Nat
      /\ \A k \in 1..(Len(a) + 1) : Append(a, e)[k] = IF k = Len(a) + 1 THEN e ELSE a[k]
  OBVIOUS
<1> DEFINE t == Append(a, e)
<1>2. t \in Seq(B) /\ Len(t) = Len(a) + 1
  OBVIOUS
<1> HIDE DEF t
<1>3. t = [k \in 1..Len(t) |-> t[k]]
  BY <1>2
<1> QED BY <1>1, <1>2, <1>3 DEF t

\* One more index to keep adds its element at the end.
LEMMA OnlyAppend ==
    ASSUME NEW B, NEW n \in Nat, NEW s, NEW keep \in SUBSET (1..n), \A i \in keep : s[i] \in B,
           s[n + 1] \in B
    PROVE  /\ Only(s, keep) \in Seq(B)
           /\ Only(s, keep \union {n + 1}) = Append(Only(s, keep), s[n + 1])
<1> DEFINE more == keep \union {n + 1}
           a == Only(s, keep)
           b == Only(s, more)
           m == Cardinality(keep)
           e == s[n + 1]
<1>1. n + 1 \in Nat /\ more \in SUBSET (1..(n + 1)) /\ n + 1 \notin keep
  OBVIOUS
<1>2. IsFiniteSet(keep) /\ m \in Nat /\ Cardinality(more) = m + 1
  <2>1. IsFiniteSet(keep) /\ m \in Nat
    BY RanksOf
  <2> QED BY <2>1, <1>1, FS_AddElement
<1>3. /\ \A i \in keep : {j \in more : j <= i} = {j \in keep : j <= i}
      /\ {j \in more : j <= n + 1} = more
  <2>1. \A i \in keep : i \in 1..n
    OBVIOUS
  <2>2. \A i \in keep : ~(n + 1 <= i) /\ i <= n + 1
    BY <2>1
  <2>3. \A j \in more : j \in keep \/ j = n + 1
    OBVIOUS
  <2>4. \A j \in more : j <= n + 1
    BY <2>2, <2>3
  <2> HIDE DEF more
  <2>5. ASSUME NEW i \in keep PROVE {j \in more : j <= i} = {j \in keep : j <= i}
    <3>1. keep \subseteq more
      BY DEF more
    <3> QED BY <2>2, <2>3, <3>1
  <2> QED BY <2>4, <2>5
<1>4. Enumerates(a, s, keep)
  BY OnlyRanks
<1>5. Enumerates(b, s, more)
  <2> HIDE DEF more
  <2> QED BY <1>1, OnlyRanks
<1>6. n + 1 \in more /\ keep \subseteq more
  OBVIOUS
<1> HIDE DEF a, b
<1>7. b[m + 1] = e
  <2>1. Rank(more, n + 1) = m + 1
    BY <1>2, <1>3 DEF Rank
  <2>2. b[Rank(more, n + 1)] = s[n + 1]
    BY <1>5, <1>6 DEF Enumerates
  <2> QED BY <2>1, <2>2
<1>8. ASSUME NEW k \in 1..m PROVE a[k] \in B /\ b[k] = a[k]
  <2>1. PICK i \in keep : Rank(keep, i) = k /\ a[k] = s[i]
    BY <1>4 DEF Enumerates
  <2>2. Rank(more, i) = Rank(keep, i)
    BY <1>3 DEF Rank
  <2>3. b[Rank(more, i)] = s[i]
    BY <1>5, <1>6 DEF Enumerates
  <2> QED BY <2>1, <2>2, <2>3
<1>9. a = [k \in 1..m |-> a[k]] /\ b = [k \in 1..(m + 1) |-> b[k]]
  <2>1. b = [k \in 1..Cardinality(more) |-> b[k]]
    BY <1>5 DEF Enumerates
  <2> QED BY <2>1, <1>2, <1>4 DEF Enumerates
<1> HIDE DEF m
<1>10. a \in Seq(B) /\ Len(a) = m
  <2>1. \A k \in 1..m : a[k] \in B
    BY <1>8
  <2> QED BY <2>1, <1>2, <1>9, IsSequence
<1>11. b = Append(a, e)
  <2>1. e \in B
    OBVIOUS
  <2> HIDE DEF e
  <2>2. Append(a, e) = [k \in 1..(m + 1) |-> IF k = m + 1 THEN e ELSE a[k]]
    BY <2>1, <1>10, Appended
  <2>3. \A k \in 1..(m + 1) : b[k] = IF k = m + 1 THEN e ELSE a[k]
    <3>1. \A k \in 1..(m + 1) : k = m + 1 \/ k \in 1..m
      BY <1>2
    <3> QED BY <3>1, <1>7, <1>8
  <2> QED BY <2>2, <2>3, <1>9
<1> QED BY <1>10, <1>11 DEF a, b

\* A sequence grows from nothing by one element at a time.
LEMMA Growing ==
    ASSUME NEW B, NEW s \in Seq(B)
    PROVE  /\ SubSeq(s, 1, 0) = <<>> /\ SubSeq(s, 1, Len(s)) = s
           /\ \A k \in 0..Len(s) : SubSeq(s, 1, k) \in Seq(B) /\ Len(SubSeq(s, 1, k)) = k
           /\ \A k \in 0..(Len(s) - 1) :
                  s[k + 1] \in B /\ SubSeq(s, 1, k + 1) = Append(SubSeq(s, 1, k), s[k + 1])
OBVIOUS

\* An element at the end of one sequence is at the end of two of them.
LEMMA AppendJoined ==
    ASSUME NEW B, NEW s \in Seq(B), NEW t \in Seq(B), NEW e \in B
    PROVE  s \o Append(t, e) = Append(s \o t, e)
OBVIOUS

\* The letters of a text grow by its next character, unless that is a space.
LEMMA LettersStep ==
    ASSUME NEW C, NEW n \in Nat, NEW s, NEW t, DOMAIN s = 1..n, DOMAIN t = 1..(n + 1),
           Agree(s, t, n, 1..n), \A i \in 1..(n + 1) : t[i] \in C
    PROVE  /\ Letters(s) \in Seq(C)
           /\ Letters(t) = IF IsSpace(t[n + 1]) THEN Letters(s)
                           ELSE Append(Letters(s), t[n + 1])
<1> DEFINE keep == {i \in 1..n : ~IsSpace(s[i])}
           more == {i \in 1..(n + 1) : ~IsSpace(t[i])}
<1>1. Letters(s) = Only(s, keep) /\ Letters(t) = Only(t, more)
  BY DEF Letters
<1>2. keep \in SUBSET (1..n) /\ \A i \in keep : s[i] = t[i] /\ t[i] \in C
  BY DEF Agree
<1>3. more = IF IsSpace(t[n + 1]) THEN keep ELSE keep \union {n + 1}
  <2>1. \A i \in 1..n : s[i] = t[i]
    BY DEF Agree
  <2>2. \A i : i \in 1..(n + 1) <=> i \in 1..n \/ i = n + 1
    OBVIOUS
  <2> QED BY <2>1, <2>2
<1> HIDE DEF keep, more
<1>4. Only(s, keep) = Only(t, keep)
  <2>1. Agree(s, t, n, keep)
    BY <1>2 DEF Agree
  <2> QED BY <2>1, OnlySame
<1>5. /\ Only(t, keep) \in Seq(C)
      /\ Only(t, keep \union {n + 1}) = Append(Only(t, keep), t[n + 1])
  <2>1. t[n + 1] \in C
    OBVIOUS
  <2>2. keep \in SUBSET (1..n)
    BY <1>2
  <2>3. \A i \in keep : t[i] \in C
    BY <1>2
  <2> QED BY <2>1, <2>2, <2>3, OnlyAppend
<1> QED BY <1>1, <1>3, <1>4, <1>5

\* The same with Append.
LEMMA LettersAppend ==
    ASSUME NEW C, NEW s \in Seq(C), NEW c \in C
    PROVE  /\ Letters(s) \in Seq(C)
           /\ Letters(Append(s, c)) = IF IsSpace(c) THEN Letters(s) ELSE Append(Letters(s), c)
<1> DEFINE n == Len(s)
           t == Append(s, c)
<1>1. n \in Nat /\ DOMAIN s = 1..n /\ DOMAIN t = 1..(n + 1) /\ t[n + 1] = c
  OBVIOUS
<1>2. \A i \in 1..n : s[i] = t[i] /\ t[i] \in C
  OBVIOUS
<1> HIDE DEF t, n
<1>3. \A i \in 1..(n + 1) : t[i] \in C
  <2>1. \A i \in 1..(n + 1) : i \in 1..n \/ i = n + 1
    BY <1>1
  <2> QED BY <1>1, <1>2, <2>1
<1>4. Agree(s, t, n, 1..n)
  BY <1>1, <1>2 DEF Agree
<1>5. /\ Letters(s) \in Seq(C)
      /\ Letters(t) = IF IsSpace(t[n + 1]) THEN Letters(s) ELSE Append(Letters(s), t[n + 1])
  BY <1>1, <1>3, <1>4, LettersStep
<1> QED BY <1>1, <1>5 DEF t

\* A text without characters has no letters,
LEMMA LettersNone == Letters(<<>>) = <<>>
<1>1. {i \in DOMAIN <<>> : ~IsSpace(<<>>[i])} = {}
  OBVIOUS
<1> QED BY <1>1, OnlyNone DEF Letters

\* and two texts, one after the other, have the letters of both.
LEMMA LettersJoin ==
    ASSUME NEW C, NEW s \in Seq(C), NEW t \in Seq(C)
    PROVE  Letters(s \o t) = Letters(s) \o Letters(t)
<1> DEFINE Part(k) == SubSeq(t, 1, k)
           Ok == {k \in Nat : k <= Len(t) => Letters(s \o Part(k)) = Letters(s) \o Letters(Part(k))}
<1>1. 0 \in Ok
  <2>1. Part(0) = <<>> /\ s \o <<>> = s
    BY Growing, ConcatEmptySeq
  <2>2. Letters(s) \o <<>> = Letters(s)
    <3>1. \A c \in C : Letters(s) \in Seq(C)
      BY LettersAppend
    <3>2. CASE C = {}
      <4>1. s = <<>>
        BY <3>2
      <4> QED BY <4>1, LettersNone
    <3>3. CASE C # {}
      BY <3>1, <3>3
    <3> QED BY <3>2, <3>3
  <2> QED BY <2>1, <2>2, LettersNone
<1>2. ASSUME NEW k \in Nat, k \in Ok PROVE k + 1 \in Ok
  <2> SUFFICES ASSUME k + 1 <= Len(t)
               PROVE  Letters(s \o Part(k + 1)) = Letters(s) \o Letters(Part(k + 1))
    OBVIOUS
  <2> DEFINE c == t[k + 1]
             u == Part(k)
  <2>1. c \in C /\ u \in Seq(C) /\ Part(k + 1) = Append(u, c) /\ s \o u \in Seq(C)
    <3>1. k \in 0..(Len(t) - 1) /\ k \in 0..Len(t)
      OBVIOUS
    <3> QED BY <3>1, Growing
  <2>2. Letters(s \o u) = Letters(s) \o Letters(u)
    BY <1>2
  <2> HIDE DEF c, u, Part
  <2>3. s \o Append(u, c) = Append(s \o u, c)
    BY <2>1, AppendJoined
  <2>4. /\ Letters(s \o u) \in Seq(C) /\ Letters(u) \in Seq(C) /\ Letters(s) \in Seq(C)
        /\ Letters(Append(s \o u, c)) =
               IF IsSpace(c) THEN Letters(s \o u) ELSE Append(Letters(s \o u), c)
        /\ Letters(Append(u, c)) = IF IsSpace(c) THEN Letters(u) ELSE Append(Letters(u), c)
    BY <2>1, LettersAppend
  <2>5. Letters(s) \o Append(Letters(u), c) = Append(Letters(s) \o Letters(u), c)
    <3> DEFINE x == Letters(s)
               y == Letters(u)
    <3>1. x \in Seq(C) /\ y \in Seq(C)
      BY <2>4
    <3> HIDE DEF x, y
    <3>2. x \o Append(y, c) = Append(x \o y, c)
      BY <2>1, <3>1, AppendJoined
    <3> QED BY <3>2 DEF x, y
  <2> QED BY <2>1, <2>2, <2>3, <2>4, <2>5
<1>3. Len(t) \in Nat /\ Part(Len(t)) = t
  BY Growing
<1>4. Len(t) \in Ok
  <2> HIDE DEF Ok
  <2> QED BY <1>1, <1>2, <1>3, Induction
<1> HIDE DEF Part
<1> QED BY <1>3, <1>4

\* Integers up to some bound have a largest one.
LEMMA Largest ==
    ASSUME NEW T \in SUBSET Int, NEW i \in T, NEW b \in Int, \A e \in T : e <= b
    PROVE  \E x \in T : \A y \in T : y <= x
<1> DEFINE U == {b - e : e \in T}
<1>1. U \in SUBSET Nat /\ b - i \in U
  OBVIOUS
<1>2. PICK y \in U : \A z \in U : y <= z
  <2> HIDE DEF U
  <2> QED BY <1>1, Least
<1>3. PICK x \in T : y = b - x
  BY <1>2
<1>4. ASSUME NEW z \in T PROVE z <= x
  <2>1. b - x <= b - z
    BY <1>2, <1>3
  <2> QED BY <2>1
<1> QED BY <1>4

\* A text has no letters when it is all spaces.
LEMMA LettersOfSpaces ==
    ASSUME NEW C, NEW s \in Seq(C)
    PROVE  Letters(s) = <<>> <=> \A i \in DOMAIN s : IsSpace(s[i])
<1> DEFINE n == Len(s)
           keep == {i \in 1..n : ~IsSpace(s[i])}
<1>1. n \in Nat /\ DOMAIN s = 1..n
  OBVIOUS
<1>2. Letters(s) = Only(s, keep)
  BY <1>1 DEF Letters
<1> HIDE DEF n
<1>3. ASSUME keep = {} PROVE Letters(s) = <<>>
  BY <1>2, <1>3, OnlyNone
<1>4. ASSUME Letters(s) = <<>> PROVE keep = {}
  <2>1. keep \in SUBSET (1..n)
    OBVIOUS
  <2> HIDE DEF keep
  <2>2. IsFiniteSet(keep)
    BY <1>1, <2>1, RanksOf
  <2>3. Only(s, keep) = <<>> /\ DOMAIN Only(s, keep) = 1..Cardinality(keep)
        /\ Cardinality(keep) \in Nat
    BY <1>1, <1>2, <1>4, <2>1, OnlyDomain
  <2>4. DOMAIN <<>> = 1..Cardinality(keep)
    BY <2>3
  <2>5. Cardinality(keep) = 0
    <3>1. 1 \notin 1..Cardinality(keep)
      BY <2>4
    <3> QED BY <2>3, <3>1
  <2> QED BY <2>2, <2>5, FS_EmptySet
<1> QED BY <1>1, <1>3, <1>4

\* line says of 1..n what chars does, but for which space a space is, and keep has the letters.
Respaces(line, chars, keep, n, C) ==
    /\ keep \subseteq 1..n
    /\ \A i \in 1..n : /\ line[i] \in C
                       /\ IsSpace(line[i]) <=> IsSpace(chars[i])
                       /\ ~IsSpace(chars[i]) => line[i] = chars[i] /\ i \in keep

\* So what is kept of it has the letters of chars.
LEMMA LettersKept ==
    ASSUME NEW C, NEW chars \in Seq(C), NEW line, NEW keep,
           Respaces(line, chars, keep, Len(chars), C)
    PROVE  Only(line, keep) \in Seq(C) /\ Letters(Only(line, keep)) = Letters(chars)
<1> DEFINE n == Len(chars)
           In(m) == keep \cap (1..m)
           Part(m) == SubSeq(chars, 1, m)
           Ok == {m \in Nat : m <= n => /\ Only(line, In(m)) \in Seq(C)
                                        /\ Letters(Only(line, In(m))) = Letters(Part(m))}
<1>1. n \in Nat
  OBVIOUS
<1>2. 0 \in Ok
  <2>1. In(0) = {} /\ Part(0) = <<>>
    BY Growing
  <2>2. Only(line, {}) = <<>> /\ <<>> \in Seq(C)
    BY OnlyNone
  <2> HIDE DEF In, Part
  <2> QED BY <2>1, <2>2
<1>3. ASSUME NEW m \in Nat, m \in Ok PROVE m + 1 \in Ok
  <2> SUFFICES ASSUME m + 1 <= n
               PROVE  /\ Only(line, In(m + 1)) \in Seq(C)
                      /\ Letters(Only(line, In(m + 1))) = Letters(Part(m + 1))
    OBVIOUS
  <2> DEFINE c == chars[m + 1]
             u == Only(line, In(m))
             d == line[m + 1]
             v == Part(m)
  <2>1. m + 1 \in 1..n
    BY <1>1
  <2>2. c \in C /\ v \in Seq(C) /\ Part(m + 1) = Append(v, c)
    <3>1. m \in 0..(Len(chars) - 1) /\ m \in 0..Len(chars)
      OBVIOUS
    <3> QED BY <3>1, Growing
  <2>3. u \in Seq(C) /\ Letters(u) = Letters(v)
    BY <1>3
  <2>4. /\ d \in C /\ (IsSpace(d) <=> IsSpace(c))
        /\ ~IsSpace(c) => d = c /\ m + 1 \in keep
    BY <2>1 DEF Respaces
  <2>5. m + 1 \in keep => Only(line, In(m + 1)) = Append(u, d)
    <3>1. In(m) \in SUBSET (1..m) /\ \A i \in In(m) : line[i] \in C
      BY <1>1 DEF Respaces
    <3>2. m + 1 \in keep => In(m + 1) = In(m) \union {m + 1}
      OBVIOUS
    <3> HIDE DEF In
    <3>3. Only(line, In(m) \union {m + 1}) = Append(Only(line, In(m)), line[m + 1])
      <4>1. In(m) \in SUBSET (1..m)
        BY <3>1
      <4>2. \A i \in In(m) : line[i] \in C
        BY <3>1
      <4>3. line[m + 1] \in C
        BY <2>4
      <4> QED BY <4>1, <4>2, <4>3, OnlyAppend
    <3> QED BY <3>2, <3>3
  <2>6. m + 1 \notin keep => Only(line, In(m + 1)) = u
    <3>1. m + 1 \notin keep => In(m + 1) = In(m)
      OBVIOUS
    <3> HIDE DEF In
    <3> QED BY <3>1
  <2> HIDE DEF c, u, d, v, In, Part
  <2>7. /\ Letters(Append(v, c)) = IF IsSpace(c) THEN Letters(v) ELSE Append(Letters(v), c)
        /\ Letters(Append(u, d)) = IF IsSpace(d) THEN Letters(u) ELSE Append(Letters(u), d)
    BY <2>2, <2>3, <2>4, LettersAppend
  <2>8. Append(u, d) \in Seq(C)
    BY <2>3, <2>4
  <2> QED BY <2>2, <2>3, <2>4, <2>5, <2>6, <2>7, <2>8
<1>4. n \in Ok
  <2> HIDE DEF Ok
  <2> QED BY <1>1, <1>2, <1>3, Induction
<1>5. In(n) = keep /\ Part(n) = chars
  <2>1. In(n) = keep
    BY DEF Respaces
  <2> QED BY <2>1, Growing
<1> HIDE DEF In, Part
<1> QED BY <1>1, <1>4, <1>5

\* characters that separate the words that are joined
HasSpaces(C) == " " \in C /\ "/" \in C

\* Normalizing keeps the letters, and leaves nothing only of spaces.
LEMMA NormalizeKeeps ==
    ASSUME NEW C, NEW chars \in Seq(C), HasSpaces(C)
    PROVE  /\ NormalizeText(chars) \in Seq(C)
           /\ Letters(NormalizeText(chars)) = Letters(chars)
           /\ NormalizeText(chars) = <<>> <=> Letters(chars) = <<>>
<1>4. /\ Len(chars) \in Nat /\ DOMAIN chars = 1..Len(chars)
      /\ \A i \in 1..Len(chars) : chars[i] \in C
  OBVIOUS
<1> DEFINE n == Len(chars)
           ends(i) == {j \in (i + 1)..Len(chars) : ~IsSpace(chars[j])}
           keep == {i \in DOMAIN chars : ~IsSpace(chars[i])
                       \/ (i > 1 /\ ~IsSpace(chars[i - 1]) /\ ends(i) # {})}
           line == [i \in DOMAIN chars |->
                       IF i \in keep /\ IsSpace(chars[i])
                          /\ \E j \in i..(First(ends(i)) - 1) : chars[j] = "/"
                       THEN "/" ELSE IF IsSpace(chars[i]) THEN " " ELSE chars[i]]
<1>1. NormalizeText(chars) = Only(line, keep)
  BY DEF NormalizeText
<1>2. Respaces(line, chars, keep, n, C)
  <2>1. keep \subseteq 1..n
    <3>1. keep \subseteq DOMAIN chars
      OBVIOUS
    <3> HIDE DEF keep
    <3> QED BY <1>4, <3>1
  <2>2. ASSUME NEW i \in 1..n
        PROVE  /\ line[i] \in C
               /\ IsSpace(line[i]) <=> IsSpace(chars[i])
               /\ ~IsSpace(chars[i]) => line[i] = chars[i] /\ i \in keep
    <3>1. chars[i] \in C /\ i \in DOMAIN chars
      <4> HIDE DEF keep, line, ends
      <4> QED BY <1>4
    <3>2. IsSpace(" ") /\ IsSpace("/")
      BY DEF IsSpace
    <3>3. line[i] \in {" ", "/", chars[i]} /\ (IsSpace(chars[i]) => line[i] \in {" ", "/"})
      BY <3>1
    <3>4. ~IsSpace(chars[i]) => line[i] = chars[i] /\ i \in keep
      BY <3>1
    <3>5. " " \in C /\ "/" \in C
      BY DEF HasSpaces
    <3> HIDE DEF line, keep
    <3> QED BY <3>1, <3>2, <3>3, <3>4, <3>5
  <2> HIDE DEF line, keep
  <2> QED BY <2>1, <2>2 DEF Respaces
<1>3. ASSUME NEW i \in keep PROVE \E j \in DOMAIN chars : ~IsSpace(chars[j])
  <2>1. CASE ~IsSpace(chars[i])
    BY <2>1
  <2>2. CASE ends(i) # {}
    <3>1. PICK j \in ends(i) : TRUE
      BY <2>2
    <3>2. j \in (i + 1)..Len(chars) /\ ~IsSpace(chars[j]) /\ i \in DOMAIN chars
      BY <3>1
    <3>3. j \in DOMAIN chars
      <4>1. i \in 1..n /\ j \in (i + 1)..n /\ n \in Nat
        BY <1>4, <3>2
      <4> HIDE DEF keep, line, ends, n
      <4>2. j \in 1..n
        BY <4>1
      <4> QED BY <1>4, <4>2 DEF n
    <3> QED BY <3>2, <3>3
  <2> QED BY <2>1, <2>2
<1> HIDE DEF keep, line
<1>7. Only(line, keep) \in Seq(C) /\ Letters(Only(line, keep)) = Letters(chars)
  BY <1>2, LettersKept DEF n
<1>8. ASSUME Letters(chars) = <<>> PROVE Only(line, keep) = <<>>
  <2>1. \A i \in DOMAIN chars : IsSpace(chars[i])
    BY <1>8, LettersOfSpaces
  <2>2. keep = {}
    BY <2>1, <1>3
  <2> QED BY <2>2, OnlyNone
<1>9. ASSUME Only(line, keep) = <<>> PROVE Letters(chars) = <<>>
  BY <1>7, <1>9, LettersNone
<1> QED BY <1>1, <1>7, <1>8, <1>9

\* s is a, b and c, texts over C, one after the other
InThree(s, a, b, c, C) ==
    /\ a \in Seq(C) /\ b \in Seq(C) /\ c \in Seq(C) /\ Len(b) <= Len(s)
    /\ s = (a \o b) \o c
\* A sequence is what comes before, in and after a part of it.
LEMMA CutInThree ==
    ASSUME NEW C, NEW s \in Seq(C), NEW f \in 1..Len(s), NEW l \in 1..Len(s), f <= l
    PROVE  InThree(s, SubSeq(s, 1, f - 1), SubSeq(s, f, l), SubSeq(s, l + 1, Len(s)), C)
<1>1. /\ SubSeq(s, 1, f - 1) \in Seq(C) /\ SubSeq(s, f, l) \in Seq(C)
      /\ SubSeq(s, l + 1, Len(s)) \in Seq(C) /\ Len(SubSeq(s, f, l)) <= Len(s)
  OBVIOUS
<1> DEFINE n == Len(s)
           g == f - 1
<1>2. n \in Nat /\ g \in 0..n /\ l \in g..n /\ l \in 0..n /\ f = g + 1
  OBVIOUS
<1>3. SubSeq(s, 1, g) \o SubSeq(s, g + 1, l) = SubSeq(s, 1, l)
  <2>1. 1 \in 1..(n + 1) /\ g \in (1 - 1)..n /\ l \in g..n
    BY <1>2
  <2> HIDE DEF g
  <2> QED BY <2>1, ConcatAdjacentSubSeq
<1>4. SubSeq(s, 1, l) \o SubSeq(s, l + 1, n) = SubSeq(s, 1, n)
  <2>1. 1 \in 1..(n + 1) /\ l \in (1 - 1)..n /\ n \in l..n
    BY <1>2
  <2> QED BY <2>1, ConcatAdjacentSubSeq
<1>5. SubSeq(s, 1, n) = s
  BY SubSeqFull
<1> HIDE DEF g, n
<1> QED BY <1>1, <1>2, <1>3, <1>4, <1>5 DEF n, g, InThree

\* So does cutting the spaces off at both ends.
LEMMA StripKeeps ==
    ASSUME NEW C, NEW chars \in Seq(C)
    PROVE  /\ Strip(chars) \in Seq(C) /\ Len(Strip(chars)) <= Len(chars)
           /\ Letters(Strip(chars)) = Letters(chars)
<1> DEFINE n == Len(chars)
           solid == {i \in DOMAIN chars : ~IsSpace(chars[i])}
           f == First(solid)
           l == CHOOSE i \in solid : \A j \in solid : j <= i
<1>1. CASE solid = {}
  <2>1. Strip(chars) = <<>>
    BY <1>1 DEF Strip
  <2>2. Letters(chars) = <<>>
    BY <1>1, LettersOfSpaces
  <2> QED BY <2>1, <2>2, LettersNone
<1>2. CASE solid # {}
  <2>1. n \in Nat /\ solid \in SUBSET (1..n) /\ solid \in SUBSET Nat /\ DOMAIN chars = 1..n
    OBVIOUS
  <2>2. f \in solid /\ \A i \in solid : f <= i
    <3> HIDE DEF solid
    <3> QED BY <1>2, <2>1, Least DEF First
  <2>3. l \in solid /\ \A i \in solid : i <= l
    <3> HIDE DEF solid
    <3>1. PICK i \in solid : TRUE
      BY <1>2
    <3>2. solid \in SUBSET Int /\ n \in Int /\ \A k \in solid : k <= n
      BY <2>1
    <3>3. \E x \in solid : \A y \in solid : y <= x
      BY <3>1, <3>2, Largest
    <3> QED BY <3>3
  <2> HIDE DEF f, l
  <2>4. f \in 1..n /\ l \in 1..n /\ f <= l
    <3>1. f <= l
      BY <2>2, <2>3
    <3> QED BY <2>1, <2>2, <2>3, <3>1
  <2> DEFINE a == SubSeq(chars, 1, f - 1)
             b == SubSeq(chars, f, l)
             d == SubSeq(chars, l + 1, n)
  <2>5. Strip(chars) = b
    BY <1>2 DEF Strip, f, l
  <2>6. /\ a \in Seq(C) /\ b \in Seq(C) /\ d \in Seq(C) /\ Len(b) <= n
        /\ chars = (a \o b) \o d
    <3> HIDE DEF solid
    <3>1. f \in 1..Len(chars) /\ l \in 1..Len(chars) /\ f <= l
      BY <2>4
    <3>2. InThree(chars, a, b, d, C)
      BY <3>1, CutInThree
    <3> HIDE DEF a, b, d
    <3> QED BY <3>2 DEF InThree
  <2>7. \A i \in DOMAIN a : IsSpace(a[i])
    <3>1. \A i \in DOMAIN a : i \in 1..n /\ i < f /\ a[i] = chars[i]
      BY <2>4
    <3>2. \A i \in 1..n : i < f => IsSpace(chars[i])
      <4>1. \A i \in 1..n : i \notin solid => IsSpace(chars[i])
        OBVIOUS
      <4>2. \A i \in 1..n : i < f => ~(f <= i)
        BY <2>4
      <4> HIDE DEF solid
      <4> QED BY <2>2, <4>1, <4>2
    <3> QED BY <3>1, <3>2
  <2>8. \A i \in DOMAIN d : IsSpace(d[i])
    <3>1. \A i \in DOMAIN d : l + i \in 1..n /\ l + i > l /\ d[i] = chars[l + i]
      BY <2>4
    <3>2. \A i \in 1..n : i > l => IsSpace(chars[i])
      <4>1. \A i \in 1..n : i \notin solid => IsSpace(chars[i])
        OBVIOUS
      <4>2. \A i \in 1..n : i > l => ~(i <= l)
        BY <2>4
      <4> HIDE DEF solid
      <4> QED BY <2>3, <4>1, <4>2
    <3> QED BY <3>1, <3>2
  <2> HIDE DEF a, b, d, n, solid
  <2>9. Letters(a) = <<>> /\ Letters(d) = <<>>
    BY <2>6, <2>7, <2>8, LettersOfSpaces
  <2>10. /\ a \o b \in Seq(C)
         /\ Letters((a \o b) \o d) = Letters(a \o b) \o Letters(d)
         /\ Letters(a \o b) = Letters(a) \o Letters(b)
    <3>1. a \o b \in Seq(C)
      BY <2>6
    <3> QED BY <2>6, <3>1, LettersJoin
  <2>11. Letters((a \o b) \o d) = Letters(b)
    <3> DEFINE x == Letters(b)
    <3>1. CASE C = {}
      <4>1. b = <<>>
        BY <2>6, <3>1
      <4> QED BY <4>1, <2>9, <2>10, LettersNone
    <3>2. CASE C # {}
      <4>1. x \in Seq(C)
        BY <2>6, <3>2, LettersAppend
      <4> HIDE DEF x
      <4>2. (<<>> \o x) \o <<>> = x
        BY <4>1
      <4> QED BY <2>9, <2>10, <4>2 DEF x
    <3> QED BY <3>1, <3>2
  <2> QED BY <2>5, <2>6, <2>11 DEF n
<1> QED BY <1>1, <1>2

\* two sequences join to one, and a third joins to either
JoinsInTurn(s, t, u, B) ==
    /\ s \o t \in Seq(B) /\ Len(s \o t) = Len(s) + Len(t)
    /\ (s \o t) \o u = s \o (t \o u)
\* Joining sequences is associative.
LEMMA JoinedInTurn ==
    ASSUME NEW B, NEW s \in Seq(B), NEW t \in Seq(B), NEW u \in Seq(B)
    PROVE  JoinsInTurn(s, t, u, B)
BY ConcatProperties, ConcatAssociative DEF JoinsInTurn

\* The function behind FlattenSeq has the same values for a longer sequence.
LEMMA FlattenSame ==
    ASSUME NEW n, NEW m, NEW s, NEW t, NEW f, NEW g, m \in Nat, n \in 1..m,
           FlattenedBy(f, n, s), FlattenedBy(g, m, t), Agree(s, t, n, 1..n)
    PROVE  f[n] = g[n]
<1> DEFINE Ok == {i \in Nat : i \in 1..n => f[i] = g[i]}
<1>0. n \in Nat /\ n <= m
  OBVIOUS
<1>1. 0 \in Ok
  OBVIOUS
<1>2. ASSUME NEW i \in Nat, i \in Ok PROVE i + 1 \in Ok
  <2> SUFFICES ASSUME i + 1 \in 1..n PROVE f[i + 1] = g[i + 1]
    OBVIOUS
  <2>1. s[i + 1] = t[i + 1]
    BY DEF Agree
  <2>2. f[i + 1] = IF i + 1 = 1 THEN s[i + 1] ELSE f[(i + 1) - 1] \o s[i + 1]
    BY DEF FlattenedBy
  <2>3. g[i + 1] = IF i + 1 = 1 THEN t[i + 1] ELSE g[(i + 1) - 1] \o t[i + 1]
    <3>1. i + 1 \in 1..m
      BY <1>0
    <3> QED BY <3>1 DEF FlattenedBy
  <2>4. (i + 1) - 1 = i /\ (i + 1 # 1 => i \in 1..n)
    BY <1>0
  <2>5. i + 1 # 1 => f[i] = g[i]
    BY <1>2, <2>4
  <2> QED BY <2>1, <2>2, <2>3, <2>4, <2>5
<1>3. n \in Ok
  <2> HIDE DEF Ok
  <2> QED BY <1>0, <1>1, <1>2, Induction
<1> QED BY <1>0, <1>3

\* Nothing flattens to nothing.
LEMMA FlattenNone == FlattenSeq(<<>>) = <<>>
BY DEF FlattenSeq

\* One more sequence comes after the others.
LEMMA FlattenAppend ==
    ASSUME NEW D, NEW ss \in Seq(Seq(D)), NEW x \in Seq(D)
    PROVE  FlattenSeq(Append(ss, x)) = FlattenSeq(ss) \o x
<1> DEFINE n == Len(ss)
           tt == Append(ss, x)
<1>1. /\ n \in Nat /\ Len(tt) = n + 1 /\ tt[n + 1] = x /\ n + 1 \in Nat \ {0}
      /\ \A i \in 1..n : ss[i] = tt[i]
  OBVIOUS
<1>2. CASE n = 0
  <2>1. ss = <<>>
    BY <1>2
  <2> HIDE DEF tt
  <2>2. PICK g : FlattenedBy(g, 1, tt)
    <3>1. Len(tt) = 1 /\ 1 \in Nat \ {0}
      BY <1>1, <1>2
    <3> QED BY <3>1, FlattenSteps
  <2>3. FlattenSeq(tt) = tt[1]
    BY <2>2 DEF FlattenedBy
  <2>4. FlattenSeq(ss) \o x = x
    BY <2>1, FlattenNone, ConcatEmptySeq
  <2> HIDE DEF n
  <2>5. tt[1] = x
    BY <1>1, <1>2
  <2> QED BY <2>3, <2>4, <2>5 DEF tt
<1>3. CASE n # 0
  <2> HIDE DEF tt
  <2>1. PICK g : FlattenedBy(g, n + 1, tt)
    <3>1. Len(tt) = n + 1 /\ n + 1 \in Nat \ {0}
      BY <1>1
    <3> HIDE DEF n
    <3> QED BY <3>1, FlattenSteps
  <2>2. PICK f : FlattenedBy(f, n, ss)
    BY <1>1, <1>3, FlattenSteps
  <2> HIDE DEF n
  <2>3. f[n] = g[n]
    <3>1. n + 1 \in Nat /\ n \in 1..(n + 1)
      BY <1>1, <1>3
    <3>2. Agree(ss, tt, n, 1..n)
      BY <1>1 DEF Agree
    <3> QED BY <3>1, <3>2, <2>1, <2>2, FlattenSame
  <2>4. g[n + 1] = g[n] \o tt[n + 1]
    <3>1. n + 1 \in 1..(n + 1) /\ n + 1 # 1 /\ (n + 1) - 1 = n
      BY <1>1, <1>3
    <3>2. g[n + 1] = IF n + 1 = 1 THEN tt[n + 1] ELSE g[(n + 1) - 1] \o tt[n + 1]
      BY <2>1, <3>1 DEF FlattenedBy
    <3> QED BY <3>1, <3>2
  <2>5. FlattenSeq(tt) = g[n + 1] /\ FlattenSeq(ss) = f[n]
    BY <2>1, <2>2 DEF FlattenedBy
  <2> QED BY <1>1, <2>3, <2>4, <2>5 DEF tt
<1> QED BY <1>2, <1>3

\* Two lists of sequences, one after the other.
LEMMA FlattenJoin ==
    ASSUME NEW D, NEW ss \in Seq(Seq(D)), NEW tt \in Seq(Seq(D))
    PROVE  FlattenSeq(ss \o tt) = FlattenSeq(ss) \o FlattenSeq(tt)
<1> DEFINE Part(k) == SubSeq(tt, 1, k)
           Ok == {k \in Nat : k <= Len(tt) =>
                     FlattenSeq(ss \o Part(k)) = FlattenSeq(ss) \o FlattenSeq(Part(k))}
           B == Seq(D)
<1>0. ss \in Seq(B) /\ tt \in Seq(B) /\ Len(tt) \in Nat
  OBVIOUS
<1>1. 0 \in Ok
  <2> HIDE DEF B
  <2>1. Part(0) = <<>> /\ ss \o <<>> = ss
    BY <1>0, Growing, ConcatEmptySeq
  <2>2. FlattenSeq(ss) \o <<>> = FlattenSeq(ss)
    BY FlattenType, ConcatEmptySeq
  <2> HIDE DEF Part
  <2> QED BY <2>1, <2>2, FlattenNone
<1>2. ASSUME NEW k \in Nat, k \in Ok PROVE k + 1 \in Ok
  <2> SUFFICES ASSUME k + 1 <= Len(tt)
               PROVE  FlattenSeq(ss \o Part(k + 1)) = FlattenSeq(ss) \o FlattenSeq(Part(k + 1))
    OBVIOUS
  <2> DEFINE x == tt[k + 1]
             u == Part(k)
  <2>1. x \in B /\ u \in Seq(B) /\ Part(k + 1) = Append(u, x) /\ ss \o u \in Seq(B)
    <3> HIDE DEF B
    <3>1. k \in 0..(Len(tt) - 1) /\ k \in 0..Len(tt)
      BY <1>0
    <3>2. x \in B /\ u \in Seq(B) /\ Part(k + 1) = Append(u, x)
      BY <1>0, <3>1, Growing
    <3> HIDE DEF u, x
    <3> QED BY <1>0, <3>2
  <2>2. FlattenSeq(ss \o u) = FlattenSeq(ss) \o FlattenSeq(u)
    BY <1>2
  <2> HIDE DEF x, u, Part
  <2>3. ss \o Append(u, x) = Append(ss \o u, x)
    <3>1. ss \in Seq(B) /\ u \in Seq(B) /\ x \in B
      BY <1>0, <2>1
    <3> HIDE DEF B, Ok
    <3> QED BY <3>1, AppendJoined
  <2>4. /\ FlattenSeq(Append(ss \o u, x)) = FlattenSeq(ss \o u) \o x
        /\ FlattenSeq(Append(u, x)) = FlattenSeq(u) \o x
    <3> DEFINE w == ss \o u
    <3>1. w \in Seq(Seq(D)) /\ x \in Seq(D) /\ u \in Seq(Seq(D))
      BY <2>1
    <3> HIDE DEF w
    <3>2. FlattenSeq(Append(w, x)) = FlattenSeq(w) \o x
      BY <3>1, FlattenAppend
    <3>3. FlattenSeq(Append(u, x)) = FlattenSeq(u) \o x
      BY <3>1, FlattenAppend
    <3> QED BY <3>2, <3>3 DEF w
  <2>5. (FlattenSeq(ss) \o FlattenSeq(u)) \o x = FlattenSeq(ss) \o (FlattenSeq(u) \o x)
    <3>1. FlattenSeq(ss) \in Seq(D) /\ FlattenSeq(u) \in Seq(D) /\ x \in Seq(D)
      BY <2>1, FlattenType
    <3> DEFINE a == FlattenSeq(ss)
               b == FlattenSeq(u)
    <3>2. a \in Seq(D)
      BY <3>1
    <3>3. b \in Seq(D)
      BY <3>1
    <3>4. x \in Seq(D)
      BY <3>1
    <3> HIDE DEF a, b
    <3>5. JoinsInTurn(a, b, x, D)
      BY <3>2, <3>3, <3>4, JoinedInTurn
    <3> QED BY <3>5 DEF a, b, JoinsInTurn
  <2> QED BY <2>1, <2>2, <2>3, <2>4, <2>5
<1>3. Part(Len(tt)) = tt
  <2> HIDE DEF B
  <2> QED BY <1>0, Growing
<1>4. Len(tt) \in Ok
  <2> HIDE DEF Ok
  <2> QED BY <1>0, <1>1, <1>2, Induction
<1> HIDE DEF Part
<1> QED BY <1>0, <1>3, <1>4

\* each element of a sequence by its value under F
Mapped(F, s) == [k \in DOMAIN s |-> F[s[k]]]

\* It has their number, and values of F.
LEMMA MappedType ==
    ASSUME NEW A, NEW B, NEW F \in [A -> B], NEW s \in Seq(A)
    PROVE  Mapped(F, s) \in Seq(B) /\ Len(Mapped(F, s)) = Len(s)
<1> DEFINE t == Mapped(F, s)
           n == Len(s)
<1>1. n \in Nat /\ DOMAIN s = 1..n /\ \A k \in 1..n : s[k] \in A
  OBVIOUS
<1>2. t = [k \in 1..n |-> t[k]]
  BY <1>1 DEF Mapped
<1>3. \A k \in 1..n : t[k] \in B
  BY <1>1 DEF Mapped
<1> HIDE DEF t, n
<1>4. t \in Seq(B) /\ Len(t) = n
  BY <1>1, <1>2, <1>3, IsSequence
<1> QED BY <1>4 DEF t, n

\* what a \o b is made of
JoinIndexed(a, b) ==
    /\ DOMAIN (a \o b) = 1..(Len(a) + Len(b))
    /\ \A k \in 1..Len(a) : (a \o b)[k] = a[k]
    /\ \A k \in 1..Len(b) : (a \o b)[Len(a) + k] = b[k]
\* Two sequences, one after the other, keep their elements.
LEMMA JoinByIndex ==
    ASSUME NEW B, NEW a \in Seq(B), NEW b \in Seq(B)
    PROVE  JoinIndexed(a, b)
BY DEF JoinIndexed

\* the values of two sequences, one after the other, are those of each
MapsJoined(F, x, y) == Mapped(F, x \o y) = Mapped(F, x) \o Mapped(F, y)
\* Two sequences, one after the other, can be mapped on their own.
LEMMA MappedJoin ==
    ASSUME NEW A, NEW B, NEW F \in [A -> B], NEW x \in Seq(A), NEW y \in Seq(A)
    PROVE  MapsJoined(F, x, y)
<1> DEFINE n == Len(x)
           m == Len(y)
           a == Mapped(F, x)
           b == Mapped(F, y)
           d == Mapped(F, x \o y)
<1>1. /\ n \in Nat /\ m \in Nat /\ DOMAIN x = 1..n /\ DOMAIN y = 1..m
      /\ DOMAIN (x \o y) = 1..(n + m) /\ x \o y \in Seq(A) /\ Len(x \o y) = n + m
      /\ \A k \in 1..n : (x \o y)[k] = x[k]
      /\ \A k \in 1..m : (x \o y)[n + k] = y[k]
  OBVIOUS
<1>2. /\ \A k \in 1..n : a[k] = F[x[k]]
      /\ \A k \in 1..m : b[k] = F[y[k]]
      /\ \A k \in 1..(n + m) : d[k] = F[(x \o y)[k]]
      /\ d = [k \in 1..(n + m) |-> d[k]]
  BY <1>1 DEF Mapped
<1>3. a \in Seq(B) /\ b \in Seq(B) /\ Len(a) = n /\ Len(b) = m
  BY MappedType
<1> HIDE DEF a, b, d, n, m
<1>4. /\ DOMAIN (a \o b) = 1..(n + m)
      /\ \A k \in 1..n : (a \o b)[k] = a[k]
      /\ \A k \in 1..m : (a \o b)[n + k] = b[k]
  <2>1. JoinIndexed(a, b)
    BY <1>3, JoinByIndex
  <2> QED BY <1>3, <2>1 DEF JoinIndexed
<1>5. a \o b = [k \in 1..(n + m) |-> (a \o b)[k]]
  <2> DEFINE w == a \o b
  <2>1. w \in Seq(B) /\ Len(w) = n + m
    <3>1. JoinsInTurn(a, b, b, B)
      BY <1>3, JoinedInTurn
    <3> QED BY <3>1, <1>3 DEF JoinsInTurn
  <2> HIDE DEF w
  <2>2. w = [k \in 1..Len(w) |-> w[k]]
    BY <2>1
  <2> QED BY <2>1, <2>2 DEF w
<1>6. ASSUME NEW k \in 1..(n + m) PROVE d[k] = (a \o b)[k]
  <2>1. CASE k \in 1..n
    BY <2>1, <1>1, <1>2, <1>4
  <2>2. CASE k \notin 1..n
    <3> DEFINE j == k - n
    <3>1. j \in 1..m /\ k = n + j
      BY <1>1, <2>2
    <3> HIDE DEF j
    <3>2. d[n + j] = F[(x \o y)[n + j]] /\ n + j \in 1..(n + m)
      BY <3>1, <1>2
    <3>3. (x \o y)[n + j] = y[j]
      BY <3>1, <1>1
    <3>4. (a \o b)[n + j] = b[j] /\ b[j] = F[y[j]]
      BY <3>1, <1>2, <1>4
    <3> QED BY <3>1, <3>2, <3>3, <3>4
  <2> QED BY <2>1, <2>2
<1>7. d = a \o b
  BY <1>2, <1>5, <1>6
<1> QED BY <1>7 DEF a, b, d, MapsJoined

-----------------------------------------------------------------------------
(* Lists of pieces of text. *)

\* the letters of a list of pieces, each with its section
Item(C) == [section : Int, chars : Seq(C)]
Tags(items) == [k \in DOMAIN items |-> Tagged(items[k].section, items[k].chars)]
Spelled(items) == FlattenSeq(Tags(items))
Letter(C) == Int \X C

\* The letters of a text are a text.
LEMMA LettersType ==
    ASSUME NEW C, NEW s \in Seq(C)
    PROVE  Letters(s) \in Seq(C)
<1>1. CASE C = {}
  <2>1. s = <<>>
    BY <1>1
  <2> QED BY <2>1, LettersNone
<1>2. CASE C # {}
  BY <1>2, LettersAppend
<1> QED BY <1>1, <1>2

\* The letters of a piece are a sequence, and those of two pieces follow each other.
LEMMA TaggedJoin ==
    ASSUME NEW C, NEW sec \in Int, NEW s \in Seq(C), NEW t \in Seq(C)
    PROVE  /\ Tagged(sec, s) \in Seq(Letter(C))
           /\ Tagged(sec, s \o t) = Tagged(sec, s) \o Tagged(sec, t)
<1> DEFINE x == Letters(s)
           y == Letters(t)
           F == [c \in C |-> <<sec, c>>]
           B == Letter(C)
<1>1. x \in Seq(C) /\ y \in Seq(C) /\ F \in [C -> B]
  BY LettersType DEF Letter
<1>2. Letters(s \o t) = x \o y
  BY LettersJoin
<1>3. \A z \in Seq(C) : [k \in DOMAIN z |-> <<sec, z[k]>>] = Mapped(F, z)
  BY DEF Mapped
<1>4. Tagged(sec, s) = Mapped(F, x) /\ Tagged(sec, t) = Mapped(F, y)
  BY <1>1, <1>3 DEF Tagged
<1>5. Tagged(sec, s \o t) = Mapped(F, x \o y)
  <2>1. x \o y \in Seq(C)
    <3> HIDE DEF x, y
    <3> QED BY <1>1
  <2> QED BY <1>2, <1>3, <2>1 DEF Tagged
<1> HIDE DEF x, y, F, B
<1>6. Mapped(F, x) \in Seq(B)
  BY <1>1, MappedType
<1>7. MapsJoined(F, x, y)
  BY <1>1, MappedJoin
<1> QED BY <1>4, <1>5, <1>6, <1>7 DEF B, MapsJoined

\* A list of pieces spells what its pieces do.
LEMMA SpelledJoin ==
    ASSUME NEW C, NEW s \in Seq(Item(C)), NEW t \in Seq(Item(C))
    PROVE  /\ Spelled(s) \in Seq(Letter(C))
           /\ Spelled(s \o t) = Spelled(s) \o Spelled(t)
<1> DEFINE F == [i \in Item(C) |-> Tagged(i.section, i.chars)]
           B == Seq(Letter(C))
<1>1. F \in [Item(C) -> B]
  <2>1. \A i \in Item(C) : Tagged(i.section, i.chars) \in B
    BY TaggedJoin DEF Item
  <2> HIDE DEF B
  <2> QED BY <2>1
<1>2. \A z \in Seq(Item(C)) : Tags(z) = Mapped(F, z)
  <2> TAKE z \in Seq(Item(C))
  <2>1. \A k \in DOMAIN z : F[z[k]] = Tagged(z[k].section, z[k].chars)
    OBVIOUS
  <2> HIDE DEF F
  <2> QED BY <2>1 DEF Tags, Mapped
<1>3. s \o t \in Seq(Item(C))
  OBVIOUS
<1>4. Tags(s) = Mapped(F, s) /\ Tags(t) = Mapped(F, t) /\ Tags(s \o t) = Mapped(F, s \o t)
  <2> HIDE DEF F
  <2> QED BY <1>2, <1>3
<1> HIDE DEF F, B
<1>5. Mapped(F, s) \in Seq(B) /\ Mapped(F, t) \in Seq(B)
  BY <1>1, MappedType
<1>6. MapsJoined(F, s, t)
  BY <1>1, MappedJoin
<1> DEFINE a == Mapped(F, s)
           b == Mapped(F, t)
<1>7. a \in Seq(B) /\ b \in Seq(B)
  BY <1>5
<1> HIDE DEF a, b
<1>8. FlattenSeq(a) \in B
  BY <1>7, FlattenType DEF B
<1>9. FlattenSeq(a \o b) = FlattenSeq(a) \o FlattenSeq(b)
  BY <1>7, FlattenJoin DEF B
<1> QED BY <1>4, <1>6, <1>8, <1>9 DEF a, b, B, Spelled, MapsJoined

\* Nothing spells nothing, and one piece its letters.
LEMMA SpelledOne ==
    ASSUME NEW C, NEW i \in Item(C)
    PROVE  Spelled(<<>>) = <<>> /\ Spelled(<<i>>) = Tagged(i.section, i.chars)
<1>1. Tags(<<>>) = <<>>
  BY DEF Tags
<1>2. Tags(<<i>>) = <<Tagged(i.section, i.chars)>>
  BY DEF Tags
<1> DEFINE x == Tagged(i.section, i.chars)
           D == Letter(C)
<1>3. x \in Seq(D)
  BY TaggedJoin DEF Item
<1> HIDE DEF x, D
<1>4. FlattenSeq(Append(<<>>, x)) = FlattenSeq(<<>>) \o x
  <2>1. <<>> \in Seq(Seq(D))
    OBVIOUS
  <2> QED BY <1>3, <2>1, FlattenAppend
<1>5. Append(<<>>, x) = <<x>>
  OBVIOUS
<1>6. <<>> \o x = x
  BY <1>3, ConcatEmptySeq
<1> QED BY <1>1, <1>2, <1>4, <1>5, <1>6, FlattenNone DEF Spelled, x

\* one more piece spells its letters, behind those of the others
SpellsOne(s, i) == Spelled(Append(s, i)) = Spelled(s) \o Tagged(i.section, i.chars)
\* One more piece adds its letters.
LEMMA SpelledAppend ==
    ASSUME NEW C, NEW s \in Seq(Item(C)), NEW i \in Item(C)
    PROVE  SpellsOne(s, i)
<1>1. Append(s, i) = s \o <<i>>
  BY AppendIsConcat
<1> DEFINE t == <<i>>
<1>2. t \in Seq(Item(C))
  OBVIOUS
<1>3. Spelled(t) = Tagged(i.section, i.chars)
  BY SpelledOne
<1> HIDE DEF t
<1>4. Spelled(s \o t) = Spelled(s) \o Spelled(t)
  BY <1>2, SpelledJoin
<1> QED BY <1>1, <1>3, <1>4 DEF SpellsOne, t

\* the elements of s but its last
AllButLast(s) == SubSeq(s, 1, Len(s) - 1)
LastReplaced(s, e) == [s EXCEPT ![Len(s)] = e] = Append(AllButLast(s), e)
\* A sequence with its last element replaced.
LEMMA ReplacedLast ==
    ASSUME NEW B, NEW s \in Seq(B), s # <<>>, NEW e \in B
    PROVE  /\ AllButLast(s) \in Seq(B) /\ s[Len(s)] \in B
           /\ s = Append(AllButLast(s), s[Len(s)]) /\ LastReplaced(s, e)
<1> DEFINE n == Len(s)
           u == SubSeq(s, 1, n - 1)
           t == [s EXCEPT ![n] = e]
           r == Append(u, e)
<1>1. n \in Nat \ {0} /\ DOMAIN s = 1..n /\ s[n] \in B
  OBVIOUS
<1>3. s = Append(u, s[n])
  OBVIOUS
<1>2. u \in Seq(B) /\ Len(u) = n - 1 /\ \A k \in 1..(n - 1) : u[k] = s[k]
  <2> HIDE DEF t, r
  <2>1. 1 \in Int /\ n - 1 \in Int /\ \A k \in 1..(n - 1) : s[k] \in B
    BY <1>1
  <2> HIDE DEF n
  <2> QED BY <1>1, <2>1, SubSeqProperties
<1>4. t = [k \in 1..n |-> t[k]] /\ t[n] = e /\ \A k \in 1..(n - 1) : t[k] = s[k]
  <2> HIDE DEF n, r, u
  <2>1. \A k \in 1..(n - 1) : k \in 1..n /\ k # n
    BY <1>1
  <2>2. DOMAIN t = 1..n /\ t[n] = e /\ \A k \in 1..n : k # n => t[k] = s[k]
    BY <1>1
  <2>3. t = [k \in DOMAIN t |-> t[k]]
    OBVIOUS
  <2> HIDE DEF t
  <2> QED BY <2>1, <2>2, <2>3
<1> HIDE DEF u
<1>5. r = [k \in 1..(Len(u) + 1) |-> IF k = Len(u) + 1 THEN e ELSE u[k]]
  BY <1>2, Appended
<1> HIDE DEF n, t, r
<1>6. (n - 1) + 1 = n
  BY <1>1
<1>7. r = [k \in 1..n |-> IF k = n THEN e ELSE u[k]]
  BY <1>2, <1>5, <1>6
<1>8. ASSUME NEW k \in 1..n PROVE t[k] = IF k = n THEN e ELSE u[k]
  <2>1. k = n \/ k \in 1..(n - 1)
    BY <1>1
  <2> QED BY <1>2, <1>4, <2>1
<1>9. t = r
  BY <1>4, <1>7, <1>8
<1> QED BY <1>1, <1>2, <1>3, <1>9 DEF t, r, n, u, AllButLast, LastReplaced

\* after a turn of the loop that joins short neighbours, the letters of both
MergesLetters(out, x) ==
    Spelled(MergeShort(out, x)) = Spelled(out) \o Tagged(x.section, x.chars)
\* A piece that joins the one before it keeps its letters and its section.
LEMMA MergeShortKeeps ==
    ASSUME NEW C, HasSpaces(C), NEW out \in Seq(Item(C)), NEW x \in Item(C)
    PROVE  MergeShort(out, x) \in Seq(Item(C)) /\ MergesLetters(out, x)
<1>1. CASE MergeShort(out, x) = Append(out, x)
  <2>1. SpellsOne(out, x)
    BY SpelledAppend
  <2> QED BY <1>1, <2>1 DEF SpellsOne, MergesLetters
<1>2. CASE MergeShort(out, x) # Append(out, x)
  <2> DEFINE last == out[Len(out)]
             ends == <<"/", "/">>
             e == [last EXCEPT !.chars = @ \o ends \o x.chars]
             u == AllButLast(out)
             sec == x.section
             lc == last.chars
             xc == x.chars
  <2>1. /\ out # <<>> /\ last.section = sec
        /\ MergeShort(out, x) = [out EXCEPT ![Len(out)].chars = @ \o ends \o xc]
    BY <1>2 DEF MergeShort, Last
  <2>2. [out EXCEPT ![Len(out)].chars = @ \o ends \o xc] = [out EXCEPT ![Len(out)] = e]
    OBVIOUS
  <2>3. last \in Item(C)
    BY <2>1
  <2>4. sec \in Int /\ lc \in Seq(C) /\ xc \in Seq(C)
    BY <2>3 DEF Item
  <2>5. ends \in Seq(C) /\ Letters(ends) = <<>>
    <3>1. "/" \in C
      BY DEF HasSpaces
    <3>2. ends \in Seq(C)
      BY <3>1
    <3>3. \A i \in DOMAIN ends : IsSpace(ends[i])
      <4>1. \A i \in DOMAIN ends : ends[i] = "/"
        OBVIOUS
      <4> HIDE DEF ends
      <4> QED BY <4>1 DEF IsSpace
    <3> HIDE DEF ends
    <3> QED BY <3>2, <3>3, LettersOfSpaces
  <2>6. e = [section |-> sec, chars |-> lc \o ends \o xc]
    <3> DEFINE y == lc \o ends \o xc
    <3>1. e = [last EXCEPT !.chars = y]
      OBVIOUS
    <3> HIDE DEF last, y, e
    <3>2. e = [section |-> last.section, chars |-> y]
      BY <2>3, <3>1 DEF Item
    <3> QED BY <2>1, <3>2 DEF y
  <2> HIDE DEF ends, lc, xc, sec
  <2>7. JoinsInTurn(lc, ends, xc, C) /\ lc \o ends \in Seq(C)
    BY <2>4, <2>5, JoinedInTurn DEF JoinsInTurn
  <2>8. (lc \o ends) \o xc \in Seq(C)
    <3> DEFINE y == lc \o ends
    <3>1. y \in Seq(C)
      BY <2>7
    <3> HIDE DEF y
    <3>2. JoinsInTurn(y, xc, xc, C)
      BY <3>1, <2>4, JoinedInTurn
    <3> QED BY <3>2 DEF y, JoinsInTurn
  <2>9. e \in Item(C)
    BY <2>4, <2>6, <2>8 DEF Item
  <2> HIDE DEF e, last
  <2>10. /\ u \in Seq(Item(C)) /\ out = Append(u, last) /\ LastReplaced(out, e)
    BY <2>1, <2>9, ReplacedLast DEF last
  <2>11. MergeShort(out, x) = Append(u, e)
    BY <2>1, <2>2, <2>10 DEF LastReplaced
  <2> HIDE DEF u
  <2>12. /\ Spelled(Append(u, e)) = Spelled(u) \o Tagged(e.section, e.chars)
         /\ Spelled(Append(u, last)) = Spelled(u) \o Tagged(last.section, last.chars)
    <3>1. SpellsOne(u, e)
      BY <2>9, <2>10, SpelledAppend
    <3>2. SpellsOne(u, last)
      BY <2>3, <2>10, SpelledAppend
    <3> QED BY <3>1, <3>2 DEF SpellsOne
  <2>13. e.section = sec /\ e.chars = (lc \o ends) \o xc
    BY <2>6
  <2>14. Tagged(sec, (lc \o ends) \o xc) = Tagged(sec, lc) \o Tagged(sec, xc)
    <3> DEFINE y == lc \o ends
    <3>1. y \in Seq(C)
      BY <2>7
    <3>2. Tagged(sec, y) = Tagged(sec, lc) \o Tagged(sec, ends)
      BY <2>4, <2>5, TaggedJoin
    <3> HIDE DEF y
    <3>3. Tagged(sec, y \o xc) = Tagged(sec, y) \o Tagged(sec, xc)
      BY <2>4, <3>1, TaggedJoin
    <3>4. Tagged(sec, ends) = <<>>
      BY <2>5 DEF Tagged
    <3>5. Tagged(sec, lc) \in Seq(Letter(C))
      BY <2>4, TaggedJoin
    <3>6. Tagged(sec, lc) \o <<>> = Tagged(sec, lc)
      BY <3>5, ConcatEmptySeq
    <3> QED BY <3>2, <3>3, <3>4, <3>6 DEF y
  <2>15. (Spelled(u) \o Tagged(sec, lc)) \o Tagged(sec, xc)
             = Spelled(u) \o (Tagged(sec, lc) \o Tagged(sec, xc))
    <3> DEFINE a == Spelled(u)
               b == Tagged(sec, lc)
               d == Tagged(sec, xc)
               D == Letter(C)
    <3>1. a \in Seq(D)
      BY <2>10, SpelledJoin
    <3>2. b \in Seq(D) /\ d \in Seq(D)
      BY <2>4, TaggedJoin
    <3> HIDE DEF a, b, d, D
    <3>3. JoinsInTurn(a, b, d, D)
      BY <3>1, <3>2, JoinedInTurn
    <3> QED BY <3>3 DEF JoinsInTurn, a, b, d
  <2>16. Append(u, e) \in Seq(Item(C))
    BY <2>9, <2>10
  <2>17. Spelled(Append(u, e)) = (Spelled(u) \o Tagged(sec, lc)) \o Tagged(sec, xc)
    BY <2>12, <2>13, <2>14, <2>15
  <2>18. Spelled(out) = Spelled(u) \o Tagged(sec, lc)
    BY <2>1, <2>10, <2>12 DEF lc
  <2> QED BY <2>11, <2>16, <2>17, <2>18 DEF MergesLetters, sec, xc
<1> QED BY <1>1, <1>2

\* Joining short neighbours changes no letter.
LEMMA MergedKeeps ==
    ASSUME NEW C, HasSpaces(C), NEW s \in Seq(Item(C))
    PROVE  /\ FoldLeft(MergeShort, <<>>, s) \in Seq(Item(C))
           /\ Spelled(FoldLeft(MergeShort, <<>>, s)) = Spelled(s)
<1> DEFINE S == Seq(Item(C))
           step == [x \in S \X Item(C) |-> MergeShort(x[1], x[2])]
           iter == CHOOSE g : g = [T \in SUBSET DOMAIN s |->
                       IF T = {} THEN <<>>
                       ELSE MergeShort(g[T \ {Max(T)}], s[Max(T)])]
           Part(m) == SubSeq(s, 1, m)
           R == [m \in Nat |-> {o \in S : Spelled(o) = Spelled(Part(m))}]
<1>1. FoldLeft(MergeShort, <<>>, s) = iter[DOMAIN s]
  BY DEF FoldLeft, MapThenFoldSet
<1>2. /\ Len(s) \in Nat /\ s \in [1..Len(s) -> Item(C)] /\ DOMAIN s = 1..Len(s)
      /\ <<>> \in S
  OBVIOUS
<1>3. step \in [S \X Item(C) -> S]
  BY MergeShortKeeps
<1>4. PICK g \in [SUBSET (1..Len(s)) -> S] : Folds(g, Len(s), <<>>, step, s)
  <2> HIDE DEF step, S
  <2> QED BY <1>2, <1>3, FoldExists DEF Foldable
<1>5. \A T \in SUBSET DOMAIN s : T # {} =>
         step[<<g[T \ {Max(T)}], s[Max(T)]>>]
             = MergeShort(g[T \ {Max(T)}], s[Max(T)])
  <2> SUFFICES ASSUME NEW T \in SUBSET DOMAIN s, NEW i \in T
               PROVE  step[<<g[T \ {Max(T)}], s[Max(T)]>>]
                          = MergeShort(g[T \ {Max(T)}], s[Max(T)])
    OBVIOUS
  <2>1. Max(T) \in T
    BY <1>2, MaxIn
  <2> QED BY <2>1, <1>2
<1>6. g = [T \in SUBSET DOMAIN s |->
              IF T = {} THEN <<>> ELSE MergeShort(g[T \ {Max(T)}], s[Max(T)])]
  BY <1>2, <1>4, <1>5 DEF Folds
<1>7. iter = [T \in SUBSET DOMAIN s |->
                 IF T = {} THEN <<>> ELSE MergeShort(iter[T \ {Max(T)}], s[Max(T)])]
  BY <1>6
<1> HIDE DEF iter
<1>8. ASSUME NEW m \in 0..(Len(s) - 1), iter[1..m] \in R[m]
      PROVE  iter[1..(m + 1)] \in R[m + 1]
  <2> DEFINE U == 1..(m + 1)
             x == s[m + 1]
             o == iter[1..m]
  <2>1. /\ U \in SUBSET DOMAIN s /\ U # {} /\ Max(U) = m + 1 /\ U \ {m + 1} = 1..m
        /\ x \in Item(C) /\ m \in Nat /\ m + 1 \in Nat
    <3> HIDE DEF S, step, R, iter, Part, x
    <3>1. /\ m + 1 \in 1..Len(s) /\ 1..(m + 1) \in SUBSET (1..Len(s)) /\ 1..(m + 1) # {}
          /\ Max(1..(m + 1)) = m + 1 /\ (1..(m + 1)) \ {m + 1} = 1..m
      BY <1>2, Segment
    <3>2. s[m + 1] \in Item(C) /\ m \in Nat /\ m + 1 \in Nat
      BY <1>2, <3>1
    <3> QED BY <1>2, <3>1, <3>2 DEF x
  <2> HIDE DEF U
  <2>2. iter[U] = MergeShort(iter[U \ {Max(U)}], s[Max(U)])
    BY <1>7, <2>1
  <2>3. iter[U] = MergeShort(o, x)
    BY <2>1, <2>2
  <2>4. o \in S /\ Spelled(o) = Spelled(Part(m))
    BY <1>8, <2>1
  <2>5. Part(m) \in Seq(Item(C)) /\ Part(m + 1) = Append(Part(m), x)
    BY Growing
  <2> HIDE DEF x, o, Part
  <2>6. MergeShort(o, x) \in S /\ MergesLetters(o, x)
    BY <2>1, <2>4, MergeShortKeeps
  <2>7. SpellsOne(Part(m), x)
    BY <2>1, <2>5, SpelledAppend
  <2>8. Spelled(MergeShort(o, x)) = Spelled(Part(m + 1))
    BY <2>4, <2>5, <2>6, <2>7 DEF MergesLetters, SpellsOne
  <2> HIDE DEF S
  <2> QED BY <2>1, <2>3, <2>6, <2>8 DEF U
<1>9. iter[{}] \in R[0]
  <2>1. iter[{}] = <<>> /\ Part(0) = <<>>
    BY <1>7, Growing
  <2> HIDE DEF Part, S
  <2> QED BY <2>1, <1>2
<1>10. R[Len(s)] = {o \in S : Spelled(o) = Spelled(Part(Len(s)))}
  <2> HIDE DEF S, Part
  <2> QED BY <1>2
<1> HIDE DEF R
<1>11. iter[1..Len(s)] \in R[Len(s)]
  BY <1>2, <1>8, <1>9, ReachedInTurn
<1>12. Part(Len(s)) = s
  BY Growing
<1> HIDE DEF S, Part
<1> QED BY <1>1, <1>2, <1>10, <1>11, <1>12 DEF S

-----------------------------------------------------------------------------
(* Cutting long texts. *)

\* A cut is behind the start and at most MaxChars from it.
LEMMA CutFollows ==
    ASSUME NEW C, NEW t \in Seq(C), NEW start \in 0..Len(t), Len(t) - start > MaxChars
    PROVE  BestBoundary(t, start, start + MaxChars) \in (start + 1)..(start + MaxChars)
<1> DEFINE n == Len(t)
           limit == start + MaxChars
           window == Lo(limit + 1, Len(t))
           stops == {p \in start..(window - 1) : t[p + 1] = "."}
           korean == {p \in stops : p > start /\ t[p] = "D"}
           blanks(p) == {q \in (p + 2)..window : \A k \in (p + 2)..q : IsSpace(t[k])}
           longest(S) == CHOOSE q \in S : \A r \in S : r <= q
           found == SentenceEnds(t, start, limit)
           ends == {e \in found : e <= limit}
<1>1. n \in Nat /\ start \in Nat /\ MaxChars \in Nat \ {0} /\ limit \in Nat
  BY MaxCharsAssumption
<1>2. found = {p + 1 : p \in korean}
                  \union {longest(blanks(p)) : p \in {q \in stops \ korean : blanks(q) # {}}}
  BY DEF SentenceEnds
<1> HIDE DEF found
<1>3. window \in Int
  <2> HIDE DEF limit
  <2> QED BY <1>1 DEF Lo
<1>4. ASSUME NEW p \in stops, blanks(p) # {} PROVE longest(blanks(p)) \in blanks(p)
  <2> DEFINE S == blanks(p)
  <2>1. p \in Nat /\ window \in Int
    <3> HIDE DEF window, limit
    <3> QED BY <1>1, <1>3
  <2>2. S \subseteq (p + 2)..window
    OBVIOUS
  <2> HIDE DEF window, S
  <2>3. PICK i \in S : TRUE
    BY <1>4 DEF S
  <2>4. S \in SUBSET Int /\ \A q \in S : q <= window
    BY <2>1, <2>2
  <2>5. \E x \in S : \A y \in S : y <= x
    BY <2>1, <2>3, <2>4, Largest
  <2>6. longest(S) \in S
    BY <2>5
  <2> QED BY <2>6 DEF S
<1>5. \A e \in found : e \in Int /\ e >= start + 1
  <2>1. ASSUME NEW p \in stops PROVE p \in Int /\ p >= start
    <3> HIDE DEF window, limit
    <3> QED BY <1>1, <1>3
  <2>2. ASSUME NEW p \in stops, blanks(p) # {}
        PROVE  longest(blanks(p)) \in Int /\ longest(blanks(p)) >= start + 1
    <3> DEFINE q == longest(blanks(p))
    <3>1. q \in (p + 2)..window
      BY <1>4, <2>2
    <3>2. p \in Int /\ p >= start
      BY <2>1
    <3> HIDE DEF q, window, limit
    <3>3. q \in Int /\ q >= start + 1
      BY <3>1, <3>2, <1>1, <1>3
    <3> QED BY <3>3 DEF q
  <2>3. ASSUME NEW e \in found PROVE e \in Int /\ e >= start + 1
    <3>1. CASE e \in {p + 1 : p \in korean}
      <4>1. PICK p \in korean : e = p + 1
        BY <3>1
      <4>2. p \in stops
        BY <4>1
      <4>3. p \in Int /\ p >= start
        BY <4>2, <2>1
      <4> QED BY <4>1, <4>3, <1>1
    <3>2. CASE e \in {longest(blanks(p)) : p \in {q \in stops \ korean : blanks(q) # {}}}
      <4>1. PICK p \in {q \in stops \ korean : blanks(q) # {}} : e = longest(blanks(p))
        BY <3>2
      <4>2. p \in stops /\ blanks(p) # {}
        BY <4>1
      <4> HIDE DEF stops, blanks, longest
      <4> QED BY <4>1, <4>2, <2>2
    <3> QED BY <3>1, <3>2, <1>2, <2>3
  <2> QED BY <2>3
<1>6. CASE ends = {}
  <2>1. BestBoundary(t, start, limit) = limit
    BY <1>6 DEF BestBoundary, found
  <2> QED BY <1>1, <2>1
<1>7. CASE ends # {}
  <2>1. \A e \in ends : e \in Int /\ e >= start + 1 /\ e <= limit
    BY <1>5
  <2>2. PICK i \in ends : TRUE
    BY <1>7
  <2> HIDE DEF ends, limit
  <2>3. ends \in SUBSET Int /\ limit \in Int /\ \A e \in ends : e <= limit
    BY <1>1, <2>1
  <2>6. \E x \in ends : \A y \in ends : y <= x
    BY <2>2, <2>3, Largest
  <2> DEFINE chosen == CHOOSE e \in ends : \A f \in ends : f <= e
  <2>7. chosen \in ends
    BY <2>6
  <2>8. BestBoundary(t, start, limit) = chosen
    BY <1>7 DEF BestBoundary, ends, found
  <2> HIDE DEF chosen
  <2> QED BY <2>1, <2>7, <2>8, <1>1 DEF limit
<1> QED BY <1>6, <1>7

\* The next chunk starts at or behind the cut, and only spaces are left out.
LEMMA ResumeFollows ==
    ASSUME NEW t, NEW n \in Nat, Len(t) = n, NEW cut \in 0..n
    PROVE  /\ Resume(t, cut) \in cut..n
           /\ \A j \in cut..(Resume(t, cut) - 1) : IsSpace(t[j + 1])
<1> DEFINE S == {k \in cut..n : k = n \/ ~IsSpace(t[k + 1])}
           r == Resume(t, cut)
<1>1. r = First(S)
  BY DEF Resume
<1>2. n \in S /\ S \subseteq cut..n
  OBVIOUS
<1>3. \A j \in cut..n : j \notin S => IsSpace(t[j + 1])
  OBVIOUS
<1> HIDE DEF S, r
<1>4. S \in SUBSET Nat /\ S # {}
  BY <1>2
<1>5. r \in S /\ \A i \in S : r <= i
  BY <1>1, <1>4, Least DEF First
<1>6. r \in cut..n
  BY <1>2, <1>5
<1>7. ASSUME NEW j \in cut..(r - 1) PROVE IsSpace(t[j + 1])
  <2>1. j \in cut..n /\ ~(r <= j)
    BY <1>6
  <2> QED BY <1>3, <1>5, <2>1
<1> QED BY <1>6, <1>7 DEF r

\* the chunks of t from start on, given those from later positions on
Chunk(t, from, start) ==
    IF start = Len(t) THEN <<>>
    ELSE IF Len(t) - start <= MaxChars THEN <<Strip(SubSeq(t, start + 1, Len(t)))>>
    ELSE LET cut == BestBoundary(t, start, start + MaxChars)
         IN  <<Strip(SubSeq(t, start + 1, cut))>> \o from[Resume(t, cut)]
\* h has the chunks of t from each position on, from first to the end
Chunks(h, t, first) ==
    DOMAIN h = first..Len(t) /\ \A x \in first..Len(t) : h[x] = Chunk(t, h, x)

\* the chunk from start on ends at cut, the next one starts at next
CutAt(t, start, cut, next) ==
    /\ cut \in (start + 1)..Len(t) /\ cut <= start + MaxChars /\ next \in cut..Len(t)
    /\ \A j \in cut..(next - 1) : IsSpace(t[j + 1])
\* The first chunk of a long rest ends at a cut.
LEMMA ChunkCut ==
    ASSUME NEW C, NEW t \in Seq(C), NEW start \in 0..Len(t), Len(t) - start > MaxChars
    PROVE  \E cut, next :
              /\ CutAt(t, start, cut, next)
              /\ \A h : Chunk(t, h, start) = <<Strip(SubSeq(t, start + 1, cut))>> \o h[next]
<1> DEFINE n == Len(t)
           cut == BestBoundary(t, start, start + MaxChars)
           next == Resume(t, cut)
<1>1. n \in Nat /\ MaxChars \in Nat \ {0} /\ start \in Nat
  BY MaxCharsAssumption
<1>2. cut \in (start + 1)..(start + MaxChars)
  BY CutFollows
<1>3. \A h : Chunk(t, h, start) = <<Strip(SubSeq(t, start + 1, cut))>> \o h[next]
  <2>1. start # n /\ ~(n - start <= MaxChars)
    BY <1>1
  <2> QED BY <2>1 DEF Chunk
<1> HIDE DEF cut
<1>4. cut \in 0..n /\ cut \in (start + 1)..n /\ cut <= start + MaxChars
  BY <1>1, <1>2
<1>5. next \in cut..n /\ \A j \in cut..(next - 1) : IsSpace(t[j + 1])
  <2> HIDE DEF next
  <2> QED BY <1>1, <1>4, ResumeFollows DEF next
<1> HIDE DEF next
<1> QED BY <1>3, <1>4, <1>5 DEF CutAt

\* There is a function that gives the chunks from every position on.
LEMMA ChunksExist ==
    ASSUME NEW C, NEW t \in Seq(C)
    PROVE  \E h : Chunks(h, t, 0)
<1> DEFINE n == Len(t)
           Ok == {k \in Nat : k <= n => \E h : Chunks(h, t, n - k)}
<1>0. n \in Nat
  OBVIOUS
<1>1. 0 \in Ok
  <2> DEFINE h == [x \in {n} |-> <<>>]
  <2>1. Chunk(t, h, n) = <<>>
    BY DEF Chunk
  <2>2. DOMAIN h = {n} /\ h[n] = <<>>
    OBVIOUS
  <2>3. n..n = {n} /\ n - 0 = n
    BY <1>0
  <2> HIDE DEF h
  <2>4. Chunks(h, t, n)
    BY <2>1, <2>2, <2>3 DEF Chunks
  <2> QED BY <2>3, <2>4
<1>2. ASSUME NEW k \in Nat, k \in Ok PROVE k + 1 \in Ok
  <2> SUFFICES ASSUME k + 1 <= n PROVE \E h : Chunks(h, t, n - (k + 1))
    OBVIOUS
  <2> DEFINE a == n - k
             b == n - (k + 1)
  <2>1. a \in Nat /\ b \in 0..n /\ a = b + 1 /\ b # n /\ b \in Nat
    BY <1>0
  <2>2. PICK h : Chunks(h, t, a)
    BY <1>0, <1>2
  <2> DEFINE g == [x \in b..n |-> IF x = b THEN Chunk(t, h, b) ELSE h[x]]
  <2>3. \A x \in a..n : g[x] = h[x] /\ x \in b..n
    <3> HIDE DEF a, b, n
    <3> QED BY <1>0, <2>1
  <2>4. ASSUME NEW x \in b..n PROVE Chunk(t, g, x) = Chunk(t, h, x)
    <3>1. CASE n - x > MaxChars
      <4>0. x \in 0..n
        <5> HIDE DEF a, b, n, g
        <5> QED BY <1>0, <2>1
      <4>1. PICK cut, next : /\ CutAt(t, x, cut, next)
                             /\ \A f : Chunk(t, f, x) = <<Strip(SubSeq(t, x + 1, cut))>> \o f[next]
        BY <3>1, <4>0, ChunkCut
      <4>2. next \in a..n
        <5>1. cut \in (x + 1)..n /\ next \in cut..n
          BY <4>1 DEF CutAt
        <5> HIDE DEF a, b, n
        <5> QED BY <5>1, <1>0, <2>1
      <4>3. g[next] = h[next]
        BY <2>3, <4>2
      <4> QED BY <4>1, <4>3
    <3>2. CASE n - x <= MaxChars
      BY <3>2 DEF Chunk
    <3>3. n - x <= MaxChars \/ n - x > MaxChars
      <4>1. x \in Int /\ MaxChars \in Int
        <5> HIDE DEF a, b, n, g
        <5> QED BY <1>0, <2>1, MaxCharsAssumption
      <4> QED BY <4>1, <1>0
    <3> QED BY <3>1, <3>2, <3>3
  <2>5. ASSUME NEW x \in b..n PROVE g[x] = Chunk(t, g, x)
    <3>1. CASE x = b
      BY <3>1, <2>4
    <3>2. CASE x # b
      <4>1. x \in a..n
        <5> HIDE DEF a, b, n, g
        <5> QED BY <3>2, <1>0, <2>1
      <4>2. h[x] = Chunk(t, h, x)
        BY <2>2, <4>1 DEF Chunks
      <4> QED BY <2>3, <2>4, <4>1, <4>2
    <3> QED BY <3>1, <3>2
  <2>6. DOMAIN g = b..n
    OBVIOUS
  <2> HIDE DEF g, b
  <2> QED BY <2>5, <2>6 DEF Chunks, b
<1>3. n \in Ok
  <2> HIDE DEF Ok
  <2> QED BY <1>0, <1>1, <1>2, Induction
<1> QED BY <1>0, <1>3

\* _split_long_text gives the chunks from the start on.
LEMMA SplitChunks ==
    ASSUME NEW C, NEW t \in Seq(C)
    PROVE  \E h : Chunks(h, t, 0) /\ SplitLong(t) = h[0]
<1>1. PICK g : Chunks(g, t, 0)
  BY ChunksExist
<1>2. PICK f : f = [x \in 0..Len(t) |-> Chunk(t, f, x)]
  <2> DEFINE f == [x \in 0..Len(t) |-> g[x]]
  <2>1. \A x \in 0..Len(t) : Chunk(t, f, x) = Chunk(t, g, x)
    <3> TAKE x \in 0..Len(t)
    <3>0. Len(t) \in Nat /\ MaxChars \in Nat /\ x \in Nat
      BY MaxCharsAssumption
    <3>1. CASE Len(t) - x > MaxChars
      <4>1. PICK cut, next : /\ CutAt(t, x, cut, next)
                             /\ \A e : Chunk(t, e, x) = <<Strip(SubSeq(t, x + 1, cut))>> \o e[next]
        BY <3>1, ChunkCut
      <4>2. cut \in (x + 1)..Len(t) /\ next \in cut..Len(t)
        BY <4>1 DEF CutAt
      <4>3. next \in 0..Len(t)
        <5> HIDE DEF f
        <5> QED BY <4>2, <3>0
      <4> QED BY <4>1, <4>3
    <3>2. CASE Len(t) - x <= MaxChars
      BY <3>2 DEF Chunk
    <3> QED BY <3>0, <3>1, <3>2
  <2>2. \A x \in 0..Len(t) : f[x] = Chunk(t, f, x)
    BY <1>1, <2>1 DEF Chunks
  <2>3. f = [x \in 0..Len(t) |-> f[x]]
    OBVIOUS
  <2> HIDE DEF f
  <2>4. f = [x \in 0..Len(t) |-> Chunk(t, f, x)]
    BY <2>2, <2>3
  <2> QED BY <2>4
<1> DEFINE h == CHOOSE from : from = [start \in 0..Len(t) |->
            IF start = Len(t) THEN <<>>
            ELSE IF Len(t) - start <= MaxChars THEN <<Strip(SubSeq(t, start + 1, Len(t)))>>
            ELSE LET cut == BestBoundary(t, start, start + MaxChars)
                 IN  <<Strip(SubSeq(t, start + 1, cut))>> \o from[Resume(t, cut)]]
<1>3. SplitLong(t) = h[0]
  BY DEF SplitLong
<1>4. h = [x \in 0..Len(t) |-> Chunk(t, h, x)]
  BY <1>2 DEF Chunk
<1> HIDE DEF h
<1>5. Chunks(h, t, 0)
  BY <1>4 DEF Chunks
<1> QED BY <1>3, <1>5

\* pieces of one section, and their letters
InSection(sec, chunks) == [k \in DOMAIN chunks |-> [section |-> sec, chars |-> chunks[k]]]
Words(sec, chunks) == Spelled(InSection(sec, chunks))
WordsFollow(sec, a, b) == Words(sec, a \o b) = Words(sec, a) \o Words(sec, b)

\* They can be mapped.
LEMMA InSectionMaps ==
    ASSUME NEW C, NEW sec \in Int
    PROVE  \E F \in [Seq(C) -> Item(C)] : \A z \in Seq(Seq(C)) : InSection(sec, z) = Mapped(F, z)
<1> DEFINE F == [c \in Seq(C) |-> [section |-> sec, chars |-> c]]
<1>1. F \in [Seq(C) -> Item(C)]
  BY DEF Item
<1>2. \A z \in Seq(Seq(C)) : InSection(sec, z) = Mapped(F, z)
  <2> TAKE z \in Seq(Seq(C))
  <2>1. \A k \in DOMAIN z : F[z[k]] = [section |-> sec, chars |-> z[k]]
    OBVIOUS
  <2> HIDE DEF F
  <2> QED BY <2>1 DEF InSection, Mapped
<1> HIDE DEF F
<1> QED BY <1>1, <1>2

\* The letters of some pieces come before those of the pieces after them.
LEMMA WordsJoin ==
    ASSUME NEW C, NEW sec \in Int, NEW a \in Seq(Seq(C)), NEW b \in Seq(Seq(C))
    PROVE  /\ InSection(sec, a) \in Seq(Item(C)) /\ Words(sec, a) \in Seq(Letter(C))
           /\ WordsFollow(sec, a, b)
<1> DEFINE A == Seq(C)
           B == Item(C)
<1>1. PICK F \in [A -> B] : \A z \in Seq(Seq(C)) : InSection(sec, z) = Mapped(F, z)
  BY InSectionMaps
<1>2. a \o b \in Seq(A) /\ a \in Seq(A) /\ b \in Seq(A)
  <2> HIDE DEF A
  <2>1. a \in Seq(A) /\ b \in Seq(A)
    BY DEF A
  <2> QED BY <2>1
<1>3. /\ InSection(sec, a) = Mapped(F, a) /\ InSection(sec, b) = Mapped(F, b)
      /\ InSection(sec, a \o b) = Mapped(F, a \o b)
  BY <1>1, <1>2
<1> HIDE DEF A, B
<1>4. Mapped(F, a) \in Seq(B) /\ Mapped(F, b) \in Seq(B)
  BY <1>2, MappedType
<1>5. MapsJoined(F, a, b)
  BY <1>2, MappedJoin
<1> DEFINE x == Mapped(F, a)
           y == Mapped(F, b)
<1>6. x \in Seq(Item(C)) /\ y \in Seq(Item(C))
  BY <1>4 DEF B
<1> HIDE DEF x, y
<1>7. Spelled(x) \in Seq(Letter(C)) /\ Spelled(x \o y) = Spelled(x) \o Spelled(y)
  BY <1>6, SpelledJoin
<1> QED BY <1>3, <1>5, <1>6, <1>7 DEF x, y, Words, WordsFollow, MapsJoined

\* No piece has no letters, and one piece has its own.
LEMMA WordsOne ==
    ASSUME NEW C, NEW sec \in Int, NEW x \in Seq(C)
    PROVE  Words(sec, <<>>) = <<>> /\ Words(sec, <<x>>) = Tagged(sec, x)
<1> DEFINE i == [section |-> sec, chars |-> x]
<1>1. i \in Item(C) /\ i.section = sec /\ i.chars = x
  BY DEF Item
<1>2. InSection(sec, <<>>) = <<>>
  BY DEF InSection
<1>3. InSection(sec, <<x>>) = <<i>>
  BY DEF InSection
<1> HIDE DEF i
<1>4. Spelled(<<>>) = <<>> /\ Spelled(<<i>>) = Tagged(i.section, i.chars)
  BY <1>1, SpelledOne
<1> QED BY <1>1, <1>2, <1>3, <1>4 DEF Words

\* what is left of a text is a chunk, what the cut leaves out, and the rest
ThreeParts(t, x, cut, next, C) ==
    LET u == SubSeq(t, x + 1, cut)
        v == SubSeq(t, cut + 1, next)
        w == SubSeq(t, next + 1, Len(t))
    IN  /\ u \in Seq(C) /\ Len(u) = cut - x /\ v \in Seq(C) /\ w \in Seq(C)
        /\ \A j \in DOMAIN v : j \in 1..(next - cut) /\ v[j] = t[cut + j]
        /\ SubSeq(t, x + 1, Len(t)) = (u \o v) \o w
\* A text can be taken apart like this.
LEMMA TailInThree ==
    ASSUME NEW C, NEW t \in Seq(C), NEW x \in 0..Len(t), NEW cut \in x..Len(t),
           NEW next \in cut..Len(t)
    PROVE  ThreeParts(t, x, cut, next, C)
<1> DEFINE n == Len(t)
<1>1. /\ SubSeq(t, x + 1, cut) \in Seq(C) /\ Len(SubSeq(t, x + 1, cut)) = cut - x
      /\ SubSeq(t, cut + 1, next) \in Seq(C) /\ SubSeq(t, next + 1, n) \in Seq(C)
  OBVIOUS
<1>2. \A j \in DOMAIN SubSeq(t, cut + 1, next) :
         j \in 1..(next - cut) /\ SubSeq(t, cut + 1, next)[j] = t[cut + j]
  OBVIOUS
<1>3. n \in Nat /\ x + 1 \in 1..(n + 1) /\ cut \in Nat /\ next \in Nat /\ x \in Nat
  OBVIOUS
<1>4. SubSeq(t, x + 1, cut) \o SubSeq(t, cut + 1, next) = SubSeq(t, x + 1, next)
  <2>1. cut \in ((x + 1) - 1)..n /\ next \in cut..n
    BY <1>3
  <2> QED BY <1>3, <2>1, ConcatAdjacentSubSeq
<1>5. SubSeq(t, x + 1, next) \o SubSeq(t, next + 1, n) = SubSeq(t, x + 1, n)
  <2>1. next \in ((x + 1) - 1)..n /\ n \in next..n
    BY <1>3
  <2> QED BY <1>3, <2>1, ConcatAdjacentSubSeq
<1> DEFINE u == SubSeq(t, x + 1, cut)
           v == SubSeq(t, cut + 1, next)
           w == SubSeq(t, next + 1, n)
<1>6. /\ u \in Seq(C) /\ Len(u) = cut - x /\ v \in Seq(C) /\ w \in Seq(C)
      /\ \A j \in DOMAIN v : j \in 1..(next - cut) /\ v[j] = t[cut + j]
  BY <1>1, <1>2
<1>7. SubSeq(t, x + 1, n) = (u \o v) \o w
  BY <1>4, <1>5
<1> HIDE DEF u, v, w
<1> QED BY <1>6, <1>7 DEF ThreeParts, n, u, v, w

\* what is not too long
Short(C) == {s \in Seq(C) : Len(s) <= MaxChars}
\* the chunks from position x on: none too long, and with the letters of the rest of t
ChunkKept(h, t, x, sec, C) ==
    /\ h[x] \in Seq(Short(C))
    /\ Words(sec, h[x]) = Tagged(sec, SubSeq(t, x + 1, Len(t)))

\* Chunks that are not too long are chunks.
LEMMA ShortAreTexts == \A C : Seq(Short(C)) \subseteq Seq(Seq(C))
<1> TAKE C
<1>1. Short(C) \subseteq Seq(C)
  BY DEF Short
<1> DEFINE S == Short(C)
           T == Seq(C)
<1> HIDE DEF S, T
<1>2. \A z \in Seq(S) : z \in Seq(T)
  BY <1>1 DEF S, T
<1> QED BY <1>2 DEF S, T

\* The text that is left, when it is short enough.
LEMMA LastChunk ==
    ASSUME NEW C, NEW t \in Seq(C), NEW h, NEW x \in 0..Len(t), NEW sec \in Int,
           x # Len(t), Len(t) - x <= MaxChars, h[x] = Chunk(t, h, x)
    PROVE  ChunkKept(h, t, x, sec, C)
<1> DEFINE n == Len(t)
           u == SubSeq(t, x + 1, n)
           s == Strip(u)
<1>1. u \in Seq(C) /\ Len(u) = n - x /\ n \in Nat /\ MaxChars \in Nat
  BY MaxCharsAssumption
<1>2. h[x] = <<s>>
  BY DEF Chunk
<1> HIDE DEF u, s
<1>3. s \in Seq(C) /\ Len(s) <= Len(u) /\ Letters(s) = Letters(u)
  BY <1>1, StripKeeps DEF s
<1>4. Len(s) <= MaxChars
  <2>1. Len(s) \in Nat
    BY <1>3
  <2> QED BY <1>1, <1>3, <2>1
<1>5. h[x] \in Seq(Short(C))
  <2>1. s \in Short(C)
    BY <1>3, <1>4 DEF Short
  <2> QED BY <1>2, <2>1
<1>6. Words(sec, <<s>>) = Tagged(sec, s)
  BY <1>3, WordsOne
<1>7. Tagged(sec, s) = Tagged(sec, u)
  BY <1>3 DEF Tagged
<1> QED BY <1>2, <1>5, <1>6, <1>7 DEF ChunkKept, u

\* A chunk before others.
LEMMA NextChunk ==
    ASSUME NEW C, NEW t \in Seq(C), NEW h, NEW x \in 0..Len(t), NEW sec \in Int, NEW cut, NEW next,
           CutAt(t, x, cut, next), h[x] = <<Strip(SubSeq(t, x + 1, cut))>> \o h[next],
           ChunkKept(h, t, next, sec, C)
    PROVE  ChunkKept(h, t, x, sec, C)
<1> DEFINE n == Len(t)
           u == SubSeq(t, x + 1, cut)
           v == SubSeq(t, cut + 1, next)
           w == SubSeq(t, next + 1, n)
           s == Strip(u)
           one == <<s>>
           rest == h[next]
<1>1. n \in Nat /\ x \in Nat /\ MaxChars \in Nat
  BY MaxCharsAssumption
<1>2. cut \in (x + 1)..n /\ cut <= x + MaxChars /\ next \in cut..n
  BY DEF CutAt
<1>3. cut \in x..n /\ next \in cut..n /\ cut - x <= MaxChars /\ cut \in Int /\ next \in Int
  <2> HIDE DEF n
  <2> QED BY <1>1, <1>2
<1>4. /\ u \in Seq(C) /\ Len(u) = cut - x /\ v \in Seq(C) /\ w \in Seq(C)
      /\ \A j \in DOMAIN v : j \in 1..(next - cut) /\ v[j] = t[cut + j]
      /\ SubSeq(t, x + 1, n) = (u \o v) \o w
  <2>1. ThreeParts(t, x, cut, next, C)
    BY <1>3, TailInThree
  <2> QED BY <2>1 DEF ThreeParts
<1>5. \A j \in DOMAIN v : IsSpace(v[j])
  <2>1. ASSUME NEW i \in Int, i \in 1..(next - cut)
        PROVE  cut + i - 1 \in cut..(next - 1) /\ (cut + i - 1) + 1 = cut + i
    <3> HIDE DEF n, u, v, w, s, one, rest
    <3> QED BY <1>3, <2>1
  <2> TAKE j \in DOMAIN v
  <2> DEFINE k == cut + j - 1
  <2>2. j \in 1..(next - cut) /\ v[j] = t[cut + j]
    BY <1>4
  <2>3. k \in cut..(next - 1) /\ k + 1 = cut + j
    <3>1. j \in Int
      BY <2>2
    <3> QED BY <2>1, <2>2, <3>1
  <2>4. IsSpace(t[k + 1])
    <3> HIDE DEF k
    <3> QED BY <2>3 DEF CutAt
  <2> QED BY <2>2, <2>3, <2>4
<1> HIDE DEF u, v, w, s
<1>6. Letters(v) = <<>>
  BY <1>4, <1>5, LettersOfSpaces
<1>7. s \in Seq(C) /\ Len(s) <= Len(u) /\ Letters(s) = Letters(u)
  BY <1>4, StripKeeps DEF s
<1>8. s \in Short(C)
  <2>1. Len(s) \in Nat
    BY <1>7
  <2>2. Len(s) <= MaxChars
    BY <1>1, <1>3, <1>4, <1>7, <2>1
  <2> QED BY <1>7, <2>2 DEF Short
<1>9. h[x] = one \o rest
  BY DEF s, u
<1>10. rest \in Seq(Short(C)) /\ Words(sec, rest) = Tagged(sec, w)
  BY DEF ChunkKept, w
<1>11. one \in Seq(Short(C)) /\ Words(sec, one) = Tagged(sec, s)
  <2>1. one \in Seq(Short(C))
    BY <1>8
  <2>2. Words(sec, one) = Tagged(sec, s)
    BY <1>7, WordsOne
  <2> QED BY <2>1, <2>2
<1> HIDE DEF one, rest
<1>12. h[x] \in Seq(Short(C))
  <2>1. JoinsInTurn(one, rest, rest, Short(C))
    BY <1>10, <1>11, JoinedInTurn
  <2> QED BY <1>9, <2>1 DEF JoinsInTurn
<1>13. Words(sec, one \o rest) = Words(sec, one) \o Words(sec, rest)
  <2>1. one \in Seq(Seq(C)) /\ rest \in Seq(Seq(C))
    BY <1>10, <1>11, ShortAreTexts
  <2>2. WordsFollow(sec, one, rest)
    BY <2>1, WordsJoin
  <2> QED BY <2>2 DEF WordsFollow
<1>14. Tagged(sec, (u \o v) \o w) = Tagged(sec, u) \o Tagged(sec, w)
  <2> DEFINE y == u \o v
  <2>1. y \in Seq(C) /\ Tagged(sec, y) = Tagged(sec, u) \o Tagged(sec, v)
    <3>1. JoinsInTurn(u, v, w, C)
      BY <1>4, JoinedInTurn
    <3>2. Tagged(sec, u \o v) = Tagged(sec, u) \o Tagged(sec, v)
      BY <1>4, TaggedJoin
    <3> QED BY <3>1, <3>2 DEF JoinsInTurn
  <2> HIDE DEF y
  <2>2. Tagged(sec, y \o w) = Tagged(sec, y) \o Tagged(sec, w)
    BY <1>4, <2>1, TaggedJoin
  <2>3. Tagged(sec, v) = <<>>
    BY <1>6 DEF Tagged
  <2>4. Tagged(sec, u) \in Seq(Letter(C))
    BY <1>4, TaggedJoin
  <2>5. Tagged(sec, u) \o <<>> = Tagged(sec, u)
    BY <2>4, ConcatEmptySeq
  <2> QED BY <2>1, <2>2, <2>3, <2>5 DEF y
<1>15. Tagged(sec, s) = Tagged(sec, u)
  BY <1>7 DEF Tagged
<1>16. SubSeq(t, x + 1, Len(t)) = (u \o v) \o w
  BY <1>4
<1> HIDE DEF n
<1> QED BY <1>9, <1>10, <1>11, <1>12, <1>13, <1>14, <1>15, <1>16 DEF ChunkKept

\* Cutting a text keeps its letters.
LEMMA SplitKeeps ==
    ASSUME NEW C, NEW t \in Seq(C), NEW sec \in Int
    PROVE  SplitLong(t) \in Seq(Short(C)) /\ Words(sec, SplitLong(t)) = Tagged(sec, t)
<1> DEFINE n == Len(t)
<1>0. n \in Nat /\ MaxChars \in Nat
  BY MaxCharsAssumption
<1>1. PICK h : Chunks(h, t, 0) /\ SplitLong(t) = h[0]
  BY SplitChunks
<1>2. \A x \in 0..n : h[x] = Chunk(t, h, x)
  BY <1>1 DEF Chunks
<1> DEFINE Ok == {k \in Nat : \A x \in 0..n : n - x <= k => ChunkKept(h, t, x, sec, C)}
<1>3. 0 \in Ok
  <2> SUFFICES ASSUME NEW x \in 0..n, n - x <= 0 PROVE ChunkKept(h, t, x, sec, C)
    OBVIOUS
  <2>1. x = n
    BY <1>0
  <2>2. h[x] = <<>>
    BY <1>2, <2>1 DEF Chunk
  <2>3. SubSeq(t, x + 1, n) = <<>>
    <3>1. x + 1 > n
      BY <1>0, <2>1
    <3> QED BY <1>0, <3>1, SubSeqEmpty
  <2>4. Words(sec, <<>>) = <<>>
    <3>1. <<>> \in Seq(C)
      OBVIOUS
    <3> QED BY <3>1, WordsOne
  <2>5. Tagged(sec, <<>>) = <<>>
    BY LettersNone DEF Tagged
  <2>6. <<>> \in Seq(Short(C))
    OBVIOUS
  <2> QED BY <2>2, <2>3, <2>4, <2>5, <2>6 DEF ChunkKept
<1>4. ASSUME NEW k \in Nat, k \in Ok PROVE k + 1 \in Ok
  <2> SUFFICES ASSUME NEW x \in 0..n, n - x <= k + 1 PROVE ChunkKept(h, t, x, sec, C)
    OBVIOUS
  <2>1. CASE n - x <= k
    BY <1>4, <2>1
  <2>2. CASE n - x > k /\ n - x <= MaxChars
    <3>1. x # n
      BY <1>0, <2>2
    <3> QED BY <1>2, <2>2, <3>1, LastChunk
  <2>3. CASE n - x > MaxChars
    <3>1. PICK cut, next : /\ CutAt(t, x, cut, next)
                           /\ \A e : Chunk(t, e, x) = <<Strip(SubSeq(t, x + 1, cut))>> \o e[next]
      BY <2>3, ChunkCut
    <3>2. cut \in (x + 1)..n /\ next \in cut..n
      BY <3>1 DEF CutAt
    <3>3. next \in 0..n /\ n - next <= k
      <4> HIDE DEF n, Ok
      <4> QED BY <1>0, <3>2
    <3>4. ChunkKept(h, t, next, sec, C)
      BY <1>4, <3>3
    <3>5. h[x] = <<Strip(SubSeq(t, x + 1, cut))>> \o h[next]
      BY <1>2, <3>1
    <3> HIDE DEF Ok
    <3> QED BY <3>1, <3>4, <3>5, NextChunk
  <2>4. x \in Int
    OBVIOUS
  <2> HIDE DEF n, Ok
  <2> QED BY <1>0, <2>1, <2>2, <2>3, <2>4
<1>5. n \in Ok
  <2> HIDE DEF Ok
  <2> QED BY <1>0, <1>3, <1>4, Induction
<1>6. ChunkKept(h, t, 0, sec, C)
  <2>1. 0 \in 0..n /\ n - 0 <= n
    BY <1>0
  <2> QED BY <1>5, <2>1
<1>7. SubSeq(t, 0 + 1, n) = t
  BY SubSeqFull
<1> QED BY <1>1, <1>6, <1>7 DEF ChunkKept

\* one more chunk adds its letters to those of the others
WordsAdd(sec, a, e) == Words(sec, Append(a, e)) = Words(sec, a) \o Tagged(sec, e)
\* It does.
LEMMA WordsAppend ==
    ASSUME NEW C, NEW sec \in Int, NEW a \in Seq(Seq(C)), NEW e \in Seq(C)
    PROVE  WordsAdd(sec, a, e)
<1> DEFINE one == <<e>>
           A == Seq(C)
<1>1. one \in Seq(Seq(C)) /\ Words(sec, one) = Tagged(sec, e)
  <2>1. one \in Seq(Seq(C))
    OBVIOUS
  <2> QED BY <2>1, WordsOne
<1>2. Append(a, e) = a \o one
  <2>1. a \in Seq(A) /\ e \in A
    OBVIOUS
  <2> HIDE DEF A
  <2> QED BY <2>1, AppendIsConcat
<1> HIDE DEF one, A
<1>3. WordsFollow(sec, a, one)
  BY <1>1, WordsJoin
<1> QED BY <1>1, <1>2, <1>3 DEF WordsFollow, WordsAdd

\* a text that can be a paragraph
Paragraph(C) == {s \in Seq(C) : Len(s) \in 1..MaxChars}
\* the chunks that are not empty
Filled(u) == {k \in DOMAIN u : u[k] # <<>>}
\* Leaving empty chunks out keeps the letters.
LEMMA FilledKeep ==
    ASSUME NEW C, NEW sec \in Int, NEW u \in Seq(Short(C))
    PROVE  /\ Only(u, Filled(u)) \in Seq(Paragraph(C))
           /\ Words(sec, Only(u, Filled(u))) = Words(sec, u)
<1> DEFINE n == Len(u)
           S == Short(C)
           P == Paragraph(C)
           In(m) == {k \in 1..m : u[k] # <<>>}
           Part(m) == SubSeq(u, 1, m)
           Ok == {m \in Nat : m <= n => /\ Only(u, In(m)) \in Seq(P)
                                        /\ Words(sec, Only(u, In(m))) = Words(sec, Part(m))}
<1>0. n \in Nat /\ DOMAIN u = 1..n /\ u \in Seq(S) /\ \A k \in 1..n : u[k] \in S
  <2> HIDE DEF S
  <2>1. u \in Seq(S)
    BY DEF S
  <2> QED BY <2>1
<1>1. \A e \in S : e \in Seq(C) /\ (e # <<>> => e \in P)
  <2> TAKE e \in S
  <2>1. e \in Seq(C) /\ Len(e) <= MaxChars
    BY DEF Short
  <2>2. Len(e) \in Nat /\ MaxChars \in Nat /\ (e # <<>> => Len(e) # 0)
    BY <2>1, MaxCharsAssumption
  <2>3. e # <<>> => Len(e) \in 1..MaxChars
    BY <2>1, <2>2
  <2> QED BY <2>1, <2>3 DEF Paragraph
<1>2. \A e \in P : e \in Seq(C)
  BY DEF Paragraph
<1> HIDE DEF S, P
<1>3. 0 \in Ok
  <2>1. In(0) = {} /\ Part(0) = <<>>
    BY <1>0, Growing
  <2>2. <<>> \in Seq(P)
    OBVIOUS
  <2> HIDE DEF In, Part
  <2> QED BY <2>1, <2>2, OnlyNone
<1>4. ASSUME NEW m \in Nat, m \in Ok PROVE m + 1 \in Ok
  <2> SUFFICES ASSUME m + 1 <= n
               PROVE  /\ Only(u, In(m + 1)) \in Seq(P)
                      /\ Words(sec, Only(u, In(m + 1))) = Words(sec, Part(m + 1))
    OBVIOUS
  <2> DEFINE o == Only(u, In(m))
             v == Part(m)
             e == u[m + 1]
  <2>1. m \in 0..(n - 1) /\ m \in 0..n /\ m + 1 \in 1..n
    BY <1>0
  <2>2. v \in Seq(S) /\ e \in S /\ Part(m + 1) = Append(v, e)
    BY <1>0, <2>1, Growing
  <2>3. o \in Seq(P) /\ Words(sec, o) = Words(sec, v)
    BY <1>4, <2>1
  <2>4. In(m) \in SUBSET (1..m) /\ \A i \in In(m) : u[i] \in P
    <3>1. \A i \in 1..m : i \in 1..n
      BY <2>1
    <3> QED BY <1>0, <1>1, <3>1
  <2>5. In(m + 1) = IF e = <<>> THEN In(m) ELSE In(m) \union {m + 1}
    <3>1. 1..(m + 1) = (1..m) \union {m + 1}
      OBVIOUS
    <3> QED BY <3>1
  <2>6. e # <<>> => Only(u, In(m) \union {m + 1}) = Append(o, e)
    <3> SUFFICES ASSUME e # <<>> PROVE Only(u, In(m) \union {m + 1}) = Append(o, e)
      OBVIOUS
    <3>1. e \in P
      BY <1>1, <2>2
    <3> HIDE DEF In, Part
    <3> QED BY <2>4, <3>1, OnlyAppend
  <2> HIDE DEF o, v, e, In, Part
  <2>7. v \in Seq(Seq(C)) /\ o \in Seq(Seq(C)) /\ e \in Seq(C)
    <3> DEFINE A == Seq(C)
    <3> HIDE DEF A
    <3>1. (\A x \in S : x \in A) /\ (\A x \in P : x \in A)
      BY <1>1, <1>2 DEF A
    <3>2. v \in Seq(A) /\ o \in Seq(A) /\ e \in A
      BY <2>2, <2>3, <3>1
    <3> QED BY <3>2 DEF A
  <2>8. WordsAdd(sec, v, e) /\ WordsAdd(sec, o, e)
    BY <2>7, WordsAppend
  <2>9. CASE e = <<>>
    <3>1. Tagged(sec, <<>>) = <<>>
      BY LettersNone DEF Tagged
    <3>2. Words(sec, v) \in Seq(Letter(C))
      BY <2>7, WordsJoin
    <3>3. Words(sec, v) \o <<>> = Words(sec, v)
      BY <3>2, ConcatEmptySeq
    <3>4. Words(sec, Append(v, e)) = Words(sec, v)
      BY <2>8, <2>9, <3>1, <3>3 DEF WordsAdd
    <3> QED BY <2>2, <2>3, <2>5, <2>9, <3>4 DEF o, v
  <2>10. CASE e # <<>>
    <3>1. e \in P
      BY <1>1, <2>2, <2>10
    <3>2. Append(o, e) \in Seq(P)
      BY <2>3, <3>1
    <3>3. Words(sec, Append(o, e)) = Words(sec, Append(v, e))
      BY <2>3, <2>8 DEF WordsAdd
    <3> QED BY <2>2, <2>5, <2>6, <2>10, <3>2, <3>3 DEF v
  <2> QED BY <2>9, <2>10
<1>5. In(n) = Filled(u) /\ Part(n) = u
  BY <1>0, Growing DEF Filled
<1>6. n \in Ok
  <2> HIDE DEF Ok
  <2> QED BY <1>0, <1>3, <1>4, Induction
<1> HIDE DEF In, Part
<1> QED BY <1>0, <1>5, <1>6 DEF P

-----------------------------------------------------------------------------
(* A list of pieces becomes a list of paragraphs. *)

\* what build_paragraphs makes of a piece
PiecesOf(item) ==
    LET split == SplitLong(item.chars)
        chunks == Only(split, {k \in DOMAIN split : split[k] # <<>>})
    IN  [k \in DOMAIN chunks |-> [section |-> item.section, chars |-> chunks[k]]]
\* a paragraph with its section
Piece(C) == [section : Int, chars : Paragraph(C)]
\* The paragraphs of a piece have its letters, under its section.
LEMMA PiecesKeep ==
    ASSUME NEW C, NEW item \in Item(C)
    PROVE  /\ PiecesOf(item) \in Seq(Piece(C))
           /\ Spelled(PiecesOf(item)) = Tagged(item.section, item.chars)
<1> DEFINE sec == item.section
           t == item.chars
           split == SplitLong(t)
           chunks == Only(split, Filled(split))
<1>1. sec \in Int /\ t \in Seq(C)
  BY DEF Item
<1>2. PiecesOf(item) = InSection(sec, chunks)
  BY DEF PiecesOf, Filled, InSection
<1> HIDE DEF sec, t
<1>3. split \in Seq(Short(C)) /\ Words(sec, split) = Tagged(sec, t)
  BY <1>1, SplitKeeps
<1> HIDE DEF split
<1>4. chunks \in Seq(Paragraph(C)) /\ Words(sec, chunks) = Words(sec, split)
  BY <1>1, <1>3, FilledKeep
<1> HIDE DEF chunks
<1> DEFINE made == InSection(sec, chunks)
           n == Len(chunks)
<1>5. /\ n \in Nat /\ DOMAIN chunks = 1..n /\ \A k \in 1..n : chunks[k] \in Paragraph(C)
  <2> DEFINE P == Paragraph(C)
  <2> HIDE DEF P
  <2>1. chunks \in Seq(P)
    BY <1>4 DEF P
  <2> QED BY <2>1 DEF P
<1>6. made = [k \in 1..n |-> made[k]] /\ \A k \in 1..n : made[k] \in Piece(C)
  BY <1>1, <1>5 DEF InSection, Piece
<1> HIDE DEF made, n
<1>7. made \in Seq(Piece(C))
  BY <1>5, <1>6, IsSequence
<1> QED BY <1>2, <1>3, <1>4, <1>7 DEF made, Words, sec, t

\* Pieces that are not too long are pieces.
LEMMA PiecesAreItems == \A C : Seq(Piece(C)) \subseteq Seq(Item(C))
<1> TAKE C
<1>1. Piece(C) \subseteq Item(C)
  BY DEF Piece, Item, Paragraph
<1> DEFINE S == Piece(C)
           T == Item(C)
<1> HIDE DEF S, T
<1>2. \A z \in Seq(S) : z \in Seq(T)
  BY <1>1 DEF S, T
<1> QED BY <1>2 DEF S, T

\* the same of every piece
AllPieces(s) == [i \in DOMAIN s |-> PiecesOf(s[i])]
\* So do the pieces of all.
LEMMA AllPiecesKeep ==
    ASSUME NEW C, NEW s \in Seq(Item(C))
    PROVE  /\ FlattenSeq(AllPieces(s)) \in Seq(Piece(C))
           /\ Spelled(FlattenSeq(AllPieces(s))) = Spelled(s)
<1> DEFINE n == Len(s)
           I == Item(C)
           D == Piece(C)
           B == Seq(D)
           F == [i \in I |-> PiecesOf(i)]
           Part(m) == SubSeq(s, 1, m)
           All(z) == FlattenSeq(Mapped(F, z))
           Ok == {m \in Nat : m <= n => /\ All(Part(m)) \in Seq(D)
                                        /\ Spelled(All(Part(m))) = Spelled(Part(m))}
<1>0. n \in Nat /\ s \in Seq(I)
  <2> HIDE DEF I
  <2>1. s \in Seq(I)
    BY DEF I
  <2> QED BY <2>1
<1>1. F \in [I -> B]
  BY PiecesKeep
<1>2. \A z \in Seq(I) : AllPieces(z) = Mapped(F, z)
  <2> TAKE z \in Seq(I)
  <2>1. \A k \in DOMAIN z : F[z[k]] = PiecesOf(z[k])
    <3> HIDE DEF I
    <3>1. \A k \in DOMAIN z : z[k] \in I
      OBVIOUS
    <3> QED BY <3>1
  <2> HIDE DEF F, I
  <2> QED BY <2>1 DEF AllPieces, Mapped
<1>3. \A i \in I : F[i] \in B /\ Spelled(F[i]) = Tagged(i.section, i.chars)
  BY PiecesKeep
<1> HIDE DEF F
<1>4. 0 \in Ok
  <2>1. Part(0) = <<>>
    <3> HIDE DEF I
    <3> QED BY <1>0, Growing
  <2>2. Mapped(F, <<>>) = <<>>
    BY DEF Mapped
  <2>3. All(<<>>) = <<>>
    BY <2>2, FlattenNone
  <2>4. <<>> \in Seq(D)
    OBVIOUS
  <2> HIDE DEF All, Part, D
  <2> QED BY <2>1, <2>3, <2>4
<1>5. ASSUME NEW m \in Nat, m \in Ok PROVE m + 1 \in Ok
  <2> SUFFICES ASSUME m + 1 <= n
               PROVE  /\ All(Part(m + 1)) \in Seq(D)
                      /\ Spelled(All(Part(m + 1))) = Spelled(Part(m + 1))
    OBVIOUS
  <2> DEFINE v == Part(m)
             e == s[m + 1]
             a == Mapped(F, v)
             x == F[e]
  <2>1. m \in 0..(n - 1) /\ m \in 0..n
    BY <1>0
  <2>2. v \in Seq(I) /\ e \in I /\ Part(m + 1) = Append(v, e)
    <3> HIDE DEF I
    <3> QED BY <1>0, <2>1, Growing
  <2>3. All(v) \in Seq(D) /\ Spelled(All(v)) = Spelled(v)
    <3> HIDE DEF All, Part
    <3> QED BY <1>5, <2>1
  <2>4. x \in B /\ Spelled(x) = Tagged(e.section, e.chars)
    BY <1>3, <2>2
  <2>5. Mapped(F, Append(v, e)) = Append(a, x) /\ a \in Seq(B)
    <3> DEFINE one == <<e>>
    <3> HIDE DEF v, e, I, B
    <3>1. a \in Seq(B)
      BY <1>1, <2>2, MappedType
    <3>2. Append(v, e) = v \o one
      BY <2>2, AppendIsConcat
    <3>3. one \in Seq(I)
      BY <2>2
    <3>4. Mapped(F, one) = <<x>>
      BY DEF Mapped
    <3> HIDE DEF one, a
    <3>5. MapsJoined(F, v, one)
      BY <1>1, <2>2, <3>3, MappedJoin
    <3>6. Append(a, x) = a \o <<x>>
      <4>1. x \in B
        BY <2>4 DEF e
      <4> HIDE DEF x
      <4> QED BY <3>1, <4>1, AppendIsConcat
    <3> QED BY <3>1, <3>2, <3>4, <3>5, <3>6 DEF MapsJoined, a
  <2> HIDE DEF v, e, x, a, D
  <2>6. FlattenSeq(Append(a, x)) = FlattenSeq(a) \o x
    BY <2>4, <2>5, FlattenAppend
  <2> DEFINE w == All(v)
  <2>7. All(Append(v, e)) = w \o x
    BY <2>5, <2>6 DEF a
  <2>8. w \in Seq(D) /\ x \in Seq(D) /\ Spelled(w) = Spelled(v)
    BY <2>3, <2>4
  <2> HIDE DEF w, All, B
  <2>9. w \o x \in Seq(D)
    <3>1. JoinsInTurn(w, x, x, D)
      BY <2>8, JoinedInTurn
    <3> QED BY <3>1 DEF JoinsInTurn
  <2>10. Spelled(w \o x) = Spelled(w) \o Spelled(x)
    <3>1. w \in Seq(Item(C)) /\ x \in Seq(Item(C))
      BY <2>8, PiecesAreItems DEF D
    <3> QED BY <3>1, SpelledJoin
  <2>11. SpellsOne(v, e)
    BY <2>2, SpelledAppend DEF I
  <2>12. Spelled(w \o x) = Spelled(Append(v, e))
    BY <2>4, <2>8, <2>10, <2>11 DEF SpellsOne
  <2> QED BY <2>2, <2>7, <2>9, <2>12
<1>6. n \in Ok
  <2> HIDE DEF Ok
  <2> QED BY <1>0, <1>4, <1>5, Induction
<1>7. Part(n) = s
  <2> HIDE DEF I
  <2> QED BY <1>0, Growing
<1>8. AllPieces(s) = Mapped(F, s)
  BY <1>0, <1>2
<1> HIDE DEF Part, D
<1> QED BY <1>0, <1>6, <1>7, <1>8 DEF D

\* build_paragraphs keeps the letters of the pieces it starts from.
LEMMA ParagraphsSpell ==
    ASSUME NEW C, HasSpaces(C), NEW body, Items(body) \in Seq(Item(C))
    PROVE  /\ Paragraphs(body) \in Seq(Piece(C))
           /\ Spelled(Paragraphs(body)) = Spelled(Items(body))
<1> DEFINE s == Items(body)
           merged == FoldLeft(MergeShort, <<>>, s)
<1>1. Paragraphs(body) = FlattenSeq(AllPieces(merged))
  BY DEF Paragraphs, AllPieces, PiecesOf
<1> HIDE DEF s
<1>2. merged \in Seq(Item(C)) /\ Spelled(merged) = Spelled(s)
  BY MergedKeeps DEF s
<1> HIDE DEF merged
<1>3. /\ FlattenSeq(AllPieces(merged)) \in Seq(Piece(C))
      /\ Spelled(FlattenSeq(AllPieces(merged))) = Spelled(merged)
  BY <1>2, AllPiecesKeep
<1> QED BY <1>1, <1>2, <1>3 DEF s

\* blocks in the order of their numbers, with texts over C
Body(s, C) ==
    /\ Sequence(s)
    /\ \A i \in DOMAIN s : s[i].order \in Int /\ s[i].text.chars \in Seq(C)
    /\ \A i, j \in DOMAIN s : i < j => s[i].order <= s[j].order

\* A permutation of the first n indices that keeps their order
KeepsOrder(p, n) ==
    /\ p \in [1..n -> 1..n] /\ \A i \in 1..n : \E a \in 1..n : p[a] = i
    /\ \A a, b \in 1..n : a < b => p[a] < p[b]
\* moves none of them.
LEMMA NothingMoved ==
    ASSUME NEW n \in Nat, NEW p, KeepsOrder(p, n)
    PROVE  \A a \in 1..n : p[a] = a
<1>0. /\ p \in [1..n -> 1..n] /\ \A i \in 1..n : \E a \in 1..n : p[a] = i
      /\ \A a, b \in 1..n : a < b => p[a] < p[b]
  BY DEF KeepsOrder
<1> DEFINE Ok == {m \in Nat : \A a \in 1..n : a <= m => p[a] = a}
<1>1. 0 \in Ok
  OBVIOUS
<1>2. ASSUME NEW m \in Nat, m \in Ok PROVE m + 1 \in Ok
  <2> SUFFICES ASSUME m + 1 \in 1..n PROVE p[m + 1] = m + 1
    <3>1. \A a \in 1..n : a <= m + 1 => a <= m \/ a = m + 1
      OBVIOUS
    <3> QED BY <1>2, <3>1
  <2>1. PICK a \in 1..n : p[a] = m + 1
    BY <1>0
  <2>2. a > m
    <3>1. a <= m => p[a] = a
      BY <1>2
    <3> QED BY <2>1, <3>1
  <2>3. a = m + 1 \/ m + 1 < a
    BY <2>2
  <2>4. ASSUME m + 1 < a PROVE FALSE
    <3>1. p[m + 1] < m + 1 /\ p[m + 1] \in 1..n
      BY <1>0, <2>1, <2>4
    <3>2. p[p[m + 1]] = p[m + 1]
      BY <1>2, <3>1
    <3>3. p[p[m + 1]] < p[m + 1]
      BY <1>0, <3>1
    <3> QED BY <3>1, <3>2, <3>3
  <2> QED BY <2>1, <2>3, <2>4
<1>3. n \in Ok
  <2> HIDE DEF Ok
  <2> QED BY <1>1, <1>2, Induction
<1> QED BY <1>3

\* s has n blocks with numbers
HasOrders(s, n) == DOMAIN s = 1..n /\ \A i \in 1..n : s[i].order \in Int
\* the key that InOrder sorts by
OrderKey(s) == [i \in DOMAIN s |-> <<s[i].order>>]
\* It does sort by that key.
LEMMA OrdersSorted ==
    ASSUME NEW n \in Nat, NEW s, HasOrders(s, n)
    PROVE  SortedAs(InOrder(s), s, n, OrderKey(s))
<1> DEFINE key == OrderKey(s)
<1>0. DOMAIN s = 1..n /\ \A i \in 1..n : s[i].order \in Int
  BY DEF HasOrders
<1>1. key = [i \in 1..n |-> key[i]] /\ \A i \in 1..n : key[i] = <<s[i].order>>
  BY <1>0 DEF OrderKey
<1>2. InOrder(s) = SortBy(s, key)
  BY DEF InOrder, OrderKey
<1>3. \A i, j \in 1..n : Precedes(key[i], key[j]) <=> s[i].order < s[j].order
  BY <1>1 DEF Precedes
<1> HIDE DEF key
<1>4. OrdersKeys(key, n)
  <2>1. \A i \in 1..n : ~Precedes(key[i], key[i])
    BY <1>0, <1>3
  <2>2. \A i, j, k \in 1..n :
            Precedes(key[i], key[j]) /\ Precedes(key[j], key[k]) => Precedes(key[i], key[k])
    BY <1>0, <1>3
  <2>3. \A i, j \in 1..n :
            Precedes(key[i], key[j]) \/ Precedes(key[j], key[i]) \/ key[i] = key[j]
    <3> TAKE i, j \in 1..n
    <3>1. s[i].order \in Int /\ s[j].order \in Int
      BY <1>0
    <3>2. s[i].order < s[j].order \/ s[j].order < s[i].order \/ s[i].order = s[j].order
      BY <3>1
    <3> QED BY <1>1, <1>3, <3>2
  <2> QED BY <2>1, <2>2, <2>3 DEF OrdersKeys
<1> QED BY <1>0, <1>1, <1>2, <1>4, SortBySorts DEF key

\* Blocks in order stay where they are.
LEMMA AlreadyInOrder ==
    ASSUME NEW C, NEW s, Body(s, C)
    PROVE  InOrder(s) = s
<1> DEFINE n == Len(s)
           key == OrderKey(s)
<1>1. n \in Nat /\ DOMAIN s = 1..n /\ s = [i \in 1..n |-> s[i]]
  BY SequenceFacts DEF Body
<1>2. \A i \in 1..n : s[i].order \in Int
  BY <1>1 DEF Body
<1>3. \A i, j \in 1..n : i < j => s[i].order <= s[j].order
  BY <1>1 DEF Body
<1> HIDE DEF n
<1>4. PICK p : Sorts(p, n, key) /\ InOrder(s) = [a \in 1..n |-> s[p[a]]]
  <2>1. HasOrders(s, n)
    BY <1>1, <1>2 DEF HasOrders
  <2>2. SortedAs(InOrder(s), s, n, key)
    BY <1>1, <2>1, OrdersSorted
  <2> QED BY <2>2 DEF SortedAs
<1>5. p \in [1..n -> 1..n] /\ \A i \in 1..n : \E a \in 1..n : p[a] = i
  BY <1>4 DEF Sorts
<1>6. ASSUME NEW a \in 1..n, NEW b \in 1..n, a < b PROVE p[a] < p[b]
  <2>1. \/ Precedes(key[p[a]], key[p[b]])
        \/ key[p[a]] = key[p[b]] /\ p[a] < p[b]
    BY <1>4, <1>6 DEF Sorts
  <2>2. p[a] \in 1..n /\ p[b] \in 1..n
    BY <1>5
  <2>3. key[p[a]] = <<s[p[a]].order>> /\ key[p[b]] = <<s[p[b]].order>>
    BY <1>1, <2>2 DEF OrderKey
  <2>4. Precedes(key[p[a]], key[p[b]]) => s[p[a]].order < s[p[b]].order
    BY <2>3, <1>2, <2>2 DEF Precedes
  <2>5. p[b] < p[a] => s[p[b]].order <= s[p[a]].order
    BY <1>3, <2>2
  <2>6. s[p[a]].order \in Int /\ s[p[b]].order \in Int
    BY <1>2, <2>2
  <2>7. Precedes(key[p[a]], key[p[b]]) => p[a] # p[b]
    BY <2>4, <2>6
  <2> QED BY <2>1, <2>2, <2>4, <2>5, <2>6, <2>7
<1>7. \A a \in 1..n : p[a] = a
  <2>1. KeepsOrder(p, n)
    BY <1>5, <1>6 DEF KeepsOrder
  <2> QED BY <1>1, <2>1, NothingMoved
<1> QED BY <1>1, <1>4, <1>7

-----------------------------------------------------------------------------
(* The pieces of a body, and their sections. *)

\* block i starts a section
IsHeader(s, i) == s[i].type = "section_header" /\ Letters(s[i].text.chars) # <<>>
\* The section changes at a heading that has letters.
LEMMA SectionStep ==
    ASSUME NEW s, NEW m \in Nat
    PROVE  /\ SectionOf(s, 0) = -1
           /\ SectionOf(s, m + 1) = IF IsHeader(s, m + 1) THEN s[m + 1].order ELSE SectionOf(s, m)
<1> DEFINE H(k) == {j \in 1..k : s[j].type = "section_header" /\ Letters(s[j].text.chars) # <<>>}
           last(k) == CHOOSE j \in H(k) : \A i \in H(k) : i <= j
<1>1. \A k : SectionOf(s, k) = IF H(k) = {} THEN -1 ELSE s[last(k)].order
  BY DEF SectionOf
<1>2. H(0) = {}
  OBVIOUS
<1>3. 1..(m + 1) = (1..m) \union {m + 1}
  OBVIOUS
<1>4. H(m + 1) = IF IsHeader(s, m + 1) THEN H(m) \union {m + 1} ELSE H(m)
  BY <1>3 DEF IsHeader
<1>5. H(m) \subseteq 1..m
  OBVIOUS
<1>6. IsHeader(s, m + 1) => H(m + 1) # {} /\ last(m + 1) = m + 1
  <2> SUFFICES ASSUME IsHeader(s, m + 1) PROVE H(m + 1) # {} /\ last(m + 1) = m + 1
    OBVIOUS
  <2> DEFINE T == H(m + 1)
  <2>1. m + 1 \in T /\ T \subseteq 1..(m + 1)
    BY <1>4, <1>5
  <2> HIDE DEF T
  <2>2. \A j \in T : (\A i \in T : i <= j) <=> j = m + 1
    BY <2>1
  <2>3. (CHOOSE j \in T : \A i \in T : i <= j) = m + 1
    BY <2>1, <2>2
  <2> QED BY <2>1, <2>3 DEF T
<1>7. ~IsHeader(s, m + 1) => H(m + 1) = H(m)
  BY <1>4
<1>8. ~IsHeader(s, m + 1) => SectionOf(s, m + 1) = SectionOf(s, m)
  <2> HIDE DEF H
  <2>1. H(m + 1) = H(m) => last(m + 1) = last(m)
    OBVIOUS
  <2> HIDE DEF last
  <2> QED BY <1>1, <1>7, <2>1
<1> HIDE DEF H, last
<1>9. IsHeader(s, m + 1) => SectionOf(s, m + 1) = s[m + 1].order
  BY <1>1, <1>6
<1> QED BY <1>1, <1>2, <1>8, <1>9

\* Every section is a number.
LEMMA SectionType ==
    ASSUME NEW n \in Nat, NEW s, HasOrders(s, n)
    PROVE  \A m \in 0..n : SectionOf(s, m) \in Int
<1> DEFINE Ok == {m \in Nat : m <= n => SectionOf(s, m) \in Int}
<1>1. 0 \in Ok
  BY SectionStep
<1>2. ASSUME NEW m \in Nat, m \in Ok PROVE m + 1 \in Ok
  <2> SUFFICES ASSUME m + 1 <= n PROVE SectionOf(s, m + 1) \in Int
    OBVIOUS
  <2>1. SectionOf(s, m) \in Int /\ s[m + 1].order \in Int
    BY <1>2 DEF HasOrders
  <2> QED BY <2>1, SectionStep
<1>3. Nat \subseteq Ok
  <2> HIDE DEF Ok
  <2> QED BY <1>1, <1>2, Induction
<1> QED BY <1>3

\* the letters of a block, under its section
Spoken(s, i) == IF s[i].type = "section_header" THEN <<>>
                ELSE Tagged(SectionOf(s, i), s[i].text.chars)
\* BodyText before it is flattened
Parts(s) == [i \in DOMAIN s |-> Spoken(s, i)]
\* It is a list of sequences of letters.
LEMMA PartsType ==
    ASSUME NEW C, NEW s, Body(s, C)
    PROVE  Parts(s) \in Seq(Seq(Letter(C))) /\ Len(Parts(s)) = Len(s)
<1> DEFINE n == Len(s)
           t == Parts(s)
           D == Letter(C)
           B == Seq(D)
<1>1. n \in Nat /\ DOMAIN s = 1..n
  BY SequenceFacts DEF Body
<1>2. \A i \in 1..n : s[i].order \in Int /\ s[i].text.chars \in Seq(C)
  BY <1>1 DEF Body
<1>3. \A i \in 1..n : SectionOf(s, i) \in Int
  <2>1. HasOrders(s, n)
    BY <1>1, <1>2 DEF HasOrders
  <2>2. \A m \in 0..n : SectionOf(s, m) \in Int
    BY <1>1, <2>1, SectionType
  <2>3. \A i \in 1..n : i \in 0..n
    OBVIOUS
  <2> QED BY <2>2, <2>3
<1>4. \A i \in 1..n : Spoken(s, i) \in B
  <2> TAKE i \in 1..n
  <2>1. Tagged(SectionOf(s, i), s[i].text.chars) \in Seq(Letter(C))
    BY <1>2, <1>3, TaggedJoin
  <2>2. <<>> \in B
    OBVIOUS
  <2> QED BY <2>1, <2>2 DEF Spoken
<1>5. t = [i \in 1..n |-> t[i]] /\ \A i \in 1..n : t[i] = Spoken(s, i)
  BY <1>1 DEF Parts
<1> HIDE DEF n, t, B
<1>6. \A i \in 1..n : t[i] \in B
  BY <1>4, <1>5
<1>7. t \in Seq(B) /\ Len(t) = n
  BY <1>1, <1>5, <1>6, IsSequence
<1> QED BY <1>7 DEF t, B, n

\* one turn of the loop of Items
TakeItem(out, b) ==
    LET chars == NormalizeText(b.text.chars)
    IN  IF chars = <<>> THEN out
        ELSE IF b.type = "section_header" THEN [out EXCEPT !.section = b.order]
        ELSE [out EXCEPT !.items = Append(@, [section |-> out.section, chars |-> chars])]
\* what the loop has: the section, and the pieces so far
Taken(C) == [section : Int, items : Seq(Item(C))]
\* what the loop has after m blocks of s
TakenTo(s, m, C) ==
    {o \in Taken(C) : /\ o.section = SectionOf(s, m)
                      /\ Spelled(o.items) = FlattenSeq(SubSeq(Parts(s), 1, m))}

\* A block of texts over C
HasText(b, C) == b.order \in Int /\ b.text.chars \in Seq(C)
\* is taken like this.
LEMMA TakeType ==
    ASSUME NEW C, HasSpaces(C), NEW out \in Taken(C), NEW b, HasText(b, C)
    PROVE  TakeItem(out, b) \in Taken(C)
<1> DEFINE chars == NormalizeText(b.text.chars)
           i == [section |-> out.section, chars |-> chars]
<1>1. b.order \in Int /\ b.text.chars \in Seq(C)
  BY DEF HasText
<1>2. chars \in Seq(C)
  BY <1>1, NormalizeKeeps
<1>3. out.section \in Int /\ out.items \in Seq(Item(C))
  BY DEF Taken
<1>4. TakeItem(out, b) \in {out, [out EXCEPT !.section = b.order],
                            [out EXCEPT !.items = Append(@, i)]}
  BY DEF TakeItem
<1> HIDE DEF chars
<1>5. i \in Item(C)
  BY <1>2, <1>3 DEF Item
<1> HIDE DEF i
<1>6. Append(out.items, i) \in Seq(Item(C))
  BY <1>3, <1>5
<1> QED BY <1>1, <1>3, <1>4, <1>6 DEF Taken

\* The letters of the pieces are those of the blocks so far.
LEMMA TakeKeeps ==
    ASSUME NEW C, HasSpaces(C), NEW s, Body(s, C), NEW m \in 0..(Len(s) - 1),
           NEW o \in TakenTo(s, m, C)
    PROVE  TakeItem(o, s[m + 1]) \in TakenTo(s, m + 1, C)
<1> DEFINE n == Len(s)
           b == s[m + 1]
           text == b.text.chars
           chars == NormalizeText(text)
           sec == SectionOf(s, m)
           next == SectionOf(s, m + 1)
           D == Letter(C)
           B == Seq(D)
           parts == Parts(s)
           before == FlattenSeq(SubSeq(parts, 1, m))
           now == FlattenSeq(SubSeq(parts, 1, m + 1))
           new == Spoken(s, m + 1)
           i == [section |-> sec, chars |-> chars]
<1>1. n \in Nat /\ DOMAIN s = 1..n /\ m \in Nat /\ m + 1 \in 1..n /\ m \in 0..n
  BY SequenceFacts DEF Body
<1>2. b.order \in Int /\ text \in Seq(C) /\ HasText(b, C)
  BY <1>1 DEF Body, HasText
<1>3. sec \in Int /\ next \in Int
  <2>1. HasOrders(s, n)
    BY <1>1 DEF Body, HasOrders
  <2>2. \A k \in 0..n : SectionOf(s, k) \in Int
    BY <1>1, <2>1, SectionType
  <2>3. m + 1 \in 0..n
    BY <1>1
  <2> QED BY <1>1, <2>2, <2>3
<1>4. next = IF b.type = "section_header" /\ Letters(text) # <<>> THEN b.order ELSE sec
  BY <1>1, SectionStep DEF IsHeader
<1>5. new = IF b.type = "section_header" THEN <<>> ELSE Tagged(next, text)
  BY DEF Spoken
<1>6. /\ chars \in Seq(C) /\ Letters(chars) = Letters(text)
      /\ chars = <<>> <=> Letters(text) = <<>>
  BY <1>2, NormalizeKeeps
<1>7. now = before \o new /\ before \in Seq(D)
  <2>1. parts \in Seq(B) /\ Len(parts) = n
    BY PartsType
  <2>2. parts[m + 1] = new
    BY <1>1 DEF Parts
  <2> HIDE DEF parts, B, new
  <2>3. /\ SubSeq(parts, 1, m) \in Seq(B) /\ parts[m + 1] \in B
        /\ SubSeq(parts, 1, m + 1) = Append(SubSeq(parts, 1, m), parts[m + 1])
    BY <1>1, <2>1, Growing
  <2> DEFINE x == SubSeq(parts, 1, m)
             y == parts[m + 1]
  <2>4. x \in Seq(Seq(D)) /\ y \in Seq(D)
    BY <2>3 DEF B
  <2> HIDE DEF x, y
  <2>5. FlattenSeq(Append(x, y)) = FlattenSeq(x) \o y
    BY <2>4, FlattenAppend
  <2>6. FlattenSeq(x) \in Seq(D)
    BY <2>4, FlattenType
  <2> QED BY <2>2, <2>3, <2>5, <2>6 DEF x, y
<1>8. /\ o \in Taken(C) /\ o.section = sec /\ Spelled(o.items) = before
      /\ o.section \in Int /\ o.items \in Seq(Item(C))
  BY DEF TakenTo, Taken
<1>9. TakeItem(o, b) = IF chars = <<>> THEN o
                       ELSE IF b.type = "section_header" THEN [o EXCEPT !.section = b.order]
                       ELSE [o EXCEPT !.items = Append(@, i)]
  BY <1>8 DEF TakeItem
<1>10. TakeItem(o, b) \in Taken(C)
  BY <1>2, <1>8, TakeType
<1> HIDE DEF n, b, text, chars, sec, next, before, now, new
<1>11. before \o <<>> = before
  BY <1>7, ConcatEmptySeq
<1>12. /\ TakeItem(o, b).section = next
       /\ Spelled(TakeItem(o, b).items) = now
  <2>1. CASE chars = <<>>
    <3>1. next = sec /\ TakeItem(o, b) = o
      BY <2>1, <1>4, <1>6, <1>9
    <3>2. new = <<>>
      <4>1. Tagged(next, text) = <<>>
        BY <2>1, <1>6 DEF Tagged
      <4> QED BY <4>1, <1>5
    <3> QED BY <3>1, <3>2, <1>7, <1>8, <1>11
  <2>2. CASE chars # <<>> /\ b.type = "section_header"
    <3>1. next = b.order /\ TakeItem(o, b) = [o EXCEPT !.section = b.order]
      BY <2>2, <1>4, <1>6, <1>9
    <3>2. new = <<>>
      BY <2>2, <1>5
    <3>3. TakeItem(o, b).section = b.order /\ TakeItem(o, b).items = o.items
      BY <3>1, <1>8 DEF Taken
    <3> QED BY <3>1, <3>2, <3>3, <1>7, <1>8, <1>11
  <2>3. CASE chars # <<>> /\ b.type # "section_header"
    <3>1. next = sec /\ TakeItem(o, b) = [o EXCEPT !.items = Append(@, i)]
      BY <2>3, <1>4, <1>9
    <3>2. new = Tagged(sec, chars)
      <4>1. new = Tagged(sec, text)
        BY <2>3, <3>1, <1>5
      <4>2. Tagged(sec, text) = Tagged(sec, chars)
        BY <1>6 DEF Tagged
      <4> QED BY <4>1, <4>2
    <3>3. i \in Item(C) /\ i.section = sec /\ i.chars = chars
      BY <1>3, <1>6 DEF Item
    <3> HIDE DEF i
    <3>4. SpellsOne(o.items, i)
      BY <3>3, <1>8, SpelledAppend
    <3>5. TakeItem(o, b).section = o.section /\ TakeItem(o, b).items = Append(o.items, i)
      BY <3>1, <1>8 DEF Taken
    <3>6. Spelled(Append(o.items, i)) = before \o new
      BY <3>2, <3>3, <3>4, <1>8 DEF SpellsOne
    <3> QED BY <3>1, <3>5, <3>6, <1>7, <1>8
  <2> QED BY <2>1, <2>2, <2>3
<1> QED BY <1>10, <1>12 DEF TakenTo, b, next, now

\* the whole loop
TakeAll(s) == FoldLeft(TakeItem, [section |-> -1, items |-> <<>>], s)
\* Items takes the blocks in order.
LEMMA ItemsTake == ASSUME NEW C, NEW s, Body(s, C) PROVE Items(s) = TakeAll(s).items
<1>1. Items(s) = TakeAll(InOrder(s)).items
  BY DEF Items, TakeAll, TakeItem
<1> QED BY <1>1, AlreadyInOrder

\* The pieces of the body have its letters.
LEMMA ItemsSpell ==
    ASSUME NEW C, HasSpaces(C), NEW s, Body(s, C)
    PROVE  Items(s) \in Seq(Item(C)) /\ Spelled(Items(s)) = BodyText(s)
<1> DEFINE S == Taken(C)
           E == {b \in {s[j] : j \in DOMAIN s} : HasText(b, C)}
           base == [section |-> -1, items |-> <<>>]
           step == [x \in S \X E |-> TakeItem(x[1], x[2])]
           iter == CHOOSE g : g = [T \in SUBSET DOMAIN s |->
                       IF T = {} THEN base
                       ELSE TakeItem(g[T \ {Max(T)}], s[Max(T)])]
           R == [m \in Nat |-> TakenTo(s, m, C)]
<1>1. TakeAll(s) = iter[DOMAIN s]
  BY DEF TakeAll, FoldLeft, MapThenFoldSet
<1>2. /\ Len(s) \in Nat /\ s \in [1..Len(s) -> E] /\ DOMAIN s = 1..Len(s)
  <2>1. Len(s) \in Nat /\ DOMAIN s = 1..Len(s) /\ s = [i \in 1..Len(s) |-> s[i]]
    BY SequenceFacts DEF Body
  <2>2. \A i \in 1..Len(s) : s[i] \in E
    BY <2>1 DEF Body, HasText
  <2> HIDE DEF E
  <2> QED BY <2>1, <2>2
<1>3. base \in S
  <2>1. <<>> \in Seq(Item(C))
    OBVIOUS
  <2> QED BY <2>1 DEF Taken
<1> HIDE DEF base
<1>4. step \in [S \X E -> S]
  <2>1. \A x \in S, b \in E : TakeItem(x, b) \in S
    <3> TAKE x \in S, b \in E
    <3>1. HasText(b, C)
      OBVIOUS
    <3> HIDE DEF E
    <3> QED BY <3>1, TakeType
  <2> HIDE DEF E, S
  <2> QED BY <2>1
<1> HIDE DEF E
<1>5. PICK g \in [SUBSET (1..Len(s)) -> S] : Folds(g, Len(s), base, step, s)
  <2> HIDE DEF step, S
  <2> QED BY <1>2, <1>3, <1>4, FoldExists DEF Foldable
<1>6. \A T \in SUBSET DOMAIN s : T # {} =>
         step[<<g[T \ {Max(T)}], s[Max(T)]>>] = TakeItem(g[T \ {Max(T)}], s[Max(T)])
  <2> SUFFICES ASSUME NEW T \in SUBSET DOMAIN s, NEW i \in T
               PROVE  step[<<g[T \ {Max(T)}], s[Max(T)]>>]
                          = TakeItem(g[T \ {Max(T)}], s[Max(T)])
    OBVIOUS
  <2>1. Max(T) \in T
    BY <1>2, MaxIn
  <2> QED BY <2>1, <1>2
<1>7. g = [T \in SUBSET DOMAIN s |->
              IF T = {} THEN base ELSE TakeItem(g[T \ {Max(T)}], s[Max(T)])]
  BY <1>2, <1>5, <1>6 DEF Folds
<1>8. iter = [T \in SUBSET DOMAIN s |->
                 IF T = {} THEN base ELSE TakeItem(iter[T \ {Max(T)}], s[Max(T)])]
  BY <1>7
<1> HIDE DEF iter
<1>9. ASSUME NEW m \in 0..(Len(s) - 1), iter[1..m] \in R[m] PROVE iter[1..(m + 1)] \in R[m + 1]
  <2> DEFINE U == 1..(m + 1)
  <2>1. /\ U \in SUBSET DOMAIN s /\ U # {} /\ Max(U) = m + 1 /\ U \ {m + 1} = 1..m
        /\ m \in Nat /\ m + 1 \in Nat
    BY <1>2, Segment
  <2> HIDE DEF U
  <2>2. iter[U] = TakeItem(iter[U \ {Max(U)}], s[Max(U)])
    BY <1>8, <2>1
  <2>3. iter[U] = TakeItem(iter[1..m], s[m + 1])
    BY <2>1, <2>2
  <2>4. iter[1..m] \in TakenTo(s, m, C)
    BY <1>9, <2>1
  <2>5. TakeItem(iter[1..m], s[m + 1]) \in TakenTo(s, m + 1, C)
    BY <2>4, TakeKeeps
  <2> QED BY <2>1, <2>3, <2>5 DEF U
<1>10. iter[{}] \in R[0]
  <2>1. iter[{}] = base
    BY <1>8
  <2>2. base.section = SectionOf(s, 0) /\ base.items = <<>>
    BY SectionStep DEF base
  <2>3. Spelled(<<>>) = <<>>
    BY FlattenNone DEF Spelled, Tags
  <2>4. FlattenSeq(SubSeq(Parts(s), 1, 0)) = <<>>
    <3> DEFINE B == Seq(Letter(C))
    <3>1. Parts(s) \in Seq(B)
      BY PartsType
    <3> HIDE DEF B
    <3>2. SubSeq(Parts(s), 1, 0) = <<>>
      BY <3>1, Growing
    <3> QED BY <3>2, FlattenNone
  <2> HIDE DEF S
  <2> QED BY <1>3, <2>1, <2>2, <2>3, <2>4 DEF TakenTo, S
<1>11. R[Len(s)] = TakenTo(s, Len(s), C)
  BY <1>2
<1> HIDE DEF R
<1>12. iter[1..Len(s)] \in R[Len(s)]
  BY <1>2, <1>9, <1>10, ReachedInTurn
<1>13. SubSeq(Parts(s), 1, Len(s)) = Parts(s)
  <2> DEFINE B == Seq(Letter(C))
  <2>1. Parts(s) \in Seq(B) /\ Len(Parts(s)) = Len(s)
    BY PartsType
  <2> HIDE DEF B
  <2> QED BY <2>1, Growing
<1>14. FlattenSeq(Parts(s)) = BodyText(s)
  BY DEF BodyText, Parts, Spoken
<1>15. TakeAll(s) \in TakenTo(s, Len(s), C)
  BY <1>1, <1>2, <1>11, <1>12
<1>16. /\ TakeAll(s).items \in Seq(Item(C))
       /\ Spelled(TakeAll(s).items) = FlattenSeq(SubSeq(Parts(s), 1, Len(s)))
  BY <1>15 DEF TakenTo, Taken
<1> QED BY <1>13, <1>14, <1>16, ItemsTake

\* build_paragraphs keeps the letters of the body.
LEMMA ParagraphsKeep ==
    ASSUME NEW C, HasSpaces(C), NEW s, Body(s, C)
    PROVE  Paragraphs(s) \in Seq(Piece(C)) /\ Spelled(Paragraphs(s)) = BodyText(s)
<1>1. Items(s) \in Seq(Item(C)) /\ Spelled(Items(s)) = BodyText(s)
  BY ItemsSpell
<1> QED BY <1>1, ParagraphsSpell

-----------------------------------------------------------------------------
(* The body that split_blocks selects. *)

\* blocks of a document with the printed texts U, the texts T and the crops K
Filing(U, T, K) == [page : Int, type : BlockTypes, box : Quad, conf : Int, order : Int,
                    printed : U, text : T, crop : K]
\* Merging titles leaves such blocks,
LEMMA FilingClosed == \A U, T, K : Closed(Filing(U, T, K))
<1> TAKE U, T, K
<1> SUFFICES ASSUME NEW a \in Filing(U, T, K), NEW b \in Filing(U, T, K)
             PROVE  MergeTitles(a, b) \in Filing(U, T, K)
  BY DEF Closed
<1>1. /\ a.box \in Quad /\ b.box \in Quad /\ a.conf \in Int /\ b.conf \in Int
      /\ a.order \in Int /\ b.order \in Int
  BY DEF Filing
<1>2. Union(a.box, b.box) \in Quad
  BY <1>1 DEF Union, Lo, Hi, Quad
<1>3. Hi(a.conf, b.conf) \in Int /\ Lo(a.order, b.order) \in Int
  BY <1>1 DEF Hi, Lo
<1> QED BY <1>2, <1>3 DEF MergeTitles, Filing

\* a set of typed blocks whose type can be corrected
Retypes(B) ==
    \A b \in B : /\ b.type \in BlockTypes /\ b.order \in Int
                 /\ \A type \in {"author", "text"} :
                       [b EXCEPT !.type = type] \in B /\ [b EXCEPT !.type = type].order = b.order
\* So can that of the blocks of a document.
LEMMA FilingRetypes == \A U, T, K : Retypes(Filing(U, T, K))
BY DEF Retypes, Filing, BlockTypes

\* blocks by their numbers
Rising(s) == \A i, j \in DOMAIN s : i < j => s[i].order <= s[j].order
RisingOf(B) == {s \in Seq(B) : Rising(s)}

\* InOrder puts them so,
LEMMA InOrderRises ==
    ASSUME NEW B, Retypes(B), NEW s \in Seq(B)
    PROVE  InOrder(s) \in RisingOf(B)
<1> DEFINE n == Len(s)
           key == OrderKey(s)
           t == InOrder(s)
<1>1. n \in Nat /\ DOMAIN s = 1..n /\ \A i \in 1..n : s[i] \in B
  OBVIOUS
<1>2. \A i \in 1..n : s[i].order \in Int
  BY <1>1 DEF Retypes
<1>3. PICK p : Sorts(p, n, key) /\ t = [a \in 1..n |-> s[p[a]]]
  <2>1. HasOrders(s, n)
    BY <1>1, <1>2 DEF HasOrders
  <2> HIDE DEF n
  <2>2. SortedAs(InOrder(s), s, n, key)
    BY <1>1, <2>1, OrdersSorted
  <2> QED BY <2>2 DEF SortedAs
<1> HIDE DEF n, t
<1>4. \A a \in 1..n : p[a] \in 1..n
  BY <1>3 DEF Sorts
<1>5. t = [a \in 1..n |-> t[a]] /\ \A a \in 1..n : t[a] = s[p[a]] /\ t[a] \in B
  BY <1>1, <1>3, <1>4
<1>6. t \in Seq(B) /\ Len(t) = n
  BY <1>1, <1>5, IsSequence
<1>7. ASSUME NEW a \in 1..n, NEW b \in 1..n, a < b PROVE t[a].order <= t[b].order
  <2>1. \/ Precedes(key[p[a]], key[p[b]])
        \/ key[p[a]] = key[p[b]] /\ p[a] < p[b]
    BY <1>3, <1>7 DEF Sorts
  <2>2. p[a] \in 1..n /\ p[b] \in 1..n
    BY <1>4
  <2>3. key[p[a]] = <<s[p[a]].order>> /\ key[p[b]] = <<s[p[b]].order>>
    BY <1>1, <2>2 DEF OrderKey
  <2>4. s[p[a]].order \in Int /\ s[p[b]].order \in Int
    BY <1>2, <2>2
  <2>5. s[p[a]].order <= s[p[b]].order
    BY <2>1, <2>3, <2>4 DEF Precedes
  <2> QED BY <2>5, <1>5
<1>8. DOMAIN t = 1..n
  BY <1>5
<1>9. Rising(t)
  BY <1>7, <1>8 DEF Rising
<1> QED BY <1>6, <1>9 DEF t, RisingOf

\* and naming authors leaves them so.
LEMMA AuthorsRise ==
    ASSUME NEW B, Retypes(B), NEW s \in RisingOf(B)
    PROVE  RecoverAuthorRegions(s) \in RisingOf(B)
<1> DEFINE n == Len(s)
           t == RecoverAuthorRegions(s)
<1>1. s \in Seq(B) /\ Rising(s)
  BY DEF RisingOf
<1>2. n \in Nat /\ DOMAIN s = 1..n /\ \A i \in 1..n : s[i] \in B
  BY <1>1
<1> HIDE DEF n
<1>3. t = [i \in 1..n |-> t[i]] /\ \A i \in 1..n : t[i] \in {s[i], [s[i] EXCEPT !.type = "author"]}
  BY <1>2 DEF RecoverAuthorRegions
<1> HIDE DEF t
<1>4. \A i \in 1..n : t[i] \in B /\ t[i].order = s[i].order
  <2> TAKE i \in 1..n
  <2> DEFINE b == s[i]
             a == [b EXCEPT !.type = "author"]
  <2>1. b \in B /\ t[i] \in {b, a}
    BY <1>2, <1>3
  <2>2. a \in B /\ a.order = b.order
    BY <2>1 DEF Retypes
  <2> HIDE DEF a, b
  <2> QED BY <2>1, <2>2 DEF b
<1>5. t \in Seq(B) /\ Len(t) = n
  BY <1>2, <1>3, <1>4, IsSequence
<1>6. DOMAIN t = 1..n
  BY <1>3
<1>7. Rising(t)
  BY <1>1, <1>2, <1>4, <1>6 DEF Rising
<1> QED BY <1>5, <1>7 DEF t, RisingOf

\* what the loop of split_blocks has collected
SplitState(B) == [stopped : BOOLEAN, started : BOOLEAN, meta : Seq(B), keywords : Seq(B),
                  body : Seq(B), tables : Seq(B)]
\* after a turn of split_blocks the body is as before, or ends with block b
TurnFollows(new, out, b, B) ==
    /\ new \in SplitState(B)
    /\ \/ new.body = out.body
       \/ \E e \in B : e.order = b.order /\ new.body = Append(out.body, e)
\* Each turn leaves it so.
LEMMA SortTurn ==
    ASSUME NEW B, Retypes(B), NEW out \in SplitState(B), NEW b \in B, NEW s
    PROVE  TurnFollows(Sort(s, out, b), out, b, B)
<1> DEFINE header == b.type = "section_header"
           begun == [out EXCEPT !.started = @ \/ header]
           text == [b EXCEPT !.type = "text"]
           r == Sort(s, out, b)
<1>1. b.type \in BlockTypes /\ text \in B /\ text.order = b.order
  BY DEF Retypes
<1>2. r \in {out, [out EXCEPT !.stopped = TRUE], [out EXCEPT !.keywords = Append(@, b)],
             [out EXCEPT !.body = Append(@, text)], [out EXCEPT !.meta = Append(@, b)],
             [out EXCEPT !.tables = Append(@, b)], [begun EXCEPT !.body = Append(@, b)]}
  <2> HIDE DEF begun, text
  <2>1. CASE out.stopped \/ b.text.says = "references" \/ b.text.says = "figure caption"
             \/ ProbableFootnote(s, b)
    BY <2>1 DEF Sort
  <2>2. CASE ~(out.stopped \/ b.text.says = "references" \/ b.text.says = "figure caption"
               \/ ProbableFootnote(s, b))
    <3>1. r = CASE b.type = "reference" -> [out EXCEPT !.stopped = TRUE]
               [] b.type = "header_footer" /\ b.text.says = "keywords" ->
                     [out EXCEPT !.keywords = Append(@, b)]
               [] b.type \in Excluded \ {"reference"}
                     /\ ~(b.type = "header_footer" /\ b.text.says = "keywords") -> out
               [] header /\ b.text.says = "abstract" -> out
               [] b.type = "abstract" /\ out.started -> [out EXCEPT !.body = Append(@, text)]
               [] b.type \in MetaTypes /\ ~(b.type = "abstract" /\ out.started) ->
                     [out EXCEPT !.meta = Append(@, b)]
               [] b.type \in TableTypes -> [out EXCEPT !.tables = Append(@, b)]
               [] b.type = "text" \/ (header /\ b.text.says # "abstract") ->
                     [begun EXCEPT !.body = Append(@, b)]
      BY <2>2 DEF Sort, begun, text
    <3> HIDE DEF r
    <3> QED BY <1>1, <3>1 DEF BlockTypes, Excluded, MetaTypes, TableTypes
  <2> QED BY <2>1, <2>2
<1> HIDE DEF r
<1>3. /\ out.meta \in Seq(B) /\ out.keywords \in Seq(B) /\ out.body \in Seq(B)
      /\ out.tables \in Seq(B) /\ out.started \in BOOLEAN
  BY DEF SplitState
<1>4. /\ Append(out.meta, b) \in Seq(B) /\ Append(out.keywords, b) \in Seq(B)
      /\ Append(out.body, b) \in Seq(B) /\ Append(out.tables, b) \in Seq(B)
      /\ Append(out.body, text) \in Seq(B)
  <2> HIDE DEF text
  <2> QED BY <1>1, <1>3
<1> HIDE DEF text
<1>5. begun \in SplitState(B) /\ begun.body = out.body
  BY <1>3 DEF SplitState
<1> HIDE DEF begun
<1>6. CASE r \in {out, [out EXCEPT !.stopped = TRUE], [out EXCEPT !.keywords = Append(@, b)],
                  [out EXCEPT !.meta = Append(@, b)], [out EXCEPT !.tables = Append(@, b)]}
  <2>1. r \in SplitState(B) /\ r.body = out.body
    BY <1>3, <1>4, <1>6 DEF SplitState
  <2> QED BY <2>1 DEF TurnFollows, r
<1>7. CASE r = [out EXCEPT !.body = Append(@, text)]
  <2>1. r \in SplitState(B) /\ r.body = Append(out.body, text)
    BY <1>3, <1>4, <1>7 DEF SplitState
  <2> QED BY <2>1, <1>1 DEF TurnFollows, r
<1>8. CASE r = [begun EXCEPT !.body = Append(@, b)]
  <2>1. r \in SplitState(B) /\ r.body = Append(out.body, b)
    BY <1>4, <1>5, <1>8 DEF SplitState
  <2> QED BY <2>1 DEF TurnFollows, r
<1> QED BY <1>2, <1>6, <1>7, <1>8

\* what split_blocks has after m blocks of s: a body of blocks up to the next
SplitTo(s, m, B) ==
    {o \in SplitState(B) :
        /\ Rising(o.body)
        /\ \A i \in DOMAIN o.body : \A j \in DOMAIN s : j > m => o.body[i].order <= s[j].order}
\* A turn keeps the body in order, and before the blocks still to come.
LEMMA SortRises ==
    ASSUME NEW B, Retypes(B), NEW s \in RisingOf(B), NEW m \in 0..(Len(s) - 1),
           NEW o \in SplitTo(s, m, B)
    PROVE  Sort(s, o, s[m + 1]) \in SplitTo(s, m + 1, B)
<1> DEFINE n == Len(s)
           b == s[m + 1]
           new == Sort(s, o, b)
           body == o.body
           k == Len(body)
<1>1. s \in Seq(B) /\ Rising(s)
  BY DEF RisingOf
<1>2. n \in Nat /\ DOMAIN s = 1..n /\ m \in Nat /\ m + 1 \in 1..n /\ b \in B
  BY <1>1
<1>3. \A i, j \in 1..n : i < j => s[i].order <= s[j].order
  BY <1>1, <1>2 DEF Rising
<1>4. o \in SplitState(B) /\ body \in Seq(B) /\ Rising(body)
  BY DEF SplitTo, SplitState
<1>5. k \in Nat /\ DOMAIN body = 1..k /\ \A i \in 1..k : body[i] \in B
  BY <1>4
<1>6. \A i \in 1..k : \A j \in 1..n : j > m => body[i].order <= s[j].order
  BY <1>2, <1>5 DEF SplitTo
<1> HIDE DEF n, b, body, k, new
<1>7. TurnFollows(new, o, b, B)
  BY <1>2, <1>4, SortTurn DEF new
<1>8. new \in SplitState(B)
  BY <1>7 DEF TurnFollows
<1>9. CASE new.body = body
  <2>1. \A i \in 1..k : \A j \in 1..n : j > m + 1 => body[i].order <= s[j].order
    BY <1>2, <1>6
  <2> QED BY <1>2, <1>4, <1>5, <1>8, <1>9, <2>1 DEF SplitTo, new, b
<1>10. CASE \E e \in B : e.order = b.order /\ new.body = Append(body, e)
  <2>1. PICK e \in B : e.order = b.order /\ new.body = Append(body, e)
    BY <1>10
  <2> DEFINE t == Append(body, e)
  <2>2. /\ DOMAIN t = 1..(k + 1) /\ t[k + 1] = e /\ \A i \in 1..k : t[i] = body[i]
    BY <1>4, <1>5 DEF k
  <2> HIDE DEF t
  <2>3. ASSUME NEW i \in 1..(k + 1), NEW j \in 1..(k + 1), i < j PROVE t[i].order <= t[j].order
    <3>1. i \in 1..k
      BY <1>5, <2>3
    <3>2. CASE j \in 1..k
      BY <1>4, <1>5, <2>2, <2>3, <3>1, <3>2 DEF Rising
    <3>3. CASE j = k + 1
      <4>1. body[i].order <= s[m + 1].order
        BY <1>2, <1>6, <3>1
      <4> QED BY <2>1, <2>2, <3>1, <3>3, <4>1 DEF b
    <3> QED BY <1>5, <3>2, <3>3
  <2>4. ASSUME NEW i \in 1..(k + 1), NEW j \in 1..n, j > m + 1 PROVE t[i].order <= s[j].order
    <3>1. CASE i \in 1..k
      BY <1>2, <1>6, <2>2, <2>4, <3>1
    <3>2. CASE i = k + 1
      <4>1. s[m + 1].order <= s[j].order
        BY <1>2, <1>3, <2>4
      <4> QED BY <2>1, <2>2, <3>2, <4>1 DEF b
    <3> QED BY <1>5, <3>1, <3>2
  <2>5. new.body = t
    BY <2>1 DEF t
  <2>6. Rising(new.body)
    BY <2>2, <2>3, <2>5 DEF Rising
  <2>7. \A i \in DOMAIN new.body : \A j \in DOMAIN s : j > m + 1 => new.body[i].order <= s[j].order
    BY <1>2, <2>2, <2>4, <2>5
  <2> QED BY <1>8, <2>6, <2>7 DEF SplitTo, new, b
<1> QED BY <1>7, <1>9, <1>10 DEF TurnFollows, body

\* the whole loop of split_blocks
SplitAll(s) == FoldLeft(LAMBDA out, b : Sort(s, out, b), NothingYet, s)
\* Over all turns it stays so.
LEMMA SplitRises ==
    ASSUME NEW B, Retypes(B), NEW s \in RisingOf(B)
    PROVE  SplitAll(s).body \in RisingOf(B)
<1> DEFINE S == SplitState(B)
           base == NothingYet
           step == [x \in S \X B |-> Sort(s, x[1], x[2])]
           iter == CHOOSE g : g = [T \in SUBSET DOMAIN s |->
                       IF T = {} THEN base
                       ELSE Sort(s, g[T \ {Max(T)}], s[Max(T)])]
           R == [m \in Nat |-> SplitTo(s, m, B)]
<1>1. SplitAll(s) = iter[DOMAIN s]
  BY DEF SplitAll, FoldLeft, MapThenFoldSet
<1>2. /\ Len(s) \in Nat /\ s \in [1..Len(s) -> B] /\ DOMAIN s = 1..Len(s)
  <2>1. s \in Seq(B)
    BY DEF RisingOf
  <2> QED BY <2>1
<1>3. base \in S
  <2>1. <<>> \in Seq(B)
    OBVIOUS
  <2> QED BY <2>1 DEF SplitState, NothingYet
<1> HIDE DEF base
<1>4. step \in [S \X B -> S]
  BY SortTurn DEF TurnFollows
<1>5. PICK g \in [SUBSET (1..Len(s)) -> S] : Folds(g, Len(s), base, step, s)
  <2> HIDE DEF step, S
  <2> QED BY <1>2, <1>3, <1>4, FoldExists DEF Foldable
<1>6. \A T \in SUBSET DOMAIN s : T # {} =>
         step[<<g[T \ {Max(T)}], s[Max(T)]>>] = Sort(s, g[T \ {Max(T)}], s[Max(T)])
  <2> SUFFICES ASSUME NEW T \in SUBSET DOMAIN s, NEW i \in T
               PROVE  step[<<g[T \ {Max(T)}], s[Max(T)]>>]
                          = Sort(s, g[T \ {Max(T)}], s[Max(T)])
    OBVIOUS
  <2>1. Max(T) \in T
    BY <1>2, MaxIn
  <2> QED BY <2>1, <1>2
<1>7. g = [T \in SUBSET DOMAIN s |->
              IF T = {} THEN base ELSE Sort(s, g[T \ {Max(T)}], s[Max(T)])]
  BY <1>2, <1>5, <1>6 DEF Folds
<1>8. iter = [T \in SUBSET DOMAIN s |->
                 IF T = {} THEN base ELSE Sort(s, iter[T \ {Max(T)}], s[Max(T)])]
  BY <1>7
<1> HIDE DEF iter
<1>9. ASSUME NEW m \in 0..(Len(s) - 1), iter[1..m] \in R[m] PROVE iter[1..(m + 1)] \in R[m + 1]
  <2> DEFINE U == 1..(m + 1)
  <2>1. /\ U \in SUBSET DOMAIN s /\ U # {} /\ Max(U) = m + 1 /\ U \ {m + 1} = 1..m
        /\ m \in Nat /\ m + 1 \in Nat
    BY <1>2, Segment
  <2> HIDE DEF U
  <2>2. iter[U] = Sort(s, iter[U \ {Max(U)}], s[Max(U)])
    BY <1>8, <2>1
  <2>3. iter[U] = Sort(s, iter[1..m], s[m + 1])
    BY <2>1, <2>2
  <2>4. iter[1..m] \in SplitTo(s, m, B)
    BY <1>9, <2>1
  <2>5. Sort(s, iter[1..m], s[m + 1]) \in SplitTo(s, m + 1, B)
    BY <2>4, SortRises
  <2> QED BY <2>1, <2>3, <2>5 DEF U
<1>10. iter[{}] \in R[0]
  <2>1. iter[{}] = base
    BY <1>8
  <2>2. base.body = <<>>
    BY DEF base, NothingYet
  <2> HIDE DEF S
  <2> QED BY <1>3, <2>1, <2>2 DEF SplitTo, Rising, S
<1>11. R[Len(s)] = SplitTo(s, Len(s), B)
  BY <1>2
<1> HIDE DEF R
<1>12. iter[1..Len(s)] \in R[Len(s)]
  BY <1>2, <1>9, <1>10, ReachedInTurn
<1>13. SplitAll(s) \in SplitTo(s, Len(s), B)
  BY <1>1, <1>2, <1>11, <1>12
<1> QED BY <1>13 DEF SplitTo, SplitState, RisingOf

\* So does filtering a document.
LEMMA SplitBlocksRises ==
    ASSUME NEW B, Closed(B), Retypes(B), NEW d \in Seq(B)
    PROVE  SplitBlocks(d).body \in RisingOf(B)
<1> DEFINE s == RecoverAuthorRegions(InOrder(Deduplicate(d)))
<1>1. s \in RisingOf(B)
  BY DeduplicateStays, InOrderRises, AuthorsRise
<1>2. SplitBlocks(d) = SplitAll(s)
  BY DEF SplitBlocks, SplitAll
<1> HIDE DEF s
<1> QED BY <1>1, <1>2, SplitRises

-----------------------------------------------------------------------------
(* Documents of typed blocks. *)

\* a document of typed blocks
AllTyped(d) == Sequence(d) /\ \A i \in DOMAIN d : Typed(d[i])
\* The body of a typed document is one that build_paragraphs can take.
LEMMA SplitBody ==
    ASSUME NEW d, AllTyped(d)
    PROVE  \E C : HasSpaces(C) /\ Body(SplitBlocks(d).body, C)
<1> DEFINE U == {d[i].printed : i \in DOMAIN d}
           T == {d[i].text : i \in DOMAIN d}
           K == {d[i].crop : i \in DOMAIN d}
           B == Filing(U, T, K)
           body == SplitBlocks(d).body
           C == (UNION {{t.chars[k] : k \in DOMAIN t.chars} : t \in T}) \union {" ", "/"}
<1>1. d \in Seq(B)
  <2>1. Len(d) \in Nat /\ DOMAIN d = 1..Len(d) /\ d = [i \in 1..Len(d) |-> d[i]]
    BY SequenceFacts DEF AllTyped
  <2>2. \A i \in 1..Len(d) : d[i] \in B
    <3> TAKE i \in 1..Len(d)
    <3>1. d[i] \in [page : Int, type : BlockTypes, box : Quad, conf : Int, order : Int,
                    printed : {d[i].printed}, text : {d[i].text}, crop : {d[i].crop}]
      BY <2>1 DEF AllTyped, Typed, IsPrinted
    <3>2. d[i].printed \in U /\ d[i].text \in T /\ d[i].crop \in K
      BY <2>1
    <3> HIDE DEF U, T, K
    <3> QED BY <3>1, <3>2 DEF Filing
  <2> HIDE DEF B
  <2> QED BY <2>1, <2>2, IsSequence
<1>2. \A t \in T : IsText(t)
  BY DEF AllTyped, Typed, IsPrinted
<1>3. \A t \in T : t.chars \in Seq(C)
  <2> TAKE t \in T
  <2> DEFINE u == t.chars
  <2>1. Len(u) \in Nat /\ DOMAIN u = 1..Len(u) /\ u = [k \in 1..Len(u) |-> u[k]]
    <3>1. Sequence(t.chars)
      BY <1>2 DEF IsText
    <3> QED BY <3>1, SequenceFacts
  <2>2. \A k \in 1..Len(u) : u[k] \in C
    <3> DEFINE letters == {t.chars[k] : k \in DOMAIN t.chars}
               all == {{r.chars[k] : k \in DOMAIN r.chars} : r \in T}
    <3>1. letters \in all
      <4> HIDE DEF T
      <4> QED OBVIOUS
    <3>2. \A k \in 1..Len(u) : u[k] \in letters
      BY <2>1
    <3> HIDE DEF u, letters
    <3>3. \A k \in 1..Len(u) : u[k] \in UNION all
      <4> HIDE DEF all
      <4> QED BY <3>1, <3>2
    <3> QED BY <3>3
  <2> HIDE DEF u, C
  <2>3. u \in Seq(C)
    BY <2>1, <2>2, IsSequence
  <2> QED BY <2>3 DEF u
<1>4. HasSpaces(C)
  BY DEF HasSpaces
<1>5. \A b \in B : b.order \in Int /\ b.text \in T
  BY DEF Filing
<1> HIDE DEF T, U, K, C, B
<1>6. body \in RisingOf(B)
  BY <1>1, FilingClosed, FilingRetypes, SplitBlocksRises DEF B
<1> HIDE DEF body
<1>7. /\ Len(body) \in Nat /\ DOMAIN body = 1..Len(body) /\ body = [i \in 1..Len(body) |-> body[i]]
      /\ \A i \in 1..Len(body) : body[i] \in B
  <2>1. body \in Seq(B)
    BY <1>6 DEF RisingOf
  <2> QED BY <2>1
<1>8. Sequence(body)
  BY <1>7, SequenceFacts
<1>9. \A i \in DOMAIN body : body[i].order \in Int /\ body[i].text.chars \in Seq(C)
  BY <1>3, <1>5, <1>7
<1>10. \A i, j \in DOMAIN body : i < j => body[i].order <= body[j].order
  BY <1>6 DEF RisingOf, Rising
<1> QED BY <1>4, <1>8, <1>9, <1>10 DEF Body, body

\* Paragraphs keep the letters of a filtered document, and none is empty or too long.
LEMMA DocumentKept ==
    ASSUME NEW d, AllTyped(d)
    PROVE  LET body == SplitBlocks(d).body
               made == Paragraphs(body)
           IN  /\ Spelled(made) = BodyText(body)
               /\ \A k \in DOMAIN made : Len(made[k].chars) \in 1..MaxChars
<1> DEFINE body == SplitBlocks(d).body
           made == Paragraphs(body)
<1>1. PICK C : HasSpaces(C) /\ Body(body, C)
  BY SplitBody
<1> HIDE DEF body
<1>2. made \in Seq(Piece(C)) /\ Spelled(made) = BodyText(body)
  BY <1>1, ParagraphsKeep
<1> HIDE DEF made
<1>3. \A k \in DOMAIN made : made[k] \in Piece(C)
  <2> DEFINE P == Piece(C)
  <2> HIDE DEF P
  <2>1. made \in Seq(P)
    BY <1>2 DEF P
  <2> QED BY <2>1 DEF P
<1>4. \A k \in DOMAIN made : Len(made[k].chars) \in 1..MaxChars
  BY <1>3 DEF Piece, Paragraph
<1> QED BY <1>2, <1>4 DEF made, body

-----------------------------------------------------------------------------
(* Recognition and the pages of one pass leave the document typed. *)

\* Of the blocks of one number, one comes last.
LEMMA LastOf ==
    ASSUME NEW n \in Nat, NEW S \in SUBSET (1..n), S # {}, NEW pg, \A i \in S : pg[i] \in Int
    PROVE  \E j \in S : \A k \in S : pg[k] < pg[j] \/ (pg[k] = pg[j] /\ k <= j)
<1> DEFINE Ends(j, m) == /\ j \in S /\ j <= m
                         /\ \A k \in S : k <= m => pg[k] < pg[j] \/ (pg[k] = pg[j] /\ k <= j)
           T == {m \in Nat : (\E k \in S : k <= m) => \E j \in S : Ends(j, m)}
<1>1. S \subseteq 1..n /\ \A k \in S : k \in Nat /\ k >= 1 /\ k <= n
  OBVIOUS
<1>2. 0 \in T
  BY <1>1
<1>3. ASSUME NEW m \in Nat, m \in T PROVE m + 1 \in T
  <2> SUFFICES ASSUME NEW k \in S, k <= m + 1 PROVE \E j \in S : Ends(j, m + 1)
    OBVIOUS
  <2>1. CASE m + 1 \notin S
    <3>1. \A x \in S : x <= m + 1 => x <= m
      BY <1>1, <2>1
    <3>2. PICK j \in S : Ends(j, m)
      BY <1>3, <3>1
    <3>3. Ends(j, m + 1)
      BY <1>1, <3>1, <3>2
    <3> QED BY <3>3
  <2>2. CASE m + 1 \in S
    <3>1. \A x \in S : x <= m + 1 => x <= m \/ x = m + 1
      BY <1>1
    <3>2. CASE \E x \in S : x <= m
      <4>1. PICK j \in S : Ends(j, m)
        BY <1>3, <3>2
      <4>2. pg[j] \in Int /\ pg[m + 1] \in Int /\ j <= m /\ j \in Nat
        BY <1>1, <2>2, <4>1
      <4>3. CASE pg[m + 1] < pg[j]
        <5>1. Ends(j, m + 1)
          BY <3>1, <4>1, <4>2, <4>3
        <5> QED BY <5>1
      <4>4. CASE pg[j] <= pg[m + 1]
        <5>1. ASSUME NEW x \in S, x <= m + 1
              PROVE  pg[x] < pg[m + 1] \/ (pg[x] = pg[m + 1] /\ x <= m + 1)
          <6>1. pg[x] \in Int
            OBVIOUS
          <6>2. x <= m => pg[x] <= pg[j]
            BY <4>1, <4>2, <6>1
          <6> QED BY <3>1, <4>2, <4>4, <5>1, <6>1, <6>2
        <5>2. Ends(m + 1, m + 1)
          BY <2>2, <5>1
        <5> QED BY <2>2, <5>2
      <4> QED BY <4>2, <4>3, <4>4
    <3>3. CASE ~\E x \in S : x <= m
      <4>1. Ends(m + 1, m + 1)
        BY <2>2, <3>1, <3>3
      <4> QED BY <2>2, <4>1
    <3> QED BY <3>2, <3>3
  <2> QED BY <2>1, <2>2
<1>4. n \in T
  <2> HIDE DEF T
  <2> QED BY <1>2, <1>3, Induction
<1>5. PICK j \in S : Ends(j, n)
  BY <1>1, <1>4
<1> QED BY <1>1, <1>5

\* so a result is that of a block of the document.
LEMMA ResultsFound ==
    ASSUME AllTyped(document), NEW i \in DOMAIN document
    PROVE  ResultFor(i) \in DOMAIN document
<1> DEFINE same == {j \in DOMAIN document : document[j].order = document[i].order}
           pages == [j \in same |-> document[j].page]
           Later(j) == \A k \in same : document[k].page < document[j].page
                           \/ (document[k].page = document[j].page /\ k <= j)
<1>1. Len(document) \in Nat /\ DOMAIN document = 1..Len(document)
  BY SequenceFacts DEF AllTyped
<1>2. same \in SUBSET (1..Len(document)) /\ i \in same
  BY <1>1
<1>3. \A j \in same : pages[j] = document[j].page /\ pages[j] \in Int
  BY DEF AllTyped, Typed, IsPrinted
<1>4. ResultFor(i) = CHOOSE j \in same : Later(j)
  BY DEF ResultFor
<1>5. \E j \in same : \A k \in same : pages[k] < pages[j] \/ (pages[k] = pages[j] /\ k <= j)
  <2> HIDE DEF same, pages
  <2> QED BY <1>1, <1>2, <1>3, LastOf
<1>6. \E j \in same : Later(j)
  <2> HIDE DEF same, pages
  <2> QED BY <1>3, <1>5
<1>7. (CHOOSE j \in same : Later(j)) \in same
  <2> HIDE DEF same, Later
  <2> QED BY <1>6
<1> QED BY <1>4, <1>7

\* What may be recognized in a region is a text.
LEMMA OutcomesAreTexts ==
    ASSUME NEW b, Sequence(b.printed.chars), NEW t \in Outcomes(b)
    PROVE  IsText(t)
<1> DEFINE read == [says |-> b.printed.says, chars |-> b.printed.chars, grid |-> <<>>]
<1>1. IsText(NoText)
  <2>1. Sequence(NoText.chars)
    BY DEF NoText, Sequence
  <2> QED BY <2>1 DEF NoText, IsText
<1>2. IsText(read)
  BY DEF IsText
<1>3. ASSUME NEW g PROVE IsText([read EXCEPT !.grid = g])
  BY DEF IsText
<1>4. t = NoText \/ t = read \/ \E g : t = [read EXCEPT !.grid = g]
  <2> DEFINE grids == {<<>>} \union Recognized(Grid(b.printed.wired), Grid(b.printed.wireless))
                             \union Recognized(Grid(b.printed.wireless), Grid(b.printed.wired))
  <2>1. t \in IF b.type \in NotRead THEN {NoText}
              ELSE IF b.type = "table" THEN {[read EXCEPT !.grid = g] : g \in grids}
              ELSE {NoText, read}
    BY DEF Outcomes
  <2> HIDE DEF grids, read
  <2> QED BY <2>1
<1> HIDE DEF read
<1> QED BY <1>1, <1>2, <1>3, <1>4

\* A document whose texts were read is typed.
LEMMA RecognizedTyped ==
    ASSUME AllTyped(document), Recognize
    PROVE  AllTyped(document')
<1>1. PICK read \in {f \in [DOMAIN document ->
                                UNION {Outcomes(document[i]) : i \in DOMAIN document}] :
                        \A i \in DOMAIN document : f[i] \in Outcomes(document[i])} :
          document' = [i \in DOMAIN document |->
                          [document[i] EXCEPT !.text = read[ResultFor(i)],
                                              !.crop = ResultFor(i)]]
  BY DEF Recognize
<1>2. Len(document) \in Nat /\ DOMAIN document = 1..Len(document)
  BY SequenceFacts DEF AllTyped
<1>3. ASSUME NEW i \in DOMAIN document PROVE Typed(document'[i])
  <2> DEFINE b == document[i]
             t == read[ResultFor(i)]
             c == ResultFor(i)
  <2>1. IsText(t)
    <3>1. c \in DOMAIN document
      BY <1>3, ResultsFound
    <3>2. t \in Outcomes(document[c]) /\ Sequence(document[c].printed.chars)
      BY <1>1, <3>1 DEF AllTyped, Typed, IsPrinted
    <3> HIDE DEF t, c
    <3> QED BY <3>2, OutcomesAreTexts
  <2>2. Typed(b) /\ document'[i] = [b EXCEPT !.text = t, !.crop = c]
    BY <1>1 DEF AllTyped
  <2> HIDE DEF b, t, c
  <2> QED BY <2>1, <2>2 DEF Typed
<1>4. document' = [i \in 1..Len(document) |-> document'[i]]
  BY <1>1, <1>2
<1>5. Sequence(document') /\ Len(document') = Len(document)
  BY <1>2, <1>4, NumberedIsSequence
<1>6. DOMAIN document' = DOMAIN document
  BY <1>2, <1>4
<1> QED BY <1>3, <1>5, <1>6 DEF AllTyped

\* a block as one pass makes it
IsRead(b) == b \in [page : Int, type : BlockTypes, box : Quad, conf : Int, order : Int,
                    text : {b.text}] /\ IsText(b.text)
\* and a page of them
AllRead(s) == \A i \in DOMAIN s : IsRead(s[i])

\* A word's place between the blocks is a number.
LEMMA AnchorType ==
    ASSUME NEW s, Sequence(s), NEW box, NEW width
    PROVE  Anchor(s, box, width) \in Int
<1> DEFINE column == {i \in DOMAIN s : Zone(s[i].box, width) = Zone(box, width)}
           below == {i \in column : s[i].box[2] > box[2]}
           next == {i \in below : \A j \in below : s[i].box[2] <= s[j].box[2]}
           IsLast(i) == \A j \in column : j <= i
           last == CHOOSE i \in column : IsLast(i)
<1>1. Len(s) \in Nat /\ DOMAIN s = 1..Len(s)
  BY SequenceFacts
<1>2. column \in SUBSET (1..Len(s)) /\ next \in SUBSET (1..Len(s))
  BY <1>1
<1>3. Anchor(s, box, width) = IF next # {} THEN 2 * First(next) - 1
                              ELSE IF column # {} THEN 2 * last + 1
                              ELSE 2 * Len(s) + 1
  BY DEF Anchor
<1> HIDE DEF next, column
<1>4. next # {} => First(next) \in Int
  <2> DEFINE Foremost(i) == \A j \in next : i <= j
  <2>1. next # {} => \E i \in next : Foremost(i)
    <3>1. next \in SUBSET Nat
      BY <1>2
    <3> QED BY <3>1, Least
  <2>2. First(next) = CHOOSE i \in next : Foremost(i)
    BY DEF First
  <2> HIDE DEF Foremost
  <2>3. next # {} => First(next) \in next
    BY <2>1, <2>2
  <2>4. \A i \in next : i \in Int
    BY <1>1, <1>2
  <2> QED BY <2>3, <2>4
<1>5. column # {} => last \in Int
  <2>1. column # {} => \E i \in column : IsLast(i)
    <3> DEFINE pg == [k \in column |-> 0]
    <3>1. \A k \in column : pg[k] \in Int /\ pg[k] = 0
      OBVIOUS
    <3> HIDE DEF pg, last, IsLast
    <3>2. column # {} => \E j \in column : \A k \in column :
                              pg[k] < pg[j] \/ (pg[k] = pg[j] /\ k <= j)
      <4>1. \A k \in column : pg[k] \in Int
        BY <3>1
      <4>2. column \in SUBSET (1..Len(s)) /\ Len(s) \in Nat
        BY <1>1, <1>2
      <4> QED BY <4>1, <4>2, LastOf
    <3>3. ASSUME NEW j \in column,
                 \A k \in column : pg[k] < pg[j] \/ (pg[k] = pg[j] /\ k <= j)
          PROVE  \A k \in column : k <= j
      BY <3>1, <3>3
    <3> QED BY <3>2, <3>3 DEF IsLast
  <2> HIDE DEF IsLast
  <2>2. column # {} => last \in column
    BY <2>1
  <2>3. \A i \in column : i \in Int
    BY <1>1, <1>2
  <2> HIDE DEF last
  <2> QED BY <2>2, <2>3
<1> HIDE DEF last
<1> QED BY <1>1, <1>3, <1>4, <1>5

\* Words that are put between the blocks leave blocks as one pass makes them.
LEMMA MergedRead ==
    ASSUME NEW s, NEW others, NEW start \in Int, Sequence(s), Sequence(others),
           AllRead(s), AllRead(others)
    PROVE  AllRead(MergeInReadingOrder(s, others, start))
<1>0. /\ Sequence(s \o others) /\ DOMAIN (s \o others) = 1..(Len(s) + Len(others))
      /\ \A i \in DOMAIN s : i \in DOMAIN (s \o others) /\ (s \o others)[i] = s[i]
      /\ \A i \in DOMAIN others : /\ Len(s) + i \in DOMAIN (s \o others)
                                  /\ (s \o others)[Len(s) + i] = others[i]
      /\ \A k \in DOMAIN (s \o others) :
             k \in DOMAIN s \/ \E i \in DOMAIN others : k = Len(s) + i
  BY JoinedSequences, Zenon
<1> DEFINE all == s \o others
           width == PageWidth({all[i].box : i \in DOMAIN all})
           position(i) == IF i <= Len(s) THEN <<2 * i, 0>>
                          ELSE <<Anchor(s, all[i].box, width), i - Len(s)>>
           key == [i \in DOMAIN all |->
                      IF InColumns(s, width) THEN position(i) ELSE TopLeft(all[i].box)]
           merged == SortBy(all, key)
           n == Len(all)
<1>1. /\ Sequence(all) /\ n \in Nat /\ DOMAIN all = 1..n /\ Len(s) \in Nat
      /\ \A i \in 1..n : IsRead(all[i])
  <2>1. /\ Sequence(all)
        /\ \A i \in DOMAIN s : i \in DOMAIN all /\ all[i] = s[i]
        /\ \A i \in DOMAIN others : Len(s) + i \in DOMAIN all /\ all[Len(s) + i] = others[i]
        /\ \A k \in DOMAIN all : k \in DOMAIN s \/ \E i \in DOMAIN others : k = Len(s) + i
    BY <1>0, Zenon
  <2> HIDE DEF all
  <2>2. n \in Nat /\ DOMAIN all = 1..n /\ Len(s) \in Nat
    BY <2>1, SequenceFacts
  <2>3. \A i \in DOMAIN all : IsRead(all[i])
    BY <2>1 DEF AllRead
  <2> QED BY <2>1, <2>2, <2>3

<1>2. MergeInReadingOrder(s, others, start) =
          [i \in DOMAIN merged |-> [merged[i] EXCEPT !.order = start + i - 1]]
  BY DEF MergeInReadingOrder
<1> HIDE DEF all
<1>3. \A i \in 1..n : key[i] \in [1..2 -> Int]
  <2> TAKE i \in 1..n
  <2>1. key[i] = IF InColumns(s, width) THEN position(i) ELSE TopLeft(all[i].box)
    BY <1>1
  <2>2. position(i) \in [1..2 -> Int]
    <3>1. i \in Int /\ 2 * i \in Int /\ i - Len(s) \in Int /\ 0 \in Int
      BY <1>1
    <3>2. Anchor(s, all[i].box, width) \in Int
      BY AnchorType
    <3> QED BY <3>1, <3>2, PairTuple
  <2>3. TopLeft(all[i].box) \in [1..2 -> Int]
    <3>1. all[i].box \in Quad
      BY <1>1 DEF IsRead
    <3>2. all[i].box[2] \in Int /\ all[i].box[1] \in Int
      BY <3>1 DEF Quad
    <3> QED BY <3>2, PairTuple DEF TopLeft
  <2> HIDE DEF key, position
  <2> QED BY <2>1, <2>2, <2>3
<1>4. key = [i \in 1..n |-> key[i]]
  BY <1>1
<1> HIDE DEF key
<1>5. OrdersKeys(key, n)
  BY <1>1, <1>3, TuplesOrdered
<1> HIDE DEF n
<1>6. SortedAs(merged, all, n, key)
  BY <1>1, <1>4, <1>5, SortBySorts
<1> HIDE DEF merged
<1>7. PICK p : Sorts(p, n, key) /\ merged = [a \in 1..n |-> all[p[a]]]
  BY <1>6 DEF SortedAs
<1>8. DOMAIN merged = 1..n /\ \A i \in 1..n : IsRead(merged[i])
  BY <1>1, <1>7 DEF Sorts
<1>9. ASSUME NEW i \in 1..n PROVE IsRead([merged[i] EXCEPT !.order = start + i - 1])
  <2> DEFINE b == merged[i]
             o == start + i - 1
  <2>1. IsRead(b) /\ o \in Int
    BY <1>1, <1>8
  <2> HIDE DEF b, o
  <2>2. IsRead([b EXCEPT !.order = o])
    BY <2>1 DEF IsRead
  <2> QED BY <2>2 DEF b, o
<1> QED BY <1>2, <1>8, <1>9 DEF AllRead

\* what one pass finds on a page, and the words it reads there
IsFinding(f) == f \in [type : BlockTypes, box : Quad, conf : Int, text : {f.text}] /\ IsText(f.text)
IsWord(w) == w \in [box : Quad, text : {w.text}] /\ IsText(w.text)

\* One pass makes blocks of it.
LEMMA MappedRead ==
    ASSUME NEW found, NEW words, NEW p \in Int, NEW start \in Int,
           Sequence(found), Sequence(words),
           \A i \in DOMAIN found : IsFinding(found[i]), \A k \in DOMAIN words : IsWord(words[k])
    PROVE  AllRead(MapResult(found, words, p, start))
<1> DEFINE read == [i \in DOMAIN found |->
                       IF found[i].text = NoText /\ found[i].type = "table"
                       THEN [found[i] EXCEPT !.text.grid = WordRows(words, found[i].box)]
                       ELSE found[i]]
           keep == {i \in DOMAIN read : read[i].text # NoText
                                           \/ read[i].type \in {"figure", "formula"}}
           kept == Only(read, keep)
           made == [i \in DOMAIN kept |->
                       [page |-> p, type |-> kept[i].type, box |-> kept[i].box,
                        conf |-> kept[i].conf, order |-> start + i - 1, text |-> kept[i].text]]
           loose == {k \in DOMAIN words :
                       /\ words[k].text # NoText
                       /\ ~\E i \in DOMAIN made : Touches(words[k].box, made[i].box)}
           free == Only(words, loose)
           others == [k \in DOMAIN free |->
                         [page |-> p, type |-> "text", box |-> free[k].box, conf |-> 1,
                          order |-> 0, text |-> free[k].text]]
<1>1. MapResult(found, words, p, start) \in {made, MergeInReadingOrder(made, others, start)}
  <2>1. others = Unassigned(words, made, p)
    BY DEF Unassigned
  <2>2. MapResult(found, words, p, start) =
            LET rest == Unassigned(words, made, p)
            IN  IF rest = <<>> THEN made ELSE MergeInReadingOrder(made, rest, start)
    BY DEF MapResult
  <2> HIDE DEF made, others
  <2> QED BY <2>1, <2>2
<1>2. /\ Len(found) \in Nat /\ DOMAIN found = 1..Len(found)
      /\ Len(words) \in Nat /\ DOMAIN words = 1..Len(words)
  BY SequenceFacts
<1>3. \A i \in DOMAIN found : IsFinding(read[i])
  <2> TAKE i \in DOMAIN found
  <2> DEFINE f == found[i]
             g == WordRows(words, found[i].box)
  <2>1. read[i] = f \/ read[i] = [f EXCEPT !.text.grid = g]
    OBVIOUS
  <2>2. IsFinding(f)
    OBVIOUS
  <2> HIDE DEF f, g, read
  <2>3. IsText([f.text EXCEPT !.grid = g])
    BY <2>2 DEF IsFinding, IsText
  <2>4. IsFinding([f EXCEPT !.text.grid = g])
    BY <2>2, <2>3 DEF IsFinding
  <2> QED BY <2>1, <2>2, <2>4
<1>4. keep \in SUBSET (1..Len(found)) /\ loose \in SUBSET (1..Len(words))
  BY <1>2
<1> HIDE DEF read, keep
<1>5. Selects(kept, read, keep)
  BY <1>2, <1>4, OnlyKeeps
<1> HIDE DEF kept
<1>6. Cardinality(keep) \in Nat /\ DOMAIN kept = 1..Cardinality(keep)
  BY <1>5 DEF Selects
<1>7. \A i \in DOMAIN kept : IsFinding(kept[i])
  BY <1>2, <1>3, <1>4, <1>5, <1>6 DEF Selects
<1>8. /\ made = [i \in 1..Cardinality(keep) |-> made[i]]
      /\ \A i \in 1..Cardinality(keep) : IsRead(made[i])
  <2>1. ASSUME NEW i \in 1..Cardinality(keep) PROVE IsRead(made[i])
    <3>1. i \in Int /\ start + i - 1 \in Int /\ i \in DOMAIN kept
      BY <1>6
    <3>2. IsFinding(kept[i])
      BY <1>7, <3>1
    <3>3. made[i] = [page |-> p, type |-> kept[i].type, box |-> kept[i].box,
                     conf |-> kept[i].conf, order |-> start + i - 1, text |-> kept[i].text]
      BY <3>1
    <3> HIDE DEF made
    <3> QED BY <3>1, <3>2, <3>3 DEF IsFinding, IsRead
  <2>2. made = [i \in 1..Cardinality(keep) |-> made[i]]
    BY <1>6
  <2> QED BY <2>1, <2>2
<1>9. Sequence(made) /\ AllRead(made)
  <2>1. DOMAIN made = 1..Cardinality(keep)
    BY <1>6
  <2> HIDE DEF made
  <2>2. Sequence(made)
    BY <1>6, <1>8, NumberedIsSequence
  <2> QED BY <1>8, <2>1, <2>2 DEF AllRead
<1> HIDE DEF made, loose
<1>10. Selects(free, words, loose)
  BY <1>2, <1>4, OnlyKeeps
<1> HIDE DEF free
<1>11. Cardinality(loose) \in Nat /\ DOMAIN free = 1..Cardinality(loose)
  BY <1>10 DEF Selects
<1>12. \A k \in DOMAIN free : IsWord(free[k])
  BY <1>2, <1>4, <1>10, <1>11 DEF Selects
<1>13. /\ others = [k \in 1..Cardinality(loose) |-> others[k]]
       /\ \A k \in 1..Cardinality(loose) : IsRead(others[k])
  <2>1. ASSUME NEW k \in 1..Cardinality(loose) PROVE IsRead(others[k])
    <3>1. IsWord(free[k])
      BY <1>11, <1>12
    <3>2. others[k] = [page |-> p, type |-> "text", box |-> free[k].box, conf |-> 1,
                       order |-> 0, text |-> free[k].text]
      BY <1>11
    <3>3. "text" \in BlockTypes
      BY DEF BlockTypes
    <3> HIDE DEF others
    <3> QED BY <3>1, <3>2, <3>3 DEF IsWord, IsRead
  <2>2. others = [k \in 1..Cardinality(loose) |-> others[k]]
    BY <1>11
  <2> QED BY <2>1, <2>2
<1>14. Sequence(others) /\ AllRead(others)
  <2>1. DOMAIN others = 1..Cardinality(loose)
    BY <1>11
  <2> HIDE DEF others
  <2>2. Sequence(others)
    BY <1>11, <1>13, NumberedIsSequence
  <2> QED BY <1>13, <2>1, <2>2 DEF AllRead
<1> HIDE DEF others
<1>15. AllRead(MergeInReadingOrder(made, others, start))
  BY <1>9, <1>14, MergedRead
<1> QED BY <1>1, <1>9, <1>15

-----------------------------------------------------------------------------
(* The inductive invariant. *)

\* the contents so far are those of the document
TextInv ==
    /\ AllTyped(document)
    /\ DOMAIN content = {"split", "paragraphs", "tables"}
    /\ stage \in {"filtered", "paragraphs"} => content.split = SplitBlocks(document)
    /\ stage = "paragraphs" => content.paragraphs = Paragraphs(content.split.body)

\* A document without blocks is typed, and one that a reviewer hands in.
LEMMA TextInit == Init => TextInv
<1> SUFFICES ASSUME Init PROVE TextInv
  OBVIOUS
<1>1. AllTyped(<<>>)
  BY EmptyTold DEF AllTyped
<1>2. \A d \in Reviewed : AllTyped(d)
  BY ReviewedAssumption DEF IsDocument, AllTyped
<1>3. AllTyped(document)
  BY <1>1, <1>2 DEF Init
<1>4. stage \in {"rendered", "reviewed", "batch"}
  BY DEF Init
<1>5. DOMAIN content = {"split", "paragraphs", "tables"}
  BY DEF Init, NoContent
<1> QED BY <1>3, <1>4, <1>5 DEF TextInv

\* A page of typed blocks joins a typed document.
LEMMA TypedJoin ==
    ASSUME NEW d, AllTyped(d), NEW n \in Nat, NEW e, e = [i \in 1..n |-> e[i]],
           \A i \in 1..n : Typed(e[i])
    PROVE  AllTyped(d \o e)
<1>1. Sequence(d) /\ Sequence(e) /\ DOMAIN e = 1..n
  BY NumberedIsSequence, SequenceFacts DEF AllTyped
<1>2. /\ Sequence(d \o e) /\ DOMAIN (d \o e) = 1..(Len(d) + Len(e))
      /\ \A i \in DOMAIN d : i \in DOMAIN (d \o e) /\ (d \o e)[i] = d[i]
      /\ \A i \in DOMAIN e : /\ Len(d) + i \in DOMAIN (d \o e)
                             /\ (d \o e)[Len(d) + i] = e[i]
      /\ \A k \in DOMAIN (d \o e) :
             k \in DOMAIN d \/ \E i \in DOMAIN e : k = Len(d) + i
  BY <1>1, JoinedSequences, Zenon
<1> DEFINE f == d \o e
<1>3. \A k \in DOMAIN f : Typed(f[k])
  <2>1. \A i \in DOMAIN d : f[i] = d[i] /\ Typed(d[i])
    BY <1>2 DEF AllTyped
  <2>2. \A i \in DOMAIN e : f[Len(d) + i] = e[i] /\ Typed(e[i])
    BY <1>1, <1>2
  <2>3. \A k \in DOMAIN f : k \in DOMAIN d \/ \E i \in DOMAIN e : k = Len(d) + i
    BY <1>2
  <2> HIDE DEF f
  <2> QED BY <2>1, <2>2, <2>3
<1> QED BY <1>2, <1>3 DEF AllTyped

\* A block that was found is filed as a typed one,
LEMMA FiledTyped ==
    ASSUME NEW p \in Int, NEW b \in BlockOn(p)
    PROVE  Typed(Filed(b, Plain))
<1>1. Box \subseteq Quad
  BY DEF Box, Quad
<1>2. IsText(NoText)
  <2>1. Sequence(NoText.chars)
    BY DEF NoText, Sequence
  <2> QED BY <2>1 DEF NoText, IsText
<1> QED BY <1>1, <1>2, PlainAssumption DEF Filed, BlockOn, Typed

\* and one that was read in one pass.
LEMMA ReadTyped ==
    ASSUME NEW b, IsRead(b), NEW c
    PROVE  Typed([Filed(b, Plain) EXCEPT !.text = b.text, !.crop = c])
BY PlainAssumption DEF Filed, IsRead, Typed

\* The page in work joins the document.
LEMMA FileTyped == ASSUME ExtractionInv, TextInv, File PROVE AllTyped(document')
<1> DEFINE e == [i \in DOMAIN blocks |-> Filed(blocks[i], Plain)]
<1>1. stage \in Ordered /\ stage \in Repair
  BY DEF File, Ordered, Repair
<1>2. page \in Int /\ blocks \in Seq(BlockOn(page))
  <2>1. page \in 1..Pages /\ blocks \in OnPageFrom(page, Len(document))
    BY <1>1 DEF ExtractionInv, DocumentInv, PageInv
  <2> QED BY <2>1, PagesNatural DEF OnPageFrom
<1>3. /\ Len(blocks) \in Nat /\ DOMAIN blocks = 1..Len(blocks)
      /\ \A i \in 1..Len(blocks) : blocks[i] \in BlockOn(page)
  BY <1>2, ElementsOf
<1>4. \A i \in 1..Len(blocks) : Typed(e[i])
  BY <1>2, <1>3, FiledTyped
<1>5. e = [i \in 1..Len(blocks) |-> e[i]]
  BY <1>3
<1>6. document' = document \o e
  BY DEF File
<1> HIDE DEF e
<1>7. AllTyped(document \o e)
  BY <1>3, <1>4, <1>5, TypedJoin DEF TextInv
<1> QED BY <1>6, <1>7

\* A page read in one pass joins the document.
LEMMA ReadPageTyped == ASSUME ExtractionInv, TextInv, ReadPage PROVE AllTyped(document')
<1>1. page \in Nat /\ page + 1 \in 1..Len(Prints) /\ AllTyped(document) /\ Len(document) \in Int
  <2>1. page \in Nat /\ page < Len(Prints) /\ Sequence(document)
    BY DEF ReadPage, ExtractionInv, CropInv
  <2> QED BY <2>1, PrintsAssumption, SequenceFacts DEF TextInv
<1>2. PICK print \in Prints[page + 1] :
          /\ blocks' = MapResult(print.found, print.words, page + 1, Len(document))
          /\ document' = document \o [i \in DOMAIN blocks' |->
                 [Filed(blocks'[i], Plain) EXCEPT !.text = blocks'[i].text,
                                                  !.crop = Len(document) + i]]
  BY DEF ReadPage
<1>3. /\ Sequence(print.found) /\ Sequence(print.words)
      /\ \A i \in DOMAIN print.found : IsFinding(print.found[i])
      /\ \A k \in DOMAIN print.words : IsWord(print.words[k])
  BY <1>1, PrintsAssumption DEF IsFinding, IsWord
<1>4. AllRead(blocks')
  <2> DEFINE found == print.found
             words == print.words
             p == page + 1
  <2>1. p \in Int
    BY <1>1
  <2>2. /\ Sequence(found) /\ Sequence(words)
        /\ \A i \in DOMAIN found : IsFinding(found[i])
        /\ \A k \in DOMAIN words : IsWord(words[k])
    BY <1>3
  <2>3. blocks' = MapResult(found, words, p, Len(document))
    BY <1>2
  <2> HIDE DEF found, words, p
  <2>4. AllRead(MapResult(found, words, p, Len(document)))
    BY <1>1, <2>1, <2>2, MappedRead
  <2> QED BY <2>3, <2>4
<1>5. PICK n \in Nat : DOMAIN blocks' = 1..n
  BY <1>2, <1>3, MappedDomain
<1>6. PICK e : e = [i \in 1..n |-> [Filed(blocks'[i], Plain) EXCEPT
                                       !.text = blocks'[i].text, !.crop = Len(document) + i]]
  OBVIOUS
<1>7. document' = document \o e
  BY <1>2, <1>5, <1>6
<1>8. e = [i \in 1..n |-> e[i]]
  BY <1>6
<1>9. \A i \in 1..n : Typed(e[i])
  BY <1>4, <1>5, <1>6, ReadTyped DEF AllRead
<1>10. AllTyped(document \o e)
  BY <1>1, <1>8, <1>9, TypedJoin
<1> QED BY <1>7, <1>10

\* Every step keeps it.
LEMMA TextNext == ExtractionInv /\ TextInv /\ [Next]_vars => TextInv'
<1> SUFFICES ASSUME ExtractionInv, TextInv, [Next]_vars PROVE TextInv'
  OBVIOUS
<1> DEFINE TextStages == {"filtered", "paragraphs"}
<1>1. CASE UNCHANGED vars
  BY <1>1 DEF vars, TextInv, AllTyped
<1>2. ASSUME AllTyped(document'), content' = content, stage' \notin TextStages PROVE TextInv'
  BY <1>2 DEF TextInv
<1>3. CASE Detect \/ Arrange \/ MatchText \/ RecoverText \/ SplitSections \/ SplitHeadings
               \/ NameTitle \/ NameAuthors \/ Confirm \/ EndOfPages
  <2>1. document' = document /\ content' = content
    BY <1>3 DEF Detect, Arrange, MatchText, RecoverText, SplitSections, SplitHeadings,
                NameTitle, NameAuthors, Confirm, EndOfPages, Correct
  <2>2. stage' \notin TextStages
    BY <1>3 DEF Detect, Look, Arrange, MatchText, RecoverText, SplitSections, SplitHeadings,
                NameTitle, NameAuthors, Confirm, EndOfPages, Correct
  <2>3. AllTyped(document')
    BY <2>1 DEF TextInv
  <2> QED BY <1>2, <2>1, <2>2, <2>3
<1>4. CASE File
  <2>1. content' = content /\ stage' \notin TextStages
    BY <1>4 DEF File
  <2> QED BY <1>2, <1>4, <2>1, FileTyped
<1>5. CASE Recognize
  <2>1. content' = content /\ stage' \notin TextStages /\ AllTyped(document)
    BY <1>5 DEF Recognize, TextInv
  <2> QED BY <1>2, <1>5, <2>1, RecognizedTyped
<1>6. CASE ReadPage
  <2>1. content' = content /\ stage' \notin TextStages
    BY <1>6 DEF ReadPage
  <2> QED BY <1>2, <1>6, <2>1, ReadPageTyped
<1>7. CASE Filter
  <2>1. /\ document' = document /\ stage' = "filtered"
        /\ content' = [content EXCEPT !.split = SplitBlocks(document)]
    BY <1>7 DEF Filter
  <2>2. content'.split = SplitBlocks(document') /\ DOMAIN content' = DOMAIN content
    BY <2>1 DEF TextInv
  <2>3. AllTyped(document')
    BY <2>1 DEF TextInv
  <2> QED BY <2>1, <2>2, <2>3 DEF TextInv
<1>8. CASE MakeParagraphs
  <2>1. /\ document' = document /\ stage = "filtered"
        /\ content' = [content EXCEPT !.paragraphs = Paragraphs(content.split.body),
                                      !.tables = BuildTables(content.split.tables)]
    BY <1>8 DEF MakeParagraphs
  <2>2. /\ content'.split = content.split /\ DOMAIN content' = DOMAIN content
        /\ content'.paragraphs = Paragraphs(content.split.body)
    BY <2>1 DEF TextInv
  <2>3. content'.split = SplitBlocks(document') /\ AllTyped(document')
    BY <2>1, <2>2 DEF TextInv
  <2>4. content'.paragraphs = Paragraphs(content'.split.body)
    BY <2>2
  <2> QED BY <2>2, <2>3, <2>4 DEF TextInv
<1> QED BY <1>1, <1>3, <1>4, <1>5, <1>6, <1>7, <1>8 DEF Next

-----------------------------------------------------------------------------
(***************************************************************************)
(* The paragraphs of a paper hold the letters of its body, each once, in   *)
(* order and under its own section, and none is empty or longer than       *)
(* max_chars, whatever was recognized and in however many blocks.          *)
(***************************************************************************)
THEOREM ParagraphsAlwaysKeepText == Spec => []ParagraphsKeepText
<1>1. ASSUME TextInv PROVE ParagraphsKeepText
  <2> SUFFICES ASSUME stage = "paragraphs"
               PROVE  LET made == content.paragraphs
                      IN  /\ Spelled(made) = BodyText(content.split.body)
                          /\ \A k \in DOMAIN made : Len(made[k].chars) \in 1..MaxChars
    BY DEF ParagraphsKeepText, Spelled, Tags
  <2>1. /\ AllTyped(document) /\ content.split = SplitBlocks(document)
        /\ content.paragraphs = Paragraphs(content.split.body)
    BY <1>1 DEF TextInv
  <2> QED BY <2>1, DocumentKept
<1> QED BY <1>1, ExtractionInvariant, TextInit, TextNext, PTL DEF Spec

-----------------------------------------------------------------------------
(* Where MergeInReadingOrder places a word of a page. *)

\* where the blocks of a column end, as Anchor counts it
ColumnEnd(s, zone, width) ==
    LET column == {i \in DOMAIN s : Zone(s[i].box, width) = zone}
        last == CHOOSE i \in column : \A j \in column : j <= i
    IN  IF column # {} THEN 2 * last + 1 ELSE 2 * Len(s) + 1
\* the blocks of a box's column that start below it
BelowIn(s, box, width) ==
    {i \in DOMAIN s : Zone(s[i].box, width) = Zone(box, width) /\ s[i].box[2] > box[2]}
\* t is the next of them, the first of the highest
NextIn(s, box, width, t) ==
    /\ t \in BelowIn(s, box, width)
    /\ \A j \in BelowIn(s, box, width) :
           s[t].box[2] <= s[j].box[2] /\ (s[j].box[2] <= s[t].box[2] => t <= j)

\* the boxes of s are boxes
Framed(s) == \A i \in DOMAIN s : s[i].box \in Quad

\* The last of a column has no other after it.
LEMMA ColumnEnds ==
    ASSUME NEW s, Sequence(s), NEW width, NEW i \in DOMAIN s
    PROVE  ColumnEnd(s, Zone(s[i].box, width), width) > 2 * i
<1> DEFINE zone == Zone(s[i].box, width)
           column == {k \in DOMAIN s : Zone(s[k].box, width) = zone}
           IsLast(k) == \A j \in column : j <= k
           last == CHOOSE k \in column : IsLast(k)
<1>1. Len(s) \in Nat /\ DOMAIN s = 1..Len(s)
  BY SequenceFacts
<1>2. i \in column /\ column \in SUBSET (1..Len(s)) /\ \A k \in column : k \in Int
  BY <1>1
<1>3. ColumnEnd(s, zone, width) = 2 * last + 1
  BY <1>2 DEF ColumnEnd
<1> HIDE DEF zone, column
<1>4. \E k \in column : IsLast(k)
  <2> DEFINE pg == [k \in column |-> 0]
  <2>1. \A k \in column : pg[k] = 0
    OBVIOUS
  <2> HIDE DEF pg, last, IsLast
  <2>2. \A k \in column : pg[k] \in Int
    BY <2>1
  <2>3. \E j \in column : \A k \in column : pg[k] < pg[j] \/ (pg[k] = pg[j] /\ k <= j)
    BY <1>1, <1>2, <2>2, LastOf
  <2>4. ASSUME NEW j \in column,
               \A k \in column : pg[k] < pg[j] \/ (pg[k] = pg[j] /\ k <= j)
        PROVE  \A k \in column : k <= j
    BY <2>1, <2>4
  <2> QED BY <2>3, <2>4 DEF IsLast
<1>5. last \in column /\ IsLast(last)
  <2> HIDE DEF IsLast
  <2> QED BY <1>4
<1>6. last \in Int /\ i \in Int /\ i <= last
  BY <1>2, <1>5
<1> HIDE DEF last
<1> QED BY <1>3, <1>6 DEF zone

\* Anchor puts a word before the next block down its column, else after the column.
LEMMA AnchorPlace ==
    ASSUME NEW s, Sequence(s), Framed(s), NEW box \in Quad, NEW width
    PROVE  \/ \E t \in DOMAIN s : NextIn(s, box, width, t) /\ Anchor(s, box, width) = 2 * t - 1
           \/ /\ BelowIn(s, box, width) = {}
              /\ Anchor(s, box, width) = ColumnEnd(s, Zone(box, width), width)
<1> DEFINE column == {i \in DOMAIN s : Zone(s[i].box, width) = Zone(box, width)}
           below == {i \in column : s[i].box[2] > box[2]}
           next == {i \in below : \A j \in below : s[i].box[2] <= s[j].box[2]}
           Foremost(i) == \A j \in next : i <= j
           last == CHOOSE i \in column : \A j \in column : j <= i
           end == ColumnEnd(s, Zone(box, width), width)
<1>1. /\ Len(s) \in Nat /\ DOMAIN s = 1..Len(s) /\ box[2] \in Int
      /\ \A i \in DOMAIN s : s[i].box[2] \in Int /\ i \in Nat
  BY SequenceFacts DEF Framed, Quad
<1>2. Anchor(s, box, width) = IF next # {} THEN 2 * First(next) - 1
                              ELSE IF column # {} THEN 2 * last + 1
                              ELSE 2 * Len(s) + 1
  BY DEF Anchor
<1>3. end = IF column # {} THEN 2 * last + 1 ELSE 2 * Len(s) + 1
  BY DEF ColumnEnd
<1>4. below = BelowIn(s, box, width)
  BY DEF BelowIn
<1>5. below \subseteq DOMAIN s
  OBVIOUS
<1>6. Anchor(s, box, width) = IF next # {} THEN 2 * First(next) - 1 ELSE end
  <2> HIDE DEF next, column, last, end
  <2> QED BY <1>2, <1>3
<1> HIDE DEF column, last, end, below
<1>7. CASE below = {}
  <2>1. next = {}
    BY <1>7
  <2> QED BY <1>4, <1>6, <1>7, <2>1 DEF end
<1>8. CASE below # {}
  <2>1. next # {}
    <3> DEFINE pg == [k \in below |-> - s[k].box[2]]
    <3>1. \A k \in below : pg[k] = - s[k].box[2]
      OBVIOUS
    <3> HIDE DEF pg, next
    <3>2. \A k \in below : pg[k] \in Int /\ k \in Int
      BY <1>1, <1>5, <3>1
    <3>3. below \in SUBSET (1..Len(s)) /\ Len(s) \in Nat
      BY <1>1, <1>5
    <3>4. \E j \in below : \A k \in below : pg[k] < pg[j] \/ (pg[k] = pg[j] /\ k <= j)
      BY <1>8, <3>2, <3>3, LastOf
    <3>5. PICK j \in below : \A k \in below : pg[k] < pg[j] \/ (pg[k] = pg[j] /\ k <= j)
      BY <3>4
    <3>6. ASSUME NEW k \in below PROVE s[j].box[2] <= s[k].box[2]
      <4>1. pg[k] <= pg[j] /\ pg[k] \in Int /\ pg[j] \in Int
        BY <3>2, <3>5
      <4>2. s[j].box[2] \in Int /\ s[k].box[2] \in Int
        BY <1>1, <1>5
      <4> QED BY <3>1, <4>1, <4>2
    <3> QED BY <3>6 DEF next
  <2>2. First(next) \in next /\ Foremost(First(next))
    <3>1. next \in SUBSET Nat
      BY <1>1, <1>5
    <3>2. \E i \in next : Foremost(i)
      <4> HIDE DEF next
      <4> QED BY <2>1, <3>1, Least
    <3>3. First(next) = CHOOSE i \in next : Foremost(i)
      BY DEF First
    <3> HIDE DEF Foremost
    <3> QED BY <3>2, <3>3
  <2> DEFINE t == First(next)
  <2>3. /\ t \in below /\ \A j \in below : s[t].box[2] <= s[j].box[2]
        /\ \A j \in next : t <= j
    BY <2>2
  <2> HIDE DEF t
  <2>4. ASSUME NEW j \in below, s[j].box[2] <= s[t].box[2] PROVE t <= j
    <3>1. s[j].box[2] \in Int /\ s[t].box[2] \in Int /\ \A k \in below : s[k].box[2] \in Int
      BY <1>1, <1>5, <2>3
    <3>2. s[t].box[2] <= s[j].box[2]
      BY <2>3
    <3>3. s[j].box[2] = s[t].box[2]
      BY <2>4, <3>1, <3>2
    <3>4. j \in next
      BY <2>3, <3>3
    <3> QED BY <2>3, <3>4
  <2>5. NextIn(s, box, width, t)
    BY <1>4, <2>3, <2>4 DEF NextIn
  <2>6. Anchor(s, box, width) = 2 * t - 1
    BY <1>6, <2>1 DEF t
  <2> QED BY <1>5, <2>3, <2>5, <2>6
<1> QED BY <1>7, <1>8

\* the blocks of each column come downwards
Falls(s, width) ==
    \A i, j \in DOMAIN s : i < j /\ Zone(s[i].box, width) = Zone(s[j].box, width)
                               => s[i].box[2] <= s[j].box[2]

\* A word is put after the blocks of its column that start above it, and before the others.
LEMMA WordBetween ==
    ASSUME NEW s, Sequence(s), Framed(s), NEW box \in Quad, NEW width, Falls(s, width),
           NEW i \in DOMAIN s, Zone(s[i].box, width) = Zone(box, width)
    PROVE  /\ 2 * i <= Anchor(s, box, width) => s[i].box[2] <= box[2]
           /\ Anchor(s, box, width) <= 2 * i => box[2] <= s[i].box[2]
<1>1. /\ box[2] \in Int /\ \A j \in DOMAIN s : s[j].box[2] \in Int /\ j \in Int
  BY SequenceFacts DEF Framed, Quad
<1>2. i \in BelowIn(s, box, width) <=> s[i].box[2] > box[2]
  BY DEF BelowIn
<1>3. CASE \E t \in DOMAIN s : NextIn(s, box, width, t) /\ Anchor(s, box, width) = 2 * t - 1
  <2>1. PICK t \in DOMAIN s : NextIn(s, box, width, t) /\ Anchor(s, box, width) = 2 * t - 1
    BY <1>3
  <2>2. /\ s[t].box[2] > box[2] /\ Zone(s[t].box, width) = Zone(box, width)
        /\ i \in BelowIn(s, box, width) => /\ s[t].box[2] <= s[i].box[2]
                                           /\ s[i].box[2] <= s[t].box[2] => t <= i
    BY <2>1 DEF NextIn, BelowIn
  <2>3. i < t => s[i].box[2] <= s[t].box[2]
    BY <2>2 DEF Falls
  <2>4. t < i => s[t].box[2] <= s[i].box[2]
    BY <2>2 DEF Falls
  <2>5. t \in Int /\ i \in Int /\ s[t].box[2] \in Int /\ s[i].box[2] \in Int
    BY <1>1
  <2>6. 2 * i <= 2 * t - 1 => i < t
    BY <2>5
  <2>7. 2 * t - 1 <= 2 * i => t < i \/ t = i
    BY <2>5
  <2>8. i < t => s[i].box[2] <= box[2]
    BY <1>1, <1>2, <2>2, <2>3, <2>5
  <2>9. t < i \/ t = i => box[2] <= s[i].box[2]
    BY <1>1, <2>2, <2>4, <2>5
  <2> QED BY <2>1, <2>6, <2>7, <2>8, <2>9
<1>4. CASE /\ BelowIn(s, box, width) = {}
           /\ Anchor(s, box, width) = ColumnEnd(s, Zone(box, width), width)
  <2>1. s[i].box[2] <= box[2]
    BY <1>1, <1>2, <1>4
  <2>2. Anchor(s, box, width) > 2 * i
    BY <1>4, ColumnEnds
  <2>3. Anchor(s, box, width) \in Int
    BY AnchorType
  <2>4. i \in Int
    BY <1>1
  <2> DEFINE x == Anchor(s, box, width)
  <2> HIDE DEF x
  <2>5. ~(x <= 2 * i)
    BY <2>2, <2>3, <2>4 DEF x
  <2> QED BY <2>1, <2>5 DEF x
<1> QED BY <1>3, <1>4, AnchorPlace

\* Of two words of one column, the higher is not put behind the lower.
LEMMA WordsInTurn ==
    ASSUME NEW s, Sequence(s), Framed(s), NEW a \in Quad, NEW b \in Quad, NEW width,
           Falls(s, width), Zone(a, width) = Zone(b, width),
           Anchor(s, a, width) < Anchor(s, b, width)
    PROVE  a[2] <= b[2]
<1>1. /\ a[2] \in Int /\ b[2] \in Int /\ \A j \in DOMAIN s : s[j].box[2] \in Int /\ j \in Int
  BY SequenceFacts DEF Framed, Quad
<1> SUFFICES ASSUME b[2] < a[2] PROVE FALSE
  BY <1>1
<1>2. BelowIn(s, a, width) \subseteq BelowIn(s, b, width)
  BY <1>1 DEF BelowIn
<1>3. Anchor(s, a, width) \in Int /\ Anchor(s, b, width) \in Int
  BY AnchorType
<1>4. CASE \E t \in DOMAIN s : NextIn(s, b, width, t) /\ Anchor(s, b, width) = 2 * t - 1
  <2>1. PICK t \in DOMAIN s : NextIn(s, b, width, t) /\ Anchor(s, b, width) = 2 * t - 1
    BY <1>4
  <2>2. CASE \E u \in DOMAIN s : NextIn(s, a, width, u) /\ Anchor(s, a, width) = 2 * u - 1
    <3>1. PICK u \in DOMAIN s : NextIn(s, a, width, u) /\ Anchor(s, a, width) = 2 * u - 1
      BY <2>2
    <3>2. u \in BelowIn(s, b, width)
      BY <1>2, <3>1 DEF NextIn
    <3>3. /\ Zone(s[u].box, width) = Zone(b, width) /\ Zone(s[t].box, width) = Zone(b, width)
      BY <2>1, <3>2 DEF NextIn, BelowIn
    <3>4. u < t
      BY <1>1, <2>1, <3>1
    <3>5. s[u].box[2] <= s[t].box[2]
      BY <3>3, <3>4 DEF Falls
    <3>6. t <= u
      BY <2>1, <3>2, <3>5 DEF NextIn
    <3> QED BY <1>1, <3>4, <3>6
  <2>3. CASE Anchor(s, a, width) = ColumnEnd(s, Zone(a, width), width)
    <3>1. Zone(s[t].box, width) = Zone(a, width)
      BY <2>1 DEF NextIn, BelowIn
    <3>2. Anchor(s, a, width) > 2 * t
      BY <2>3, <3>1, ColumnEnds
    <3> QED BY <1>1, <1>3, <2>1, <3>2
  <2> QED BY <2>2, <2>3, AnchorPlace
<1>5. CASE /\ BelowIn(s, b, width) = {}
           /\ Anchor(s, b, width) = ColumnEnd(s, Zone(b, width), width)
  <2>1. ~\E u \in DOMAIN s : NextIn(s, a, width, u)
    BY <1>2, <1>5 DEF NextIn
  <2>2. Anchor(s, a, width) = ColumnEnd(s, Zone(a, width), width)
    BY <2>1, AnchorPlace
  <2> QED BY <1>3, <1>5, <2>2
<1> QED BY <1>4, <1>5, AnchorPlace

\* A later index has a larger rank.
LEMMA RankGrows ==
    ASSUME NEW n \in Nat, NEW keep \in SUBSET (1..n), NEW a \in keep, NEW b \in keep, a < b
    PROVE  Rank(keep, a) < Rank(keep, b)
<1> DEFINE A == {j \in keep : j <= a}
           B == {j \in keep : j <= b}
<1>1. a \in Int /\ b \in Int /\ a # b /\ \A j \in keep : j \in Int
  OBVIOUS
<1>2. A \subseteq B /\ B \subseteq keep
  <2>1. \A j \in keep : j <= a => j <= b
    BY <1>1
  <2> QED BY <2>1
<1>3. Cardinality(A) # Cardinality(B)
  <2>1. \A x, y \in keep : x # y =>
            Cardinality({j \in keep : j <= x}) # Cardinality({j \in keep : j <= y})
    BY RanksOf
  <2> QED BY <1>1, <2>1
<1>4. IsFiniteSet(keep)
  BY RanksOf
<1> HIDE DEF A, B
<1>5. Cardinality(A) <= Cardinality(B) /\ Cardinality(A) \in Int /\ Cardinality(B) \in Int
  <2>1. IsFiniteSet(B)
    BY <1>2, <1>4, FS_Subset
  <2>2. IsFiniteSet(A) /\ Cardinality(A) <= Cardinality(B)
    BY <1>2, <2>1, FS_Subset
  <2> QED BY <2>1, <2>2, FS_CardinalityType
<1>6. Cardinality(A) < Cardinality(B)
  BY <1>3, <1>5
<1> QED BY <1>6 DEF A, B, Rank

\* The blocks at the places f come as p puts them.
InStep(f, m, p, n) ==
    \A k, l \in 1..m : k < l => \E a, b \in 1..n : a < b /\ p[a] = f[k] /\ p[b] = f[l]

\* Those of t that p takes from the first m of s are these m, put in the order of t.
LEMMA FoundAgain ==
    ASSUME NEW n \in Nat, NEW m \in 0..n, NEW s, NEW t, NEW p, Permuted(t, s, n, p)
    PROVE  LET made == Only(t, {a \in 1..n : p[a] <= m})
           IN  DOMAIN made = 1..m /\ \E f : Permuted(made, s, m, f) /\ InStep(f, m, p, n)
<1> DEFINE K == {a \in 1..n : p[a] <= m}
           made == Only(t, K)
           At(k, a) == a \in K /\ Rank(K, a) = k /\ made[k] = t[a]
           e == [k \in 1..m |-> CHOOSE a : At(k, a)]
           f == [k \in 1..m |-> p[e[k]]]
<1>1. /\ K \in SUBSET (1..n) /\ m \in Nat
      /\ \A a \in K : a \in Int /\ p[a] \in 1..m
      /\ \A i \in 1..m : \E a \in K : p[a] = i
      /\ \A a, b \in K : p[a] = p[b] => a = b
      /\ \A a \in K : t[a].box = s[p[a]].box
  <2>1. /\ \A a \in 1..n : p[a] \in 1..n /\ t[a].box = s[p[a]].box
        /\ \A i \in 1..n : \E a \in 1..n : p[a] = i
        /\ \A a, b \in 1..n : p[a] = p[b] => a = b
    BY DEF Permuted
  <2>2. m \in Nat /\ \A i \in 1..m : i \in 1..n /\ i <= m
    OBVIOUS
  <2>3. \A a \in 1..n : a \in Int /\ (p[a] <= m => p[a] \in 1..m)
    BY <2>1, <2>2
  <2>4. \A i \in 1..m : \E a \in K : p[a] = i
    BY <2>1, <2>2
  <2>5. K \subseteq 1..n /\ \A a \in K : p[a] <= m
    OBVIOUS
  <2> HIDE DEF K
  <2> QED BY <2>1, <2>2, <2>3, <2>4, <2>5
<1>2. Cardinality(K) = m
  <2>1. Cardinality({a \in 1..n : p[a] \in 1..m}) = Cardinality(1..m)
    <3>1. 1..m \in SUBSET (1..n)
      BY <1>1
    <3> QED BY <3>1, PermutedCount
  <2>2. K = {a \in 1..n : p[a] \in 1..m}
    BY <1>1
  <2>3. Cardinality(1..m) = m
    BY <1>1, FS_Interval
  <2> QED BY <2>1, <2>2, <2>3
<1> HIDE DEF K
<1>3. Enumerates(made, t, K)
  BY <1>1, OnlyRanks
<1> HIDE DEF made
<1>4. DOMAIN made = 1..m
  BY <1>2, <1>3 DEF Enumerates
<1>5. \A k \in 1..m : At(k, e[k])
  <2> TAKE k \in 1..m
  <2>1. \E a : At(k, a)
    BY <1>2, <1>3 DEF Enumerates
  <2>2. e[k] = CHOOSE a : At(k, a)
    OBVIOUS
  <2> HIDE DEF e, At
  <2> QED BY <2>1, <2>2
<1>6. \A k \in 1..m : f[k] = p[e[k]]
  OBVIOUS
<1>7. DOMAIN f = 1..m
  OBVIOUS
<1>8. f = [k \in 1..m |-> f[k]]
  OBVIOUS
<1> HIDE DEF e, f
<1>9. Permuted(made, s, m, f)
  <2>1. f \in [1..m -> 1..m]
    <3>1. \A k \in 1..m : f[k] \in 1..m
      BY <1>1, <1>5, <1>6
    <3> QED BY <1>8, <3>1
  <2>2. \A i \in 1..m : \E k \in 1..m : f[k] = i
    <3> TAKE i \in 1..m
    <3>1. PICK a \in K : p[a] = i
      BY <1>1
    <3>2. Rank(K, a) \in 1..m
      BY <1>1, <1>2, RanksOf DEF Rank
    <3>3. e[Rank(K, a)] = a
      <4>1. At(Rank(K, a), e[Rank(K, a)])
        BY <1>5, <3>2
      <4>2. \A x, y \in K : x # y => Rank(K, x) # Rank(K, y)
        BY <1>1, RanksOf DEF Rank
      <4> QED BY <4>1, <4>2
    <3> QED BY <1>6, <3>1, <3>2, <3>3
  <2>3. ASSUME NEW k \in 1..m, NEW l \in 1..m, f[k] = f[l] PROVE k = l
    <3>1. At(k, e[k]) /\ At(l, e[l])
      BY <1>5
    <3>2. e[k] = e[l]
      BY <1>1, <1>6, <2>3, <3>1
    <3> QED BY <3>1, <3>2
  <2>4. ASSUME NEW k \in 1..m PROVE made[k].box = s[f[k]].box
    <3>1. At(k, e[k])
      BY <1>5
    <3> QED BY <1>1, <1>6, <3>1
  <2> QED BY <2>1, <2>2, <2>3, <2>4 DEF Permuted
<1>10. InStep(f, m, p, n)
  <2>1. ASSUME NEW k \in 1..m, NEW l \in 1..m, k < l PROVE e[k] < e[l]
    <3>1. /\ e[k] \in K /\ Rank(K, e[k]) = k /\ e[l] \in K /\ Rank(K, e[l]) = l
      BY <1>5
    <3>2. e[k] \in Int /\ e[l] \in Int
      BY <1>1, <3>1
    <3>5. k \in Int /\ l \in Int
      OBVIOUS
    <3>3. e[l] < e[k] => Rank(K, e[l]) < Rank(K, e[k])
      BY <1>1, <3>1, RankGrows
    <3>4. e[k] # e[l] /\ ~(l < k)
      BY <2>1, <3>1, <3>2, <3>5
    <3> QED BY <3>1, <3>2, <3>3, <3>4, <3>5
  <2>2. \A k \in 1..m : e[k] \in 1..n
    BY <1>1, <1>5
  <2>3. ASSUME NEW k \in 1..m, NEW l \in 1..m, k < l
        PROVE  \E a, b \in 1..n : a < b /\ p[a] = f[k] /\ p[b] = f[l]
    <3>1. e[k] < e[l] /\ p[e[k]] = f[k] /\ p[e[l]] = f[l]
      BY <1>6, <2>1, <2>3
    <3> QED BY <2>2, <3>1
  <2> QED BY <2>3 DEF InStep
<1> QED BY <1>4, <1>9, <1>10 DEF made, K

\* twice a block's place, and a word's between the blocks
PlaceOf(s, all, width, i) == IF i <= Len(s) THEN 2 * i ELSE Anchor(s, all[i].box, width)
PlacedBefore(s, all, width, i, j) ==
    \/ PlaceOf(s, all, width, i) < PlaceOf(s, all, width, j)
    \/ PlaceOf(s, all, width, i) = PlaceOf(s, all, width, j) /\ i < j
WidthOf(s) == PageWidth({s[i].box : i \in DOMAIN s})

\* t holds the blocks all, the first of which are s, put by p in the order of a page
MergedBy(t, s, all, n, p) ==
    /\ DOMAIN t = 1..n /\ Permuted(t, all, n, p)
    /\ \A a \in 1..n : t[a].text = all[p[a]].text
    /\ \A a, b \in 1..n : a < b =>
           IF InColumns(s, WidthOf(all)) THEN PlacedBefore(s, all, WidthOf(all), p[a], p[b])
           ELSE t[a].box[2] <= t[b].box[2]

\* _merge_in_reading_order puts words between the blocks.
LEMMA MergedInOrder ==
    ASSUME NEW s, NEW others, NEW start, Sequence(s), Sequence(others),
           Framed(s), Framed(others)
    PROVE  \E p : MergedBy(MergeInReadingOrder(s, others, start), s, s \o others,
                           Len(s) + Len(others), p)
<1>0. /\ Sequence(s \o others) /\ DOMAIN (s \o others) = 1..(Len(s) + Len(others))
      /\ \A i \in DOMAIN s : i \in DOMAIN (s \o others) /\ (s \o others)[i] = s[i]
      /\ \A i \in DOMAIN others : /\ Len(s) + i \in DOMAIN (s \o others)
                                  /\ (s \o others)[Len(s) + i] = others[i]
      /\ \A k \in DOMAIN (s \o others) :
             k \in DOMAIN s \/ \E i \in DOMAIN others : k = Len(s) + i
  BY JoinedSequences, Zenon
<1> DEFINE all == s \o others
           width == WidthOf(all)
           position(i) == IF i <= Len(s) THEN <<2 * i, 0>>
                          ELSE <<Anchor(s, all[i].box, width), i - Len(s)>>
           key == [i \in DOMAIN all |->
                      IF InColumns(s, width) THEN position(i) ELSE TopLeft(all[i].box)]
           merged == SortBy(all, key)
           n == Len(s) + Len(others)
           t == [i \in DOMAIN merged |-> [merged[i] EXCEPT !.order = start + i - 1]]
<1>1. /\ n \in Nat /\ DOMAIN all = 1..n /\ Len(s) \in Nat
      /\ \A i \in 1..n : all[i].box \in Quad
  <2>1. /\ DOMAIN all = 1..n
        /\ \A i \in DOMAIN s : i \in DOMAIN all /\ all[i] = s[i]
        /\ \A i \in DOMAIN others : Len(s) + i \in DOMAIN all /\ all[Len(s) + i] = others[i]
        /\ \A k \in DOMAIN all : k \in DOMAIN s \/ \E i \in DOMAIN others : k = Len(s) + i
    BY <1>0, Zenon
  <2>2. Len(s) \in Nat /\ Len(others) \in Nat
    BY SequenceFacts
  <2> HIDE DEF all
  <2>3. \A i \in DOMAIN all : all[i].box \in Quad
    BY <2>1 DEF Framed
  <2> QED BY <2>1, <2>2, <2>3
<1>2. MergeInReadingOrder(s, others, start) = t
  BY DEF MergeInReadingOrder, WidthOf
<1> HIDE DEF all
<1>3. \A i \in 1..n : all[i].box[1] \in Int /\ all[i].box[2] \in Int
  BY <1>1 DEF Quad
<1>4. \A i \in 1..n : Anchor(s, all[i].box, width) \in Int
  BY AnchorType
<1>5. \A i \in 1..n : key[i] = IF InColumns(s, width) THEN position(i) ELSE TopLeft(all[i].box)
  BY <1>1
<1>6. key = [i \in 1..n |-> key[i]]
  BY <1>1
<1> HIDE DEF key, width
<1>7. \A i \in 1..n : key[i] \in [1..2 -> Int]
  <2> TAKE i \in 1..n
  <2>1. position(i) \in [1..2 -> Int]
    <3>1. i \in Int /\ 2 * i \in Int /\ i - Len(s) \in Int /\ 0 \in Int
      BY <1>1
    <3> QED BY <1>4, <3>1, PairTuple
  <2>2. TopLeft(all[i].box) \in [1..2 -> Int]
    BY <1>3, PairTuple DEF TopLeft
  <2> HIDE DEF position
  <2> QED BY <1>5, <2>1, <2>2
<1>8. OrdersKeys(key, n)
  BY <1>1, <1>7, TuplesOrdered
<1> HIDE DEF n
<1>9. SortedAs(merged, all, n, key)
  BY <1>1, <1>6, <1>8, SortBySorts
<1> HIDE DEF merged
<1>10. PICK p : Sorts(p, n, key) /\ merged = [a \in 1..n |-> all[p[a]]]
  BY <1>9 DEF SortedAs
<1>11. /\ DOMAIN t = 1..n
       /\ \A a \in 1..n : /\ p[a] \in 1..n
                           /\ t[a].box = all[p[a]].box /\ t[a].text = all[p[a]].text
  <2>1. DOMAIN merged = 1..n /\ \A a \in 1..n : p[a] \in 1..n /\ merged[a] = all[p[a]]
    BY <1>10 DEF Sorts
  <2>2. \A a \in 1..n : t[a] = [merged[a] EXCEPT !.order = start + a - 1]
    BY <2>1
  <2>3. \A a \in 1..n : t[a].box = merged[a].box /\ t[a].text = merged[a].text
    <3> TAKE a \in 1..n
    <3> DEFINE b == merged[a]
    <3>1. t[a] = [b EXCEPT !.order = start + a - 1]
      BY <2>2
    <3> HIDE DEF b, t
    <3>2. t[a].box = b.box /\ t[a].text = b.text
      BY <3>1
    <3> QED BY <3>2 DEF b
  <2> QED BY <2>1, <2>3
<1> HIDE DEF t
<1>12. Permuted(t, all, n, p)
  <2>1. p \in [1..n -> 1..n] /\ \A i \in 1..n : \E a \in 1..n : p[a] = i
    BY <1>10 DEF Sorts
  <2>2. \A a, b \in 1..n : p[a] = p[b] => a = b
    <3> SUFFICES ASSUME NEW a \in 1..n, NEW b \in 1..n, a < b, p[a] = p[b] PROVE FALSE
      <4>1. \A a, b \in 1..n : a < b \/ b < a \/ a = b
        BY <1>1
      <4> QED BY <4>1
    <3>1. Precedes(key[p[a]], key[p[b]]) \/ p[a] < p[b]
      BY <1>10 DEF Sorts
    <3>2. p[a] \in 1..n /\ p[a] \in Int
      BY <1>1, <2>1
    <3>3. ~Precedes(key[p[a]], key[p[a]])
      BY <1>8, <3>2 DEF OrdersKeys
    <3> QED BY <3>1, <3>2, <3>3
  <2> QED BY <1>11, <2>1, <2>2 DEF Permuted
<1>13. ASSUME NEW a \in 1..n, NEW b \in 1..n, a < b
       PROVE  IF InColumns(s, width) THEN PlacedBefore(s, all, width, p[a], p[b])
              ELSE t[a].box[2] <= t[b].box[2]
  <2> DEFINE i == p[a]
             j == p[b]
  <2>1. /\ i \in 1..n /\ j \in 1..n /\ t[a].box = all[i].box /\ t[b].box = all[j].box
        /\ Precedes(key[i], key[j]) \/ (key[i] = key[j] /\ i < j)
    BY <1>10, <1>11, <1>13 DEF Sorts
  <2> HIDE DEF i, j
  <2>2. i \in Int /\ j \in Int /\ Len(s) \in Int
    BY <1>1, <2>1
  <2>3. CASE InColumns(s, width)
    <3> DEFINE x(k) == PlaceOf(s, all, width, k)
               y(k) == IF k <= Len(s) THEN 0 ELSE k - Len(s)
    <3>1. \A k \in 1..n : key[k] = <<x(k), y(k)>>
      <4> TAKE k \in 1..n
      <4>1. key[k] = position(k)
        BY <1>5, <2>3
      <4> QED BY <4>1 DEF PlaceOf
    <3>2. \A k \in 1..n : x(k) \in Int /\ y(k) \in Int
      <4> TAKE k \in 1..n
      <4>1. k \in Int /\ 2 * k \in Int
        BY <1>1
      <4> QED BY <1>4, <2>2, <4>1 DEF PlaceOf
    <3>3. x(i) < x(j) \/ (x(i) = x(j) /\ (y(i) < y(j) \/ (y(i) = y(j) /\ i < j)))
      <4>1. key[i] = <<x(i), y(i)>> /\ key[j] = <<x(j), y(j)>>
        BY <2>1, <3>1
      <4>2. x(i) \in Int /\ y(i) \in Int /\ x(j) \in Int /\ y(j) \in Int
        BY <2>1, <3>2
      <4> HIDE DEF x, y
      <4>3. Precedes(<<x(i), y(i)>>, <<x(j), y(j)>>) <=> x(i) < x(j) \/ (x(i) = x(j) /\ y(i) < y(j))
        BY <4>2, PrecedesPair
      <4>4. key[i] = key[j] => x(i) = x(j) /\ y(i) = y(j)
        BY <4>1
      <4> QED BY <2>1, <4>1, <4>3, <4>4
    <3>4. y(i) < y(j) => i < j
      BY <2>1, <2>2
    <3>5. x(i) < x(j) \/ (x(i) = x(j) /\ i < j)
      <4> HIDE DEF x, y
      <4> QED BY <3>3, <3>4
    <3>6. PlacedBefore(s, all, width, i, j)
      BY <3>5 DEF PlacedBefore
    <3> QED BY <2>3, <3>6 DEF i, j
  <2>4. CASE ~InColumns(s, width)
    <3>1. key[i] = TopLeft(all[i].box) /\ key[j] = TopLeft(all[j].box)
      BY <1>5, <2>1, <2>4
    <3> DEFINE u == all[i].box
               v == all[j].box
    <3>2. u[1] \in Int /\ u[2] \in Int /\ v[1] \in Int /\ v[2] \in Int
      BY <1>3, <2>1
    <3>3. key[i] = <<u[2], u[1]>> /\ key[j] = <<v[2], v[1]>> /\ t[a].box = u /\ t[b].box = v
      BY <2>1, <3>1 DEF TopLeft
    <3> HIDE DEF u, v
    <3>4. Precedes(<<u[2], u[1]>>, <<v[2], v[1]>>) <=> u[2] < v[2] \/ (u[2] = v[2] /\ u[1] < v[1])
      BY <3>2, PrecedesPair
    <3>5. key[i] = key[j] => u[2] = v[2]
      BY <3>3
    <3>6. u[2] <= v[2]
      BY <2>1, <3>2, <3>3, <3>4, <3>5
    <3> QED BY <2>4, <3>3, <3>6
  <2> QED BY <2>3, <2>4
<1>14. MergedBy(t, s, all, n, p)
  BY <1>11, <1>12, <1>13 DEF MergedBy, width
<1> QED BY <1>2, <1>14 DEF all, n

-----------------------------------------------------------------------------
(* So the words of a page stand between its blocks in order. *)

\* the words of others come in the order in which L has their boxes
Follow(others, L) ==
    /\ \A i \in DOMAIN others : \E k \in DOMAIN L : others[i].box = L[k]
    /\ \A i, j \in DOMAIN others :
           i < j => \E k, l \in DOMAIN L : k < l /\ others[i].box = L[k] /\ others[j].box = L[l]

\* Two blocks of one column, one placed before the other, come downwards.
LEMMA PlacedFalls ==
    ASSUME NEW s, NEW others, Sequence(s), Sequence(others), Framed(s), Framed(others),
           NEW width, Falls(s, width), NEW L, Follow(others, L), Downwards(L, width),
           NEW i \in 1..(Len(s) + Len(others)), NEW j \in 1..(Len(s) + Len(others)),
           PlacedBefore(s, s \o others, width, i, j),
           Zone((s \o others)[i].box, width) = Zone((s \o others)[j].box, width)
    PROVE  (s \o others)[i].box[2] <= (s \o others)[j].box[2]
<1>0. /\ Sequence(s \o others) /\ DOMAIN (s \o others) = 1..(Len(s) + Len(others))
      /\ \A k \in DOMAIN s : k \in DOMAIN (s \o others) /\ (s \o others)[k] = s[k]
      /\ \A k \in DOMAIN others : /\ Len(s) + k \in DOMAIN (s \o others)
                                  /\ (s \o others)[Len(s) + k] = others[k]
      /\ \A k \in DOMAIN (s \o others) :
             k \in DOMAIN s \/ \E h \in DOMAIN others : k = Len(s) + h
  BY JoinedSequences, Zenon
<1> DEFINE all == s \o others
           m == Len(s)
           a == all[i].box
           b == all[j].box
<1>1. /\ m \in Nat /\ DOMAIN s = 1..m /\ Len(others) \in Nat /\ DOMAIN others = 1..Len(others)
      /\ i \in Int /\ j \in Int
  BY SequenceFacts
<1>2. ASSUME NEW k \in 1..(m + Len(others))
      PROVE  /\ k <= m => k \in DOMAIN s /\ all[k] = s[k]
             /\ k > m => k - m \in DOMAIN others /\ all[k] = others[k - m]
  <2>1. k <= m => k \in DOMAIN s
    BY <1>1
  <2>2. k > m => k - m \in DOMAIN others /\ k = m + (k - m)
    BY <1>1
  <2>3. /\ \A x \in DOMAIN s : all[x] = s[x]
        /\ \A x \in DOMAIN others : all[m + x] = others[x]
    BY <1>0, Zenon
  <2> HIDE DEF all
  <2> QED BY <2>1, <2>2, <2>3
<1>3. /\ PlaceOf(s, all, width, i) = IF i <= m THEN 2 * i ELSE Anchor(s, a, width)
      /\ PlaceOf(s, all, width, j) = IF j <= m THEN 2 * j ELSE Anchor(s, b, width)
  BY DEF PlaceOf
<1>4. /\ i <= m => i \in DOMAIN s /\ a = s[i].box
      /\ i > m => i - m \in DOMAIN others /\ a = others[i - m].box
      /\ j <= m => j \in DOMAIN s /\ b = s[j].box
      /\ j > m => j - m \in DOMAIN others /\ b = others[j - m].box
  <2> HIDE DEF all
  <2> QED BY <1>2
<1>5. /\ PlaceOf(s, all, width, i) < PlaceOf(s, all, width, j)
         \/ (PlaceOf(s, all, width, i) = PlaceOf(s, all, width, j) /\ i < j)
      /\ Zone(a, width) = Zone(b, width)
  BY DEF PlacedBefore
<1> SUFFICES a[2] <= b[2]
  OBVIOUS
<1> HIDE DEF all, a, b
<1>6. a \in Quad /\ b \in Quad
  BY <1>1, <1>4 DEF Framed
<1>7. a[2] \in Int /\ b[2] \in Int
  BY <1>6 DEF Quad
<1>8. Anchor(s, a, width) \in Int /\ Anchor(s, b, width) \in Int
  BY AnchorType
<1> DEFINE x == Anchor(s, a, width)
           y == Anchor(s, b, width)
<1>9. x \in Int /\ y \in Int
  BY <1>8
<1>10. CASE i <= m /\ j <= m
  <2>1. i < j
    BY <1>1, <1>3, <1>5, <1>10
  <2> QED BY <1>4, <1>5, <1>10, <2>1 DEF Falls
<1>11. CASE i <= m /\ j > m
  <2>1. 2 * i <= y
    <3> HIDE DEF y, x
    <3>1. 2 * i < y \/ 2 * i = y
      BY <1>1, <1>3, <1>5, <1>11 DEF x, y
    <3> QED BY <1>1, <1>9, <3>1
  <2>2. i \in DOMAIN s /\ Zone(s[i].box, width) = Zone(b, width) /\ a = s[i].box
    BY <1>4, <1>5, <1>11
  <2>3. 2 * i <= Anchor(s, b, width) => s[i].box[2] <= b[2]
    BY <1>6, <2>2, WordBetween
  <2> QED BY <2>1, <2>2, <2>3
<1>12. CASE i > m /\ j <= m
  <2>1. x <= 2 * j
    <3> HIDE DEF y, x
    <3>1. x < 2 * j \/ x = 2 * j
      BY <1>1, <1>3, <1>5, <1>12 DEF x, y
    <3> QED BY <1>1, <1>9, <3>1
  <2>2. j \in DOMAIN s /\ Zone(s[j].box, width) = Zone(a, width) /\ b = s[j].box
    BY <1>4, <1>5, <1>12
  <2>3. Anchor(s, a, width) <= 2 * j => a[2] <= s[j].box[2]
    BY <1>6, <2>2, WordBetween
  <2> QED BY <2>1, <2>2, <2>3
<1>13. CASE i > m /\ j > m
  <2>1. x < y \/ (x = y /\ i < j)
    BY <1>1, <1>3, <1>5, <1>13
  <2>2. x < y => a[2] <= b[2]
    BY <1>5, <1>6, WordsInTurn
  <2>3. ASSUME i < j PROVE a[2] <= b[2]
    <3>1. i - m < j - m /\ i - m \in DOMAIN others /\ j - m \in DOMAIN others
      BY <1>1, <1>4, <1>13, <2>3
    <3>2. a = others[i - m].box /\ b = others[j - m].box
      BY <1>4, <1>13
    <3>3. PICK k \in DOMAIN L, l \in DOMAIN L : k < l /\ a = L[k] /\ b = L[l]
      BY <3>1, <3>2 DEF Follow
    <3> QED BY <1>5, <3>3 DEF Downwards
  <2> QED BY <2>1, <2>2, <2>3
<1> QED BY <1>1, <1>10, <1>11, <1>12, <1>13

\* no block of s has the box of a word of L
Apart(s, L) == \A i \in DOMAIN s : \A k \in DOMAIN L : s[i].box # L[k]

\* what OnePassOrder says of a page t on which the words of L were read
KeptInOrder(t, L) ==
    LET boxes == [i \in DOMAIN t |-> t[i].box]
        width == PageWidth({boxes[i] : i \in DOMAIN boxes})
        loose == {i \in DOMAIN t : \E k \in DOMAIN L : t[i].box = L[k]}
        found == Only(t, DOMAIN t \ loose)
        given == [i \in DOMAIN found |-> found[i].box]
    IN  loose = {} \/ ~Downwards(given, width) \/ ~Downwards(L, width)
        \/ IF InColumns(found, width) THEN Downwards(boxes, width)
           ELSE \A i, j \in DOMAIN boxes : i < j => boxes[i][2] <= boxes[j][2]

\* As many blocks on either side.
LEMMA ColumnsAgain ==
    ASSUME NEW m \in Nat, NEW s, NEW made, NEW f, DOMAIN s = 1..m, DOMAIN made = 1..m,
           NEW all, \A i \in 1..m : all[i].box = s[i].box, Permuted(made, all, m, f), NEW width
    PROVE  InColumns(made, width) <=> InColumns(s, width)
<1> DEFINE On(u, side) == {i \in DOMAIN u : Zone(u[i].box, width) = side}
<1>1. ASSUME NEW side PROVE Cardinality(On(made, side)) = Cardinality(On(s, side))
  <2>1. On(s, side) \in SUBSET (1..m)
    OBVIOUS
  <2>2. On(made, side) = {a \in 1..m : f[a] \in On(s, side)}
    <3>1. \A a \in 1..m : f[a] \in 1..m /\ made[a].box = s[f[a]].box
      BY DEF Permuted
    <3>2. On(made, side) = {a \in 1..m : Zone(made[a].box, width) = side}
      OBVIOUS
    <3>3. \A i \in 1..m : i \in On(s, side) <=> Zone(s[i].box, width) = side
      OBVIOUS
    <3> HIDE DEF On
    <3> QED BY <3>1, <3>2, <3>3
  <2> HIDE DEF On
  <2> QED BY <2>1, <2>2, PermutedCount
<1>2. ASSUME NEW u
      PROVE  InColumns(u, width) <=> \A side \in {"left", "right"} : Cardinality(On(u, side)) >= 2
  BY DEF InColumns
<1> HIDE DEF On
<1> QED BY <1>1, <1>2

\* So words that one pass puts between the blocks leave the page in order.
LEMMA MergedKept ==
    ASSUME NEW s, NEW others, Sequence(s), Sequence(others), Framed(s), Framed(others),
           NEW L, Apart(s, L), Follow(others, L),
           NEW t, NEW p, MergedBy(t, s, s \o others, Len(s) + Len(others), p)
    PROVE  KeptInOrder(t, L)
<1>0. /\ Sequence(s \o others) /\ DOMAIN (s \o others) = 1..(Len(s) + Len(others))
      /\ \A k \in DOMAIN s : k \in DOMAIN (s \o others) /\ (s \o others)[k] = s[k]
      /\ \A k \in DOMAIN others : /\ Len(s) + k \in DOMAIN (s \o others)
                                  /\ (s \o others)[Len(s) + k] = others[k]
      /\ \A k \in DOMAIN (s \o others) :
             k \in DOMAIN s \/ \E h \in DOMAIN others : k = Len(s) + h
  BY JoinedSequences, Zenon
<1> DEFINE all == s \o others
           m == Len(s)
           n == Len(s) + Len(others)
           boxes == [i \in DOMAIN t |-> t[i].box]
           width == PageWidth({boxes[i] : i \in DOMAIN boxes})
           loose == {i \in DOMAIN t : \E k \in DOMAIN L : t[i].box = L[k]}
           made == Only(t, DOMAIN t \ loose)
           given == [i \in DOMAIN made |-> made[i].box]
<1>1. /\ m \in Nat /\ DOMAIN s = 1..m /\ Len(others) \in Nat /\ DOMAIN others = 1..Len(others)
      /\ n \in Nat /\ m \in 0..n
  BY SequenceFacts
<1>2. /\ DOMAIN all = 1..n
      /\ \A x \in DOMAIN s : all[x] = s[x]
      /\ \A x \in DOMAIN others : all[m + x] = others[x]
      /\ \A k \in 1..n : k \in DOMAIN s \/ \E i \in DOMAIN others : k = m + i
  BY <1>0, Zenon
<1>3. DOMAIN t = 1..n /\ Permuted(t, all, n, p)
  BY DEF MergedBy
<1>4. \A a, b \in 1..n : a < b =>
          IF InColumns(s, WidthOf(all)) THEN PlacedBefore(s, all, WidthOf(all), p[a], p[b])
          ELSE t[a].box[2] <= t[b].box[2]
  BY DEF MergedBy
<1>5. ASSUME Falls(s, WidthOf(all)), Downwards(L, WidthOf(all)), NEW i \in 1..n, NEW j \in 1..n,
             PlacedBefore(s, all, WidthOf(all), i, j),
             Zone(all[i].box, WidthOf(all)) = Zone(all[j].box, WidthOf(all))
      PROVE  all[i].box[2] <= all[j].box[2]
  BY <1>5, PlacedFalls
<1> HIDE DEF all
<1>6. width = WidthOf(all)
  <2>1. {boxes[i] : i \in DOMAIN boxes} = {all[i].box : i \in DOMAIN all}
    <3>1. \A a \in 1..n : boxes[a] = all[p[a]].box /\ p[a] \in 1..n
      BY <1>3 DEF Permuted
    <3>2. \A i \in 1..n : \E a \in 1..n : boxes[a] = all[i].box
      <4> TAKE i \in 1..n
      <4>1. PICK a \in 1..n : p[a] = i
        BY <1>3 DEF Permuted
      <4> HIDE DEF boxes
      <4> QED BY <3>1, <4>1
    <3>3. DOMAIN boxes = 1..n /\ DOMAIN all = 1..n
      BY <1>2, <1>3
    <3> HIDE DEF boxes, n
    <3>4. \A x \in {boxes[i] : i \in DOMAIN boxes} : x \in {all[i].box : i \in DOMAIN all}
      BY <3>1, <3>3
    <3>5. \A x \in {all[i].box : i \in DOMAIN all} : x \in {boxes[i] : i \in DOMAIN boxes}
      BY <3>2, <3>3
    <3> QED BY <3>4, <3>5
  <2> DEFINE A == {boxes[i] : i \in DOMAIN boxes}
             B == {all[i].box : i \in DOMAIN all}
  <2>2. A = B
    BY <2>1
  <2>3. width = PageWidth(A) /\ WidthOf(all) = PageWidth(B)
    BY DEF WidthOf
  <2> HIDE DEF A, B, width
  <2> QED BY <2>2, <2>3
<1>7. DOMAIN t \ loose = {a \in 1..n : p[a] <= m}
  <2>1. ASSUME NEW a \in 1..n, p[a] <= m PROVE a \notin loose
    <3>1. p[a] \in 1..n /\ t[a].box = all[p[a]].box
      BY <1>3 DEF Permuted
    <3>2. p[a] \in 1..m
      <4> HIDE DEF m, n
      <4> QED BY <1>1, <2>1, <3>1
    <3>3. p[a] \in DOMAIN s /\ all[p[a]] = s[p[a]]
      BY <1>1, <1>2, <3>2
    <3>4. \A k \in DOMAIN L : t[a].box # L[k]
      BY <3>1, <3>3 DEF Apart
    <3> QED BY <3>4
  <2>2. ASSUME NEW a \in 1..n, ~(p[a] <= m) PROVE a \in loose
    <3>1. p[a] \in 1..n /\ t[a].box = all[p[a]].box
      BY <1>3 DEF Permuted
    <3>2. p[a] \notin DOMAIN s
      BY <1>1, <2>2
    <3>3. PICK i \in DOMAIN others : p[a] = m + i
      BY <1>2, <3>1, <3>2
    <3>4. PICK k \in DOMAIN L : others[i].box = L[k]
      BY DEF Follow
    <3>5. t[a].box = L[k]
      BY <1>2, <3>1, <3>3, <3>4
    <3> QED BY <1>3, <3>5
  <2>3. loose \subseteq DOMAIN t
    OBVIOUS
  <2> HIDE DEF loose, n, m
  <2> QED BY <1>3, <2>1, <2>2
<1>8. PICK f : /\ DOMAIN made = 1..m /\ Permuted(made, all, m, f) /\ InStep(f, m, p, n)
  <2> DEFINE K == {a \in 1..n : p[a] <= m}
             again == Only(t, K)
  <2>1. DOMAIN again = 1..m /\ \E g : Permuted(again, all, m, g) /\ InStep(g, m, p, n)
    <3> HIDE DEF n, m
    <3> QED BY <1>1, <1>3, FoundAgain
  <2>2. made = again
    <3> HIDE DEF loose, K
    <3> QED BY <1>7 DEF K
  <2> HIDE DEF made, again
  <2> QED BY <2>1, <2>2
<1> SUFFICES ASSUME loose # {}, Downwards(given, width), Downwards(L, width)
             PROVE  IF InColumns(made, width) THEN Downwards(boxes, width)
                    ELSE \A i, j \in DOMAIN boxes : i < j => boxes[i][2] <= boxes[j][2]
  <2> HIDE DEF n, m
  <2> QED BY DEF KeptInOrder
<1>9. \A a \in 1..n : boxes[a] = t[a].box
  BY <1>3
<1>10. DOMAIN boxes = 1..n
  BY <1>3
<1>11. DOMAIN given = 1..m /\ \A k \in 1..m : given[k] = made[k].box
  BY <1>8
<1> HIDE DEF boxes, width, loose, made, given, n, m
<1>12. InColumns(made, width) <=> InColumns(s, width)
  <2>1. \A i \in 1..m : all[i].box = s[i].box
    BY <1>1, <1>2
  <2> QED BY <1>1, <1>8, <2>1, ColumnsAgain
<1>13. CASE ~InColumns(s, width)
  <2>1. \A i, j \in DOMAIN boxes : i < j => boxes[i][2] <= boxes[j][2]
    BY <1>4, <1>6, <1>9, <1>10, <1>13
  <2> QED BY <1>12, <1>13, <2>1
<1>14. CASE InColumns(s, width)
  <2>1. ASSUME NEW k \in 1..m, NEW l \in 1..m, k < l PROVE f[k] < f[l]
    <3>1. PICK a \in 1..n, b \in 1..n : a < b /\ p[a] = f[k] /\ p[b] = f[l]
      BY <1>8, <2>1 DEF InStep
    <3>2. PlacedBefore(s, all, width, f[k], f[l])
      BY <1>4, <1>6, <1>14, <3>1
    <3>3. f[k] \in 1..m /\ f[l] \in 1..m
      BY <1>8 DEF Permuted
    <3> QED BY <1>1, <3>2, <3>3 DEF PlacedBefore, PlaceOf, m
  <2>2. Falls(s, width)
    <3>1. ASSUME NEW i \in DOMAIN s, NEW j \in DOMAIN s, i < j,
                 Zone(s[i].box, width) = Zone(s[j].box, width)
          PROVE  s[i].box[2] <= s[j].box[2]
      <4>1. PICK k \in 1..m : f[k] = i
        BY <1>1, <1>8 DEF Permuted
      <4>2. PICK l \in 1..m : f[l] = j
        BY <1>1, <1>8 DEF Permuted
      <4>3. k < l
        <5>1. k \in Int /\ l \in Int /\ i \in Int /\ j \in Int
          BY <1>1
        <5>2. ~(l < k) /\ k # l
          BY <2>1, <3>1, <4>1, <4>2, <5>1
        <5> QED BY <5>1, <5>2
      <4>4. given[k] = s[i].box /\ given[l] = s[j].box
        BY <1>2, <1>8, <1>11, <4>1, <4>2 DEF Permuted
      <4> QED BY <1>11, <3>1, <4>3, <4>4 DEF Downwards
    <3> QED BY <3>1 DEF Falls
  <2>3. ASSUME NEW a \in 1..n, NEW b \in 1..n, a < b,
               Zone(boxes[a], width) = Zone(boxes[b], width)
        PROVE  boxes[a][2] <= boxes[b][2]
    <3>1. /\ p[a] \in 1..n /\ p[b] \in 1..n
          /\ boxes[a] = all[p[a]].box /\ boxes[b] = all[p[b]].box
      BY <1>3, <1>9 DEF Permuted
    <3>2. PlacedBefore(s, all, width, p[a], p[b])
      BY <1>4, <1>6, <1>14, <2>3
    <3> QED BY <1>5, <1>6, <2>2, <2>3, <3>1, <3>2
  <2>4. Downwards(boxes, width)
    BY <1>10, <2>3 DEF Downwards
  <2> QED BY <1>12, <1>14, <2>4
<1> QED BY <1>13, <1>14

-----------------------------------------------------------------------------
(* The words that one pass finds, loose and in tables. *)

\* the elements of few stand in many, in their order
Within(few, many) ==
    /\ \A i \in DOMAIN few : \E k \in DOMAIN many : few[i] = many[k]
    /\ \A i, j \in DOMAIN few :
           i < j => \E k, l \in DOMAIN many : k < l /\ few[i] = many[k] /\ few[j] = many[l]

\* What is kept of s comes in the order of what more is kept of it.
LEMMA OnlyWithin ==
    ASSUME NEW n \in Nat, NEW s, NEW more \in SUBSET (1..n), NEW keep \in SUBSET more
    PROVE  Within(Only(s, keep), Only(s, more))
<1> DEFINE few == Only(s, keep)
           many == Only(s, more)
<1>1. keep \in SUBSET (1..n) /\ more \in SUBSET (1..n)
  OBVIOUS
<1>2. \A a \in more : a \in Int
  BY <1>1
<1>3. Enumerates(few, s, keep) /\ Enumerates(many, s, more)
  BY <1>1, OnlyRanks
<1>4. \A a \in more : Rank(more, a) \in 1..Cardinality(more)
  BY <1>1, RanksOf DEF Rank
<1>5. \A a, b \in more : a < b => Rank(more, a) < Rank(more, b)
  BY <1>1, RankGrows
<1>6. \A a, b \in keep : a < b => Rank(keep, a) < Rank(keep, b)
  BY <1>1, RankGrows
<1> HIDE DEF few, many
<1>7. DOMAIN few = 1..Cardinality(keep) /\ DOMAIN many = 1..Cardinality(more)
  BY <1>3 DEF Enumerates
<1>8. \A i \in DOMAIN few : \E a \in keep : Rank(keep, a) = i /\ few[i] = s[a]
  BY <1>3, <1>7 DEF Enumerates
<1>9. \A a \in keep : Rank(more, a) \in DOMAIN many /\ many[Rank(more, a)] = s[a]
  BY <1>3, <1>4, <1>7 DEF Enumerates
<1>10. \A i \in DOMAIN few : \E k \in DOMAIN many : few[i] = many[k]
  BY <1>8, <1>9
<1>11. ASSUME NEW i \in DOMAIN few, NEW j \in DOMAIN few, i < j
       PROVE  \E k, l \in DOMAIN many : k < l /\ few[i] = many[k] /\ few[j] = many[l]
  <2>1. PICK a \in keep : Rank(keep, a) = i /\ few[i] = s[a]
    BY <1>8
  <2>2. PICK b \in keep : Rank(keep, b) = j /\ few[j] = s[b]
    BY <1>8
  <2>3. a < b
    <3>1. a \in Int /\ b \in Int /\ i \in Int /\ j \in Int
      BY <1>2, <1>3, <1>7 DEF Enumerates
    <3>2. a # b /\ ~(b < a)
      BY <1>6, <1>11, <2>1, <2>2, <3>1
    <3> QED BY <3>1, <3>2
  <2>4. Rank(more, a) < Rank(more, b)
    BY <1>5, <2>3
  <2> QED BY <1>9, <2>1, <2>2, <2>4
<1>12. \A i, j \in DOMAIN few :
           i < j => \E k, l \in DOMAIN many : k < l /\ few[i] = many[k] /\ few[j] = many[l]
  BY <1>11
<1> QED BY <1>10, <1>12 DEF few, many, Within

\* So do their boxes.
LEMMA BoxesFollow ==
    ASSUME NEW few, NEW many, Within(few, many), NEW others, NEW L,
           DOMAIN others = DOMAIN few, \A i \in DOMAIN few : others[i].box = few[i].box,
           DOMAIN L = DOMAIN many, \A k \in DOMAIN many : L[k] = many[k].box
    PROVE  Follow(others, L)
<1>1. ASSUME NEW i \in DOMAIN others PROVE \E k \in DOMAIN L : others[i].box = L[k]
  <2>1. PICK k \in DOMAIN many : few[i] = many[k]
    BY DEF Within
  <2> QED BY <2>1
<1>2. ASSUME NEW i \in DOMAIN others, NEW j \in DOMAIN others, i < j
      PROVE  \E k, l \in DOMAIN L : k < l /\ others[i].box = L[k] /\ others[j].box = L[l]
  <2>1. \E k, l \in DOMAIN many : k < l /\ few[i] = many[k] /\ few[j] = many[l]
    BY <1>2 DEF Within
  <2>2. PICK k \in DOMAIN many, l \in DOMAIN many : k < l /\ few[i] = many[k] /\ few[j] = many[l]
    BY <2>1
  <2>3. others[i].box = L[k] /\ others[j].box = L[l]
    BY <2>2
  <2> QED BY <2>2, <2>3
<1> QED BY <1>1, <1>2 DEF Follow

\* the words that say something
ReadAt(words) == {k \in DOMAIN words : words[k].text # NoText}
\* and where they stand, in the order in which they were read
LinesOf(words) == [k \in DOMAIN Only(words, ReadAt(words)) |-> Only(words, ReadAt(words))[k].box]

\* A table laid out from words has words in its cells whose centers lie in it.
FromWords(grid, words, box) ==
    \A r \in DOMAIN grid : \A c \in DOMAIN grid[r] :
        \E k \in DOMAIN words : grid[r][c] = words[k].box /\ CenterInside(words[k].box, box)
\* And all of these.
HasWords(grid, words, box) ==
    \A k \in DOMAIN words : words[k].text # NoText /\ CenterInside(words[k].box, box) =>
        \E r \in DOMAIN grid : \E c \in DOMAIN grid[r] : grid[r][c] = words[k].box

\* A word in the middle of a region overlaps it, unless either is too small.
LEMMA CenterTouches ==
    ASSUME NEW word \in Quad, NEW box \in Quad, Large(word), CenterInside(word, box),
           Width(box) > 3, Height(box) > 3
    PROVE  Touches(word, box)
<1>1. /\ word[1] \in Int /\ word[2] \in Int /\ word[3] \in Int /\ word[4] \in Int
      /\ box[1] \in Int /\ box[2] \in Int /\ box[3] \in Int /\ box[4] \in Int
  BY DEF Quad
<1>2. ASSUME NEW a \in Int, NEW b \in Int, NEW c \in Int, NEW d \in Int,
             b - a > 6, d - c > 3, 2 * c <= a + b, a + b <= 2 * d
      PROVE  Hi(0, Lo(b, d) - Hi(a, c)) > 3
  <2>1. b - a > 3 /\ b - c > 3 /\ d - a > 3
    BY <1>2
  <2> QED BY <1>2, <2>1 DEF Hi, Lo
<1>3. /\ word[3] - word[1] > 6 /\ word[4] - word[2] > 6
      /\ box[3] - box[1] > 3 /\ box[4] - box[2] > 3
  BY DEF Large, Width, Height
<1>4. /\ 2 * box[1] <= word[1] + word[3] /\ word[1] + word[3] <= 2 * box[3]
      /\ 2 * box[2] <= word[2] + word[4] /\ word[2] + word[4] <= 2 * box[4]
  BY <1>1 DEF CenterInside, Center2
<1>5. OverlapX(word, box) > 3
  BY <1>1, <1>2, <1>3, <1>4 DEF OverlapX
<1>6. OverlapY(word, box) > 3
  BY <1>1, <1>2, <1>3, <1>4 DEF OverlapY
<1> QED BY <1>5, <1>6 DEF Touches

\* A word that touches a region shares pixels with it.
LEMMA TouchingMeets ==
    ASSUME NEW word \in Quad, NEW box \in Quad, Touches(word, box)
    PROVE  Intersection(word, box) > 0
<1> DEFINE x == OverlapX(word, box)
           y == OverlapY(word, box)
<1>1. /\ word[1] \in Int /\ word[2] \in Int /\ word[3] \in Int /\ word[4] \in Int
      /\ box[1] \in Int /\ box[2] \in Int /\ box[3] \in Int /\ box[4] \in Int
  BY DEF Quad
<1>2. x \in Int /\ y \in Int
  BY <1>1 DEF OverlapX, OverlapY, Hi, Lo
<1>3. x > 3 /\ y > 3 /\ Intersection(word, box) = x * y
  BY DEF Touches, Intersection
<1> HIDE DEF x, y
<1>4. x * y > 0
  BY <1>2, <1>3
<1> QED BY <1>3, <1>4

\* A sequence is a function on its indices,
LEMMA AsFunction == ASSUME NEW S, NEW s \in Seq(S) PROVE s \in [1..Len(s) -> S]
OBVIOUS
\* and a word's key one of length three.
LEMMA TripleTuple ==
    ASSUME NEW u \in Int, NEW v \in Int, NEW h \in Int
    PROVE  Append(<<u, v>>, h) \in [1..3 -> Int]
<1> DEFINE t == Append(<<u, v>>, h)
<1>1. <<u, v>> \in Seq(Int) /\ Len(<<u, v>>) = 2
  OBVIOUS
<1>2. t \in Seq(Int) /\ Len(t) = Len(<<u, v>>) + 1
  BY <1>1, AppendProperties
<1> HIDE DEF t
<1>3. Len(t) = 3
  BY <1>1, <1>2
<1>4. t \in [1..Len(t) -> Int]
  BY <1>2, AsFunction
<1> QED BY <1>3, <1>4 DEF t

\* a row of words in the making, and the sequence of a row's words by their centers
RowOf(C) == [words : Seq(C), parts : Int, sum : Int]
AcrossRow(row) == SortBy(row, [k \in DOMAIN row |-> <<Center2(row[k])[2]>>])

\* a word joins the last row or begins another
JoinRow(rows, w) ==
    [rows EXCEPT ![Len(rows)] = [words |-> Append(@.words, w.box), parts |-> 2 * @.parts,
                                 sum |-> @.sum + Center2(w.box)[1] * @.parts]]
BeginRow(rows, w) == Append(rows, [words |-> <<w.box>>, parts |-> 1, sum |-> Center2(w.box)[1]])

\* Sorting loses nothing.
LEMMA SortKeeps ==
    ASSUME NEW B, NEW s \in Seq(B), NEW key, key = [i \in DOMAIN s |-> key[i]],
           OrdersKeys(key, Len(s)), NEW i \in DOMAIN s
    PROVE  \E a \in DOMAIN SortBy(s, key) : SortBy(s, key)[a] = s[i]
<1> DEFINE n == Len(s)
<1>1. n \in Nat /\ DOMAIN s = 1..n
  OBVIOUS
<1>2. key = [k \in 1..n |-> key[k]] /\ OrdersKeys(key, n)
  BY <1>1
<1> HIDE DEF n
<1>3. SortedAs(SortBy(s, key), s, n, key)
  BY <1>1, <1>2, SortBySorts
<1>4. PICK p : Sorts(p, n, key) /\ SortBy(s, key) = [a \in 1..n |-> s[p[a]]]
  BY <1>3 DEF SortedAs
<1>5. PICK a \in 1..n : p[a] = i
  BY <1>1, <1>4 DEF Sorts
<1> QED BY <1>4, <1>5

\* Either way the rows are still of boxes of C.
LEMMA RowsStay ==
    ASSUME NEW C \in SUBSET Quad, NEW rows \in Seq(RowOf(C)), NEW w, w.box \in C
    PROVE  /\ BeginRow(rows, w) \in Seq(RowOf(C))
           /\ rows # <<>> => JoinRow(rows, w) \in Seq(RowOf(C))
<1> DEFINE y == Center2(w.box)[1]
<1>1. y \in Int
  <2>1. w.box \in Quad
    OBVIOUS
  <2>2. w.box[2] \in Int /\ w.box[4] \in Int
    BY <2>1 DEF Quad
  <2> QED BY <2>2 DEF Center2
<1> HIDE DEF y
<1>2. BeginRow(rows, w) \in Seq(RowOf(C))
  <2> DEFINE row == [words |-> <<w.box>>, parts |-> 1, sum |-> y]
  <2>1. <<w.box>> \in Seq(C)
    OBVIOUS
  <2>2. row \in RowOf(C)
    BY <1>1, <2>1 DEF RowOf
  <2>3. BeginRow(rows, w) = Append(rows, row)
    BY DEF BeginRow, y
  <2> HIDE DEF row
  <2> QED BY <2>2, <2>3
<1>3. ASSUME rows # <<>> PROVE JoinRow(rows, w) \in Seq(RowOf(C))
  <2> DEFINE n == Len(rows)
             last == rows[n]
             row == [words |-> Append(last.words, w.box), parts |-> 2 * last.parts,
                     sum |-> last.sum + y * last.parts]
  <2>1. last \in RowOf(C)
    BY <1>3
  <2>2. JoinRow(rows, w) = [rows EXCEPT ![n] = row]
    BY DEF JoinRow, y
  <2> HIDE DEF last, n
  <2>3. /\ last.words \in Seq(C) /\ last.parts \in Int /\ last.sum \in Int
    BY <2>1 DEF RowOf
  <2>4. Append(last.words, w.box) \in Seq(C)
    BY <2>3
  <2>5. y * last.parts \in Int /\ 2 * last.parts \in Int
    BY <1>1, <2>3
  <2>6. last.sum + y * last.parts \in Int
    BY <2>3, <2>5
  <2>7. row \in RowOf(C)
    BY <2>4, <2>5, <2>6 DEF RowOf
  <2> HIDE DEF row
  <2>8. [rows EXCEPT ![n] = row] \in Seq(RowOf(C))
    BY <2>7, Replaced
  <2> QED BY <2>2, <2>8
<1> QED BY <1>2, <1>3

\* some row has this box
InRows(rows, b) == \E r \in DOMAIN rows : \E c \in DOMAIN rows[r].words : rows[r].words[c] = b

\* And they have the new word and all that they had.
LEMMA RowsGrow ==
    ASSUME NEW C \in SUBSET Quad, NEW rows \in Seq(RowOf(C)), NEW w, w.box \in C
    PROVE  /\ InRows(BeginRow(rows, w), w.box)
           /\ \A b : InRows(rows, b) => InRows(BeginRow(rows, w), b)
           /\ rows # <<>> => /\ InRows(JoinRow(rows, w), w.box)
                             /\ \A b : InRows(rows, b) => InRows(JoinRow(rows, w), b)
<1> DEFINE y == Center2(w.box)[1]
           n == Len(rows)
<1>1. n \in Nat /\ DOMAIN rows = 1..n
  OBVIOUS
<1>2. InRows(BeginRow(rows, w), w.box) /\ \A b : InRows(rows, b) => InRows(BeginRow(rows, w), b)
  <2> DEFINE new == [words |-> <<w.box>>, parts |-> 1, sum |-> y]
             more == Append(rows, new)
  <2>1. BeginRow(rows, w) = more
    BY DEF BeginRow
  <2>2. new.words = <<w.box>> /\ 1 \in DOMAIN new.words /\ new.words[1] = w.box
    OBVIOUS
  <2> HIDE DEF new
  <2>3. /\ n + 1 \in DOMAIN more /\ more[n + 1] = new
        /\ \A r \in DOMAIN rows : r \in DOMAIN more /\ more[r] = rows[r]
    BY <1>1
  <2> HIDE DEF more, n
  <2> QED BY <2>1, <2>2, <2>3 DEF InRows
<1>3. ASSUME rows # <<>>
      PROVE  /\ InRows(JoinRow(rows, w), w.box)
             /\ \A b : InRows(rows, b) => InRows(JoinRow(rows, w), b)
  <2> DEFINE last == rows[n]
             old == last.words
             grown == Append(old, w.box)
             row == [words |-> grown, parts |-> 2 * last.parts,
                     sum |-> last.sum + y * last.parts]
             more == [rows EXCEPT ![n] = row]
  <2>1. JoinRow(rows, w) = more /\ row.words = grown
    BY DEF JoinRow
  <2>2. n \in DOMAIN rows /\ last \in RowOf(C)
    BY <1>1, <1>3
  <2>3. old \in Seq(C)
    BY <2>2 DEF RowOf
  <2> HIDE DEF row
  <2>4. /\ DOMAIN more = DOMAIN rows /\ more[n] = row
        /\ \A r \in DOMAIN rows : r # n => more[r] = rows[r]
    BY <2>2
  <2>5. last = rows[n] /\ old = rows[n].words
    OBVIOUS
  <2> HIDE DEF more, n, last, old
  <2>6. /\ Len(old) + 1 \in DOMAIN grown /\ grown[Len(old) + 1] = w.box
        /\ \A c \in DOMAIN old : c \in DOMAIN grown /\ grown[c] = old[c]
    BY <2>3
  <2> HIDE DEF grown
  <2>7. InRows(more, w.box)
    BY <2>1, <2>2, <2>4, <2>6 DEF InRows
  <2>8. ASSUME NEW b, InRows(rows, b) PROVE InRows(more, b)
    <3>1. PICK r \in DOMAIN rows : \E c \in DOMAIN rows[r].words : rows[r].words[c] = b
      BY <2>8 DEF InRows
    <3>2. PICK c \in DOMAIN rows[r].words : rows[r].words[c] = b
      BY <3>1
    <3>3. r \in DOMAIN more
      BY <2>4
    <3>4. c \in DOMAIN more[r].words /\ more[r].words[c] = b
      <4>1. CASE r = n
        BY <2>1, <2>4, <2>5, <2>6, <3>2, <4>1
      <4>2. CASE r # n
        BY <2>4, <3>2, <4>2
      <4> QED BY <4>1, <4>2
    <3> QED BY <3>3, <3>4 DEF InRows
  <2> QED BY <2>1, <2>7, <2>8
<1> QED BY <1>2, <1>3

\* A row across is made of the same words.
LEMMA AcrossStays ==
    ASSUME NEW C \in SUBSET Quad, NEW row \in Seq(C)
    PROVE  /\ AcrossRow(row) \in Seq(C)
           /\ \A k \in DOMAIN row : \E c \in DOMAIN AcrossRow(row) : AcrossRow(row)[c] = row[k]
<1> DEFINE key == [k \in DOMAIN row |-> <<Center2(row[k])[2]>>]
<1>1. Len(row) \in Nat /\ DOMAIN row = 1..Len(row) /\ \A k \in 1..Len(row) : row[k] \in Quad
  OBVIOUS
<1>2. \A k \in 1..Len(row) : key[k] \in [1..1 -> Int]
  <2> TAKE k \in 1..Len(row)
  <2> DEFINE x == Center2(row[k])[2]
  <2>1. row[k] \in Quad
    BY <1>1
  <2>2. row[k][1] \in Int /\ row[k][3] \in Int
    BY <2>1 DEF Quad
  <2>3. x \in Int
    BY <2>2 DEF Center2
  <2>4. key[k] = <<x>>
    BY <1>1
  <2> HIDE DEF x, key
  <2>5. <<x>> \in [1..1 -> Int]
    BY <2>3
  <2> QED BY <2>4, <2>5
<1>3. key = [k \in DOMAIN row |-> key[k]]
  OBVIOUS
<1>4. AcrossRow(row) = SortBy(row, key)
  BY DEF AcrossRow
<1> HIDE DEF key
<1>5. OrdersKeys(key, Len(row))
  BY <1>1, <1>2, TuplesOrdered
<1>6. SortBy(row, key) \in Seq(C)
  BY <1>3, <1>5, SortType
<1>7. \A k \in DOMAIN row : \E c \in DOMAIN SortBy(row, key) : SortBy(row, key)[c] = row[k]
  BY <1>3, <1>5, SortKeeps
<1> QED BY <1>4, <1>6, <1>7

\* So a table is laid out from the words that lie in it, and from all of them.
LEMMA WordRowsHold ==
    ASSUME NEW words, Sequence(words), Framed(words), NEW box
    PROVE  /\ FromWords(WordRows(words, box), words, box)
           /\ HasWords(WordRows(words, box), words, box)
<1> DEFINE inside == {k \in DOMAIN words : words[k].text # NoText
                                             /\ CenterInside(words[k].box, box)}
           C == {words[k].box : k \in inside}
           E == {words[k] : k \in inside}
           read == Only(words, inside)
           heights == [i \in DOMAIN read |-> Hi(1, Height(read[i].box))]
           key == [i \in DOMAIN read |-> Append(Center2(read[i].box), heights[i])]
           downwards == SortBy(read, key)
           Near(row, w) ==
               LET off == Center2(w.box)[1] * row.parts - row.sum
               IN  10 * Hi(off, -off) <= row.parts * Hi(80, 6 * Median2(heights))
           Joins(rows, w) == rows # <<>> /\ Near(Last(rows), w)
           Place(rows, w) == IF Joins(rows, w) THEN JoinRow(rows, w) ELSE BeginRow(rows, w)
           rows == FoldLeft(Place, <<>>, downwards)
           result == [r \in DOMAIN rows |-> AcrossRow(rows[r].words)]
<1>1. WordRows(words, box) = IF read = <<>> THEN <<>> ELSE result
  BY DEF WordRows, JoinRow, BeginRow, AcrossRow
<1>2. Len(words) \in Nat /\ DOMAIN words = 1..Len(words) /\ inside \in SUBSET (1..Len(words))
  BY SequenceFacts
<1>3. C \in SUBSET Quad /\ \A w \in E : w.box \in C
  BY DEF Framed
<1>4. Selects(read, words, inside)
  <2> HIDE DEF inside
  <2> QED BY <1>2, OnlyKeeps
<1>5. read \in Seq(E)
  <2> HIDE DEF read, inside
  <2> DEFINE n == Cardinality(inside)
  <2>1. n \in Nat /\ read = [k \in 1..n |-> read[k]]
    BY <1>4 DEF Selects
  <2>2. \A k \in 1..n : read[k] \in E
    BY <1>4 DEF Selects
  <2> HIDE DEF n, E
  <2> QED BY <2>1, <2>2, IsSequence
<1>22. \A k \in inside : words[k] \in E /\ \E i \in DOMAIN read : read[i] = words[k]
  <2> HIDE DEF read
  <2> QED BY <1>4 DEF Selects
<1> HIDE DEF read, E, C
<1>6. /\ downwards \in Seq(E)
      /\ \A i \in DOMAIN read : \E a \in DOMAIN downwards : downwards[a] = read[i]
  <2>1. Len(read) \in Nat /\ DOMAIN read = 1..Len(read) /\ \A i \in 1..Len(read) : read[i] \in E
    BY <1>5
  <2>2. \A i \in 1..Len(read) : key[i] \in [1..3 -> Int]
    <3> TAKE i \in 1..Len(read)
    <3> DEFINE b == read[i].box
    <3>1. b \in Quad
      BY <1>3, <2>1
    <3>2. key[i] = Append(Center2(b), Hi(1, Height(b)))
      BY <2>1
    <3> HIDE DEF b, key
    <3>3. b[1] \in Int /\ b[2] \in Int /\ b[3] \in Int /\ b[4] \in Int
      BY <3>1 DEF Quad
    <3> DEFINE u == b[2] + b[4]
               v == b[1] + b[3]
               h == Hi(1, Height(b))
    <3>4. u \in Int /\ v \in Int /\ h \in Int /\ Center2(b) = <<u, v>>
      <4>1. u \in Int /\ v \in Int
        BY <3>3
      <4>2. h \in Int
        BY <3>3 DEF Hi, Height
      <4> QED BY <4>1, <4>2 DEF Center2
    <3> HIDE DEF u, v, h
    <3>5. Append(<<u, v>>, h) \in [1..3 -> Int]
      BY <3>4, TripleTuple
    <3> QED BY <3>2, <3>4, <3>5 DEF h
  <2>3. key = [i \in DOMAIN read |-> key[i]]
    OBVIOUS
  <2> HIDE DEF key
  <2>4. OrdersKeys(key, Len(read))
    BY <2>1, <2>2, TuplesOrdered
  <2>5. \A i \in DOMAIN read : \E a \in DOMAIN SortBy(read, key) : SortBy(read, key)[a] = read[i]
    BY <1>5, <2>3, <2>4, SortKeeps
  <2> QED BY <1>5, <2>3, <2>4, <2>5, SortType
<1> HIDE DEF downwards
<1> DEFINE S == Seq(RowOf(C))
<1>7. ASSUME NEW x \in S, NEW w \in E
      PROVE  /\ Place(x, w) \in S /\ InRows(Place(x, w), w.box)
             /\ \A b : InRows(x, b) => InRows(Place(x, w), b)
  <2>1. BeginRow(x, w) \in S /\ (x # <<>> => JoinRow(x, w) \in S)
    BY <1>3, RowsStay
  <2>2. /\ InRows(BeginRow(x, w), w.box)
        /\ \A b : InRows(x, b) => InRows(BeginRow(x, w), b)
        /\ x # <<>> => /\ InRows(JoinRow(x, w), w.box)
                       /\ \A b : InRows(x, b) => InRows(JoinRow(x, w), b)
    BY <1>3, RowsGrow
  <2> HIDE DEF S, Near
  <2> QED BY <2>1, <2>2
<1> HIDE DEF Near, Joins, Place
<1> DEFINE iter == CHOOSE g : g = [T \in SUBSET DOMAIN downwards |->
                       IF T = {} THEN <<>>
                       ELSE Place(g[T \ {Max(T)}], downwards[Max(T)])]
           step == [x \in S \X E |-> Place(x[1], x[2])]
<1>8. rows = iter[DOMAIN downwards]
  BY DEF FoldLeft, MapThenFoldSet
<1>9. /\ Len(downwards) \in Nat /\ downwards \in [1..Len(downwards) -> E]
      /\ DOMAIN downwards = 1..Len(downwards) /\ <<>> \in S
  BY <1>6
<1>10. step \in [S \X E -> S]
  <2> HIDE DEF S
  <2> QED BY <1>7
<1>11. PICK g \in [SUBSET (1..Len(downwards)) -> S] :
           Folds(g, Len(downwards), <<>>, step, downwards)
  <2> HIDE DEF step, S
  <2> QED BY <1>9, <1>10, FoldExists DEF Foldable
<1>12. \A T \in SUBSET DOMAIN downwards : T # {} =>
          step[<<g[T \ {Max(T)}], downwards[Max(T)]>>]
              = Place(g[T \ {Max(T)}], downwards[Max(T)])
  <2> SUFFICES ASSUME NEW T \in SUBSET DOMAIN downwards, NEW i \in T
               PROVE  step[<<g[T \ {Max(T)}], downwards[Max(T)]>>]
                          = Place(g[T \ {Max(T)}], downwards[Max(T)])
    OBVIOUS
  <2>1. Max(T) \in T
    BY <1>9, MaxIn
  <2> HIDE DEF S
  <2> QED BY <2>1, <1>9
<1>13. g = [T \in SUBSET DOMAIN downwards |->
               IF T = {} THEN <<>> ELSE Place(g[T \ {Max(T)}], downwards[Max(T)])]
  <2> HIDE DEF S, step
  <2> QED BY <1>9, <1>11, <1>12 DEF Folds
<1>14. iter = [T \in SUBSET DOMAIN downwards |->
                  IF T = {} THEN <<>> ELSE Place(iter[T \ {Max(T)}], downwards[Max(T)])]
  BY <1>13
<1> HIDE DEF iter
<1> DEFINE R == [m \in Nat |-> {x \in S : \A a \in 1..m : InRows(x, downwards[a].box)}]
<1>23. \A m \in Nat : \A x : x \in R[m] <=> x \in S /\ \A a \in 1..m : InRows(x, downwards[a].box)
  <2> HIDE DEF S
  <2> QED OBVIOUS
<1> HIDE DEF R
<1>15. ASSUME NEW m \in 0..(Len(downwards) - 1), iter[1..m] \in R[m]
       PROVE  iter[1..(m + 1)] \in R[m + 1]
  <2> DEFINE U == 1..(m + 1)
  <2>1. /\ U \in SUBSET DOMAIN downwards /\ U # {} /\ Max(U) = m + 1 /\ U \ {m + 1} = 1..m
        /\ downwards[m + 1] \in E
    BY <1>9, Segment
  <2> HIDE DEF U, S
  <2>2. iter[U] = Place(iter[U \ {Max(U)}], downwards[Max(U)])
    BY <1>14, <2>1
  <2>3. iter[U] = Place(iter[1..m], downwards[m + 1])
    BY <2>1, <2>2
  <2>4. m \in Nat /\ m + 1 \in Nat /\ \A a \in 1..(m + 1) : a = m + 1 \/ a \in 1..m
    BY <1>9
  <2>5. iter[1..m] \in S /\ \A a \in 1..m : InRows(iter[1..m], downwards[a].box)
    BY <1>15, <1>23, <2>4
  <2> DEFINE x == iter[1..m]
             w == downwards[m + 1]
  <2>6. x \in S /\ w \in E /\ iter[U] = Place(x, w)
    BY <2>1, <2>3, <2>5
  <2>7. /\ Place(x, w) \in S /\ InRows(Place(x, w), w.box)
        /\ \A b : InRows(x, b) => InRows(Place(x, w), b)
    <3> HIDE DEF x, w
    <3> QED BY <1>7, <2>6
  <2>8. ASSUME NEW a \in 1..(m + 1) PROVE InRows(iter[U], downwards[a].box)
    <3>1. CASE a = m + 1
      BY <2>6, <2>7, <3>1
    <3>2. CASE a \in 1..m
      BY <2>5, <2>6, <2>7, <3>2
    <3> QED BY <2>4, <3>1, <3>2
  <2>9. iter[U] \in R[m + 1]
    BY <1>23, <2>4, <2>6, <2>7, <2>8
  <2> QED BY <2>9 DEF U
<1>16. iter[{}] \in R[0]
  <2>1. {} \in SUBSET DOMAIN downwards /\ <<>> \in S /\ 0 \in Nat /\ 1..0 = {}
    BY <1>6
  <2> HIDE DEF S
  <2> QED BY <1>9, <1>14, <1>23, <2>1
<1> HIDE DEF S
<1>17. iter[1..Len(downwards)] \in R[Len(downwards)]
  BY <1>9, <1>15, <1>16, ReachedInTurn
<1>18. rows \in S /\ \A a \in DOMAIN downwards : InRows(rows, downwards[a].box)
  BY <1>8, <1>9, <1>17, <1>23
<1> HIDE DEF rows
<1>19. \A r \in DOMAIN rows :
           /\ AcrossRow(rows[r].words) \in Seq(C)
           /\ \A k \in DOMAIN rows[r].words :
                  \E c \in DOMAIN AcrossRow(rows[r].words) :
                      AcrossRow(rows[r].words)[c] = rows[r].words[k]
  <2> TAKE r \in DOMAIN rows
  <2>1. rows[r] \in RowOf(C)
    BY <1>18 DEF S
  <2>2. rows[r].words \in Seq(C)
    BY <2>1 DEF RowOf
  <2> QED BY <1>3, <2>2, AcrossStays
<1>20. FromWords(result, words, box)
  <2>1. ASSUME NEW r \in DOMAIN result, NEW c \in DOMAIN result[r]
        PROVE  \E k \in DOMAIN words :
                   result[r][c] = words[k].box /\ CenterInside(words[k].box, box)
    <3>1. r \in DOMAIN rows /\ result[r] = AcrossRow(rows[r].words)
      OBVIOUS
    <3> DEFINE row == AcrossRow(rows[r].words)
    <3>2. row \in Seq(C) /\ c \in DOMAIN row /\ result[r][c] = row[c]
      BY <1>19, <2>1, <3>1
    <3> HIDE DEF row, result
    <3>3. row[c] \in C
      BY <3>2
    <3> QED BY <3>2, <3>3 DEF C
  <2> HIDE DEF result
  <2> QED BY <2>1 DEF FromWords
<1>21. FromWords(<<>>, words, box)
  BY DEF FromWords
<1>24. HasWords(result, words, box)
  <2> SUFFICES ASSUME NEW k \in DOMAIN words, k \in inside
               PROVE  \E r \in DOMAIN result : \E c \in DOMAIN result[r] :
                          result[r][c] = words[k].box
    BY DEF HasWords
  <2>1. PICK i \in DOMAIN read : read[i] = words[k]
    BY <1>22
  <2>2. PICK a \in DOMAIN downwards : downwards[a] = words[k]
    BY <1>6, <2>1
  <2>3. PICK r \in DOMAIN rows :
            \E h \in DOMAIN rows[r].words : rows[r].words[h] = words[k].box
    BY <1>18, <2>2 DEF InRows
  <2>4. PICK h \in DOMAIN rows[r].words : rows[r].words[h] = words[k].box
    BY <2>3
  <2>5. r \in DOMAIN result /\ result[r] = AcrossRow(rows[r].words)
    OBVIOUS
  <2> HIDE DEF result
  <2>6. \E c \in DOMAIN result[r] : result[r][c] = words[k].box
    BY <1>19, <2>4, <2>5
  <2> QED BY <2>5, <2>6
<1>25. read = <<>> => HasWords(<<>>, words, box)
  BY <1>22 DEF HasWords
<1> HIDE DEF result
<1> QED BY <1>1, <1>20, <1>21, <1>24, <1>25

-----------------------------------------------------------------------------
(* One pass over a page. *)

\* the blocks that one pass makes of what it found
MadeFrom(made, found, words) ==
    /\ Sequence(made) /\ Framed(made)
    /\ \A i \in DOMAIN made : \E j \in DOMAIN found :
           /\ made[i].box = found[j].box
           /\ \/ made[i].text = found[j].text
              \/ found[j].type = "table" /\ made[i].text.grid = WordRows(words, found[j].box)
\* and of the words that touch none of them
LeftOver(others, words, made) ==
    /\ Sequence(others) /\ Framed(others) /\ Follow(others, LinesOf(words))
    /\ \A j \in DOMAIN others : \E k \in DOMAIN words :
           /\ others[j].box = words[k].box /\ others[j].text = words[k].text
           /\ ~\E i \in DOMAIN made : Touches(words[k].box, made[i].box)
    /\ \A k \in ReadAt(words) :
           \/ \E i \in DOMAIN made : Touches(words[k].box, made[i].box)
           \/ \E j \in DOMAIN others : others[j].box = words[k].box

\* One pass makes blocks of its regions and of the words that are left.
LEMMA MappedParts ==
    ASSUME NEW found, NEW words, NEW p, NEW start, Sequence(found), Sequence(words),
           \A i \in DOMAIN found : IsFinding(found[i]), \A k \in DOMAIN words : IsWord(words[k])
    PROVE  \E made, others :
               /\ MadeFrom(made, found, words) /\ LeftOver(others, words, made)
               /\ MapResult(found, words, p, start) =
                      IF others = <<>> THEN made ELSE MergeInReadingOrder(made, others, start)
<1> DEFINE read == [i \in DOMAIN found |->
                       IF found[i].text = NoText /\ found[i].type = "table"
                       THEN [found[i] EXCEPT !.text.grid = WordRows(words, found[i].box)]
                       ELSE found[i]]
           keep == {i \in DOMAIN read : read[i].text # NoText
                                           \/ read[i].type \in {"figure", "formula"}}
           kept == Only(read, keep)
           made == [i \in DOMAIN kept |->
                       [page |-> p, type |-> kept[i].type, box |-> kept[i].box,
                        conf |-> kept[i].conf, order |-> start + i - 1, text |-> kept[i].text]]
           loose == {k \in DOMAIN words :
                       /\ words[k].text # NoText
                       /\ ~\E i \in DOMAIN made : Touches(words[k].box, made[i].box)}
           free == Only(words, loose)
           others == [k \in DOMAIN free |->
                         [page |-> p, type |-> "text", box |-> free[k].box, conf |-> 1,
                          order |-> 0, text |-> free[k].text]]
           lines1 == LinesOf(words)
           many == Only(words, ReadAt(words))
<1>1. MapResult(found, words, p, start) =
          IF others = <<>> THEN made ELSE MergeInReadingOrder(made, others, start)
  <2>1. others = Unassigned(words, made, p)
    BY DEF Unassigned
  <2>2. MapResult(found, words, p, start) =
            LET rest == Unassigned(words, made, p)
            IN  IF rest = <<>> THEN made ELSE MergeInReadingOrder(made, rest, start)
    BY DEF MapResult
  <2> HIDE DEF made, others
  <2> QED BY <2>1, <2>2
<1>2. /\ Len(found) \in Nat /\ DOMAIN found = 1..Len(found)
      /\ Len(words) \in Nat /\ DOMAIN words = 1..Len(words)
  BY SequenceFacts
<1>3. ASSUME NEW i \in DOMAIN found
      PROVE  /\ read[i].box = found[i].box /\ read[i].box \in Quad
             /\ \/ read[i].text = found[i].text
                \/ found[i].type = "table" /\ read[i].text.grid = WordRows(words, found[i].box)
  <2> DEFINE f == found[i]
             g == WordRows(words, found[i].box)
  <2>1. read[i] = f \/ (f.type = "table" /\ read[i] = [f EXCEPT !.text.grid = g])
    OBVIOUS
  <2>2. IsFinding(f)
    OBVIOUS
  <2> HIDE DEF f, g, read
  <2>3. [f EXCEPT !.text.grid = g].box = f.box /\ f.box \in Quad
    BY <2>2 DEF IsFinding
  <2>4. [f EXCEPT !.text.grid = g].text.grid = g
    <3>1. DOMAIN f = {"type", "box", "conf", "text"} /\ DOMAIN f.text = {"says", "chars", "grid"}
      BY <2>2 DEF IsFinding, IsText
    <3> QED BY <3>1
  <2>5. read[i].box = f.box /\ read[i].box \in Quad
    BY <2>1, <2>3
  <2>6. read[i].text = f.text \/ (f.type = "table" /\ read[i].text.grid = g)
    BY <2>1, <2>4
  <2> QED BY <2>5, <2>6 DEF f, g
<1>4. keep \in SUBSET (1..Len(found)) /\ loose \in SUBSET (1..Len(words))
  BY <1>2
<1>5. ReadAt(words) \in SUBSET (1..Len(words)) /\ loose \in SUBSET ReadAt(words)
  BY <1>2 DEF ReadAt
<1>6. \A k \in DOMAIN words : k \in loose <=>
          words[k].text # NoText /\ ~\E i \in DOMAIN made : Touches(words[k].box, made[i].box)
  OBVIOUS
<1> HIDE DEF read, keep
<1>7. Selects(kept, read, keep)
  BY <1>2, <1>4, OnlyKeeps
<1> HIDE DEF kept
<1>8. Cardinality(keep) \in Nat /\ DOMAIN kept = 1..Cardinality(keep)
  BY <1>7 DEF Selects
<1>9. \A i \in DOMAIN kept : \E j \in DOMAIN found : kept[i] = read[j]
  BY <1>2, <1>4, <1>7, <1>8 DEF Selects
<1>10. /\ made = [i \in 1..Cardinality(keep) |-> made[i]]
       /\ DOMAIN made = 1..Cardinality(keep)
       /\ \A i \in DOMAIN made : made[i].box = kept[i].box /\ made[i].text = kept[i].text
  BY <1>8
<1>11. \A i \in DOMAIN made : \E j \in DOMAIN found :
           made[i].box = read[j].box /\ made[i].text = read[j].text
  BY <1>8, <1>9, <1>10
<1> HIDE DEF made
<1>12. MadeFrom(made, found, words)
  <2>1. Sequence(made)
    BY <1>8, <1>10, NumberedIsSequence
  <2>2. \A i \in DOMAIN made : made[i].box \in Quad
    BY <1>3, <1>11
  <2>3. \A i \in DOMAIN made : \E j \in DOMAIN found :
           /\ made[i].box = found[j].box
           /\ \/ made[i].text = found[j].text
              \/ found[j].type = "table" /\ made[i].text.grid = WordRows(words, found[j].box)
    <3> TAKE i \in DOMAIN made
    <3>1. PICK j \in DOMAIN found : made[i].box = read[j].box /\ made[i].text = read[j].text
      BY <1>11
    <3> QED BY <1>3, <3>1
  <2> QED BY <2>1, <2>2, <2>3 DEF MadeFrom, Framed
<1> HIDE DEF loose
<1>13. Enumerates(free, words, loose) /\ Selects(free, words, loose)
  BY <1>2, <1>4, OnlyKeeps, OnlyRanks
<1>14. Within(free, many)
  <2> DEFINE more == ReadAt(words)
  <2>1. more \in SUBSET (1..Len(words)) /\ loose \in SUBSET more
    BY <1>5
  <2>2. Within(Only(words, loose), Only(words, more))
    <3> HIDE DEF more
    <3> QED BY <1>2, <2>1, OnlyWithin
  <2> QED BY <2>2
<1>15. DOMAIN lines1 = DOMAIN many /\ \A k \in DOMAIN many : lines1[k] = many[k].box
  BY DEF LinesOf
<1> HIDE DEF free, lines1, many
<1>16. Cardinality(loose) \in Nat /\ DOMAIN free = 1..Cardinality(loose)
  BY <1>13 DEF Selects
<1>17. /\ others = [k \in 1..Cardinality(loose) |-> others[k]]
       /\ DOMAIN others = DOMAIN free
       /\ \A k \in DOMAIN free : others[k].box = free[k].box /\ others[k].text = free[k].text
  BY <1>16
<1> HIDE DEF others
<1>18. \A j \in DOMAIN others : \E k \in loose : k \in DOMAIN words /\ free[j] = words[k]
  BY <1>2, <1>4, <1>13, <1>16, <1>17 DEF Selects
<1>19. LeftOver(others, words, made)
  <2>1. Sequence(others)
    BY <1>16, <1>17, NumberedIsSequence
  <2>2. Framed(others)
    <3>1. ASSUME NEW j \in DOMAIN others PROVE others[j].box \in Quad
      <4>1. PICK k \in loose : k \in DOMAIN words /\ free[j] = words[k]
        BY <1>18
      <4>2. IsWord(words[k]) /\ others[j].box = words[k].box
        BY <1>17, <4>1
      <4> QED BY <4>2 DEF IsWord
    <3> QED BY <3>1 DEF Framed
  <2>3. Follow(others, lines1)
    <3>1. DOMAIN others = DOMAIN free /\ \A i \in DOMAIN free : others[i].box = free[i].box
      BY <1>17
    <3>2. DOMAIN lines1 = DOMAIN many /\ \A k \in DOMAIN many : lines1[k] = many[k].box
      BY <1>15
    <3> QED BY ONLY <1>14, <3>1, <3>2, BoxesFollow
  <2>4. ASSUME NEW j \in DOMAIN others
        PROVE  \E k \in DOMAIN words :
                   /\ others[j].box = words[k].box /\ others[j].text = words[k].text
                   /\ ~\E i \in DOMAIN made : Touches(words[k].box, made[i].box)
    <3>1. PICK k \in loose : k \in DOMAIN words /\ free[j] = words[k]
      BY <1>18
    <3>2. ~\E i \in DOMAIN made : Touches(words[k].box, made[i].box)
      BY <1>6, <3>1
    <3> QED BY <1>17, <3>1, <3>2
  <2>5. ASSUME NEW k \in ReadAt(words)
        PROVE  \/ \E i \in DOMAIN made : Touches(words[k].box, made[i].box)
               \/ \E j \in DOMAIN others : others[j].box = words[k].box
    <3>1. k \in DOMAIN words /\ words[k].text # NoText
      BY DEF ReadAt
    <3>2. k \in loose => \E j \in DOMAIN others : others[j].box = words[k].box
      BY <1>13, <1>16, <1>17 DEF Selects
    <3> QED BY <1>6, <3>1, <3>2
  <2> QED BY <2>1, <2>2, <2>3, <2>4, <2>5 DEF LeftOver, lines1
<1> QED BY <1>1, <1>12, <1>19

\* what WordsReadOnce says of a page t on which the words of L were read
OwnBlocks(t, L, word) ==
    {i \in {j \in DOMAIN t : \E h \in DOMAIN L : t[j].box = L[h]} : t[i].box = word}
TablesWith(t, word) ==
    {i \in DOMAIN t : \E r \in DOMAIN t[i].text.grid :
                          \E c \in DOMAIN t[i].text.grid[r] : t[i].text.grid[r][c] = word}
ReadOnce(t, L) ==
    \A k \in DOMAIN L :
        /\ Large(L[k]) /\ TablesWith(t, L[k]) # {} => OwnBlocks(t, L, L[k]) = {}
        /\ \A i \in {j \in DOMAIN t : t[j].text.grid # <<>>} :
               CenterInside(L[k], t[i].box) => i \in TablesWith(t, L[k])
        /\ OwnBlocks(t, L, L[k]) = {} /\ TablesWith(t, L[k]) = {} =>
               \E i \in DOMAIN t : Intersection(L[k], t[i].box) > 0

\* the blocks of t are those of made and of others, in whatever order
Mixes(t, made, others) ==
    /\ \A i \in DOMAIN t :
           \/ \E j \in DOMAIN made : t[i].box = made[j].box /\ t[i].text = made[j].text
           \/ \E j \in DOMAIN others : t[i].box = others[j].box /\ t[i].text = others[j].text
    /\ \A j \in DOMAIN made : \E i \in DOMAIN t : t[i].box = made[j].box
    /\ \A j \in DOMAIN others : \E i \in DOMAIN t : t[i].box = others[j].box

\* The merged blocks are.
LEMMA MergedMixes ==
    ASSUME NEW made, NEW others, Sequence(made), Sequence(others),
           NEW t, NEW p, MergedBy(t, made, made \o others, Len(made) + Len(others), p)
    PROVE  Mixes(t, made, others)
<1>0. /\ Sequence(made \o others) /\ DOMAIN (made \o others) = 1..(Len(made) + Len(others))
      /\ \A k \in DOMAIN made : k \in DOMAIN (made \o others) /\ (made \o others)[k] = made[k]
      /\ \A k \in DOMAIN others : /\ Len(made) + k \in DOMAIN (made \o others)
                                  /\ (made \o others)[Len(made) + k] = others[k]
      /\ \A k \in DOMAIN (made \o others) :
             k \in DOMAIN made \/ \E h \in DOMAIN others : k = Len(made) + h
  BY JoinedSequences, Zenon
<1> DEFINE all == made \o others
           m == Len(made)
           n == Len(made) + Len(others)
<1>1. /\ DOMAIN all = 1..n
      /\ \A k \in DOMAIN made : k \in 1..n /\ all[k] = made[k]
      /\ \A k \in DOMAIN others : m + k \in 1..n /\ all[m + k] = others[k]
      /\ \A k \in 1..n : k \in DOMAIN made \/ \E h \in DOMAIN others : k = m + h
  <2>1. DOMAIN all = 1..n
    BY <1>0, Zenon
  <2>2. /\ \A k \in DOMAIN made : k \in DOMAIN all /\ all[k] = made[k]
        /\ \A k \in DOMAIN others : m + k \in DOMAIN all /\ all[m + k] = others[k]
        /\ \A k \in DOMAIN all : k \in DOMAIN made \/ \E h \in DOMAIN others : k = m + h
    BY <1>0, Zenon
  <2> HIDE DEF all, n, m
  <2> QED BY <2>1, <2>2
<1>2. /\ DOMAIN t = 1..n
      /\ \A a \in 1..n : p[a] \in 1..n /\ t[a].box = all[p[a]].box /\ t[a].text = all[p[a]].text
      /\ \A i \in 1..n : \E a \in 1..n : p[a] = i
  BY DEF MergedBy, Permuted
<1> HIDE DEF all, n, m
<1>3. ASSUME NEW i \in DOMAIN t
      PROVE  \/ \E j \in DOMAIN made : t[i].box = made[j].box /\ t[i].text = made[j].text
             \/ \E j \in DOMAIN others : t[i].box = others[j].box /\ t[i].text = others[j].text
  <2>1. p[i] \in 1..n /\ t[i].box = all[p[i]].box /\ t[i].text = all[p[i]].text
    BY <1>2
  <2>2. p[i] \in DOMAIN made \/ \E h \in DOMAIN others : p[i] = m + h
    BY <1>1, <2>1
  <2> QED BY <1>1, <2>1, <2>2
<1>4. ASSUME NEW j \in DOMAIN made PROVE \E i \in DOMAIN t : t[i].box = made[j].box
  <2>1. j \in 1..n /\ all[j] = made[j]
    BY <1>1
  <2>2. PICK a \in 1..n : p[a] = j
    BY <1>2, <2>1
  <2>3. t[a].box = all[p[a]].box /\ a \in DOMAIN t
    BY <1>2
  <2> QED BY <2>1, <2>2, <2>3
<1>5. ASSUME NEW j \in DOMAIN others PROVE \E i \in DOMAIN t : t[i].box = others[j].box
  <2>1. m + j \in 1..n /\ all[m + j] = others[j]
    BY <1>1
  <2>2. PICK a \in 1..n : p[a] = m + j
    BY <1>2, <2>1
  <2>3. t[a].box = all[p[a]].box /\ a \in DOMAIN t
    BY <1>2
  <2> QED BY <2>1, <2>2, <2>3
<1> QED BY <1>3, <1>4, <1>5 DEF Mixes

\* No large word is read twice, each is in the tables around its center, and the rest meet a block.
LEMMA MixedReadOnce ==
    ASSUME NEW found, NEW words, Sequence(words), NEW made, NEW others, NEW t,
           MadeFrom(made, found, words), LeftOver(others, words, made), Mixes(t, made, others),
           \A i \in DOMAIN found : /\ found[i].text.grid = <<>>
                                   /\ \A k \in DOMAIN words : found[i].box # words[k].box
                                   /\ found[i].type = "table" =>
                                          Width(found[i].box) > 3 /\ Height(found[i].box) > 3,
           \A k \in DOMAIN words : words[k].box \in Quad /\ words[k].text.grid = <<>>
    PROVE  ReadOnce(t, LinesOf(words))
<1> DEFINE L == LinesOf(words)
<1>1. \A k \in DOMAIN L : \E x \in ReadAt(words) : L[k] = words[x].box
  <2> DEFINE at == ReadAt(words)
             read == Only(words, at)
  <2>1. at \in SUBSET (1..Len(words)) /\ Len(words) \in Nat
    BY SequenceFacts DEF ReadAt
  <2>2. DOMAIN L = DOMAIN read /\ \A k \in DOMAIN read : L[k] = read[k].box
    BY DEF LinesOf
  <2> HIDE DEF at, L
  <2>3. Selects(read, words, at)
    BY <2>1, OnlyKeeps
  <2> HIDE DEF read
  <2>4. DOMAIN read = 1..Cardinality(at)
    BY <2>3 DEF Selects
  <2>5. \A k \in DOMAIN read : \E x \in at : read[k] = words[x]
    BY <2>3, <2>4 DEF Selects
  <2> QED BY <2>2, <2>5 DEF at
<1>2. ReadAt(words) \subseteq DOMAIN words
  BY DEF ReadAt
<1> HIDE DEF L
<1>3. ASSUME NEW j \in DOMAIN others
      PROVE  /\ others[j].text.grid = <<>>
             /\ ~\E i \in DOMAIN made : Touches(others[j].box, made[i].box)
  BY DEF LeftOver
<1>4. ASSUME NEW k \in DOMAIN L, NEW i \in DOMAIN made PROVE made[i].box # L[k]
  <2>1. PICK x \in DOMAIN words : L[k] = words[x].box
    BY <1>1, <1>2
  <2>2. PICK j \in DOMAIN found : made[i].box = found[j].box
    BY DEF MadeFrom
  <2> QED BY <2>1, <2>2
<1>5. ASSUME NEW k \in DOMAIN L, Large(L[k]), TablesWith(t, L[k]) # {}
      PROVE  OwnBlocks(t, L, L[k]) = {}
  <2> DEFINE word == L[k]
  <2>0. PICK i \in DOMAIN t : \E r \in DOMAIN t[i].text.grid :
                                  \E c \in DOMAIN t[i].text.grid[r] : t[i].text.grid[r][c] = word
    BY <1>5 DEF TablesWith
  <2>1. PICK r \in DOMAIN t[i].text.grid :
                 \E c \in DOMAIN t[i].text.grid[r] : t[i].text.grid[r][c] = word
    BY <2>0
  <2>2. \A j \in DOMAIN others : t[i].text # others[j].text
    BY <1>3, <2>1
  <2>3. PICK j \in DOMAIN made : t[i].box = made[j].box /\ t[i].text = made[j].text
    BY <2>2 DEF Mixes
  <2>4. PICK f \in DOMAIN found :
            /\ made[j].box = found[f].box
            /\ \/ made[j].text = found[f].text
               \/ /\ found[f].type = "table"
                  /\ made[j].text.grid = WordRows(words, found[f].box)
    BY DEF MadeFrom
  <2>5. made[j].text # found[f].text
    <3>1. found[f].text.grid = <<>>
      OBVIOUS
    <3> QED BY <2>1, <2>3, <3>1
  <2>6. /\ found[f].type = "table" /\ t[i].text.grid = WordRows(words, found[f].box)
        /\ Width(found[f].box) > 3 /\ Height(found[f].box) > 3
    BY <2>3, <2>4, <2>5
  <2>7. FromWords(t[i].text.grid, words, found[f].box)
    <3>1. Framed(words)
      BY DEF Framed
    <3>2. FromWords(WordRows(words, found[f].box), words, found[f].box)
      BY <3>1, WordRowsHold
    <3> QED BY <2>6, <3>2
  <2>8. PICK x \in DOMAIN words : word = words[x].box /\ CenterInside(words[x].box, found[f].box)
    BY <2>1, <2>7 DEF FromWords
  <2>9. word \in Quad /\ made[j].box \in Quad
    BY <2>8 DEF MadeFrom, Framed
  <2>10. Touches(word, made[j].box)
    BY <1>5, <2>4, <2>6, <2>8, <2>9, CenterTouches
  <2>11. ASSUME NEW h \in DOMAIN t, t[h].box = word PROVE FALSE
    <3>1. CASE \E q \in DOMAIN made : t[h].box = made[q].box
      BY <1>4, <2>11, <3>1
    <3>2. CASE \E q \in DOMAIN others : t[h].box = others[q].box
      BY <1>3, <2>10, <2>11, <3>2
    <3> QED BY <3>1, <3>2 DEF Mixes
  <2> QED BY <2>11 DEF OwnBlocks
<1>6. ASSUME NEW k \in DOMAIN L, OwnBlocks(t, L, L[k]) = {}
      PROVE  \E i \in DOMAIN t : Intersection(L[k], t[i].box) > 0
  <2>1. PICK x \in ReadAt(words) : L[k] = words[x].box
    BY <1>1
  <2>2. ~\E j \in DOMAIN others : others[j].box = words[x].box
    <3>1. ASSUME NEW j \in DOMAIN others, others[j].box = words[x].box PROVE FALSE
      <4>1. PICK i \in DOMAIN t : t[i].box = others[j].box
        BY DEF Mixes
      <4>2. i \in OwnBlocks(t, L, L[k])
        BY <2>1, <3>1, <4>1 DEF OwnBlocks
      <4> QED BY <1>6, <4>2
    <3> QED BY <3>1
  <2>3. PICK j \in DOMAIN made : Touches(words[x].box, made[j].box)
    BY <2>2 DEF LeftOver
  <2>4. Intersection(L[k], made[j].box) > 0
    <3>1. words[x].box \in Quad /\ made[j].box \in Quad
      BY <1>2 DEF MadeFrom, Framed
    <3> QED BY <2>1, <2>3, <3>1, TouchingMeets
  <2>5. PICK i \in DOMAIN t : t[i].box = made[j].box
    BY DEF Mixes
  <2> QED BY <2>4, <2>5
<1>7. ASSUME NEW k \in DOMAIN L, NEW i \in DOMAIN t, t[i].text.grid # <<>>,
             CenterInside(L[k], t[i].box)
      PROVE  i \in TablesWith(t, L[k])
  <2>1. \A j \in DOMAIN others : t[i].text # others[j].text
    BY <1>3, <1>7
  <2>2. PICK j \in DOMAIN made : t[i].box = made[j].box /\ t[i].text = made[j].text
    BY <2>1 DEF Mixes
  <2>3. PICK f \in DOMAIN found :
            /\ made[j].box = found[f].box
            /\ \/ made[j].text = found[f].text
               \/ made[j].text.grid = WordRows(words, found[f].box)
    BY DEF MadeFrom
  <2>4. made[j].text # found[f].text
    <3>1. found[f].text.grid = <<>>
      OBVIOUS
    <3> QED BY <1>7, <2>2, <3>1
  <2>5. t[i].box = found[f].box /\ t[i].text.grid = WordRows(words, found[f].box)
    BY <2>2, <2>3, <2>4
  <2>6. HasWords(t[i].text.grid, words, t[i].box)
    <3>1. Framed(words)
      BY DEF Framed
    <3>2. HasWords(WordRows(words, found[f].box), words, found[f].box)
      BY <3>1, WordRowsHold
    <3> QED BY <2>5, <3>2
  <2>7. PICK x \in ReadAt(words) : L[k] = words[x].box
    BY <1>1
  <2>8. x \in DOMAIN words /\ words[x].text # NoText
    BY DEF ReadAt
  <2> QED BY <1>7, <2>6, <2>7, <2>8 DEF HasWords, TablesWith
<1> QED BY <1>5, <1>6, <1>7 DEF ReadOnce, L

\* found and words are what one pass may find on a page
Finding(found, words) ==
    /\ Sequence(found) /\ Sequence(words)
    /\ \A i \in DOMAIN found : IsFinding(found[i]) /\ found[i].text.grid = <<>>
    /\ \A k \in DOMAIN words : IsWord(words[k]) /\ words[k].text.grid = <<>>
\* and the regions are no words
Distinct(found, words) ==
    \A i \in DOMAIN found :
        /\ \A k \in DOMAIN words : found[i].box # words[k].box
        /\ found[i].type = "table" => Width(found[i].box) > 3 /\ Height(found[i].box) > 3

\* So one pass keeps what it reads on a page.
LEMMA PageKept ==
    ASSUME NEW found, NEW words, Finding(found, words), Distinct(found, words), NEW p, NEW start
    PROVE  LET t == MapResult(found, words, p, start)
           IN  KeptInOrder(t, LinesOf(words)) /\ ReadOnce(t, LinesOf(words))
<1> DEFINE t == MapResult(found, words, p, start)
           L == LinesOf(words)
<1>1. /\ Sequence(found) /\ Sequence(words)
      /\ \A i \in DOMAIN found : IsFinding(found[i])
      /\ \A k \in DOMAIN words : IsWord(words[k])
  BY DEF Finding
<1>2. PICK made, others :
          /\ MadeFrom(made, found, words) /\ LeftOver(others, words, made)
          /\ t = IF others = <<>> THEN made ELSE MergeInReadingOrder(made, others, start)
  BY <1>1, MappedParts
<1>3. /\ Sequence(made) /\ Framed(made) /\ Sequence(others) /\ Framed(others) /\ Follow(others, L)
  BY <1>2 DEF MadeFrom, LeftOver
<1>4. Apart(made, L)
  <2>1. ASSUME NEW i \in DOMAIN made, NEW k \in DOMAIN L, made[i].box = L[k] PROVE FALSE
    <3>1. PICK j \in DOMAIN found : made[i].box = found[j].box
      BY <1>2 DEF MadeFrom
    <3>2. PICK x \in DOMAIN words : L[k] = words[x].box
      <4> DEFINE at == ReadAt(words)
                 read == Only(words, at)
      <4>1. at \in SUBSET (1..Len(words)) /\ Len(words) \in Nat /\ DOMAIN words = 1..Len(words)
        BY <1>1, SequenceFacts DEF ReadAt
      <4>2. k \in DOMAIN read /\ L[k] = read[k].box
        BY DEF LinesOf
      <4> HIDE DEF at, L
      <4>3. Selects(read, words, at)
        BY <4>1, OnlyKeeps
      <4> HIDE DEF read
      <4>4. \E x \in at : read[k] = words[x]
        BY <4>2, <4>3 DEF Selects
      <4> QED BY <4>1, <4>2, <4>4
    <3> QED BY <2>1, <3>1, <3>2 DEF Distinct
  <2> QED BY <2>1 DEF Apart
<1> HIDE DEF t, L
<1>5. KeptInOrder(t, L) /\ Mixes(t, made, others)
  <2>1. CASE others = <<>>
    <3>1. t = made /\ DOMAIN others = {}
      BY <1>2, <2>1
    <3>2. Mixes(t, made, others)
      BY <3>1 DEF Mixes
    <3>3. {i \in DOMAIN t : \E k \in DOMAIN L : t[i].box = L[k]} = {}
      BY <1>4, <3>1 DEF Apart
    <3>4. KeptInOrder(t, L)
      BY <3>3 DEF KeptInOrder
    <3> QED BY <3>2, <3>4
  <2>2. CASE others # <<>>
    <3>1. t = MergeInReadingOrder(made, others, start)
      BY <1>2, <2>2
    <3>2. PICK q : MergedBy(t, made, made \o others, Len(made) + Len(others), q)
      BY <1>3, <3>1, MergedInOrder
    <3>3. KeptInOrder(t, L)
      BY <1>3, <1>4, <3>2, MergedKept
    <3>4. Mixes(t, made, others)
      BY <1>3, <3>2, MergedMixes
    <3> QED BY <3>3, <3>4
  <2> QED BY <2>1, <2>2
<1>6. ReadOnce(t, L)
  <2>1. \A i \in DOMAIN found : /\ found[i].text.grid = <<>>
                                /\ \A k \in DOMAIN words : found[i].box # words[k].box
                                /\ found[i].type = "table" =>
                                       Width(found[i].box) > 3 /\ Height(found[i].box) > 3
    BY DEF Finding, Distinct
  <2>2. \A k \in DOMAIN words : words[k].box \in Quad /\ words[k].text.grid = <<>>
    BY DEF Finding, IsWord
  <2> QED BY <1>1, <1>2, <1>5, <2>1, <2>2, MixedReadOnce DEF L
<1> QED BY <1>5, <1>6 DEF t, L

\* the page in work is what one pass made of some print
OnePassInv ==
    stage = "batch" =>
        \/ blocks = <<>> /\ lines = <<>>
        \/ \E p \in 1..Len(Prints) : \E print \in Prints[p] : \E start :
               /\ blocks = MapResult(print.found, print.words, p, start)
               /\ lines = LinesOf(print.words)

\* It holds before the first page.
LEMMA OnePassInit == Init => OnePassInv
BY DEF Init, OnePassInv

\* Every step keeps it.
LEMMA OnePassNext == ExtractionInv /\ OnePassInv /\ [Next]_vars => OnePassInv'
<1> SUFFICES ASSUME ExtractionInv, OnePassInv, [Next]_vars PROVE OnePassInv'
  OBVIOUS
<1>1. CASE UNCHANGED vars
  BY <1>1 DEF vars, OnePassInv
<1>2. CASE ReadPage
  <2>1. page + 1 \in 1..Len(Prints)
    <3>1. page \in Nat /\ page < Len(Prints)
      BY <1>2 DEF ReadPage, ExtractionInv, CropInv
    <3> QED BY <3>1, PrintsAssumption
  <2>2. PICK print \in Prints[page + 1] :
            /\ blocks' = MapResult(print.found, print.words, page + 1, Len(document))
            /\ lines' = LinesOf(print.words)
    BY <1>2 DEF ReadPage, LinesOf, ReadAt
  <2> QED BY <2>1, <2>2 DEF OnePassInv
<1>3. CASE Next /\ ~ReadPage
  <2>1. stage' # "batch"
    BY <1>3 DEF Next, Detect, Look, Arrange, MatchText, RecoverText, SplitSections, SplitHeadings,
                NameTitle, NameAuthors, Correct, File, Confirm, Recognize, EndOfPages, Filter,
                MakeParagraphs
  <2> QED BY <2>1 DEF OnePassInv
<1> QED BY <1>1, <1>2, <1>3

(***************************************************************************)
(* One pass reads no word of more than 6 pixels twice, puts each word into *)
(* the tables made of words around its center, leaves out only words that  *)
(* overlap a block, and puts the others between the blocks of a page where *)
(* a reader expects them, whatever is found on the pages, as long as no    *)
(* region has the box of a word and no table is smaller than the overlap   *)
(* that counts.  A word left out may be across the edge of a table, and is *)
(* lost then.                                                              *)
(***************************************************************************)
THEOREM OnePassAlwaysKept == ASSUME RegionsAreNotWords PROVE Spec => []OnePassKept
<1>1. ASSUME OnePassInv PROVE OnePassKept
  <2> SUFFICES ASSUME stage = "batch" PROVE KeptInOrder(blocks, lines) /\ ReadOnce(blocks, lines)
    <3>1. stage = "batch" /\ KeptInOrder(blocks, lines) => OnePassOrder
      BY DEF OnePassOrder, KeptInOrder, Loose
    <3>2. stage = "batch" /\ ReadOnce(blocks, lines) => WordsReadOnce
      BY DEF WordsReadOnce, ReadOnce, OwnBlocks, TablesWith, InTables, Loose, MadeOfWords
    <3>3. stage # "batch" => OnePassOrder /\ WordsReadOnce
      BY DEF OnePassOrder, WordsReadOnce
    <3> QED BY <3>1, <3>2, <3>3 DEF OnePassKept
  <2>1. CASE blocks = <<>> /\ lines = <<>>
    <3>1. ReadOnce(blocks, lines)
      BY <2>1 DEF ReadOnce
    <3>2. {i \in DOMAIN blocks : \E k \in DOMAIN lines : blocks[i].box = lines[k]} = {}
      BY <2>1
    <3>3. KeptInOrder(blocks, lines)
      BY <3>2 DEF KeptInOrder
    <3> QED BY <3>1, <3>3
  <2>2. ASSUME NEW p \in 1..Len(Prints), NEW print \in Prints[p], NEW start,
               blocks = MapResult(print.found, print.words, p, start),
               lines = LinesOf(print.words)
        PROVE  KeptInOrder(blocks, lines) /\ ReadOnce(blocks, lines)
    <3> DEFINE found == print.found
               words == print.words
    <3>1. Finding(found, words)
      BY PrintsAssumption DEF Finding, IsFinding, IsWord
    <3>2. Distinct(found, words)
      BY DEF RegionsAreNotWords, Distinct
    <3>3. blocks = MapResult(found, words, p, start) /\ lines = LinesOf(words)
      BY <2>2
    <3> HIDE DEF found, words
    <3> DEFINE t == MapResult(found, words, p, start)
    <3>4. KeptInOrder(t, LinesOf(words)) /\ ReadOnce(t, LinesOf(words))
      BY <3>1, <3>2, PageKept
    <3> QED BY <3>3, <3>4
  <2> QED BY <1>1, <2>1, <2>2 DEF OnePassInv
<1>2. ExtractionInv /\ OnePassInv /\ [Next]_vars => OnePassInv'
  BY OnePassNext
<1> QED BY <1>1, <1>2, ExtractionInvariant, OnePassInit, PTL DEF Spec

-----------------------------------------------------------------------------
(* The parser of a table. *)

\* A finite set of natural numbers has a largest one.
LEMMA MaxOf ==
    ASSUME NEW n \in Nat, NEW T \in SUBSET (0..n), NEW i \in T
    PROVE  Max(T) \in T /\ \A x \in T : x <= Max(T)
<1> DEFINE U == {n - x : x \in T}
<1>1. U \in SUBSET Nat /\ n - i \in U
  OBVIOUS
<1>2. PICK y \in U : \A z \in U : y <= z
  BY <1>1, Least
<1>3. PICK x \in T : y = n - x
  BY <1>2
<1>4. ASSUME NEW z \in T PROVE x >= z
  <2>1. n - z \in U
    OBVIOUS
  <2>2. n - x <= n - z
    BY <2>1, <1>2, <1>3
  <2> QED BY <2>2
<1>5. Max(T) \in T /\ \A z \in T : Max(T) >= z
  BY <1>3, <1>4 DEF Max
<1> QED BY <1>5

\* sets of columns, and what a row may owe to cells above it
Columns == UNION {SUBSET (1..n) : n \in Nat}
Owed(V) == UNION {[D -> [left : Int, text : V]] : D \in Columns}
\* the states of the parser and the cells of its tables, V being what a row may hold
Parser(V) == [rows : Seq(Seq(V)), row : Seq(V), pending : Owed(V)]
CellOf(V) == [text : V, cols : Nat \ {0}, rows : Nat \ {0}]

\* Some of the columns are columns, and so are the columns of a cell besides.
LEMMA ColumnsClosed ==
    ASSUME NEW D \in Columns
    PROVE  /\ D \subseteq Nat \ {0}
           /\ \A C \in SUBSET D : C \in Columns
           /\ \A a \in Nat \ {0}, b \in Nat : D \union (a..b) \in Columns /\ a..b \in Columns
<1>1. PICK n \in Nat : D \in SUBSET (1..n)
  BY DEF Columns
<1>2. ASSUME NEW C \in SUBSET D PROVE C \in Columns
  BY <1>1 DEF Columns
<1>3. ASSUME NEW a \in Nat \ {0}, NEW b \in Nat
      PROVE  D \union (a..b) \in Columns /\ a..b \in Columns
  <2>1. n + b \in Nat /\ D \union (a..b) \in SUBSET (1..(n + b)) /\ a..b \in SUBSET (1..(n + b))
    BY <1>1
  <2> QED BY <2>1 DEF Columns
<1> QED BY <1>1, <1>2, <1>3

\* What a parser's state is made of.
LEMMA ParserFacts ==
    ASSUME NEW V, NEW p \in Parser(V)
    PROVE  /\ p.row \in Seq(V) /\ Len(p.row) \in Nat /\ DOMAIN p.row = 1..Len(p.row)
           /\ DOMAIN p.pending \in Columns /\ DOMAIN p.pending \subseteq Nat \ {0}
<1>1. PICK E \in Columns : p.pending \in [E -> [left : Int, text : V]]
  BY DEF Parser, Owed
<1>2. DOMAIN p.pending \in Columns
  BY <1>1
<1>3. p.row \in Seq(V)
  BY DEF Parser
<1> QED BY <1>2, <1>3, ColumnsClosed

\* row, where the texts given stand at their columns
Overlaid(new, row, given) ==
    /\ \A c \in DOMAIN given : c \in DOMAIN new /\ new[c] = given[c]
    /\ \A c \in DOMAIN row \ DOMAIN given : c \in DOMAIN new /\ new[c] = row[c]
    /\ \A c \in DOMAIN new : \/ c \in DOMAIN given
                             \/ c \in DOMAIN row
                             \/ new[c] = NoCell /\ \E d \in DOMAIN given : c < d

\* SetCells puts texts into a row and changes nothing else.
LEMMA SetCellsOverlays ==
    ASSUME NEW V, NoCell \in V, NEW row \in Seq(V), NEW given, DOMAIN given \in Columns,
           \A c \in DOMAIN given : given[c] \in V
    PROVE  SetCells(row, given) \in Seq(V) /\ Overlaid(SetCells(row, given), row, given)
<1> DEFINE D == DOMAIN given
           T == {Len(row)} \union D
           n == Max(T)
           new == SetCells(row, given)
<1>1. PICK m \in Nat : D \in SUBSET (1..m)
  BY DEF Columns
<1>2. Len(row) \in Nat /\ DOMAIN row = 1..Len(row) /\ \A c \in 1..Len(row) : row[c] \in V
  OBVIOUS
<1>3. n \in T /\ \A x \in T : x <= n
  <2>1. m + Len(row) \in Nat /\ T \in SUBSET (0..(m + Len(row))) /\ Len(row) \in T
    BY <1>1, <1>2
  <2> HIDE DEF T
  <2> QED BY <2>1, MaxOf
<1> HIDE DEF n
<1>4. n \in Nat /\ Len(row) <= n /\ \A c \in D : c \in 1..n
  BY <1>1, <1>2, <1>3
<1>5. new = [c \in 1..n |-> IF c \in D THEN given[c] ELSE IF c <= Len(row) THEN row[c] ELSE NoCell]
  BY DEF SetCells, n
<1> HIDE DEF new, D
<1>6. \A c \in 1..n : new[c] \in V
  BY <1>2, <1>4, <1>5 DEF D
<1>7. new \in Seq(V)
  BY <1>4, <1>5, <1>6, IsSequence
<1>8. /\ \A c \in D : c \in DOMAIN new /\ new[c] = given[c]
      /\ \A c \in DOMAIN row \ D : c \in DOMAIN new /\ new[c] = row[c]
  BY <1>2, <1>4, <1>5
<1>9. ASSUME NEW c \in DOMAIN new, c \notin D, c \notin DOMAIN row
      PROVE  new[c] = NoCell /\ \E d \in D : c < d
  <2>1. c \in 1..n /\ new[c] = NoCell
    BY <1>2, <1>4, <1>5, <1>9
  <2>2. c # n
    BY <1>2, <1>3, <1>9, <2>1
  <2>3. c > Len(row)
    BY <1>2, <1>9, <2>1
  <2>4. c \in Int /\ n \in Int /\ Len(row) \in Int /\ c <= n
    BY <1>2, <1>4, <2>1
  <2>5. c < n /\ n # Len(row)
    BY <2>2, <2>3, <2>4
  <2>6. n \in D
    BY <1>3, <2>5
  <2> QED BY <2>1, <2>5, <2>6
<1> QED BY <1>7, <1>8, <1>9 DEF D, Overlaid, new

\* The next free column is the first one without a cell.
LEMMA NextFree ==
    ASSUME NEW V, NEW row \in Seq(V)
    PROVE  /\ NextFreeColumn(row) \in 1..(Len(row) + 1)
           /\ NextFreeColumn(row) = Len(row) + 1 \/ row[NextFreeColumn(row)] = NoCell
           /\ \A d \in 1..(NextFreeColumn(row) - 1) : row[d] # NoCell
<1> DEFINE n == Len(row) + 1
           T == {c \in 1..n : c = n \/ row[c] = NoCell}
<1>1. n \in Nat /\ n \in T /\ T \in SUBSET Nat
  OBVIOUS
<1>2. PICK x \in T : \A y \in T : x <= y
  BY <1>1, Least
<1>3. /\ x \in 1..n /\ (x = n \/ row[x] = NoCell)
      /\ \A d \in 1..(x - 1) : row[d] # NoCell
  BY <1>1, <1>2
<1> QED BY <1>3 DEF NextFreeColumn

\* OpenRow fills in what is pending and counts it down.
LEMMA OpenRowIs ==
    ASSUME NEW V, NoCell \in V, NEW p \in Parser(V)
    PROVE  LET q == OpenRow(p)
               D == DOMAIN p.pending
           IN  /\ q \in Parser(V) /\ q.rows = p.rows
               /\ Overlaid(q.row, <<>>, [c \in D |-> p.pending[c].text])
               /\ q.pending = [c \in {d \in D : p.pending[d].left > 1} |->
                                  [left |-> p.pending[c].left - 1, text |-> p.pending[c].text]]
<1> DEFINE q == OpenRow(p)
           D == DOMAIN p.pending
           given == [c \in D |-> p.pending[c].text]
           C == {d \in D : p.pending[d].left > 1}
           less == [c \in C |-> [left |-> p.pending[c].left - 1, text |-> p.pending[c].text]]
           now == SetCells(<<>>, given)
<1>1. PICK E \in Columns : p.pending \in [E -> [left : Int, text : V]]
  BY DEF Parser, Owed
<1>2. D \in Columns /\ \A c \in D : p.pending[c] \in [left : Int, text : V]
  BY <1>1
<1>3. now \in Seq(V) /\ Overlaid(now, <<>>, given)
  <2>1. <<>> \in Seq(V) /\ DOMAIN given \in Columns /\ \A c \in DOMAIN given : given[c] \in V
    <3>1. DOMAIN given = D /\ \A c \in D : given[c] = p.pending[c].text
      OBVIOUS
    <3> HIDE DEF given, D
    <3> QED BY <3>1, <1>2
  <2> HIDE DEF given
  <2> QED BY <2>1, SetCellsOverlays
<1>4. q = [p EXCEPT !.row = now, !.pending = less]
  <2> HIDE DEF now
  <2> QED BY DEF OpenRow, now
<1>5. less \in Owed(V)
  <2>1. C \in Columns
    BY <1>2, ColumnsClosed
  <2>2. less \in [C -> [left : Int, text : V]]
    <3>1. \A c \in C : c \in D
      OBVIOUS
    <3> HIDE DEF C, D
    <3> QED BY <1>2, <3>1
  <2> HIDE DEF C, less
  <2> QED BY <2>1, <2>2 DEF Owed
<1> HIDE DEF now, less
<1>6. q \in Parser(V) /\ q.rows = p.rows /\ q.row = now /\ q.pending = less
  BY <1>3, <1>4, <1>5 DEF Parser
<1> QED BY <1>3, <1>6 DEF now, less

\* the columns that EndCell gives to a cell
ColumnsOf(p, cell) == NextFreeColumn(p.row)..(NextFreeColumn(p.row) + cell.cols - 1)

\* q is p after a cell ended
CellEnded(V, p, cell, q) ==
    LET cols == ColumnsOf(p, cell)
    IN  /\ q \in Parser(V) /\ q.rows = p.rows
        /\ Overlaid(q.row, p.row, [c \in cols |-> cell.text])
        /\ q.pending = IF cell.rows = 1 THEN p.pending
                       ELSE [c \in cols \union DOMAIN p.pending |->
                                IF c \in cols THEN [left |-> cell.rows - 1, text |-> cell.text]
                                ELSE p.pending[c]]

\* So EndCell is.
LEMMA EndCellIs ==
    ASSUME NEW V, NoCell \in V, NEW p \in Parser(V), NEW cell \in CellOf(V)
    PROVE  CellEnded(V, p, cell, EndCell(p, cell))
<1> DEFINE q == EndCell(p, cell)
           D == DOMAIN p.pending
           cols == ColumnsOf(p, cell)
           given == [c \in cols |-> cell.text]
           spans == [c \in cols \union D |->
                        IF c \in cols THEN [left |-> cell.rows - 1, text |-> cell.text]
                        ELSE p.pending[c]]
           owed == IF cell.rows = 1 THEN p.pending ELSE spans
           now == SetCells(p.row, given)
<1>1. PICK E \in Columns : p.pending \in [E -> [left : Int, text : V]]
  BY DEF Parser, Owed
<1>2. D \in Columns /\ \A c \in D : p.pending[c] \in [left : Int, text : V]
  BY <1>1
<1>3. /\ p.row \in Seq(V) /\ Len(p.row) \in Nat
      /\ cell.cols \in Nat \ {0} /\ cell.rows \in Nat \ {0} /\ cell.text \in V
  BY DEF Parser, CellOf
<1>4. cols \in Columns /\ cols \union D \in Columns
  <2>1. NextFreeColumn(p.row) \in 1..(Len(p.row) + 1)
    BY <1>3, NextFree
  <2>2. NextFreeColumn(p.row) \in Nat \ {0} /\ NextFreeColumn(p.row) + cell.cols - 1 \in Nat
    BY <2>1, <1>3
  <2> DEFINE a == NextFreeColumn(p.row)
             b == a + cell.cols - 1
  <2>3. cols = a..b
    BY DEF ColumnsOf
  <2> HIDE DEF a, b, cols, D
  <2>4. a \in Nat \ {0} /\ b \in Nat
    BY <2>2 DEF a, b
  <2>5. D \union (a..b) \in Columns /\ a..b \in Columns
    BY <1>2, <2>4, ColumnsClosed
  <2> QED BY <2>3, <2>5
<1> HIDE DEF cols
<1>5. now \in Seq(V) /\ Overlaid(now, p.row, given)
  <2>1. DOMAIN given \in Columns /\ \A c \in DOMAIN given : given[c] \in V
    BY <1>3, <1>4
  <2> HIDE DEF given
  <2> QED BY <1>3, <2>1, SetCellsOverlays
<1>6. q = [p EXCEPT !.row = now, !.pending = owed]
  <2> HIDE DEF now
  <2> QED BY DEF EndCell, now, cols, ColumnsOf
<1>7. owed \in Owed(V)
  <2>1. spans \in [cols \union D -> [left : Int, text : V]]
    BY <1>2, <1>3
  <2>2. p.pending \in Owed(V)
    BY DEF Parser
  <2> HIDE DEF spans
  <2> QED BY <1>4, <2>1, <2>2 DEF Owed
<1> HIDE DEF now, owed
<1>8. q \in Parser(V) /\ q.rows = p.rows /\ q.row = now /\ q.pending = owed
  BY <1>5, <1>6, <1>7 DEF Parser
<1> QED BY <1>5, <1>8 DEF now, owed, cols, CellEnded

\* row with nothing left open
WithoutHoles(row) == [c \in DOMAIN row |-> IF row[c] = NoCell THEN Blank ELSE row[c]]

\* CloseRow appends it, unless there is no cell in it.
LEMMA CloseRowIs ==
    ASSUME NEW V, Blank \in V, NEW p \in Parser(V)
    PROVE  LET q == CloseRow(p)
           IN  /\ q \in Parser(V) /\ q.pending = p.pending
               /\ p.row # <<>> => q.rows = Append(p.rows, WithoutHoles(p.row))
<1>1. p.row \in Seq(V) /\ p.rows \in Seq(Seq(V)) /\ p.pending \in Owed(V)
  BY DEF Parser
<1>2. WithoutHoles(p.row) \in Seq(V)
  <2>1. /\ Len(p.row) \in Nat /\ DOMAIN p.row = 1..Len(p.row)
        /\ \A c \in 1..Len(p.row) : p.row[c] \in V
    BY <1>1
  <2> DEFINE t == WithoutHoles(p.row)
  <2>2. t = [c \in 1..Len(p.row) |-> t[c]] /\ \A c \in 1..Len(p.row) : t[c] \in V
    BY <2>1 DEF WithoutHoles
  <2> HIDE DEF t
  <2> QED BY <2>1, <2>2, IsSequence DEF t
<1>3. CloseRow(p) = IF p.row = <<>> THEN p ELSE [p EXCEPT !.rows = Append(@, WithoutHoles(p.row))]
  BY DEF CloseRow, WithoutHoles
<1>4. Append(p.rows, WithoutHoles(p.row)) \in Seq(Seq(V))
  <2> DEFINE S == Seq(V)
  <2>1. p.rows \in Seq(S) /\ WithoutHoles(p.row) \in S
    BY <1>1, <1>2
  <2> HIDE DEF S
  <2>2. Append(p.rows, WithoutHoles(p.row)) \in Seq(S)
    BY <2>1
  <2> QED BY <2>2 DEF S
<1> QED BY <1>3, <1>4 DEF Parser

-----------------------------------------------------------------------------
(* The cells of a table are placed on the grid one by one. *)

\* a table whose cells can be told apart on the grid, V being what a row may hold
Layable(html, V) ==
    /\ NoCell \in V /\ Blank \in V /\ html \in Seq(Seq(CellOf(V)))
    /\ \A r \in DOMAIN html : \A k \in DOMAIN html[r] : html[r][k].text # NoCell
    /\ PlainTable(html)

\* the cells of n rows and the first m of the next, each named by its row and its number there
CellsTo(html, n, m) ==
    {x \in (1..(n + 1)) \X Nat : IF x[1] = n + 1 THEN x[2] \in 1..m ELSE x[2] \in DOMAIN html[x[1]]}
CellAt(html, x) == html[x[1]][x[2]]
\* at gives each of these cells its first column
Placement(html, at, n, m) == at \in [CellsTo(html, n, m) -> Nat \ {0}]

\* cell x covers column c of row q
Covers(html, at, x, q, c) ==
    /\ x[1] <= q /\ q < x[1] + CellAt(html, x).rows
    /\ at[x] <= c /\ c < at[x] + CellAt(html, x).cols
\* on row q, which has none where no cell is, the cells show
ShowsRow(html, at, q, row, none) ==
    /\ \A x \in DOMAIN at : \A c \in Nat :
          Covers(html, at, x, q, c) => c \in DOMAIN row /\ row[c] = CellAt(html, x).text
    /\ \A c \in DOMAIN row :
          \/ row[c] = none
          \/ \E x \in DOMAIN at : Covers(html, at, x, q, c) /\ row[c] = CellAt(html, x).text
\* pending has the cells that cover row q
OwesRow(html, at, q, pending) ==
    /\ \A c \in DOMAIN pending : \E x \in DOMAIN at : Covers(html, at, x, q, c)
    /\ \A x \in DOMAIN at : \A c \in Nat : Covers(html, at, x, q, c) =>
          /\ c \in DOMAIN pending /\ pending[c].text = CellAt(html, x).text
          /\ pending[c].left = x[1] + CellAt(html, x).rows - q

\* the first m cells of row r come one after the other
CellsInTurn(html, at, r, m) ==
    \A j, k \in 1..m : j < k => at[<<r, j>>] + html[r][j].cols <= at[<<r, k>>]
\* row has no hole before column c
FilledTo(row, c) == \A d \in Nat \ {0} : d < c => d \in DOMAIN row /\ row[d] # NoCell
Full(row) == \A d \in DOMAIN row : row[d] # NoCell

\* row r as it is when it is finished
RowDone(html, at, r, row) ==
    /\ ShowsRow(html, at, r, row, Blank) /\ CellsInTurn(html, at, r, Len(html[r]))
    /\ \A k \in DOMAIN html[r] : \A d \in 1..(at[<<r, k>>] - 1) : row[d] # Blank
RowsDone(html, at, n, rows) ==
    Len(rows) = n /\ \A r \in 1..n : RowDone(html, at, r, rows[r])

\* the parser between two rows, and within one
BetweenRows(html, at, n, p) ==
    /\ Placement(html, at, n, 0) /\ RowsDone(html, at, n, p.rows)
    /\ OwesRow(html, at, n + 1, p.pending)
WithinRow(html, at, n, m, p) ==
    /\ Placement(html, at, n, m) /\ RowsDone(html, at, n, p.rows)
    /\ ShowsRow(html, at, n + 1, p.row, NoCell) /\ OwesRow(html, at, n + 2, p.pending)
    /\ CellsInTurn(html, at, n + 1, m)
    /\ \A k \in 1..m : FilledTo(p.row, at[<<n + 1, k>>] + html[n + 1][k].cols)
    /\ (\E k \in DOMAIN html[n + 1] : html[n + 1][k].cols > 1) => Full(p.row)

\* The spans of a cell, and the texts of two.
LEMMA CellFacts ==
    ASSUME NEW html, NEW V, Layable(html, V), NEW n \in Nat, n <= Len(html), NEW m \in Nat,
           m = 0 \/ (n < Len(html) /\ m <= Len(html[n + 1])), NEW x \in CellsTo(html, n, m)
    PROVE  /\ x[1] \in Nat \ {0} /\ x[2] \in Nat \ {0} /\ x = <<x[1], x[2]>>
           /\ x[1] \in DOMAIN html /\ x[2] \in DOMAIN html[x[1]]
           /\ x[1] <= n \/ (x[1] = n + 1 /\ x[2] <= m)
           /\ CellAt(html, x) \in CellOf(V)
           /\ CellAt(html, x).cols \in Nat \ {0} /\ CellAt(html, x).rows \in Nat \ {0}
           /\ CellAt(html, x).text \in V /\ CellAt(html, x).text # NoCell
           /\ CellAt(html, x).text # Blank
<1>1. html \in Seq(Seq(CellOf(V))) /\ Len(html) \in Nat /\ DOMAIN html = 1..Len(html)
  BY DEF Layable
<1>2. /\ x \in (1..(n + 1)) \X Nat
      /\ (IF x[1] = n + 1 THEN x[2] \in 1..m ELSE x[2] \in DOMAIN html[x[1]])
  BY DEF CellsTo
<1>3. x[1] \in DOMAIN html
  BY <1>1, <1>2
<1>4. html[x[1]] \in Seq(CellOf(V))
  BY <1>1, <1>3
<1>5. /\ x[2] \in DOMAIN html[x[1]]
      /\ DOMAIN html[x[1]] = 1..Len(html[x[1]]) /\ Len(html[x[1]]) \in Nat
  BY <1>2, <1>4
<1>6. CellAt(html, x) \in CellOf(V)
  BY <1>4, <1>5 DEF CellAt
<1>7. CellAt(html, x).text # NoCell /\ CellAt(html, x).text # Blank
  BY <1>3, <1>5 DEF Layable, PlainTable, CellAt
<1>8. x[1] <= n \/ (x[1] = n + 1 /\ x[2] <= m)
  BY <1>2
<1>9. x[1] \in Nat \ {0} /\ x[2] \in Nat \ {0} /\ x = <<x[1], x[2]>>
  BY <1>2, <1>5
<1>10. /\ CellAt(html, x).cols \in Nat \ {0} /\ CellAt(html, x).rows \in Nat \ {0}
       /\ CellAt(html, x).text \in V
  BY <1>6 DEF CellOf
<1> QED BY <1>3, <1>5, <1>6, <1>7, <1>8, <1>9, <1>10

\* Before the first row nothing is placed.
LEMMA NothingPlaced ==
    ASSUME NEW html
    PROVE  \E at : BetweenRows(html, at, 0, ParserStart)
<1> DEFINE at == [x \in CellsTo(html, 0, 0) |-> 1]
<1>1. CellsTo(html, 0, 0) = {}
  BY DEF CellsTo
<1>2. Placement(html, at, 0, 0) /\ DOMAIN at = {}
  BY <1>1 DEF Placement
<1>3. ParserStart.rows = <<>> /\ ParserStart.pending = << >> /\ DOMAIN ParserStart.pending = {}
  BY DEF ParserStart
<1> HIDE DEF at
<1>4. RowsDone(html, at, 0, ParserStart.rows)
  BY <1>3 DEF RowsDone
<1>5. OwesRow(html, at, 0 + 1, ParserStart.pending)
  BY <1>2, <1>3 DEF OwesRow
<1> QED BY <1>2, <1>4, <1>5 DEF BetweenRows

\* A new row begins with the cells that reach into it from above.
LEMMA OpensRow ==
    ASSUME NEW html, NEW V, Layable(html, V), NEW n \in Nat, n < Len(html),
           NEW p \in Parser(V), NEW at, BetweenRows(html, at, n, p)
    PROVE  WithinRow(html, at, n, 0, OpenRow(p))
<1> DEFINE q == OpenRow(p)
           D == DOMAIN p.pending
           given == [c \in D |-> p.pending[c].text]
           C == {d \in D : p.pending[d].left > 1}
<1>0. D \subseteq Nat
  BY ParserFacts
<1>1. /\ q \in Parser(V) /\ q.rows = p.rows /\ Overlaid(q.row, <<>>, given)
      /\ q.pending = [c \in C |-> [left |-> p.pending[c].left - 1, text |-> p.pending[c].text]]
  BY OpenRowIs DEF Layable
<1>2. /\ Placement(html, at, n, 0) /\ RowsDone(html, at, n, p.rows)
      /\ OwesRow(html, at, n + 1, p.pending)
  BY DEF BetweenRows
<1>3. DOMAIN at = CellsTo(html, n, 0)
  BY <1>2 DEF Placement
<1>4. ASSUME NEW x \in DOMAIN at
      PROVE  /\ x[1] \in Nat \ {0} /\ x[1] <= n
             /\ CellAt(html, x).rows \in Nat \ {0} /\ CellAt(html, x).text # NoCell
  BY <1>3, CellFacts
<1> HIDE DEF q
<1>5. /\ \A c \in D : c \in DOMAIN q.row /\ q.row[c] = p.pending[c].text
      /\ \A c \in DOMAIN q.row : c \in D \/ q.row[c] = NoCell
  <2>1. DOMAIN given = D /\ \A c \in D : given[c] = p.pending[c].text
    OBVIOUS
  <2> HIDE DEF given, D
  <2> QED BY <1>1, <2>1 DEF Overlaid
<1>6. ShowsRow(html, at, n + 1, q.row, NoCell)
  BY <1>2, <1>5, <1>0 DEF ShowsRow, OwesRow
<1>7. OwesRow(html, at, n + 2, q.pending)
  <2>1. ASSUME NEW x \in DOMAIN at, NEW c \in Nat
        PROVE  /\ Covers(html, at, x, n + 2, c) <=>
                      Covers(html, at, x, n + 1, c) /\ x[1] + CellAt(html, x).rows - (n + 1) > 1
               /\ x[1] + CellAt(html, x).rows - (n + 1) - 1 = x[1] + CellAt(html, x).rows - (n + 2)
    <3> DEFINE r == x[1]
               rows == CellAt(html, x).rows
               across == at[x] <= c /\ c < at[x] + CellAt(html, x).cols
    <3>1. r \in Nat /\ r <= n /\ rows \in Nat
      BY <1>4
    <3>2. /\ Covers(html, at, x, n + 2, c) <=> (r <= n + 2 /\ n + 2 < r + rows) /\ across
          /\ Covers(html, at, x, n + 1, c) <=> (r <= n + 1 /\ n + 1 < r + rows) /\ across
      BY DEF Covers
    <3> HIDE DEF across, r, rows
    <3>3. /\ (r <= n + 2 /\ n + 2 < r + rows) <=>
                 (r <= n + 1 /\ n + 1 < r + rows) /\ r + rows - (n + 1) > 1
          /\ r + rows - (n + 1) - 1 = r + rows - (n + 2)
      BY <3>1
    <3> QED BY <3>2, <3>3 DEF r, rows
  <2>2. ASSUME NEW c \in DOMAIN q.pending
        PROVE  \E x \in DOMAIN at : Covers(html, at, x, n + 2, c)
    <3>1. c \in D /\ c \in Nat /\ p.pending[c].left > 1
      BY <1>1, <1>0
    <3>2. PICK x \in DOMAIN at : Covers(html, at, x, n + 1, c)
      BY <1>2, <3>1 DEF OwesRow
    <3>3. p.pending[c].left = x[1] + CellAt(html, x).rows - (n + 1)
      BY <1>2, <3>1, <3>2 DEF OwesRow
    <3> QED BY <2>1, <3>1, <3>2, <3>3
  <2>3. ASSUME NEW x \in DOMAIN at, NEW c \in Nat, Covers(html, at, x, n + 2, c)
        PROVE  /\ c \in DOMAIN q.pending /\ q.pending[c].text = CellAt(html, x).text
               /\ q.pending[c].left = x[1] + CellAt(html, x).rows - (n + 2)
    <3>1. Covers(html, at, x, n + 1, c) /\ x[1] + CellAt(html, x).rows - (n + 1) > 1
      BY <2>1, <2>3
    <3>2. /\ c \in D /\ p.pending[c].text = CellAt(html, x).text
          /\ p.pending[c].left = x[1] + CellAt(html, x).rows - (n + 1)
      BY <1>2, <3>1 DEF OwesRow
    <3>3. c \in C
      BY <3>1, <3>2
    <3> HIDE DEF C
    <3>4. /\ c \in DOMAIN q.pending /\ q.pending[c].text = p.pending[c].text
          /\ q.pending[c].left = p.pending[c].left - 1
      BY <1>1, <3>3
    <3>5. q.pending[c].left = x[1] + CellAt(html, x).rows - (n + 1) - 1
      BY <1>4, <3>2, <3>4
    <3>6. q.pending[c].left = x[1] + CellAt(html, x).rows - (n + 2)
      BY <2>1, <3>5
    <3> QED BY <3>2, <3>4, <3>6
  <2> QED BY <2>2, <2>3 DEF OwesRow
<1>8. ASSUME NEW k \in DOMAIN html[n + 1], html[n + 1][k].cols > 1 PROVE Full(q.row)
  <2>1. n + 1 \in DOMAIN html
    BY DEF Layable
  <2>2. \A r \in 1..n : \A j \in DOMAIN html[r] : html[r][j].rows <= n + 1 - r
    <3>1. \A r \in 1..((n + 1) - 1) : \A j \in DOMAIN html[r] : html[r][j].rows <= (n + 1) - r
      BY <1>8, <2>1 DEF Layable, PlainTable
    <3>2. (n + 1) - 1 = n
      OBVIOUS
    <3> QED BY <3>1, <3>2
  <2>3. ASSUME NEW c \in D PROVE FALSE
    <3>1. PICK x \in DOMAIN at : Covers(html, at, x, n + 1, c)
      BY <1>2 DEF OwesRow
    <3>2. x[1] \in 1..n /\ x[2] \in DOMAIN html[x[1]]
      BY <1>3, CellFacts
    <3>3. CellAt(html, x).rows <= n + 1 - x[1]
      BY <2>2, <3>2 DEF CellAt
    <3> QED BY <1>4, <3>1, <3>3 DEF Covers
  <2>4. DOMAIN q.row = {}
    BY <1>1, <2>3 DEF Overlaid
  <2> QED BY <2>4 DEF Full
<1>9. CellsInTurn(html, at, n + 1, 0)
  BY DEF CellsInTurn
<1>10. WithinRow(html, at, n, 0, q)
  BY <1>1, <1>2, <1>6, <1>7, <1>8, <1>9 DEF WithinRow
<1> QED BY <1>10 DEF q

\* by places the cells that at does, at the same columns, and one more
OneMore(html, at, by, n, m, col) ==
    /\ Placement(html, at, n, m) /\ Placement(html, by, n, m + 1)
    /\ DOMAIN by = DOMAIN at \union {<<n + 1, m + 1>>} /\ <<n + 1, m + 1>> \notin DOMAIN at
    /\ by[<<n + 1, m + 1>>] = col /\ \A x \in DOMAIN at : by[x] = at[x]

\* A cell can be placed at any column.
LEMMA PlaceOneMore ==
    ASSUME NEW html, NEW n \in Nat, NEW m \in Nat, NEW at, Placement(html, at, n, m),
           NEW col \in Nat \ {0}
    PROVE  \E by : OneMore(html, at, by, n, m, col)
<1> DEFINE A == CellsTo(html, n, m)
           B == CellsTo(html, n, m + 1)
           x0 == <<n + 1, m + 1>>
           by == [x \in B |-> IF x = x0 THEN col ELSE at[x]]
<1>1. B = A \union {x0} /\ x0 \notin A
  <2>1. x0 \in B /\ x0 \notin A
    BY DEF CellsTo
  <2>2. A \subseteq B
    BY DEF CellsTo
  <2>3. ASSUME NEW x \in B, x # x0 PROVE x \in A
    BY <2>3 DEF CellsTo
  <2> HIDE DEF A, B, x0
  <2> QED BY <2>1, <2>2, <2>3
<1>2. at \in [A -> Nat \ {0}]
  BY DEF Placement
<1> HIDE DEF A, B, x0
<1>3. by \in [B -> Nat \ {0}]
  BY <1>1, <1>2
<1>4. by[x0] = col /\ \A x \in A : by[x] = at[x]
  BY <1>1
<1>5. DOMAIN by = DOMAIN at \union {x0} /\ x0 \notin DOMAIN at
  BY <1>1, <1>2
<1> HIDE DEF by
<1>6. OneMore(html, at, by, n, m, col)
  BY <1>2, <1>3, <1>4, <1>5 DEF OneMore, Placement, A, B, x0
<1> QED BY <1>6

\* The cells placed before cover what they did, and the new one its columns.
LEMMA CoversMore ==
    ASSUME NEW html, NEW at, NEW by, NEW n \in Nat, NEW m \in Nat, NEW col,
           OneMore(html, at, by, n, m, col), NEW q, NEW c
    PROVE  /\ \A x \in DOMAIN at : Covers(html, by, x, q, c) <=> Covers(html, at, x, q, c)
           /\ Covers(html, by, <<n + 1, m + 1>>, q, c) <=>
                  /\ n + 1 <= q /\ q < n + 1 + html[n + 1][m + 1].rows
                  /\ col <= c /\ c < col + html[n + 1][m + 1].cols
BY DEF OneMore, Covers, CellAt

\* A finished row is finished with one more cell.
LEMMA RowsStayDone ==
    ASSUME NEW html, NEW V, Layable(html, V), NEW n \in Nat, n < Len(html),
           NEW m \in Nat, NEW at, NEW by, NEW col, OneMore(html, at, by, n, m, col),
           NEW rows, RowsDone(html, at, n, rows)
    PROVE  RowsDone(html, by, n, rows)
<1> SUFFICES ASSUME NEW r \in 1..n, RowDone(html, at, r, rows[r])
             PROVE  RowDone(html, by, r, rows[r])
  BY DEF RowsDone
<1> DEFINE x0 == <<n + 1, m + 1>>
<1>1. DOMAIN by = DOMAIN at \union {x0} /\ \A x \in DOMAIN at : by[x] = at[x]
  BY DEF OneMore
<1>2. \A c : ~Covers(html, by, x0, r, c)
  BY CoversMore
<1>3. \A x \in DOMAIN at : \A c : Covers(html, by, x, r, c) <=> Covers(html, at, x, r, c)
  BY CoversMore
<1> HIDE DEF x0
<1>4. ShowsRow(html, at, r, rows[r], Blank)
  BY DEF RowDone
<1>5. ShowsRow(html, by, r, rows[r], Blank)
  BY <1>1, <1>2, <1>3, <1>4 DEF ShowsRow
<1>6. \A k \in DOMAIN html[r] : by[<<r, k>>] = at[<<r, k>>]
  <2> TAKE k \in DOMAIN html[r]
  <2>1. html \in Seq(Seq(CellOf(V))) /\ r \in DOMAIN html /\ r # n + 1
    BY DEF Layable
  <2>2. html[r] \in Seq(CellOf(V))
    BY <2>1
  <2>3. k \in Nat
    BY <2>2
  <2>4. <<r, k>> \in CellsTo(html, n, m)
    BY <2>1, <2>3 DEF CellsTo
  <2>5. <<r, k>> \in DOMAIN at
    BY <2>4 DEF OneMore, Placement
  <2> QED BY <1>1, <2>5
<1>7. DOMAIN html[r] = 1..Len(html[r])
  <2>1. html \in Seq(Seq(CellOf(V))) /\ r \in DOMAIN html
    BY DEF Layable
  <2>2. html[r] \in Seq(CellOf(V))
    BY <2>1
  <2> QED BY <2>2
<1>8. CellsInTurn(html, by, r, Len(html[r]))
  BY <1>6, <1>7 DEF RowDone, CellsInTurn
<1>9. \A k \in DOMAIN html[r] : \A d \in 1..(by[<<r, k>>] - 1) : rows[r][d] # Blank
  BY <1>6 DEF RowDone
<1> QED BY <1>5, <1>8, <1>9 DEF RowDone

\* What a row owes and shows: the first m cells are placed and the next goes to cols.
NewCell(html, V, n, m, p, at, by, q) ==
    LET cell == html[n + 1][m + 1]
        col == NextFreeColumn(p.row)
        cols == ColumnsOf(p, cell)
    IN  /\ p \in Parser(V) /\ q \in Parser(V) /\ WithinRow(html, at, n, m, p)
        /\ OneMore(html, at, by, n, m, col)
        /\ col \in 1..(Len(p.row) + 1)
        /\ col = Len(p.row) + 1 \/ p.row[col] = NoCell
        /\ \A d \in 1..(col - 1) : p.row[d] # NoCell
        /\ cell \in CellOf(V) /\ cell.text # NoCell
        /\ \A c \in cols : c \notin DOMAIN p.row \/ p.row[c] = NoCell
        /\ q.rows = p.rows
        /\ \A c \in cols : c \in DOMAIN q.row /\ q.row[c] = cell.text
        /\ \A c \in DOMAIN p.row \ cols : c \in DOMAIN q.row /\ q.row[c] = p.row[c]
        /\ \A c \in DOMAIN q.row : \/ c \in cols
                                   \/ c \in DOMAIN p.row
                                   \/ q.row[c] = NoCell /\ \E d \in cols : c < d
        /\ q.pending = IF cell.rows = 1 THEN p.pending
                       ELSE [c \in cols \union DOMAIN p.pending |->
                                IF c \in cols THEN [left |-> cell.rows - 1, text |-> cell.text]
                                ELSE p.pending[c]]

\* A cell goes to columns that are free.
LEMMA NewCellFits ==
    ASSUME NEW html, NEW V, Layable(html, V), NEW n \in Nat, n < Len(html),
           NEW m \in Nat, m < Len(html[n + 1]),
           NEW p \in Parser(V), NEW at, WithinRow(html, at, n, m, p)
    PROVE  \E by : NewCell(html, V, n, m, p, at, by, EndCell(p, html[n + 1][m + 1]))
<1> DEFINE cell == html[n + 1][m + 1]
           col == NextFreeColumn(p.row)
           cols == ColumnsOf(p, cell)
           q == EndCell(p, cell)
           given == [c \in cols |-> cell.text]
<1>1. n + 1 \in DOMAIN html /\ m + 1 \in DOMAIN html[n + 1] /\ cell \in CellOf(V)
  <2>1. html \in Seq(Seq(CellOf(V))) /\ n + 1 \in DOMAIN html
    BY DEF Layable
  <2>2. html[n + 1] \in Seq(CellOf(V))
    BY <2>1
  <2> QED BY <2>1, <2>2
<1>2. cell.text # NoCell /\ cell.cols \in Nat \ {0}
  BY <1>1 DEF Layable, CellOf
<1>3. /\ p.row \in Seq(V) /\ Len(p.row) \in Nat /\ DOMAIN p.row = 1..Len(p.row)
  BY ParserFacts
<1>4. /\ col \in 1..(Len(p.row) + 1)
      /\ col = Len(p.row) + 1 \/ p.row[col] = NoCell
      /\ \A d \in 1..(col - 1) : p.row[d] # NoCell
  BY <1>3, NextFree
<1>5. /\ q \in Parser(V) /\ q.rows = p.rows /\ Overlaid(q.row, p.row, given)
      /\ q.pending = IF cell.rows = 1 THEN p.pending
                     ELSE [c \in cols \union DOMAIN p.pending |->
                              IF c \in cols THEN [left |-> cell.rows - 1, text |-> cell.text]
                              ELSE p.pending[c]]
  <2>1. NoCell \in V
    BY DEF Layable
  <2> HIDE DEF cell
  <2>2. CellEnded(V, p, cell, q)
    BY <1>1, <2>1, EndCellIs
  <2> HIDE DEF q
  <2> QED BY <2>2 DEF CellEnded
<1>6. ASSUME NEW c \in cols PROVE c \notin DOMAIN p.row \/ p.row[c] = NoCell
  <2>1. c \in Nat /\ col <= c /\ c <= col + cell.cols - 1
    BY <1>2, <1>4 DEF ColumnsOf
  <2>2. CASE cell.cols = 1
    <3>1. c = col
      BY <2>1, <2>2, <1>4
    <3> QED BY <1>3, <1>4, <3>1
  <2>3. CASE cell.cols # 1
    <3>1. cell.cols > 1
      BY <1>2, <2>3
    <3>2. Full(p.row)
      BY <1>1, <3>1 DEF WithinRow
    <3>3. col = Len(p.row) + 1
      BY <1>3, <1>4, <3>2 DEF Full
    <3> QED BY <1>3, <2>1, <3>3
  <2> QED BY <2>2, <2>3
<1>7. PICK by : OneMore(html, at, by, n, m, col)
  <2>1. Placement(html, at, n, m) /\ col \in Nat \ {0}
    BY <1>3, <1>4 DEF WithinRow
  <2> HIDE DEF col
  <2> QED BY <2>1, PlaceOneMore
<1>8. DOMAIN given = cols /\ \A c \in cols : given[c] = cell.text
  OBVIOUS
<1> HIDE DEF given, q
<1>9. /\ \A c \in cols : c \in DOMAIN q.row /\ q.row[c] = cell.text
      /\ \A c \in DOMAIN p.row \ cols : c \in DOMAIN q.row /\ q.row[c] = p.row[c]
      /\ \A c \in DOMAIN q.row : \/ c \in cols
                                 \/ c \in DOMAIN p.row
                                 \/ q.row[c] = NoCell /\ \E d \in cols : c < d
  BY <1>5, <1>8 DEF Overlaid
<1>10. NewCell(html, V, n, m, p, at, by, q)
  BY <1>1, <1>2, <1>4, <1>5, <1>6, <1>7, <1>9 DEF NewCell
<1> QED BY <1>10 DEF q

\* The row that a cell joins shows it and the others.
LEMMA ShowsMore ==
    ASSUME NEW html, NEW V, Layable(html, V), NEW n \in Nat, n < Len(html),
           NEW m \in Nat, m < Len(html[n + 1]), NEW p, NEW q, NEW at, NEW by,
           NewCell(html, V, n, m, p, at, by, q)
    PROVE  ShowsRow(html, by, n + 1, q.row, NoCell)
<1> DEFINE cell == html[n + 1][m + 1]
           col == NextFreeColumn(p.row)
           cols == ColumnsOf(p, cell)
           x0 == <<n + 1, m + 1>>
<1>1. /\ DOMAIN by = DOMAIN at \union {x0} /\ CellAt(html, x0) = cell
      /\ DOMAIN at = CellsTo(html, n, m)
  BY DEF NewCell, OneMore, Placement, CellAt
<1>2. /\ col \in Nat /\ cell.cols \in Nat \ {0} /\ cell.rows \in Nat \ {0}
  <2>1. col \in 1..(Len(p.row) + 1) /\ cell \in CellOf(V) /\ p \in Parser(V)
    BY DEF NewCell
  <2>2. Len(p.row) \in Nat
    BY <2>1, ParserFacts
  <2> QED BY <2>1, <2>2 DEF CellOf
<1>3. \A c \in Nat : Covers(html, by, x0, n + 1, c) <=> c \in cols
  <2> TAKE c \in Nat
  <2>1. OneMore(html, at, by, n, m, col)
    BY DEF NewCell
  <2>2. Covers(html, by, x0, n + 1, c) <=>
            /\ n + 1 <= n + 1 /\ n + 1 < n + 1 + cell.rows
            /\ col <= c /\ c < col + cell.cols
    BY <2>1, CoversMore
  <2> HIDE DEF col, x0, cell
  <2>3. c \in cols <=> col <= c /\ c < col + cell.cols
    BY <1>2 DEF ColumnsOf, col
  <2> QED BY <1>2, <2>2, <2>3
<1>4. \A x \in DOMAIN at : \A c : Covers(html, by, x, n + 1, c) <=> Covers(html, at, x, n + 1, c)
  <2>1. OneMore(html, at, by, n, m, col)
    BY DEF NewCell
  <2> HIDE DEF col
  <2> TAKE x \in DOMAIN at
  <2> TAKE c
  <2>2. by[x] = at[x]
    BY <2>1 DEF OneMore
  <2> QED BY <2>2 DEF Covers
<1>5. ShowsRow(html, at, n + 1, p.row, NoCell)
  BY DEF NewCell, WithinRow
<1>6. \A x \in DOMAIN at : CellAt(html, x).text # NoCell
  BY <1>1, CellFacts
<1>7. /\ \A c \in cols : c \notin DOMAIN p.row \/ p.row[c] = NoCell
      /\ \A c \in cols : c \in DOMAIN q.row /\ q.row[c] = cell.text
      /\ \A c \in DOMAIN p.row \ cols : c \in DOMAIN q.row /\ q.row[c] = p.row[c]
      /\ \A c \in DOMAIN q.row : c \in cols \/ c \in DOMAIN p.row \/ q.row[c] = NoCell
  BY DEF NewCell
<1>8. cols \subseteq Nat
  BY <1>2 DEF ColumnsOf
<1> HIDE DEF cols, x0, cell
<1>9. ASSUME NEW x \in DOMAIN by, NEW c \in Nat, Covers(html, by, x, n + 1, c)
      PROVE  c \in DOMAIN q.row /\ q.row[c] = CellAt(html, x).text
  <2>1. CASE x = x0
    BY <1>1, <1>3, <1>7, <1>9, <2>1
  <2>2. CASE x \in DOMAIN at
    <3>1. Covers(html, at, x, n + 1, c)
      BY <1>4, <1>9, <2>2
    <3>2. c \in DOMAIN p.row /\ p.row[c] = CellAt(html, x).text
      BY <1>5, <2>2, <3>1 DEF ShowsRow
    <3>3. c \notin cols
      BY <1>6, <1>7, <2>2, <3>2
    <3> QED BY <1>7, <3>2, <3>3
  <2> QED BY <1>1, <2>1, <2>2
<1>10. ASSUME NEW c \in DOMAIN q.row, q.row[c] # NoCell
       PROVE  \E x \in DOMAIN by :
                  Covers(html, by, x, n + 1, c) /\ q.row[c] = CellAt(html, x).text
  <2>1. CASE c \in cols
    BY <1>1, <1>3, <1>7, <1>8, <2>1
  <2>2. CASE c \notin cols
    <3>1. c \in DOMAIN p.row /\ q.row[c] = p.row[c]
      BY <1>7, <1>10, <2>2
    <3>2. PICK x \in DOMAIN at : Covers(html, at, x, n + 1, c) /\ p.row[c] = CellAt(html, x).text
      BY <1>5, <1>10, <3>1 DEF ShowsRow
    <3> QED BY <1>1, <1>4, <3>1, <3>2
  <2> QED BY <2>1, <2>2
<1> QED BY <1>9, <1>10 DEF ShowsRow

\* What the next row owes has the cell as well, if it spans rows.
LEMMA OwesMore ==
    ASSUME NEW html, NEW V, Layable(html, V), NEW n \in Nat, n < Len(html),
           NEW m \in Nat, m < Len(html[n + 1]), NEW p, NEW q, NEW at, NEW by,
           NewCell(html, V, n, m, p, at, by, q)
    PROVE  OwesRow(html, by, n + 2, q.pending)
<1> DEFINE cell == html[n + 1][m + 1]
           col == NextFreeColumn(p.row)
           cols == ColumnsOf(p, cell)
           x0 == <<n + 1, m + 1>>
           left(x) == x[1] + CellAt(html, x).rows - (n + 2)
<1>1. /\ DOMAIN by = DOMAIN at \union {x0} /\ CellAt(html, x0) = cell
      /\ DOMAIN at = CellsTo(html, n, m)
  BY DEF NewCell, OneMore, Placement, CellAt
<1>2. /\ col \in Nat /\ cell.cols \in Nat \ {0} /\ cell.rows \in Nat \ {0}
  <2>1. col \in 1..(Len(p.row) + 1) /\ cell \in CellOf(V) /\ p \in Parser(V)
    BY DEF NewCell
  <2>2. Len(p.row) \in Nat
    BY <2>1, ParserFacts
  <2> QED BY <2>1, <2>2 DEF CellOf
<1>3. /\ \A c \in Nat : Covers(html, by, x0, n + 2, c) <=> cell.rows # 1 /\ c \in cols
      /\ left(x0) = cell.rows - 1
  <2>1. left(x0) = cell.rows - 1
    BY <1>1, <1>2
  <2>2. ASSUME NEW c \in Nat
        PROVE  Covers(html, by, x0, n + 2, c) <=> cell.rows # 1 /\ c \in cols
    <3>1. OneMore(html, at, by, n, m, col)
      BY DEF NewCell
    <3>2. Covers(html, by, x0, n + 2, c) <=>
              /\ n + 1 <= n + 2 /\ n + 2 < n + 1 + cell.rows
              /\ col <= c /\ c < col + cell.cols
      BY <3>1, CoversMore
    <3> HIDE DEF col, x0, cell
    <3>3. c \in cols <=> col <= c /\ c < col + cell.cols
      BY <1>2 DEF ColumnsOf, col
    <3>4. n + 1 <= n + 2 /\ (n + 2 < n + 1 + cell.rows <=> cell.rows # 1)
      BY <1>2
    <3> HIDE DEF cols
    <3> QED BY <3>2, <3>3, <3>4
  <2> QED BY <2>1, <2>2
<1>4. \A x \in DOMAIN at : \A c : Covers(html, by, x, n + 2, c) <=> Covers(html, at, x, n + 2, c)
  <2>1. OneMore(html, at, by, n, m, col)
    BY DEF NewCell
  <2> HIDE DEF col
  <2> TAKE x \in DOMAIN at
  <2> TAKE c
  <2>2. by[x] = at[x]
    BY <2>1 DEF OneMore
  <2> QED BY <2>2 DEF Covers
<1>5. OwesRow(html, at, n + 2, p.pending) /\ ShowsRow(html, at, n + 1, p.row, NoCell)
  BY DEF NewCell, WithinRow
<1>6. ASSUME NEW x \in DOMAIN at, NEW c \in Nat, Covers(html, at, x, n + 2, c)
      PROVE  c \notin cols
  <2>1. /\ x[1] \in Nat /\ x[1] <= n + 1 /\ CellAt(html, x).text # NoCell
        /\ CellAt(html, x).rows \in Nat
    <3>1. x \in CellsTo(html, n, m)
      BY <1>1
    <3>2. /\ x[1] \in Nat \ {0} /\ CellAt(html, x).text # NoCell
          /\ x[1] <= n \/ (x[1] = n + 1 /\ x[2] <= m)
          /\ CellAt(html, x).rows \in Nat \ {0}
      <4> HIDE DEF col, cols, x0, cell, left
      <4> QED BY <3>1, CellFacts
    <3> QED BY <3>2
  <2>2. Covers(html, at, x, n + 1, c)
    BY <1>6, <2>1 DEF Covers
  <2>3. c \in DOMAIN p.row /\ p.row[c] # NoCell
    BY <1>5, <2>1, <2>2 DEF ShowsRow
  <2> QED BY <2>3 DEF NewCell
<1>7. /\ cell.rows = 1 => q.pending = p.pending
      /\ cell.rows # 1 =>
             /\ DOMAIN q.pending = cols \union DOMAIN p.pending
             /\ \A c \in cols : q.pending[c].left = cell.rows - 1 /\ q.pending[c].text = cell.text
             /\ \A c \in DOMAIN p.pending \ cols : q.pending[c] = p.pending[c]
  BY DEF NewCell
<1>8. cols \subseteq Nat
  BY <1>2 DEF ColumnsOf
<1>9. DOMAIN p.pending \subseteq Nat
  BY ParserFacts DEF NewCell
<1> HIDE DEF cols, x0, cell
<1>10. ASSUME NEW c \in DOMAIN q.pending
       PROVE  \E x \in DOMAIN by : Covers(html, by, x, n + 2, c)
  <2>1. CASE cell.rows # 1 /\ c \in cols
    BY <1>1, <1>3, <1>8, <2>1
  <2>2. CASE c \in DOMAIN p.pending
    <3>1. PICK x \in DOMAIN at : Covers(html, at, x, n + 2, c)
      BY <1>5, <2>2 DEF OwesRow
    <3> QED BY <1>1, <1>4, <3>1
  <2> QED BY <1>7, <2>1, <2>2
<1>11. ASSUME NEW x \in DOMAIN by, NEW c \in Nat, Covers(html, by, x, n + 2, c)
       PROVE  /\ c \in DOMAIN q.pending /\ q.pending[c].text = CellAt(html, x).text
              /\ q.pending[c].left = left(x)
  <2>1. CASE x = x0
    <3>1. cell.rows # 1 /\ c \in cols
      BY <1>3, <1>11, <2>1
    <3> HIDE DEF left
    <3> QED BY <1>1, <1>3, <1>7, <2>1, <3>1
  <2>2. CASE x \in DOMAIN at
    <3>1. Covers(html, at, x, n + 2, c)
      BY <1>4, <1>11, <2>2
    <3>2. /\ c \in DOMAIN p.pending /\ p.pending[c].text = CellAt(html, x).text
          /\ p.pending[c].left = left(x)
      BY <1>5, <2>2, <3>1 DEF OwesRow
    <3>3. c \notin cols
      BY <1>6, <2>2, <3>1
    <3> HIDE DEF left
    <3> QED BY <1>7, <3>2, <3>3
  <2> QED BY <1>1, <2>1, <2>2
<1> QED BY <1>10, <1>11 DEF OwesRow

\* It comes after the cells before it, and leaves no hole.
LEMMA TurnsMore ==
    ASSUME NEW html, NEW V, Layable(html, V), NEW n \in Nat, n < Len(html),
           NEW m \in Nat, m < Len(html[n + 1]), NEW p, NEW q, NEW at, NEW by,
           NewCell(html, V, n, m, p, at, by, q)
    PROVE  /\ CellsInTurn(html, by, n + 1, m + 1)
           /\ \A k \in 1..(m + 1) : FilledTo(q.row, by[<<n + 1, k>>] + html[n + 1][k].cols)
           /\ (\E k \in DOMAIN html[n + 1] : html[n + 1][k].cols > 1) => Full(q.row)
<1> DEFINE cell == html[n + 1][m + 1]
           col == NextFreeColumn(p.row)
           cols == ColumnsOf(p, cell)
           end(k) == at[<<n + 1, k>>] + html[n + 1][k].cols
<1>1. /\ p.row \in Seq(V) /\ Len(p.row) \in Nat /\ DOMAIN p.row = 1..Len(p.row)
      /\ q.row \in Seq(V) /\ Len(q.row) \in Nat /\ DOMAIN q.row = 1..Len(q.row)
  BY ParserFacts DEF NewCell
<1>2. /\ col \in 1..(Len(p.row) + 1)
      /\ col = Len(p.row) + 1 \/ p.row[col] = NoCell
      /\ \A d \in 1..(col - 1) : p.row[d] # NoCell
      /\ cell.cols \in Nat \ {0} /\ cell.text # NoCell
  BY DEF NewCell, CellOf
<1>3. \A c \in Nat : c \in cols <=> col <= c /\ c < col + cell.cols
  <2>1. cols = col..(col + cell.cols - 1)
    BY DEF ColumnsOf
  <2> HIDE DEF cols, col, cell
  <2> QED BY <1>1, <1>2, <2>1
<1>4. /\ \A c \in cols : c \in DOMAIN q.row /\ q.row[c] = cell.text
      /\ \A c \in DOMAIN p.row \ cols : c \in DOMAIN q.row /\ q.row[c] = p.row[c]
      /\ \A c \in DOMAIN q.row : \/ c \in cols
                                 \/ c \in DOMAIN p.row
                                 \/ q.row[c] = NoCell /\ \E d \in cols : c < d
  BY DEF NewCell
<1>5. ASSUME NEW k \in 1..m
      PROVE  /\ by[<<n + 1, k>>] = at[<<n + 1, k>>] /\ end(k) \in Nat /\ end(k) <= col
             /\ FilledTo(p.row, end(k))
  <2>1. <<n + 1, k>> \in CellsTo(html, n, m)
    BY DEF CellsTo
  <2>2. /\ by[<<n + 1, k>>] = at[<<n + 1, k>>] /\ at[<<n + 1, k>>] \in Nat
    BY <2>1 DEF NewCell, OneMore, Placement
  <2>3. html[n + 1][k].cols \in Nat
    <3>1. CellAt(html, <<n + 1, k>>).cols \in Nat
      BY <2>1, CellFacts
    <3> QED BY <3>1 DEF CellAt
  <2>4. FilledTo(p.row, end(k))
    BY DEF NewCell, WithinRow
  <2>5. end(k) \in Nat
    <3> DEFINE u == at[<<n + 1, k>>]
               v == html[n + 1][k].cols
    <3>1. u \in Nat /\ v \in Nat /\ end(k) = u + v
      BY <2>2, <2>3
    <3> HIDE DEF u, v, end
    <3> QED BY <3>1
  <2> HIDE DEF end, col
  <2>6. end(k) <= col
    <3>1. col \in Nat \ {0}
      BY <1>1, <1>2
    <3>2. ASSUME col < end(k) PROVE FALSE
      <4>1. col \in DOMAIN p.row /\ p.row[col] # NoCell
        BY <2>4, <3>1, <3>2 DEF FilledTo
      <4> QED BY <1>1, <1>2, <4>1
    <3> QED BY <2>5, <3>1, <3>2
  <2> QED BY <2>2, <2>4, <2>5, <2>6
<1>6. by[<<n + 1, m + 1>>] = col
  BY DEF NewCell, OneMore
<1> HIDE DEF cols, col
<1>7. CellsInTurn(html, by, n + 1, m + 1)
  <2> SUFFICES ASSUME NEW j \in 1..(m + 1), NEW k \in 1..(m + 1), j < k
               PROVE  by[<<n + 1, j>>] + html[n + 1][j].cols <= by[<<n + 1, k>>]
    BY DEF CellsInTurn
  <2>1. j \in 1..m /\ by[<<n + 1, j>>] + html[n + 1][j].cols = end(j)
    <3>1. j \in 1..m
      OBVIOUS
    <3> QED BY <3>1, <1>5
  <2>2. CASE k = m + 1
    BY <1>5, <1>6, <2>1, <2>2
  <2>3. CASE k \in 1..m
    <3>1. CellsInTurn(html, at, n + 1, m)
      BY DEF NewCell, WithinRow
    <3>2. end(j) <= at[<<n + 1, k>>]
      BY <2>1, <2>3, <3>1 DEF CellsInTurn
    <3> QED BY <1>5, <2>1, <2>3, <3>2
  <2> QED BY <2>2, <2>3
<1>8. ASSUME NEW d \in DOMAIN p.row, p.row[d] # NoCell
      PROVE  d \in DOMAIN q.row /\ q.row[d] # NoCell
  BY <1>2, <1>4, <1>8
<1>9. ASSUME NEW k \in 1..(m + 1)
      PROVE  FilledTo(q.row, by[<<n + 1, k>>] + html[n + 1][k].cols)
  <2>1. CASE k = m + 1
    <3> SUFFICES ASSUME NEW d \in Nat \ {0}, d < col + cell.cols
                 PROVE  d \in DOMAIN q.row /\ q.row[d] # NoCell
      BY <1>6, <2>1 DEF FilledTo
    <3>1. CASE d < col
      <4>1. d \in DOMAIN p.row /\ p.row[d] # NoCell
        BY <1>1, <1>2, <3>1
      <4> QED BY <1>8, <4>1
    <3>2. CASE col <= d
      <4>1. d \in cols
        BY <1>3, <3>2
      <4> QED BY <1>2, <1>4, <4>1
    <3> QED BY <1>1, <1>2, <3>1, <3>2
  <2>2. CASE k \in 1..m
    <3>1. FilledTo(p.row, end(k)) /\ by[<<n + 1, k>>] + html[n + 1][k].cols = end(k)
      BY <1>5, <2>2
    <3> HIDE DEF end
    <3>2. FilledTo(q.row, end(k))
      BY <1>8, <3>1 DEF FilledTo
    <3> QED BY <3>1, <3>2
  <2> QED BY <2>1, <2>2
<1>10. ASSUME \E k \in DOMAIN html[n + 1] : html[n + 1][k].cols > 1 PROVE Full(q.row)
  <2>1. Full(p.row)
    BY <1>10 DEF NewCell, WithinRow
  <2>2. col = Len(p.row) + 1
    <3>1. col \in 1..Len(p.row) => p.row[col] # NoCell
      BY <1>1, <2>1 DEF Full
    <3>2. Len(p.row) \in Nat /\ col \in 1..(Len(p.row) + 1)
      BY <1>1, <1>2
    <3>3. col = Len(p.row) + 1 \/ p.row[col] = NoCell
      BY <1>2
    <3> HIDE DEF col, cols, cell, end
    <3> QED BY <3>1, <3>2, <3>3
  <2> SUFFICES ASSUME NEW c \in DOMAIN q.row, q.row[c] = NoCell PROVE FALSE
    BY DEF Full
  <2>3. c \notin cols /\ c \notin DOMAIN p.row
    BY <1>2, <1>4, <1>8, <2>1 DEF Full
  <2>4. PICK d \in cols : c < d
    BY <1>4, <2>3
  <2>5. d \in Nat /\ d < col + cell.cols /\ c \in Nat \ {0}
    <3>1. cols \subseteq Nat
      BY <1>1, <1>2 DEF cols, ColumnsOf, col
    <3> QED BY <1>1, <1>3, <3>1
  <2>6. col <= c
    BY <1>1, <2>2, <2>3, <2>5
  <2>7. c < col + cell.cols
    <3>1. col \in Nat /\ cell.cols \in Nat
      BY <1>1, <1>2
    <3> QED BY <2>4, <2>5, <3>1
  <2> QED BY <1>3, <2>3, <2>5, <2>6, <2>7
<1> QED BY <1>7, <1>9, <1>10

\* So the cells of a row are placed one by one.
LEMMA EndsCell ==
    ASSUME NEW html, NEW V, Layable(html, V), NEW n \in Nat, n < Len(html),
           NEW m \in Nat, m < Len(html[n + 1]),
           NEW p \in Parser(V), NEW at, WithinRow(html, at, n, m, p)
    PROVE  \E by : WithinRow(html, by, n, m + 1, EndCell(p, html[n + 1][m + 1]))
<1> DEFINE q == EndCell(p, html[n + 1][m + 1])
<1>1. PICK by : NewCell(html, V, n, m, p, at, by, q)
  BY NewCellFits
<1> HIDE DEF q
<1>2. ShowsRow(html, by, n + 1, q.row, NoCell)
  BY <1>1, ShowsMore
<1>3. OwesRow(html, by, n + 2, q.pending)
  BY <1>1, OwesMore
<1>4. /\ CellsInTurn(html, by, n + 1, m + 1)
      /\ \A k \in 1..(m + 1) : FilledTo(q.row, by[<<n + 1, k>>] + html[n + 1][k].cols)
      /\ (\E k \in DOMAIN html[n + 1] : html[n + 1][k].cols > 1) => Full(q.row)
  BY <1>1, TurnsMore
<1>5. Placement(html, by, n, m + 1) /\ RowsDone(html, by, n, q.rows)
  <2>1. OneMore(html, at, by, n, m, NextFreeColumn(p.row)) /\ q.rows = p.rows
    BY <1>1 DEF NewCell
  <2>2. RowsDone(html, at, n, p.rows)
    BY DEF WithinRow
  <2>3. RowsDone(html, by, n, p.rows)
    BY <2>1, <2>2, RowsStayDone
  <2> QED BY <2>1, <2>3 DEF OneMore
<1>6. WithinRow(html, by, n, m + 1, q)
  BY <1>2, <1>3, <1>4, <1>5 DEF WithinRow
<1> QED BY <1>6 DEF q

-----------------------------------------------------------------------------
(* Rows are finished and a table is laid out. *)

\* A row is finished with all its cells placed.
LEMMA ClosesRow ==
    ASSUME NEW html, NEW V, Layable(html, V), NEW n \in Nat, n < Len(html),
           NEW p \in Parser(V), NEW at, WithinRow(html, at, n, Len(html[n + 1]), p)
    PROVE  BetweenRows(html, at, n + 1, CloseRow(p))
<1> DEFINE q == CloseRow(p)
           m == Len(html[n + 1])
           new == WithoutHoles(p.row)
<1>1. /\ n + 1 \in DOMAIN html /\ m \in Nat \ {0} /\ DOMAIN html[n + 1] = 1..m
      /\ html \in Seq(Seq(CellOf(V))) /\ m = Len(html[n + 1])
  <2>1. html \in Seq(Seq(CellOf(V))) /\ n + 1 \in DOMAIN html
    BY DEF Layable
  <2>2. html[n + 1] \in Seq(CellOf(V)) /\ html[n + 1] # <<>>
    BY <2>1 DEF Layable, PlainTable
  <2> QED BY <2>1, <2>2
<1> HIDE DEF m
<1>2. /\ Placement(html, at, n, m) /\ RowsDone(html, at, n, p.rows)
      /\ ShowsRow(html, at, n + 1, p.row, NoCell) /\ OwesRow(html, at, n + 2, p.pending)
      /\ CellsInTurn(html, at, n + 1, m)
      /\ \A k \in 1..m : FilledTo(p.row, at[<<n + 1, k>>] + html[n + 1][k].cols)
  BY DEF WithinRow, m
<1>3. ASSUME NEW k \in 1..m
      PROVE  /\ at[<<n + 1, k>>] \in Nat \ {0} /\ html[n + 1][k].cols \in Nat \ {0}
             /\ FilledTo(p.row, at[<<n + 1, k>>])
  <2>1. <<n + 1, k>> \in CellsTo(html, n, m)
    BY DEF CellsTo
  <2>2. at[<<n + 1, k>>] \in Nat \ {0}
    BY <1>2, <2>1 DEF Placement
  <2>3. html[n + 1][k].cols \in Nat \ {0}
    <3>1. m <= Len(html[n + 1]) /\ n <= Len(html) /\ m \in Nat
      BY <1>1 DEF Layable
    <3>2. CellAt(html, <<n + 1, k>>).cols \in Nat \ {0}
      BY <2>1, <3>1, CellFacts
    <3> QED BY <3>2 DEF CellAt
  <2> DEFINE a == at[<<n + 1, k>>]
             b == html[n + 1][k].cols
  <2>4. FilledTo(p.row, a + b) /\ a \in Nat \ {0} /\ b \in Nat \ {0}
    BY <1>2, <2>2, <2>3
  <2> HIDE DEF a, b
  <2>5. FilledTo(p.row, a)
    BY <2>4 DEF FilledTo
  <2> QED BY <2>4, <2>5 DEF a, b
<1>4. p.row # <<>>
  <2> DEFINE a == at[<<n + 1, 1>>]
             b == html[n + 1][1].cols
  <2>1. 1 \in 1..m
    BY <1>1
  <2>2. FilledTo(p.row, a + b) /\ a \in Nat \ {0} /\ b \in Nat \ {0}
    BY <1>2, <1>3, <2>1
  <2> HIDE DEF a, b
  <2>3. 1 \in DOMAIN p.row
    BY <2>2 DEF FilledTo
  <2> QED BY <2>3
<1>5. q \in Parser(V) /\ q.pending = p.pending /\ q.rows = Append(p.rows, new)
  BY <1>4, CloseRowIs DEF Layable
<1> HIDE DEF q
<1>6. Placement(html, at, n + 1, 0)
  <2>1. CellsTo(html, n, m) = CellsTo(html, n + 1, 0)
    <3>1. ASSUME NEW x, x \in CellsTo(html, n, m) PROVE x \in CellsTo(html, n + 1, 0)
      BY <1>1, <3>1 DEF CellsTo
    <3>2. ASSUME NEW x, x \in CellsTo(html, n + 1, 0) PROVE x \in CellsTo(html, n, m)
      <4>1. x \in (1..(n + 2)) \X Nat /\ x[1] # n + 2 /\ x[2] \in DOMAIN html[x[1]]
        BY <3>2 DEF CellsTo
      <4>2. x[1] = n + 1 => x[2] \in 1..m
        BY <1>1, <4>1
      <4>3. x \in (1..(n + 1)) \X Nat
        BY <4>1
      <4> QED BY <4>1, <4>2, <4>3 DEF CellsTo
    <3> QED BY <3>1, <3>2
  <2> QED BY <1>2, <2>1 DEF Placement
<1>7. /\ DOMAIN new = DOMAIN p.row
      /\ \A c \in DOMAIN p.row : new[c] = IF p.row[c] = NoCell THEN Blank ELSE p.row[c]
  BY DEF WithoutHoles
<1> HIDE DEF new
<1>8. DOMAIN at = CellsTo(html, n, m)
  BY <1>2 DEF Placement
<1>9. \A x \in DOMAIN at : CellAt(html, x).text # NoCell /\ CellAt(html, x).text # Blank
  <2>1. m <= Len(html[n + 1]) /\ n <= Len(html) /\ m \in Nat
    BY <1>1 DEF Layable
  <2> QED BY <1>8, <2>1, CellFacts
<1>10. ShowsRow(html, at, n + 1, new, Blank)
  <2>1. ASSUME NEW x \in DOMAIN at, NEW c \in Nat, Covers(html, at, x, n + 1, c)
        PROVE  c \in DOMAIN new /\ new[c] = CellAt(html, x).text
    <3>1. c \in DOMAIN p.row /\ p.row[c] = CellAt(html, x).text
      BY <1>2, <2>1 DEF ShowsRow
    <3> QED BY <1>7, <1>9, <3>1
  <2>2. ASSUME NEW c \in DOMAIN new, new[c] # Blank
        PROVE  \E x \in DOMAIN at : Covers(html, at, x, n + 1, c) /\ new[c] = CellAt(html, x).text
    <3>1. c \in DOMAIN p.row /\ p.row[c] # NoCell /\ new[c] = p.row[c]
      BY <1>7, <2>2
    <3> QED BY <1>2, <3>1 DEF ShowsRow
  <2> QED BY <2>1, <2>2 DEF ShowsRow
<1>11. ASSUME NEW k \in 1..m, NEW d \in 1..(at[<<n + 1, k>>] - 1) PROVE new[d] # Blank
  <2>1. d \in Nat \ {0} /\ d < at[<<n + 1, k>>]
    BY <1>3
  <2>2. d \in DOMAIN p.row /\ p.row[d] # NoCell
    BY <1>3, <2>1 DEF FilledTo
  <2>3. PICK x \in DOMAIN at : p.row[d] = CellAt(html, x).text
    BY <1>2, <2>2 DEF ShowsRow
  <2> QED BY <1>7, <1>9, <2>2, <2>3
<1>12. RowDone(html, at, n + 1, new)
  BY <1>1, <1>2, <1>10, <1>11 DEF RowDone, m
<1>13. RowsDone(html, at, n + 1, q.rows)
  <2>1. p.rows \in Seq(Seq(V)) /\ new \in Seq(V) /\ q.rows \in Seq(Seq(V))
    <3>1. p.rows \in Seq(Seq(V)) /\ q.rows \in Seq(Seq(V)) /\ p.row \in Seq(V) /\ Blank \in V
      BY <1>5 DEF Parser, Layable
    <3>2. /\ Len(p.row) \in Nat /\ DOMAIN p.row = 1..Len(p.row)
          /\ \A c \in 1..Len(p.row) : p.row[c] \in V
      BY <3>1
    <3>3. new = [c \in 1..Len(p.row) |-> new[c]] /\ \A c \in 1..Len(p.row) : new[c] \in V
      BY <1>7, <3>1, <3>2 DEF new, WithoutHoles
    <3> QED BY <3>1, <3>2, <3>3, IsSequence
  <2>2. Len(p.rows) = n /\ \A r \in 1..n : RowDone(html, at, r, p.rows[r])
    BY <1>2 DEF RowsDone
  <2> DEFINE S == Seq(V)
  <2>3. p.rows \in Seq(S) /\ new \in S
    BY <2>1
  <2> HIDE DEF S
  <2>4. /\ Len(q.rows) = n + 1 /\ q.rows[n + 1] = new
        /\ \A r \in 1..n : q.rows[r] = p.rows[r]
    BY <1>5, <2>2, <2>3
  <2>5. ASSUME NEW r \in 1..(n + 1) PROVE RowDone(html, at, r, q.rows[r])
    <3>1. r \in 1..n \/ r = n + 1
      OBVIOUS
    <3> QED BY <1>12, <2>2, <2>4, <3>1
  <2> QED BY <2>4, <2>5 DEF RowsDone
<1>14. OwesRow(html, at, (n + 1) + 1, q.pending)
  <2>1. (n + 1) + 1 = n + 2
    OBVIOUS
  <2> QED BY <1>2, <1>5, <2>1
<1>15. BetweenRows(html, at, n + 1, q)
  BY <1>6, <1>13, <1>14 DEF BetweenRows
<1> QED BY <1>15 DEF q

\* The parser's state stays one, whatever the cells are.
LEMMA CellsParsed ==
    ASSUME NEW V, NoCell \in V, NEW cells \in Seq(CellOf(V)), NEW start \in Parser(V), NEW R,
           start \in R[0],
           \A m \in 0..(Len(cells) - 1), p \in Parser(V) :
               p \in R[m] => EndCell(p, cells[m + 1]) \in R[m + 1]
    PROVE  FoldLeft(EndCell, start, cells) \in Parser(V) \cap R[Len(cells)]
<1> DEFINE S == Parser(V)
           E == CellOf(V)
           n == Len(cells)
           iter == CHOOSE g : g = [T \in SUBSET DOMAIN cells |->
                       IF T = {} THEN start
                       ELSE EndCell(g[T \ {Max(T)}], cells[Max(T)])]
           step == [x \in S \X E |-> EndCell(x[1], x[2])]
           result == FoldLeft(EndCell, start, cells)
<1>1. result = iter[DOMAIN cells]
  BY DEF FoldLeft, MapThenFoldSet
<1>2. n \in Nat /\ cells \in [1..n -> E] /\ DOMAIN cells = 1..n
  OBVIOUS
<1>3. ASSUME NEW p \in S, NEW c \in E PROVE EndCell(p, c) \in S
  BY EndCellIs DEF CellEnded
<1> HIDE DEF S, E, n
<1>4. step \in [S \X E -> S]
  BY <1>3
<1>5. PICK g \in [SUBSET (1..n) -> S] : Folds(g, n, start, step, cells)
  <2>1. start \in S
    BY DEF S
  <2> HIDE DEF step
  <2> QED BY <1>2, <1>4, <2>1, FoldExists DEF Foldable
<1>6. \A T \in SUBSET DOMAIN cells : T # {} =>
          step[<<g[T \ {Max(T)}], cells[Max(T)]>>] = EndCell(g[T \ {Max(T)}], cells[Max(T)])
  <2> SUFFICES ASSUME NEW T \in SUBSET DOMAIN cells, NEW i \in T
               PROVE  step[<<g[T \ {Max(T)}], cells[Max(T)]>>]
                          = EndCell(g[T \ {Max(T)}], cells[Max(T)])
    OBVIOUS
  <2>1. Max(T) \in T
    BY <1>2, MaxIn
  <2> QED BY <2>1, <1>2
<1>7. g = [T \in SUBSET DOMAIN cells |->
              IF T = {} THEN start ELSE EndCell(g[T \ {Max(T)}], cells[Max(T)])]
  <2> HIDE DEF step
  <2> QED BY <1>2, <1>5, <1>6 DEF Folds
<1>8. iter = [T \in SUBSET DOMAIN cells |->
                 IF T = {} THEN start ELSE EndCell(iter[T \ {Max(T)}], cells[Max(T)])]
  BY <1>7
<1> HIDE DEF iter
<1> DEFINE Q == [m \in 0..n |-> S \cap R[m]]
<1>9. ASSUME NEW m \in 0..(n - 1), iter[1..m] \in Q[m] PROVE iter[1..(m + 1)] \in Q[m + 1]
  <2> DEFINE U == 1..(m + 1)
  <2>1. /\ U \in SUBSET DOMAIN cells /\ U # {} /\ Max(U) = m + 1 /\ U \ {m + 1} = 1..m
        /\ cells[m + 1] \in E
    BY <1>2, Segment
  <2>2. m \in 0..n /\ m + 1 \in 0..n
    BY <1>2
  <2> HIDE DEF U
  <2>3. iter[U] = EndCell(iter[1..m], cells[m + 1])
    <3>1. iter[U] = EndCell(iter[U \ {Max(U)}], cells[Max(U)])
      BY <1>8, <2>1
    <3> QED BY <2>1, <3>1
  <2>4. iter[1..m] \in S /\ iter[1..m] \in R[m]
    BY <1>9, <2>2
  <2>5. EndCell(iter[1..m], cells[m + 1]) \in S
    BY <1>3, <2>1, <2>4
  <2>6. EndCell(iter[1..m], cells[m + 1]) \in R[m + 1]
    BY <2>4 DEF S, n
  <2> QED BY <2>2, <2>3, <2>5, <2>6 DEF U
<1>10. iter[{}] \in Q[0]
  <2>1. {} \in SUBSET DOMAIN cells /\ 0 \in 0..n
    BY <1>2
  <2> QED BY <1>8, <2>1 DEF S
<1> HIDE DEF Q
<1>11. iter[1..n] \in Q[n]
  BY <1>2, <1>9, <1>10, ReachedInTurn
<1>12. result \in S \cap R[n]
  BY <1>1, <1>2, <1>11 DEF Q
<1> QED BY <1>12 DEF S, n, result

\* A row takes a parser's state to another.
LEMMA ParseRowType ==
    ASSUME NEW V, NoCell \in V, Blank \in V, NEW p \in Parser(V), NEW cells \in Seq(CellOf(V))
    PROVE  ParseRow(p, cells) \in Parser(V)
<1> DEFINE R == [m \in Nat |-> Parser(V)]
           q == FoldLeft(EndCell, OpenRow(p), cells)
<1>1. \A m \in Nat : R[m] = Parser(V)
  OBVIOUS
<1>2. OpenRow(p) \in Parser(V)
  BY OpenRowIs
<1>3. OpenRow(p) \in R[0]
  BY <1>1, <1>2
<1>4. \A m \in 0..(Len(cells) - 1), s \in Parser(V) :
          s \in R[m] => EndCell(s, cells[m + 1]) \in R[m + 1]
  <2> TAKE m \in 0..(Len(cells) - 1), s \in Parser(V)
  <2>1. Len(cells) \in Nat /\ m + 1 \in Nat /\ cells[m + 1] \in CellOf(V)
    OBVIOUS
  <2>2. EndCell(s, cells[m + 1]) \in Parser(V)
    BY <2>1, EndCellIs DEF CellEnded
  <2> HIDE DEF R
  <2> QED BY <1>1, <2>1, <2>2
<1> HIDE DEF R
<1>5. q \in Parser(V)
  BY <1>2, <1>3, <1>4, CellsParsed
<1> HIDE DEF q
<1>6. CloseRow(q) \in Parser(V)
  BY <1>5, CloseRowIs
<1> QED BY <1>6 DEF ParseRow, q

\* It places its cells.
LEMMA RowParsed ==
    ASSUME NEW html, NEW V, Layable(html, V), NEW n \in Nat, n < Len(html),
           NEW p \in Parser(V), \E at : BetweenRows(html, at, n, p)
    PROVE  \E at : BetweenRows(html, at, n + 1, ParseRow(p, html[n + 1]))
<1> DEFINE cells == html[n + 1]
           R == [m \in 0..Len(cells) |-> {s \in Parser(V) : \E at : WithinRow(html, at, n, m, s)}]
           q == FoldLeft(EndCell, OpenRow(p), cells)
<1>1. cells \in Seq(CellOf(V)) /\ Len(cells) \in Nat /\ NoCell \in V /\ Blank \in V
  <2>1. html \in Seq(Seq(CellOf(V))) /\ n + 1 \in DOMAIN html /\ NoCell \in V /\ Blank \in V
    BY DEF Layable
  <2>2. cells \in Seq(CellOf(V))
    BY <2>1
  <2> HIDE DEF cells
  <2> QED BY <2>1, <2>2
<1>2. OpenRow(p) \in Parser(V)
  BY <1>1, OpenRowIs
<1>3. OpenRow(p) \in R[0]
  <2>1. \E at : WithinRow(html, at, n, 0, OpenRow(p))
    BY OpensRow
  <2> HIDE DEF cells
  <2> QED BY <1>1, <1>2, <2>1
<1>4. ASSUME NEW m \in 0..(Len(cells) - 1), NEW s \in Parser(V), s \in R[m]
      PROVE  EndCell(s, cells[m + 1]) \in R[m + 1]
  <2>1. m \in 0..Len(cells) /\ m + 1 \in 0..Len(cells) /\ m < Len(cells) /\ m \in Nat
    BY <1>1
  <2>2. PICK at : WithinRow(html, at, n, m, s)
    BY <1>4, <2>1
  <2>3. \E by : WithinRow(html, by, n, m + 1, EndCell(s, html[n + 1][m + 1]))
    BY <2>1, <2>2, EndsCell
  <2>4. cells[m + 1] \in CellOf(V)
    BY <1>1, <2>1
  <2>5. EndCell(s, cells[m + 1]) \in Parser(V)
    BY <1>1, <2>4, EndCellIs DEF CellEnded
  <2> QED BY <2>1, <2>3, <2>5
<1> HIDE DEF R
<1>5. q \in Parser(V) \cap R[Len(cells)]
  <2> HIDE DEF cells
  <2> QED BY <1>1, <1>2, <1>3, <1>4, CellsParsed
<1>6. PICK at : WithinRow(html, at, n, Len(cells), q)
  BY <1>1, <1>5 DEF R
<1>7. BetweenRows(html, at, n + 1, CloseRow(q))
  <2> HIDE DEF q
  <2> QED BY <1>5, <1>6, ClosesRow
<1> QED BY <1>7 DEF ParseRow

\* So a table is parsed row by row.
LEMMA TableParsed ==
    ASSUME NEW html, NEW V, Layable(html, V)
    PROVE  /\ Grid(html) \in Seq(Seq(V))
           /\ \E at, p : BetweenRows(html, at, Len(html), p) /\ p.rows = Grid(html)
<1> DEFINE S == Parser(V)
           E == Seq(CellOf(V))
           n == Len(html)
           R == [m \in 0..n |-> {s \in S : \E at : BetweenRows(html, at, m, s)}]
           iter == CHOOSE g : g = [T \in SUBSET DOMAIN html |->
                       IF T = {} THEN ParserStart
                       ELSE ParseRow(g[T \ {Max(T)}], html[Max(T)])]
           step == [x \in S \X E |-> ParseRow(x[1], x[2])]
           result == FoldLeft(ParseRow, ParserStart, html)
<1>1. result = iter[DOMAIN html]
  BY DEF FoldLeft, MapThenFoldSet
<1>2. n \in Nat /\ html \in [1..n -> E] /\ DOMAIN html = 1..n
  <2>1. html \in Seq(E)
    BY DEF Layable
  <2> HIDE DEF E
  <2> QED BY <2>1
<1>3. ASSUME NEW p \in S, NEW c \in E PROVE ParseRow(p, c) \in S
  BY ParseRowType DEF Layable
<1>4. ParserStart \in S
  <2>1. {} \in Columns
    <3>1. {} \in SUBSET (1..0) /\ 0 \in Nat
      OBVIOUS
    <3> QED BY <3>1 DEF Columns
  <2>2. << >> \in [{} -> [left : Int, text : V]]
    OBVIOUS
  <2>3. << >> \in Owed(V)
    BY <2>1, <2>2 DEF Owed
  <2>4. <<>> \in Seq(V) /\ <<>> \in Seq(Seq(V))
    OBVIOUS
  <2> QED BY <2>3, <2>4 DEF Parser, ParserStart
<1> HIDE DEF S, E, n
<1>5. step \in [S \X E -> S]
  BY <1>3
<1>6. PICK g \in [SUBSET (1..n) -> S] : Folds(g, n, ParserStart, step, html)
  <2> HIDE DEF step
  <2> QED BY <1>2, <1>4, <1>5, FoldExists DEF Foldable
<1>7. \A T \in SUBSET DOMAIN html : T # {} =>
          step[<<g[T \ {Max(T)}], html[Max(T)]>>] = ParseRow(g[T \ {Max(T)}], html[Max(T)])
  <2> SUFFICES ASSUME NEW T \in SUBSET DOMAIN html, NEW i \in T
               PROVE  step[<<g[T \ {Max(T)}], html[Max(T)]>>]
                          = ParseRow(g[T \ {Max(T)}], html[Max(T)])
    OBVIOUS
  <2>1. Max(T) \in T
    BY <1>2, MaxIn
  <2> QED BY <2>1, <1>2
<1>8. g = [T \in SUBSET DOMAIN html |->
              IF T = {} THEN ParserStart ELSE ParseRow(g[T \ {Max(T)}], html[Max(T)])]
  <2> HIDE DEF step
  <2> QED BY <1>2, <1>6, <1>7 DEF Folds
<1>9. iter = [T \in SUBSET DOMAIN html |->
                 IF T = {} THEN ParserStart ELSE ParseRow(iter[T \ {Max(T)}], html[Max(T)])]
  BY <1>8
<1> HIDE DEF iter
<1>10. ASSUME NEW m \in 0..(n - 1), iter[1..m] \in R[m] PROVE iter[1..(m + 1)] \in R[m + 1]
  <2> DEFINE U == 1..(m + 1)
  <2>1. /\ U \in SUBSET DOMAIN html /\ U # {} /\ Max(U) = m + 1 /\ U \ {m + 1} = 1..m
        /\ html[m + 1] \in E
    BY <1>2, Segment
  <2>2. m \in 0..n /\ m + 1 \in 0..n /\ m \in Nat /\ m < n
    BY <1>2
  <2> HIDE DEF U
  <2>3. iter[U] = ParseRow(iter[1..m], html[m + 1])
    <3>1. iter[U] = ParseRow(iter[U \ {Max(U)}], html[Max(U)])
      BY <1>9, <2>1
    <3> QED BY <2>1, <3>1
  <2> DEFINE s == iter[1..m]
  <2>4. s \in S /\ \E at : BetweenRows(html, at, m, s)
    BY <1>10, <2>2
  <2> HIDE DEF s
  <2>5. \E at : BetweenRows(html, at, m + 1, ParseRow(s, html[m + 1]))
    BY <2>2, <2>4, RowParsed DEF S, n
  <2>6. ParseRow(s, html[m + 1]) \in S
    BY <1>3, <2>1, <2>4
  <2> QED BY <2>2, <2>3, <2>5, <2>6 DEF U, s
<1>11. iter[{}] \in R[0]
  <2>1. {} \in SUBSET DOMAIN html /\ 0 \in 0..n
    BY <1>2
  <2>2. \E at : BetweenRows(html, at, 0, ParserStart)
    BY NothingPlaced
  <2> QED BY <1>4, <1>9, <2>1, <2>2
<1> HIDE DEF R
<1>12. iter[1..n] \in R[n]
  BY <1>2, <1>10, <1>11, ReachedInTurn
<1>13. result \in S /\ \E at : BetweenRows(html, at, n, result)
  BY <1>1, <1>2, <1>12 DEF R
<1> HIDE DEF result
<1>14. Grid(html) = result.rows
  BY DEF Grid, result
<1> QED BY <1>13, <1>14 DEF S, n, Parser

-----------------------------------------------------------------------------
(* Where the cells show. *)

\* A table has cells of some texts.
LEMMA TableLayable ==
    ASSUME NEW html, IsTable(html), PlainTable(html)
    PROVE  \E V : Layable(html, V)
<1> DEFINE Texts(r) == {html[r][k].text : k \in DOMAIN html[r]}
           V == {NoCell, Blank} \union UNION {Texts(r) : r \in DOMAIN html}
           C == CellOf(V)
<1>1. /\ Len(html) \in Nat /\ DOMAIN html = 1..Len(html)
      /\ html = [r \in 1..Len(html) |-> html[r]]
  <2>1. Sequence(html)
    BY DEF IsTable
  <2>2. html \in Seq({html[r] : r \in DOMAIN html})
    BY <2>1 DEF Sequence
  <2> QED BY <2>2
<1>2. ASSUME NEW r \in DOMAIN html PROVE html[r] \in Seq(C)
  <2> DEFINE row == html[r]
  <2>1. /\ Sequence(row)
        /\ \A k \in DOMAIN row :
              row[k] \in [text : {row[k].text}, cols : Nat \ {0}, rows : Nat \ {0}]
    BY DEF IsTable
  <2>2. \A k \in DOMAIN row : row[k].text \in V
    OBVIOUS
  <2> HIDE DEF V, row
  <2>3. \A k \in DOMAIN row : row[k] \in C
    BY <2>1, <2>2 DEF CellOf
  <2>4. /\ Len(row) \in Nat /\ DOMAIN row = 1..Len(row)
        /\ row = [k \in 1..Len(row) |-> row[k]]
    <3>1. row \in Seq({row[k] : k \in DOMAIN row})
      BY <2>1 DEF Sequence
    <3> QED BY <3>1
  <2> HIDE DEF C
  <2>5. row \in Seq(C)
    BY <2>3, <2>4, IsSequence
  <2> QED BY <2>5 DEF row
<1>3. NoCell \in V /\ Blank \in V
  OBVIOUS
<1>4. \A r \in DOMAIN html : \A k \in DOMAIN html[r] : html[r][k].text # NoCell
  BY DEF IsTable
<1> DEFINE S == Seq(C)
<1>5. \A r \in 1..Len(html) : html[r] \in S
  BY <1>1, <1>2
<1> HIDE DEF S
<1>6. html \in Seq(S)
  BY <1>1, <1>5, IsSequence
<1> HIDE DEF V
<1>7. Layable(html, V)
  BY <1>3, <1>4, <1>6 DEF Layable, S
<1> QED BY <1>7

\* A cell shows where it covers and nowhere else.
LEMMA CellShown ==
    ASSUME NEW html, NEW V, Layable(html, V), NEW grid \in Seq(Seq(V)), NEW at,
           Placement(html, at, Len(html), 0), RowsDone(html, at, Len(html), grid),
           NEW x \in DOMAIN at
    PROVE  Shown(grid, CellAt(html, x).text)
               = (x[1]..Lo(x[1] + CellAt(html, x).rows - 1, Len(html)))
                     \X (at[x]..(at[x] + CellAt(html, x).cols - 1))
<1> DEFINE n == Len(html)
           cell == CellAt(html, x)
           last == Lo(x[1] + cell.rows - 1, n)
           span == (x[1]..last) \X (at[x]..(at[x] + cell.cols - 1))
<1>1. /\ n \in Nat /\ DOMAIN at = CellsTo(html, n, 0) /\ DOMAIN grid = 1..n
      /\ \A r \in 1..n : ShowsRow(html, at, r, grid[r], Blank)
  <2>1. html \in Seq(Seq(CellOf(V)))
    BY DEF Layable
  <2>2. n \in Nat
    BY <2>1
  <2>3. Len(grid) = n /\ \A r \in 1..n : ShowsRow(html, at, r, grid[r], Blank)
    BY DEF RowsDone, RowDone
  <2> QED BY <2>2, <2>3 DEF Placement
<1>2. ASSUME NEW y \in DOMAIN at
      PROVE  /\ y[1] \in 1..n /\ y = <<y[1], y[2]>> /\ y[2] \in DOMAIN html[y[1]]
             /\ y[1] \in DOMAIN html
             /\ CellAt(html, y).rows \in Nat \ {0} /\ CellAt(html, y).cols \in Nat \ {0}
             /\ CellAt(html, y).text # Blank
             /\ at[y] \in Nat \ {0}
  <2>1. y \in CellsTo(html, n, 0)
    BY <1>1
  <2>2. at[y] \in Nat \ {0}
    BY <2>1 DEF Placement
  <2>3. /\ y[1] \in Nat \ {0} /\ y = <<y[1], y[2]>> /\ y[2] \in DOMAIN html[y[1]]
        /\ y[1] \in DOMAIN html /\ (y[1] <= n \/ (y[1] = n + 1 /\ y[2] <= 0))
        /\ CellAt(html, y).rows \in Nat \ {0} /\ CellAt(html, y).cols \in Nat \ {0}
        /\ CellAt(html, y).text # Blank /\ y[2] \in Nat \ {0}
    BY <1>1, <2>1, CellFacts
  <2> QED BY <1>1, <2>2, <2>3
<1>3. ASSUME NEW q \in 1..n, NEW c \in Nat
      PROVE  <<q, c>> \in span <=> Covers(html, at, x, q, c)
  <2>1. <<q, c>> \in span <=> /\ x[1] <= q /\ q <= last
                              /\ at[x] <= c /\ c <= at[x] + cell.cols - 1
    <3>1. x[1] \in Nat /\ at[x] \in Nat /\ cell.cols \in Nat /\ last \in Int
      BY <1>1, <1>2 DEF Lo
    <3> HIDE DEF last, cell
    <3> QED BY <3>1
  <2>2. q <= last <=> q < x[1] + cell.rows
    BY <1>1, <1>2 DEF Lo
  <2>3. c <= at[x] + cell.cols - 1 <=> c < at[x] + cell.cols
    BY <1>2
  <2> HIDE DEF span, last
  <2> QED BY <2>1, <2>2, <2>3 DEF Covers
<1>4. ASSUME NEW r \in 1..n PROVE DOMAIN grid[r] \subseteq Nat
  <2>1. grid[r] \in Seq(V)
    BY <1>1
  <2> QED BY <2>1
<1>5. ASSUME NEW p \in Shown(grid, cell.text) PROVE p \in span
  <2>1. PICK r \in DOMAIN grid : p \in {r} \X DOMAIN grid[r]
    BY DEF Shown
  <2>2. PICK c \in DOMAIN grid[r] : p = <<r, c>>
    BY <2>1
  <2>3. grid[r][c] = cell.text /\ cell.text # Blank
    BY <1>2, <2>2 DEF Shown
  <2>4. PICK y \in DOMAIN at : Covers(html, at, y, r, c) /\ grid[r][c] = CellAt(html, y).text
    <3>1. ShowsRow(html, at, r, grid[r], Blank)
      BY <1>1
    <3> HIDE DEF cell
    <3> QED BY <2>3, <3>1 DEF ShowsRow
  <2>5. x[1] = y[1] /\ x[2] = y[2]
    <3>1. \A r1, r2 \in DOMAIN html : \A k1 \in DOMAIN html[r1], k2 \in DOMAIN html[r2] :
              html[r1][k1].text = html[r2][k2].text => r1 = r2 /\ k1 = k2
      BY DEF Layable, PlainTable
    <3>2. html[x[1]][x[2]].text = html[y[1]][y[2]].text
      BY <2>3, <2>4 DEF CellAt
    <3> QED BY <1>2, <3>1, <3>2
  <2>6. x = y
    BY <1>2, <2>5
  <2> HIDE DEF span
  <2> QED BY <1>1, <1>3, <1>4, <2>2, <2>4, <2>6
<1>6. ASSUME NEW p \in span PROVE p \in Shown(grid, cell.text)
  <2>1. /\ p = <<p[1], p[2]>> /\ p[1] \in x[1]..last
        /\ p[2] \in at[x]..(at[x] + cell.cols - 1)
    OBVIOUS
  <2>2. last \in Int /\ last <= n
    BY <1>1, <1>2 DEF Lo
  <2>3. p[1] \in 1..n /\ p[2] \in Nat
    <3> HIDE DEF last, span
    <3> QED BY <1>1, <1>2, <2>1, <2>2
  <2> HIDE DEF span
  <2>4. Covers(html, at, x, p[1], p[2])
    BY <1>3, <2>1, <2>3
  <2>5. p[2] \in DOMAIN grid[p[1]] /\ grid[p[1]][p[2]] = cell.text
    BY <1>1, <2>3, <2>4 DEF ShowsRow
  <2>6. p \in {p[1]} \X DOMAIN grid[p[1]] /\ p[1] \in DOMAIN grid
    BY <1>1, <2>1, <2>3, <2>5
  <2> QED BY <2>5, <2>6 DEF Shown
<1> QED BY <1>5, <1>6

\* what CellsInPlace says of a table and its grid
TableInPlace(html, grid) ==
    /\ Len(grid) = Len(html)
    /\ \A r \in DOMAIN html : \A k \in DOMAIN html[r] : InPlace(html, grid, r, k)

\* Every cell of a table is in its place.
LEMMA GridInPlace ==
    ASSUME NEW html, IsTable(html), PlainTable(html)
    PROVE  TableInPlace(html, Grid(html))
<1> DEFINE grid == Grid(html)
           n == Len(html)
<1>1. PICK V : Layable(html, V)
  BY TableLayable
<1>2. grid \in Seq(Seq(V)) /\ \E at, p : BetweenRows(html, at, n, p) /\ p.rows = grid
  BY <1>1, TableParsed
<1> HIDE DEF grid
<1>3. PICK at : Placement(html, at, n, 0) /\ RowsDone(html, at, n, grid)
  BY <1>2 DEF BetweenRows
<1>4. Len(grid) = n
  BY <1>3 DEF RowsDone
<1>5. ASSUME NEW r \in DOMAIN html, NEW k \in DOMAIN html[r]
      PROVE  InPlace(html, grid, r, k)
  <2> DEFINE x == <<r, k>>
             cell == html[r][k]
             c == at[x]
             last == Lo(r + cell.rows - 1, n)
  <2>1. /\ n \in Nat /\ DOMAIN html = 1..n /\ html[r] \in Seq(CellOf(V))
    <3>1. html \in Seq(Seq(CellOf(V)))
      BY <1>1 DEF Layable
    <3> QED BY <3>1
  <2>2. r \in 1..n /\ DOMAIN html[r] = 1..Len(html[r]) /\ Len(html[r]) \in Nat /\ k \in Nat
    BY <2>1
  <2>3. ASSUME NEW j \in DOMAIN html[r]
        PROVE  /\ <<r, j>> \in DOMAIN at /\ at[<<r, j>>] \in Nat \ {0}
               /\ Shown(grid, html[r][j].text)
                      = (r..Lo(r + html[r][j].rows - 1, n))
                            \X (at[<<r, j>>]..(at[<<r, j>>] + html[r][j].cols - 1))
               /\ html[r][j].rows \in Nat \ {0} /\ html[r][j].cols \in Nat \ {0}
    <3> DEFINE y == <<r, j>>
    <3>1. y \in CellsTo(html, n, 0)
      BY <2>2 DEF CellsTo
    <3>2. y \in DOMAIN at /\ at[y] \in Nat \ {0}
      BY <1>3, <3>1 DEF Placement
    <3>3. CellAt(html, y) = html[r][j] /\ y[1] = r
      BY DEF CellAt
    <3> HIDE DEF y
    <3>4. Shown(grid, CellAt(html, y).text)
              = (y[1]..Lo(y[1] + CellAt(html, y).rows - 1, n))
                    \X (at[y]..(at[y] + CellAt(html, y).cols - 1))
      BY <1>1, <1>2, <1>3, <3>2, CellShown
    <3>5. CellAt(html, y).rows \in Nat \ {0} /\ CellAt(html, y).cols \in Nat \ {0}
      BY <1>1, <2>1, <3>1, CellFacts
    <3> QED BY <3>2, <3>3, <3>4, <3>5 DEF y
  <2>4. RowDone(html, at, r, grid[r])
    BY <1>3, <2>2 DEF RowsDone
  <2>5. c \in DOMAIN grid[r]
    <3>1. Covers(html, at, x, r, c)
      BY <2>2, <2>3 DEF Covers, CellAt
    <3> QED BY <2>3, <2>4, <3>1 DEF RowDone, ShowsRow
  <2>6. Shown(grid, cell.text) = (r..last) \X (c..(c + cell.cols - 1))
    BY <2>3
  <2>7. ASSUME NEW j \in 1..(k - 1), NEW z \in Shown(grid, html[r][j].text) PROVE z[2] < c
    <3>1. j \in DOMAIN html[r] /\ j \in 1..Len(html[r]) /\ k \in 1..Len(html[r]) /\ j < k
      BY <2>2
    <3>2. at[<<r, j>>] + html[r][j].cols <= c
      BY <2>4, <3>1 DEF RowDone, CellsInTurn
    <3>3. z[2] \in at[<<r, j>>]..(at[<<r, j>>] + html[r][j].cols - 1)
      <4>1. z \in (r..Lo(r + html[r][j].rows - 1, n))
                     \X (at[<<r, j>>]..(at[<<r, j>>] + html[r][j].cols - 1))
        BY <2>3, <3>1
      <4> QED BY <4>1
    <3>4. at[<<r, j>>] \in Nat /\ html[r][j].cols \in Nat /\ c \in Nat
      BY <2>3, <3>1
    <3> HIDE DEF c
    <3> QED BY <3>2, <3>3, <3>4
  <2>8. \A d \in 1..(c - 1) : grid[r][d] # Blank
    BY <2>4 DEF RowDone
  <2> HIDE DEF c, last
  <2> QED BY <2>5, <2>6, <2>7, <2>8 DEF InPlace, last
<1>6. TableInPlace(html, grid)
  BY <1>4, <1>5 DEF TableInPlace
<1> QED BY <1>6 DEF grid

(***************************************************************************)
(* On the grid that a table's text is made from, every cell takes the      *)
(* columns and rows that its spans name, in its own row and right of the   *)
(* cells before it, for tables of any size with any spans.                 *)
(***************************************************************************)
THEOREM CellsAlwaysInPlace == Spec => []CellsInPlace
<1>1. ASSUME TextInv PROVE CellsInPlace
  <2> SUFFICES ASSUME NEW i \in DOMAIN document,
                      NEW html \in {document[i].printed.wired, document[i].printed.wireless},
                      PlainTable(html), document[i].text.grid = Grid(html)
               PROVE  TableInPlace(html, document[i].text.grid)
    BY DEF CellsInPlace, TableInPlace
  <2>1. IsTable(html)
    BY <1>1 DEF TextInv, AllTyped, Typed, IsPrinted
  <2> QED BY <2>1, GridInPlace
<1> QED BY <1>1, ExtractionInvariant, TextInit, TextNext, PTL DEF Spec
=============================================================================
