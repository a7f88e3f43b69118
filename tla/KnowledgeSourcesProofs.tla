------------------------ MODULE KnowledgeSourcesProofs ------------------------
(***************************************************************************)
(* Theorems about TextEmbedding, for any text and limits; about             *)
(* KnowledgeIndexing, for any attempts, batches, versions, models, days and *)
(* faults; and about SourceIntake, for any notes, texts, requests, edits    *)
(* and commits.                                                            *)
(*                                                                         *)
(* Of a text: every cut advances by a known stretch (CutEndFacts), from     *)
(* which the chunks cover it; the batches are runs of consecutive chunks    *)
(* that follow one another (Chain), from which the vectors come in the      *)
(* order of the chunks.                                                    *)
(***************************************************************************)
EXTENDS TextEmbedding, KnowledgeIndexing, SourceIntake, WellFoundedInduction, SequenceTheorems, TLAPS

\* A nonempty set of naturals has a least element.
LEMMA LeastNatural ==
    ASSUME NEW T, T \subseteq Nat, T # {} PROVE \E x \in T : \A y \in T : x <= y
<1>1. IsWellFoundedOn(OpToRel(<, Nat), Nat)
  BY NatLessThanWellFounded
<1>2. PICK x \in T : \A y \in T : <<y, x>> \notin OpToRel(<, Nat)
  BY <1>1, WFMin
<1>3. ASSUME NEW y \in T PROVE x <= y
  <2>1. <<y, x>> \in Nat \X Nat
    BY <1>3
  <2>2. ~(y < x)
    BY <1>2, <2>1 DEF OpToRel
  <2> QED
    BY <2>1, <2>2
<1> QED
  BY <1>3

-----------------------------------------------------------------------------
(* Cutting *)

\* A set of places within bounds that is not empty has a last one.
LEMMA LastExists ==
    ASSUME NEW low \in Int, NEW high \in Int, NEW S \in SUBSET (low .. high), S # {}
    PROVE  Last(S) \in S /\ \A x \in S : x <= Last(S)
<1> DEFINE T == {high - x : x \in S}
<1>1. T \in SUBSET Nat /\ T # {}
  OBVIOUS
<1>2. PICK n \in T : \A m \in T : n <= m
  <2> HIDE DEF T
  <2> QED BY <1>1, LeastNatural
<1>3. PICK x \in S : n = high - x
  BY <1>2
<1>4. \A y \in S : y <= x
  <2> TAKE y \in S
  <2>1. high - y \in T
    OBVIOUS
  <2>2. n <= high - y
    BY <2>1, <1>2
  <2> QED BY <2>2, <1>3
<1> QED BY <1>4 DEF Last

TextOK == text \in Seq(Kinds)

\* A cut ends after its start and within reach of it; when text is left, it ends further
\* than the overlap and within the lookback of the longest chunk.
LEMMA CutEndFacts ==
    ASSUME TextOK, NEW s \in Nat, s < Len(text)
    PROVE  /\ CutEnd(s) \in Nat /\ s < CutEnd(s) /\ CutEnd(s) <= Len(text)
           /\ CutEnd(s) <= s + ChunkMax
           /\ CutEnd(s) < Len(text) =>
                 s + Overlap < CutEnd(s) /\ s + ChunkMax - Lookback <= CutEnd(s)
<1> USE EmbeddingAssumption
<1>l. Len(text) \in Nat
  BY DEF TextOK
<1> DEFINE c == IF s + ChunkMax < Len(text) THEN s + ChunkMax ELSE Len(text)
           f == IF s + 1 > c - Lookback THEN s + 1 ELSE c - Lookback
           P == ParagraphEnds(f, c)
           B == BlankEnds(f, c)
<1>c. c \in Nat /\ s < c /\ c <= Len(text) /\ c <= s + ChunkMax
      /\ (c < Len(text) => c = s + ChunkMax)
  BY <1>l
<1>f. f \in Nat /\ f >= s + 1 /\ f >= c - Lookback
  BY <1>c
<1> HIDE DEF c, f
<1>s. P \in SUBSET (f .. c) /\ B \in SUBSET (f .. c)
  <2>1. \A b \in f + 2 .. c : b \in f .. c
    BY <1>c, <1>f
  <2>2. \A b \in f + 1 .. c : b \in f .. c
    BY <1>c, <1>f
  <2> QED BY <2>1, <2>2 DEF ParagraphEnds, BlankEnds
<1> HIDE DEF P, B
<1>p. P # {} => Last(P) \in f .. c
  <2> SUFFICES ASSUME P # {} PROVE Last(P) \in f .. c
    OBVIOUS
  <2>1. f \in Int /\ c \in Int
    BY <1>c, <1>f
  <2>2. Last(P) \in P
    BY ONLY <2>1, <1>s, P # {}, LastExists
  <2> QED BY <2>2, <1>s
<1>b. B # {} => Last(B) \in f .. c
  <2> SUFFICES ASSUME B # {} PROVE Last(B) \in f .. c
    OBVIOUS
  <2>1. f \in Int /\ c \in Int
    BY <1>c, <1>f
  <2>2. Last(B) \in B
    BY ONLY <2>1, <1>s, B # {}, LastExists
  <2> QED BY <2>2, <1>s
<1>e. ChooseEnd(s, c) = IF c = Len(text) THEN c
                        ELSE IF P # {} /\ Last(P) > s + Overlap THEN Last(P)
                        ELSE IF B # {} /\ Last(B) > s + Overlap THEN Last(B)
                        ELSE c
  BY DEF ChooseEnd, f, P, B
<1>u. CutEnd(s) = IF ChooseEnd(s, c) <= s THEN c ELSE ChooseEnd(s, c)
  BY DEF CutEnd, c
<1>1. CASE c = Len(text)
  BY <1>1, <1>c, <1>e, <1>u, <1>l
<1>2. CASE c # Len(text) /\ P # {} /\ Last(P) > s + Overlap
  BY <1>2, <1>c, <1>e, <1>u, <1>l, <1>f, <1>p
<1>3. CASE c # Len(text) /\ ~(P # {} /\ Last(P) > s + Overlap) /\ B # {} /\ Last(B) > s + Overlap
  BY <1>3, <1>c, <1>e, <1>u, <1>l, <1>f, <1>b
<1>4. CASE /\ c # Len(text) /\ ~(P # {} /\ Last(P) > s + Overlap)
           /\ ~(B # {} /\ Last(B) > s + Overlap)
  BY <1>4, <1>c, <1>e, <1>u, <1>l, <1>f
<1> QED BY <1>1, <1>2, <1>3, <1>4

-----------------------------------------------------------------------------
(* Invariants *)

Chunks == {c \in [from : Nat, to : Nat] : c.from < c.to /\ c.to <= Len(text)}

ChunksOK == start \in Nat /\ chunks \in Seq(Chunks)
BatchesOK == batches \in Seq(Seq(Nat)) /\ current \in Seq(Nat) /\ room \in Nat /\ taken \in Nat
VectorsOK == vectors \in Seq(Nat)
AtOK ==
    /\ provider \in {"openai", "gemini"}
    /\ stage \in {"cut", "batch", "embed", "done", "invalid_content", "unequal",
               "embedding_input_too_large", "invalid_embedding", "provider_failed"}

Covered(p) == \E k \in 1..Len(chunks) : p \in chunks[k].from + 1 .. chunks[k].to

\* While the text is cut, no word before the next start is lost; then none at all is.
CutInv ==
    /\ stage = "cut" =>
          /\ start < Len(text)
          /\ \A p \in 1..start : ~Blank(p) => Covered(p)
          /\ chunks # <<>> =>
                LET c == chunks[Len(chunks)]
                IN  /\ c.to <= start + Overlap /\ c.to < Len(text)
                    /\ c.from + (ChunkMax - Lookback - Overlap) <= start
    /\ stage # "cut" => \A p \in 1..Len(text) : ~Blank(p) => Covered(p)
    /\ ChunksAdvance

\* A batch of consecutive chunks, batches that follow one another from a first chunk, and
\* the chunk after them.
Run(batch) ==
    batch # <<>> /\ \A i \in 1..Len(batch) : batch[i] = batch[1] + i - 1
Chain(first, bs) ==
    \A j \in 1..Len(bs) :
        /\ Run(bs[j])
        /\ bs[j][1] = IF j = 1 THEN first ELSE bs[j - 1][1] + Len(bs[j - 1])
After(first, bs) == IF bs = <<>> THEN first ELSE bs[Len(bs)][1] + Len(bs[Len(bs)])

GroupInv ==
    /\ stage = "cut" => batches = <<>> /\ current = <<>> /\ taken = 0 /\ vectors = <<>>
    /\ stage = "batch" =>
          /\ vectors = <<>> /\ taken <= Len(chunks)
          /\ Chain(1, batches)
          /\ current = <<>> => taken = 0 /\ batches = <<>>
          /\ current # <<>> =>
                Run(current) /\ current[1] = After(1, batches)
                /\ taken = current[1] + Len(current) - 1
    /\ stage = "embed" =>
          /\ Chain(Len(vectors) + 1, batches)
          /\ After(Len(vectors) + 1, batches) = Len(chunks) + 1
    /\ stage = "done" => Len(vectors) = Len(chunks)
    /\ \A k \in 1..Len(vectors) : vectors[k] = k

TextInv == TextOK /\ ChunksOK /\ BatchesOK /\ VectorsOK /\ AtOK /\ CutInv /\ GroupInv

-----------------------------------------------------------------------------
(* Covering *)

\* A place that is covered stays so when chunks are added.
LEMMA CoveredStays ==
    ASSUME ChunksOK, NEW more \in Seq(Chunks), chunks' = chunks \o more, text' = text,
           NEW p \in Nat, Covered(p)
    PROVE  Covered(p)'
<1>1. PICK k \in 1..Len(chunks) : p \in chunks[k].from + 1 .. chunks[k].to
  BY DEF Covered
<1>2. k \in 1..Len(chunks') /\ chunks'[k] = chunks[k]
  BY DEF ChunksOK
<1> QED BY <1>1, <1>2 DEF Covered

\* A turn of the loop: what it keeps, and what it covers.
LEMMA KeptFacts ==
    ASSUME TextOK, ChunksOK, NEW s \in Nat, NEW e \in Nat, s < e, e <= Len(text)
    PROVE  /\ Kept(s, e) \in Seq(Chunks)
           /\ Kept(s, e) = <<>> \/ Kept(s, e) = <<[from |-> s, to |-> e]>>
           /\ \A p \in s + 1 .. e : ~Blank(p) => Kept(s, e) = <<[from |-> s, to |-> e]>>
<1>1. [from |-> s, to |-> e] \in Chunks
  BY DEF Chunks
<1>2. <<[from |-> s, to |-> e]>> \in Seq(Chunks) /\ <<>> \in Seq(Chunks)
  BY <1>1
<1> QED BY <1>2 DEF Kept

LEMMA CutKeeps ==
    ASSUME TextInv, Cut
    PROVE  ChunksOK' /\ CutInv'
<1> USE EmbeddingAssumption
<1> DEFINE e == CutEnd(start)
           c == [from |-> start, to |-> e]
<1>a. stage = "cut" /\ start < Len(text) /\ start \in Nat /\ text' = text /\ Len(text) \in Nat
  BY DEF TextInv, Cut, CutInv, ChunksOK, TextOK
<1>b. /\ e \in Nat /\ start < e /\ e <= Len(text) /\ e <= start + ChunkMax
      /\ (e < Len(text) => start + Overlap < e /\ start + ChunkMax - Lookback <= e)
  BY <1>a, CutEndFacts DEF TextInv
<1> HIDE DEF e
<1>c. /\ Kept(start, e) \in Seq(Chunks)
      /\ Kept(start, e) = <<>> \/ Kept(start, e) = <<c>>
      /\ \A p \in start + 1 .. e : ~Blank(p) => Kept(start, e) = <<c>>
  BY <1>a, <1>b, KeptFacts DEF TextInv
<1>d. /\ chunks' = chunks \o Kept(start, e)
      /\ start' = IF e >= Len(text) THEN start ELSE NextStart(start, e)
      /\ stage' = IF e < Len(text) THEN "cut" ELSE IF chunks' = <<>> THEN "invalid_content" ELSE "batch"
  BY DEF Cut, e
<1>e. chunks \in Seq(Chunks) /\ c \in [from : Nat, to : Nat]
  BY <1>a, <1>b DEF TextInv, ChunksOK
<1>n. /\ e < Len(text) => start' = e - Overlap /\ start' >= start + (ChunkMax - Lookback - Overlap)
      /\ start' \in Nat
  BY <1>a, <1>b, <1>d DEF NextStart
<1>1. ChunksOK'
  <2>1. chunks' \in Seq(Chunks)
    BY <1>c, <1>d, <1>e
  <2>2. Chunks' = Chunks
    BY <1>a DEF Chunks
  <2> QED BY <2>1, <2>2, <1>n DEF ChunksOK
<1>2. ASSUME NEW p \in 1..e, ~Blank(p)
      PROVE  Covered(p)'
  <2>1. CASE p \in 1..start
    <3>1. Covered(p)
      BY <2>1, <1>2, <1>a DEF TextInv, CutInv
    <3> QED BY <3>1, <1>c, <1>d, <1>a, CoveredStays DEF TextInv
  <2>2. CASE p \in start + 1 .. e
    <3>1. chunks' = chunks \o <<c>>
      BY <2>2, <1>2, <1>c, <1>d
    <3>2. Len(chunks') = Len(chunks) + 1 /\ chunks'[Len(chunks) + 1] = c
      BY <3>1, <1>e
    <3>3. Len(chunks) + 1 \in 1..Len(chunks')
      BY <3>2, <1>e
    <3>4. p \in chunks'[Len(chunks) + 1].from + 1 .. chunks'[Len(chunks) + 1].to
      BY <3>2, <2>2
    <3> QED BY <3>3, <3>4 DEF Covered
  <2> QED BY <2>1, <2>2, <1>a, <1>b
<1>3. ASSUME e < Len(text)
      PROVE  \A p \in 1..start' : ~Blank(p)' => Covered(p)'
  <2> TAKE p \in 1..start'
  <2>1. p \in 1..e
    BY <1>3, <1>n, <1>a, <1>b
  <2>2. Blank(p)' <=> Blank(p)
    BY <1>a DEF Blank
  <2> QED BY <2>1, <2>2, <1>2
<1>4. ASSUME ~(e < Len(text))
      PROVE  \A p \in 1..Len(text)' : ~Blank(p)' => Covered(p)'
  <2> TAKE p \in 1..Len(text)'
  <2>1. p \in 1..e
    BY <1>4, <1>a, <1>b
  <2>2. Blank(p)' <=> Blank(p)
    BY <1>a DEF Blank
  <2> QED BY <2>1, <2>2, <1>2
<1>5. CASE Kept(start, e) = <<>>
  <2>1. chunks' = chunks
    BY <1>5, <1>d, <1>e
  <2>2. ChunksAdvance'
    BY <2>1, <1>a DEF ChunksAdvance, TextInv, CutInv
  <2>3. ASSUME e < Len(text), chunks # <<>>
        PROVE  /\ chunks[Len(chunks)].to <= start' + Overlap /\ chunks[Len(chunks)].to < Len(text)
               /\ chunks[Len(chunks)].from + (ChunkMax - Lookback - Overlap) <= start'
    <3>1. chunks[Len(chunks)] \in Chunks
      BY <2>3, <1>e
    <3>2. /\ chunks[Len(chunks)].to <= start + Overlap /\ chunks[Len(chunks)].to < Len(text)
          /\ chunks[Len(chunks)].from + (ChunkMax - Lookback - Overlap) <= start
      BY <2>3, <1>a DEF TextInv, CutInv
    <3> QED BY <3>1, <3>2, <2>3, <1>a, <1>n DEF Chunks
  <2>4. ASSUME stage' = "cut"
        PROVE  /\ start' < Len(text)'
               /\ \A p \in 1..start' : ~Blank(p)' => Covered(p)'
               /\ chunks' # <<>> =>
                     LET l == chunks'[Len(chunks')]
                     IN  /\ l.to <= start' + Overlap /\ l.to < Len(text)'
                         /\ l.from + (ChunkMax - Lookback - Overlap) <= start'
    <3>1. e < Len(text)
      BY <2>4, <1>d
    <3>2. start' < Len(text)'
      BY <3>1, <1>a, <1>b, <1>n
    <3> QED BY <3>1, <3>2, <2>1, <2>3, <1>3, <1>a
  <2>5. stage' # "cut" => \A p \in 1..Len(text)' : ~Blank(p)' => Covered(p)'
    BY <1>4, <1>d
  <2> QED BY <1>1, <2>2, <2>4, <2>5 DEF CutInv
<1>6. CASE Kept(start, e) = <<c>>
  <2>1. chunks' = chunks \o <<c>> /\ Len(chunks') = Len(chunks) + 1
        /\ chunks'[Len(chunks) + 1] = c /\ \A k \in 1..Len(chunks) : chunks'[k] = chunks[k]
    BY <1>6, <1>d, <1>e
  <2>2. ChunksAdvance'
    <3> SUFFICES ASSUME NEW k \in 1..Len(chunks') - 1
                 PROVE  /\ chunks'[k].to - chunks'[k + 1].from <= Overlap
                        /\ chunks'[k + 1].from - chunks'[k].from >= ChunkMax - Lookback - Overlap
                        /\ chunks'[k].to < chunks'[k + 1].to
      BY DEF ChunksAdvance
    <3>1. CASE k < Len(chunks)
      <4>1. k \in 1..Len(chunks) - 1 /\ chunks'[k] = chunks[k] /\ chunks'[k + 1] = chunks[k + 1]
        BY <3>1, <2>1, <1>e
      <4> QED BY <4>1 DEF TextInv, CutInv, ChunksAdvance
    <3>2. CASE k = Len(chunks)
      <4>1. chunks # <<>> /\ chunks'[k] = chunks[Len(chunks)] /\ chunks'[k + 1] = c
        BY <3>2, <2>1, <1>e
      <4>2. chunks[Len(chunks)] \in Chunks
        BY <4>1, <1>e
      <4>3. /\ chunks[Len(chunks)].to <= start + Overlap /\ chunks[Len(chunks)].to < Len(text)
            /\ chunks[Len(chunks)].from + (ChunkMax - Lookback - Overlap) <= start
        BY <4>1, <1>a DEF TextInv, CutInv
      <4> DEFINE l == chunks[Len(chunks)]
      <4>4. /\ l.to \in Nat /\ l.from \in Nat
            /\ l.to <= start + Overlap /\ l.to < Len(text)
            /\ l.from + (ChunkMax - Lookback - Overlap) <= start
        BY <4>2, <4>3 DEF Chunks
      <4> HIDE DEF l
      <4>5. l.to - start <= Overlap /\ start - l.from >= ChunkMax - Lookback - Overlap /\ l.to < e
        BY <4>4, <1>a, <1>b
      <4>6. c.from = start /\ c.to = e
        OBVIOUS
      <4> QED BY <4>1, <4>5, <4>6 DEF l
    <3> QED BY <3>1, <3>2, <2>1, <1>e
  <2>3. ASSUME e < Len(text)
        PROVE  c.to <= start' + Overlap /\ c.from + (ChunkMax - Lookback - Overlap) <= start'
    BY <2>3, <1>a, <1>b, <1>n
  <2>4. ASSUME stage' = "cut"
        PROVE  /\ start' < Len(text)'
               /\ \A p \in 1..start' : ~Blank(p)' => Covered(p)'
               /\ chunks' # <<>> =>
                     LET l == chunks'[Len(chunks')]
                     IN  /\ l.to <= start' + Overlap /\ l.to < Len(text)'
                         /\ l.from + (ChunkMax - Lookback - Overlap) <= start'
    <3>1. e < Len(text)
      BY <2>4, <1>d
    <3>2. start' < Len(text)'
      BY <3>1, <1>a, <1>b, <1>n
    <3>3. chunks'[Len(chunks')] = c /\ c.to = e /\ c.from = start
      BY <2>1
    <3> QED BY <3>1, <3>2, <3>3, <2>3, <1>3, <1>a
  <2>5. stage' # "cut" => \A p \in 1..Len(text)' : ~Blank(p)' => Covered(p)'
    BY <1>4, <1>d
  <2> QED BY <1>1, <2>2, <2>4, <2>5 DEF CutInv
<1> QED BY <1>1, <1>5, <1>6, <1>c

\* The other steps leave the text and its chunks.
LEMMA CutStays ==
    ASSUME TextInv, UNCHANGED <<text, start, chunks>>, (stage = "cut") = (stage' = "cut")
    PROVE  TextOK' /\ ChunksOK' /\ CutInv'
BY DEF TextInv, TextOK, ChunksOK, CutInv, ChunksAdvance, Covered, Blank, Chunks

-----------------------------------------------------------------------------
(* Grouping *)

\* A run grows by the chunk after it, and a chain by a run that starts after it.
LEMMA RunGrows ==
    ASSUME NEW batch \in Seq(Nat), Run(batch), NEW k \in Nat, k = batch[1] + Len(batch)
    PROVE  /\ Append(batch, k) \in Seq(Nat) /\ Run(Append(batch, k))
           /\ Append(batch, k)[1] = batch[1] /\ Len(Append(batch, k)) = Len(batch) + 1
<1>1. batch # <<>> /\ Len(batch) >= 1 /\ \A i \in 1..Len(batch) : batch[i] = batch[1] + i - 1
  BY DEF Run
<1>2. \A i \in 1..Len(batch) : Append(batch, k)[i] = batch[i]
  OBVIOUS
<1>3. Append(batch, k)[Len(batch) + 1] = k /\ Len(Append(batch, k)) = Len(batch) + 1
  OBVIOUS
<1>4. \A i \in 1..Len(batch) + 1 : Append(batch, k)[i] = batch[1] + i - 1
  BY <1>1, <1>2, <1>3
<1>5. Append(batch, k) \in Seq(Nat) /\ Append(batch, k) # <<>>
  OBVIOUS
<1>6. Append(batch, k)[1] = batch[1]
  BY <1>1, <1>2
<1>7. Run(Append(batch, k))
  BY <1>3, <1>4, <1>5, <1>6 DEF Run
<1> QED BY <1>3, <1>5, <1>6, <1>7

LEMMA RunStarts ==
    ASSUME NEW k \in Nat
    PROVE  <<k>> \in Seq(Nat) /\ Run(<<k>>) /\ <<k>>[1] = k /\ Len(<<k>>) = 1
BY DEF Run

LEMMA ChainGrows ==
    ASSUME NEW first \in Nat, NEW bs \in Seq(Seq(Nat)), Chain(first, bs),
           NEW batch \in Seq(Nat), Run(batch), batch[1] = After(first, bs)
    PROVE  /\ Append(bs, batch) \in Seq(Seq(Nat)) /\ Chain(first, Append(bs, batch))
           /\ After(first, Append(bs, batch)) = batch[1] + Len(batch)
<1> DEFINE cs == Append(bs, batch)
<1>1. /\ Len(cs) = Len(bs) + 1 /\ cs[Len(bs) + 1] = batch /\ cs # <<>>
      /\ \A j \in 1..Len(bs) : cs[j] = bs[j]
  <2>1. bs \in Seq(Seq(Nat)) /\ batch \in Seq(Nat)
    OBVIOUS
  <2> QED BY ONLY <2>1, AppendProperties
<1> HIDE DEF cs
<1>2. ASSUME NEW j \in 1..Len(cs)
      PROVE  Run(cs[j]) /\ cs[j][1] = IF j = 1 THEN first ELSE cs[j - 1][1] + Len(cs[j - 1])
  <2>1. CASE j <= Len(bs)
    <3>1. j \in 1..Len(bs) /\ cs[j] = bs[j] /\ (j # 1 => cs[j - 1] = bs[j - 1])
      <4>1. Len(bs) \in Nat /\ j \in Nat /\ j >= 1
        BY <1>2, <1>1
      <4>2. j \in 1..Len(bs) /\ (j # 1 => j - 1 \in 1..Len(bs))
        BY <4>1, <2>1
      <4> QED BY <4>2, <1>1
    <3> QED BY <3>1 DEF Chain
  <2>2. CASE j = Len(bs) + 1
    <3>1. cs[j] = batch /\ (j # 1 => bs # <<>> /\ cs[j - 1] = bs[Len(bs)]) /\ (j = 1 => bs = <<>>)
      <4>1. Len(bs) \in Nat
        OBVIOUS
      <4>2. j # 1 => Len(bs) \in 1..Len(bs) /\ j - 1 = Len(bs) /\ bs # <<>>
        BY <4>1, <2>2
      <4>3. j = 1 => Len(bs) = 0
        BY <4>1, <2>2
      <4> QED BY <4>2, <4>3, <2>2, <1>1
    <3> QED BY <3>1 DEF After
  <2> QED BY <2>1, <2>2, <1>1
<1>3. Chain(first, cs)
  BY <1>2 DEF Chain
<1>4. After(first, cs) = batch[1] + Len(batch)
  BY <1>1 DEF After
<1>5. cs \in Seq(Seq(Nat))
  BY DEF cs
<1> QED BY <1>3, <1>4, <1>5 DEF cs

LEMMA GroupKeeps ==
    ASSUME TextInv, Group
    PROVE  BatchesOK' /\ GroupInv'
<1> DEFINE k == taken + 1
<1>a. /\ stage = "batch" /\ taken < Len(chunks) /\ taken \in Nat /\ k \in Nat
      /\ chunks' = chunks /\ vectors' = vectors /\ vectors = <<>>
      /\ batches \in Seq(Seq(Nat)) /\ current \in Seq(Nat) /\ room \in Nat /\ Len(chunks) \in Nat
  BY DEF TextInv, Group, cutting, BatchesOK, GroupInv, ChunksOK
<1>s. Size(chunks[k]) \in Nat
  <2>1. chunks[k] \in Chunks
    BY <1>a DEF TextInv, ChunksOK
  <2> QED BY <2>1 DEF Chunks, Size
<1>g. /\ Chain(1, batches)
      /\ current = <<>> => taken = 0 /\ batches = <<>>
      /\ current # <<>> => /\ Run(current) /\ current[1] = After(1, batches)
                          /\ taken = current[1] + Len(current) - 1
  BY <1>a DEF TextInv, GroupInv
<1>f. Full(k) => current # <<>>
  BY DEF Full
<1>c. current # <<>> => current[1] \in Nat /\ Len(current) \in Nat /\ k = current[1] + Len(current)
  BY <1>a, <1>g
<1>b. batches' \in Seq(Seq(Nat)) /\ Chain(1, batches')
      /\ (Full(k) => After(1, batches') = k) /\ (~Full(k) => batches' = batches)
  <2>1. batches' = IF Full(k) THEN Append(batches, current) ELSE batches
    BY DEF Group, Flushed
  <2>2. CASE Full(k)
    BY <2>1, <2>2, <1>a, <1>c, <1>f, <1>g, ChainGrows
  <2> QED BY <2>1, <2>2, <1>a, <1>g
<1>1. CASE Size(chunks[k]) > BatchRoom
  <2>1. stage' = "embedding_input_too_large" /\ UNCHANGED <<current, room, taken>>
    BY <1>1 DEF Group
  <2> QED BY <2>1, <1>a, <1>b DEF BatchesOK, GroupInv
<1>2. CASE ~(Size(chunks[k]) > BatchRoom)
  <2>1. /\ current' = IF Full(k) THEN <<k>> ELSE Append(current, k)
        /\ room' = (IF Full(k) THEN Size(chunks[k]) ELSE room + Size(chunks[k]))
        /\ taken' = k /\ stage' = stage
    BY <1>2 DEF Group
  <2>2. current' \in Seq(Nat) /\ current' # <<>> /\ Run(current') /\ current'[1] = After(1, batches')
        /\ k = current'[1] + Len(current') - 1
    <3>1. CASE Full(k)
      BY <3>1, <2>1, <1>a, <1>b, RunStarts DEF Run
    <3>2. CASE ~Full(k) /\ current # <<>>
      <4>1. /\ Append(current, k) \in Seq(Nat) /\ Run(Append(current, k))
            /\ Append(current, k)[1] = current[1] /\ Len(Append(current, k)) = Len(current) + 1
        BY <3>2, <1>a, <1>c, <1>g, RunGrows
      <4>2. current' = Append(current, k) /\ batches' = batches
        BY <3>2, <2>1, <1>b
      <4>3. current' # <<>>
        BY <4>1, <4>2 DEF Run
      <4>4. k = current[1] + (Len(current) + 1) - 1
        BY <3>2, <1>c
      <4> QED BY <4>1, <4>2, <4>3, <4>4, <3>2, <1>g
    <3>3. CASE ~Full(k) /\ current = <<>>
      <4>1. Append(current, k) = <<1>> /\ k = 1 /\ batches' = <<>>
        BY <3>3, <1>a, <1>b, <1>g
      <4>2. Run(<<1>>) /\ <<1>> \in Seq(Nat) /\ <<1>>[1] = 1 /\ Len(<<1>>) = 1
        BY RunStarts
      <4> QED BY <4>1, <4>2, <3>3, <2>1 DEF After, Run
    <3> QED BY <3>1, <3>2, <3>3
  <2>3. taken' <= Len(chunks')
    BY <2>1, <1>a
  <2> QED BY <2>1, <2>2, <2>3, <1>a, <1>b, <1>s DEF BatchesOK, GroupInv
<1> QED BY <1>1, <1>2

LEMMA GroupedKeeps ==
    ASSUME TextInv, Grouped
    PROVE  BatchesOK' /\ GroupInv'
<1>a. /\ stage = "batch" /\ stage' = "embed" /\ taken = Len(chunks) /\ Len(chunks) \in Nat
      /\ chunks' = chunks /\ vectors' = vectors /\ vectors = <<>> /\ taken' = taken
      /\ batches \in Seq(Seq(Nat)) /\ current \in Seq(Nat) /\ taken \in Nat
      /\ current' = <<>> /\ room' = 0
  BY DEF TextInv, Grouped, cutting, BatchesOK, GroupInv, ChunksOK
<1>g. /\ Chain(1, batches)
      /\ current = <<>> => taken = 0 /\ batches = <<>>
      /\ current # <<>> => /\ Run(current) /\ current[1] = After(1, batches)
                          /\ taken = current[1] + Len(current) - 1
  BY <1>a DEF TextInv, GroupInv
<1>1. batches' \in Seq(Seq(Nat)) /\ Chain(1, batches') /\ After(1, batches') = Len(chunks) + 1
  <2>1. CASE current = <<>>
    BY <2>1, <1>a, <1>g DEF Grouped, After
  <2>2. CASE current # <<>>
    <3>1. batches' = Append(batches, current)
      BY <2>2 DEF Grouped
    <3>2. current[1] \in Nat /\ Len(current) \in Nat
      BY <2>2, <1>a
    <3> QED BY <3>1, <3>2, <2>2, <1>a, <1>g, ChainGrows
  <2> QED BY <2>1, <2>2
<1>2. Len(vectors') + 1 = 1
  BY <1>a
<1> QED BY <1>1, <1>2, <1>a DEF BatchesOK, GroupInv

-----------------------------------------------------------------------------
(* Embedding *)

\* The vectors of a complete answer are placed in the order of their batch.
LEMMA PlacedInOrder ==
    ASSUME AtOK, NEW batch \in Seq(Nat), NEW reply \in ItemsOf(batch), AllAnswered(reply)
    PROVE  Placed(reply) \in Seq(Nat) /\ Len(Placed(reply)) = Len(batch)
           /\ \A i \in 1..Len(batch) : Placed(reply)[i] = batch[i]
<1> DEFINE n == Len(batch)
<1>n. n \in Nat
  OBVIOUS
<1>1. PICK d \in [1..n -> 1..n] :
          /\ reply = [j \in 1..n |-> [index |-> d[j], of |-> batch[d[j]]]]
          /\ provider = "gemini" => \A j \in 1..n : d[j] = j
  <2>1. CASE provider = "gemini"
    <3>1. reply = [j \in 1..n |-> [index |-> [i \in 1..n |-> i][j], of |-> batch[[i \in 1..n |-> i][j]]]]
      BY <2>1 DEF ItemsOf
    <3>2. [i \in 1..n |-> i] \in [1..n -> 1..n]
      OBVIOUS
    <3> QED BY <3>1, <3>2
  <2>2. CASE provider # "gemini"
    BY <2>2 DEF ItemsOf
  <2> QED BY <2>1, <2>2
<1>2. /\ Len(reply) = n
      /\ \A j \in 1..n : reply[j].index = d[j] /\ reply[j].of = batch[d[j]]
  BY <1>1, <1>n
<1> HIDE DEF n
<1>3. Placed(reply) = [i \in 1..n |->
        IF provider = "gemini" THEN reply[i].of
        ELSE reply[CHOOSE j \in 1..n : reply[j].index = i].of]
  BY <1>2 DEF Placed
<1>4. \A i \in 1..n : Placed(reply)[i] = batch[i]
  <2> TAKE i \in 1..n
  <2>1. CASE provider = "gemini"
    BY <2>1, <1>1, <1>2, <1>3
  <2>2. CASE provider # "gemini"
    <3>1. \E j \in 1..n : reply[j].index = i
      BY <1>2 DEF AllAnswered
    <3> DEFINE m == CHOOSE j \in 1..n : reply[j].index = i
    <3>2. m \in 1..n /\ reply[m].index = i
      BY <3>1
    <3>3. Placed(reply)[i] = reply[m].of
      BY <2>2, <1>3
    <3> HIDE DEF m
    <3> QED BY <3>2, <3>3, <1>2
  <2> QED BY <2>1, <2>2
<1>5. \A i \in 1..n : batch[i] \in Nat
  BY DEF n
<1>6. Placed(reply) \in [1..n -> Nat]
  BY <1>3, <1>4, <1>5
<1>7. Placed(reply) \in Seq(Nat) /\ Len(Placed(reply)) = n
  <2>1. n \in Nat
    BY <1>n DEF n
  <2>2. Placed(reply) \in Seq(Nat) /\ DOMAIN Placed(reply) = 1..n
    BY <2>1, <1>6, SeqDef
  <2> QED BY ONLY <2>1, <2>2
<1> QED BY <1>4, <1>7 DEF n

\* What is left of a chain when its first batch is taken away.
LEMMA ChainShrinks ==
    ASSUME NEW first \in Nat, NEW bs \in Seq(Seq(Nat)), Chain(first, bs), bs # <<>>
    PROVE  /\ Tail(bs) \in Seq(Seq(Nat)) /\ Head(bs) \in Seq(Nat) /\ Run(Head(bs))
           /\ Head(bs)[1] = first
           /\ Chain(first + Len(Head(bs)), Tail(bs))
           /\ After(first + Len(Head(bs)), Tail(bs)) = After(first, bs)
<1> DEFINE ts == Tail(bs)
<1>1. /\ Len(bs) \in Nat /\ Len(bs) >= 1 /\ Len(ts) = Len(bs) - 1 /\ Head(bs) = bs[1]
      /\ \A j \in 1..Len(ts) : ts[j] = bs[j + 1]
      /\ ts \in Seq(Seq(Nat)) /\ bs[1] \in Seq(Nat)
  OBVIOUS
<1>2. Run(bs[1]) /\ bs[1][1] = first
  BY <1>1 DEF Chain
<1> HIDE DEF ts
<1>3. ASSUME NEW j \in 1..Len(ts)
      PROVE  /\ Run(ts[j])
             /\ ts[j][1] = IF j = 1 THEN first + Len(bs[1]) ELSE ts[j - 1][1] + Len(ts[j - 1])
  <2>1. j \in Nat /\ j + 1 \in 1..Len(bs) /\ j + 1 # 1 /\ (j + 1) - 1 = j /\ ts[j] = bs[j + 1]
    BY <1>3, <1>1
  <2>2. Run(bs[j + 1]) /\ bs[j + 1][1] = bs[j][1] + Len(bs[j])
    BY <2>1 DEF Chain
  <2>3. j # 1 => ts[j - 1] = bs[j]
    <3>1. j # 1 => j - 1 \in 1..Len(ts) /\ (j - 1) + 1 = j
      BY <1>3, <1>1
    <3> QED BY <3>1, <1>1
  <2> QED BY <2>1, <2>2, <2>3, <1>2
<1>4. Chain(first + Len(bs[1]), ts)
  BY <1>3 DEF Chain
<1>5. After(first + Len(bs[1]), ts) = After(first, bs)
  <2>1. CASE ts = <<>>
    <3>1. Len(bs) = 1
      BY <2>1, <1>1
    <3> QED BY <3>1, <2>1, <1>2 DEF After
  <2>2. CASE ts # <<>>
    <3>1. Len(ts) \in 1..Len(ts) /\ Len(ts) + 1 = Len(bs)
      BY <2>2, <1>1
    <3>2. ts[Len(ts)] = bs[Len(bs)]
      BY <3>1, <1>1
    <3> QED BY <3>2, <2>2 DEF After
  <2> QED BY <2>1, <2>2
<1> QED BY <1>1, <1>2, <1>4, <1>5 DEF ts

LEMMA EmbedKeeps ==
    ASSUME TextInv, Embed
    PROVE  BatchesOK' /\ VectorsOK' /\ GroupInv'
<1>a. /\ stage = "embed" /\ batches # <<>> /\ batches' = Tail(batches) /\ chunks' = chunks
      /\ batches \in Seq(Seq(Nat)) /\ current \in Seq(Nat) /\ room \in Nat /\ taken \in Nat
      /\ UNCHANGED <<current, room, taken>>
      /\ vectors \in Seq(Nat) /\ \A k \in 1..Len(vectors) : vectors[k] = k
      /\ Chain(Len(vectors) + 1, batches) /\ After(Len(vectors) + 1, batches) = Len(chunks) + 1
      /\ Len(vectors) \in Nat
  BY DEF TextInv, Embed, cutting, BatchesOK, VectorsOK, GroupInv
<1> DEFINE b == Head(batches)
           f == Len(vectors) + 1
<1>b. /\ Tail(batches) \in Seq(Seq(Nat)) /\ b \in Seq(Nat) /\ Run(b) /\ b[1] = f
      /\ Chain(f + Len(b), Tail(batches)) /\ After(f + Len(b), Tail(batches)) = Len(chunks) + 1
  <2>1. f \in Nat /\ batches \in Seq(Seq(Nat)) /\ batches # <<>> /\ Chain(f, batches)
        /\ After(f, batches) = Len(chunks) + 1
    BY <1>a
  <2> HIDE DEF f
  <2> QED BY ONLY <2>1, ChainShrinks
<1>c. BatchesOK'
  BY <1>a, <1>b DEF BatchesOK
<1>1. CASE stage' \in {"invalid_embedding", "provider_failed"} /\ UNCHANGED vectors
  BY <1>1, <1>a, <1>c DEF VectorsOK, GroupInv
<1>2. CASE /\ stage' = stage
           /\ \E reply \in ItemsOf(b) : AllAnswered(reply) /\ vectors' = vectors \o Placed(reply)
  <2>1. PICK reply \in ItemsOf(b) : AllAnswered(reply) /\ vectors' = vectors \o Placed(reply)
    BY <1>2
  <2> DEFINE v == Placed(reply)
  <2>2. v \in Seq(Nat) /\ Len(v) = Len(b) /\ \A i \in 1..Len(b) : v[i] = b[i]
    BY <2>1, <1>b, PlacedInOrder DEF TextInv
  <2>3. \A i \in 1..Len(b) : v[i] = Len(vectors) + i
    BY <2>2, <1>a, <1>b DEF Run
  <2>5. Len(b) \in Nat
    BY <1>b
  <2> HIDE DEF v, b
  <2>4. /\ vectors' = vectors \o v /\ vectors' \in Seq(Nat) /\ Len(vectors') = Len(vectors) + Len(b)
        /\ \A k \in 1..Len(vectors) : vectors'[k] = vectors[k]
        /\ \A k \in Len(vectors) + 1 .. Len(vectors) + Len(b) : vectors'[k] = v[k - Len(vectors)]
    <3>1. vectors' = vectors \o v /\ v \in Seq(Nat) /\ Len(v) = Len(b) /\ vectors \in Seq(Nat)
      BY <2>1, <2>2, <1>a DEF v
    <3>2. Len(vectors \o v) = Len(vectors) + Len(v) /\ vectors \o v \in Seq(Nat)
      BY ONLY <3>1, ConcatProperties
    <3>3. \A k \in 1..Len(vectors) + Len(v) :
            (vectors \o v)[k] = IF k <= Len(vectors) THEN vectors[k] ELSE v[k - Len(vectors)]
      BY ONLY <3>1, ConcatProperties
    <3>4. Len(vectors) \in Nat
      BY <1>a
    <3> QED BY ONLY <3>1, <3>2, <3>3, <3>4, <2>5
  <2>6. \A k \in 1..Len(vectors') : vectors'[k] = k
    <3> TAKE k \in 1..Len(vectors')
    <3>1. CASE k \in 1..Len(vectors)
      BY <3>1, <2>4, <1>a
    <3>2. CASE k \in Len(vectors) + 1 .. Len(vectors) + Len(b)
      <4>1. k - Len(vectors) \in 1..Len(b)
        BY <3>2, <2>5, <1>a
      <4> QED BY <4>1, <3>2, <2>3, <2>4, <1>a
    <3> QED BY <3>1, <3>2, <2>4, <2>5, <1>a
  <2>7. Len(vectors') + 1 = f + Len(b)
    BY <2>4, <2>5, <1>a
  <2>8. Chain(Len(vectors') + 1, batches') /\ After(Len(vectors') + 1, batches') = Len(chunks') + 1
    BY <2>7, <1>a, <1>b
  <2> QED BY <2>4, <2>6, <2>8, <1>c, <1>2, <1>a DEF VectorsOK, GroupInv
<1> QED BY <1>1, <1>2 DEF Embed

-----------------------------------------------------------------------------
(* Limits: a batch holds what an adapter takes.                             *)

\* Sum's function, for the first n places of a batch.
IsSum(batch, n, f) ==
    f = [i \in 0..n |-> IF i = 0 THEN 0 ELSE f[i - 1] + Size(chunks[batch[i]])]

\* The recursion has a solution: none that is least has no solution.
LEMMA SumExists ==
    ASSUME NEW batch, NEW n \in Nat PROVE \E f : IsSum(batch, n, f)
<1> DEFINE T == {m \in Nat : ~\E f : IsSum(batch, m, f)}
<1> SUFFICES ASSUME T # {} PROVE FALSE
  OBVIOUS
<1>1. PICK x \in T : \A y \in T : x <= y
  <2>1. T \subseteq Nat
    OBVIOUS
  <2> HIDE DEF T
  <2> QED BY <2>1, LeastNatural
<1>2. x \in Nat /\ ~\E f : IsSum(batch, x, f)
  OBVIOUS
<1>3. CASE x = 0
  <2> DEFINE f == [i \in 0..0 |-> 0]
  <2>1. f = [i \in 0..0 |-> IF i = 0 THEN 0 ELSE f[i - 1] + Size(chunks[batch[i]])]
    OBVIOUS
  <2>2. IsSum(batch, 0, f)
    BY <2>1 DEF IsSum
  <2> QED BY <2>2, <1>2, <1>3
<1>4. CASE x # 0
  <2>1. x - 1 \in Nat /\ x - 1 \notin T
    BY <1>1, <1>2, <1>4
  <2>2. PICK g : IsSum(batch, x - 1, g)
    BY <2>1
  <2> DEFINE f == [i \in 0..x |-> IF i = x THEN g[x - 1] + Size(chunks[batch[x]]) ELSE g[i]]
  <2>3. ASSUME NEW i \in 0..x
        PROVE  f[i] = IF i = 0 THEN 0 ELSE f[i - 1] + Size(chunks[batch[i]])
    <3>1. CASE i = x
      <4>1. x - 1 \in 0..x /\ x - 1 # x
        BY <1>2, <2>1
      <4>2. f[x - 1] = g[x - 1] /\ f[x] = g[x - 1] + Size(chunks[batch[x]])
        BY <4>1, <1>2
      <4> QED BY <4>2, <3>1, <1>4
    <3>2. CASE i # x
      <4>1. i \in 0..(x - 1) /\ (i # 0 => i - 1 \in 0..x /\ i - 1 # x)
        BY <3>2, <2>3, <1>2
      <4>2. g[i] = IF i = 0 THEN 0 ELSE g[i - 1] + Size(chunks[batch[i]])
        BY <4>1, <2>2 DEF IsSum
      <4>3. f[i] = g[i] /\ (i # 0 => f[i - 1] = g[i - 1])
        BY <3>2, <4>1
      <4> QED BY <4>2, <4>3
    <3> QED BY <3>1, <3>2
  <2>4. f = [i \in 0..x |-> f[i]]
    OBVIOUS
  <2> HIDE DEF f
  <2>5. f = [i \in 0..x |-> IF i = 0 THEN 0 ELSE f[i - 1] + Size(chunks[batch[i]])]
    BY <2>3, <2>4
  <2>6. IsSum(batch, x, f)
    BY <2>5 DEF IsSum
  <2> QED BY <2>6, <1>2
<1> QED BY <1>3, <1>4

\* Two solutions agree as far as their batches do.
LEMMA SumAgrees ==
    ASSUME NEW b, NEW c, NEW n \in Nat, NEW m \in Nat, n <= m,
           NEW f, NEW g, IsSum(b, n, f), IsSum(c, m, g), \A i \in 1..n : b[i] = c[i]
    PROVE  \A i \in 0..n : f[i] = g[i]
<1> DEFINE T == {i \in 0..n : f[i] # g[i]}
<1> SUFFICES ASSUME T # {} PROVE FALSE
  OBVIOUS
<1>1. PICK x \in T : \A y \in T : x <= y
  <2>1. T \subseteq Nat
    OBVIOUS
  <2> HIDE DEF T
  <2> QED BY <2>1, LeastNatural
<1>2. x \in 0..n /\ x \in 0..m /\ f[x] # g[x]
  OBVIOUS
<1>3. /\ f[x] = IF x = 0 THEN 0 ELSE f[x - 1] + Size(chunks[b[x]])
      /\ g[x] = IF x = 0 THEN 0 ELSE g[x - 1] + Size(chunks[c[x]])
  BY <1>2 DEF IsSum
<1>4. x # 0
  BY <1>2, <1>3
<1>5. x - 1 \in 0..n /\ x \in 1..n /\ ~(x <= x - 1)
  BY <1>2, <1>4
<1>6. f[x - 1] = g[x - 1]
  BY <1>1, <1>5
<1> QED BY <1>2, <1>3, <1>4, <1>5, <1>6

\* What a batch holds, and what it holds with one chunk more.
LEMMA SumIs ==
    ASSUME NEW batch \in Seq(Nat)
    PROVE  \E f : IsSum(batch, Len(batch), f) /\ Sum(batch) = f[Len(batch)]
<1>1. Len(batch) \in Nat
  OBVIOUS
<1>2. \E f : f = [i \in 0..Len(batch) |-> IF i = 0 THEN 0 ELSE f[i - 1] + Size(chunks[batch[i]])]
  BY <1>1, SumExists DEF IsSum
<1> DEFINE g == CHOOSE f : f = [i \in 0..Len(batch) |-> IF i = 0 THEN 0 ELSE f[i - 1] + Size(chunks[batch[i]])]
<1>3. g = [i \in 0..Len(batch) |-> IF i = 0 THEN 0 ELSE g[i - 1] + Size(chunks[batch[i]])]
  BY <1>2
<1>4. Sum(batch) = g[Len(batch)]
  BY DEF Sum
<1> HIDE DEF g
<1> QED BY <1>3, <1>4 DEF IsSum

LEMMA SumEmpty == Sum(<<>>) = 0
<1>1. PICK f : IsSum(<<>>, Len(<<>>), f) /\ Sum(<<>>) = f[Len(<<>>)]
  <2>1. <<>> \in Seq(Nat)
    OBVIOUS
  <2> QED BY <2>1, SumIs
<1>2. Len(<<>>) = 0
  OBVIOUS
<1> QED BY <1>1, <1>2 DEF IsSum

LEMMA SumAppend ==
    ASSUME NEW batch \in Seq(Nat), NEW k \in Nat
    PROVE  Sum(Append(batch, k)) = Sum(batch) + Size(chunks[k])
<1> DEFINE c == Append(batch, k)
           n == Len(batch)
<1>1. /\ c \in Seq(Nat) /\ n \in Nat /\ Len(c) = n + 1 /\ c[n + 1] = k
      /\ \A i \in 1..n : batch[i] = c[i]
  OBVIOUS
<1> HIDE DEF c
<1>2. PICK f : IsSum(batch, n, f) /\ Sum(batch) = f[n]
  BY SumIs
<1>3. PICK g : IsSum(c, n + 1, g) /\ Sum(c) = g[n + 1]
  BY <1>1, SumIs
<1> HIDE DEF n
<1>4. n \in 0..n /\ n + 1 \in 0..n + 1 /\ n + 1 \in Nat /\ n <= n + 1 /\ n + 1 # 0 /\ (n + 1) - 1 = n
  BY <1>1
<1>5. f[n] = g[n]
  BY <1>1, <1>2, <1>3, <1>4, SumAgrees
<1>6. g[n + 1] = g[n] + Size(chunks[c[n + 1]])
  BY <1>3, <1>4 DEF IsSum
<1> QED BY <1>1, <1>2, <1>3, <1>5, <1>6 DEF c

ChunkFits(c) == Size(c) <= ChunkMax /\ \E p \in c.from + 1 .. c.to : ~Blank(p)
BatchFits(batch) ==
    /\ batch # <<>> /\ Len(batch) <= BatchSize
    /\ \A i \in 1..Len(batch) : batch[i] \in 1..Len(chunks)
    /\ Sum(batch) <= BatchRoom

\* What the parts promise each other: a chunk is within its limit and has a word; room is what
\* the batch being filled holds, and every batch is one the adapters take.
FitInv ==
    /\ \E p \in 1..Len(text) : ~Blank(p)
    /\ \A k \in 1..Len(chunks) : ChunkFits(chunks[k])
    /\ stage = "cut" => room = 0
    /\ stage = "batch" => IF current = <<>> THEN room = 0 ELSE room = Sum(current) /\ BatchFits(current)
    /\ stage \in {"batch", "embed"} => \A j \in 1..Len(batches) : BatchFits(batches[j])
    /\ NeverRefused

\* While the chunks stay, so does what they make.
LEMMA FitsStays ==
    ASSUME UNCHANGED <<text, chunks>>
    PROVE  /\ \A batch : Sum(batch)' = Sum(batch)
           /\ \A batch : BatchFits(batch)' <=> BatchFits(batch)
           /\ \A c : ChunkFits(c)' <=> ChunkFits(c)
<1>1. \A batch : Sum(batch)' = Sum(batch)
  BY DEF Sum, Size
<1>2. \A batch : BatchFits(batch)' <=> BatchFits(batch)
  BY <1>1 DEF BatchFits
<1>3. \A c : ChunkFits(c)' <=> ChunkFits(c)
  BY DEF ChunkFits, Size, Blank
<1> QED BY <1>1, <1>2, <1>3

LEMMA FitCut ==
    ASSUME TextInv, FitInv, Cut
    PROVE  FitInv'
<1> DEFINE e == CutEnd(start)
           c == [from |-> start, to |-> e]
<1>a. stage = "cut" /\ start < Len(text) /\ start \in Nat /\ text' = text /\ Len(text) \in Nat
      /\ chunks \in Seq(Chunks) /\ UNCHANGED <<room, current, batches>>
      /\ room = 0 /\ current = <<>> /\ batches = <<>>
  BY DEF TextInv, FitInv, Cut, CutInv, ChunksOK, TextOK, GroupInv, batching
<1>b. e \in Nat /\ start < e /\ e <= start + ChunkMax
  BY <1>a, CutEndFacts DEF TextInv
<1> HIDE DEF e
<1>c. Kept(start, e) = <<>> \/ (Kept(start, e) = <<c>> /\ ChunkFits(c))
  <2>1. Size(c) <= ChunkMax
    BY <1>a, <1>b, EmbeddingAssumption DEF Size
  <2>2. c.from = start /\ c.to = e
    OBVIOUS
  <2> QED BY <2>1, <2>2 DEF Kept, ChunkFits
<1>d. chunks' = chunks \o Kept(start, e)
      /\ stage' = IF e < Len(text) THEN "cut" ELSE IF chunks' = <<>> THEN "invalid_content" ELSE "batch"
  BY DEF Cut, e
<1>1. \A k \in 1..Len(chunks') : ChunkFits(chunks'[k])
  <2>1. CASE Kept(start, e) = <<>>
    <3>1. chunks' = chunks
      BY <2>1, <1>a, <1>d
    <3> QED BY <3>1 DEF FitInv
  <2>2. CASE Kept(start, e) = <<c>> /\ ChunkFits(c)
    <3>1. /\ Len(chunks') = Len(chunks) + 1 /\ chunks'[Len(chunks) + 1] = c
          /\ \A k \in 1..Len(chunks) : chunks'[k] = chunks[k]
      <4>1. chunks' = chunks \o <<c>> /\ c \in [from : Nat, to : Nat] /\ Len(chunks) \in Nat
        BY <2>2, <1>a, <1>b, <1>d
      <4> HIDE DEF c
      <4> QED BY <4>1, <1>a
    <3>2. \A k \in 1..Len(chunks') : k \in 1..Len(chunks) \/ k = Len(chunks) + 1
      BY <3>1, <1>a
    <3> HIDE DEF c
    <3> QED BY <3>1, <3>2, <2>2 DEF FitInv
  <2> QED BY <1>c, <2>1, <2>2
<1>2. \A u : ChunkFits(u)' <=> ChunkFits(u)
  BY <1>a DEF ChunkFits, Size, Blank
<1>3. stage' \in {"cut", "batch"}
  <2> SUFFICES ASSUME stage' = "invalid_content" PROVE FALSE
    BY <1>d
  <2>1. CutInv' /\ chunks' = <<>>
    BY CutKeeps, <1>d
  <2>2. PICK p \in 1..Len(text) : ~Blank(p)
    BY DEF FitInv
  <2>3. Covered(p)'
    BY <2>1, <2>2, <1>a DEF CutInv, Blank
  <2>4. Len(chunks') = 0
    BY <2>1
  <2> QED BY <2>3, <2>4 DEF Covered
<1>5. room' = 0 /\ current' = <<>> /\ batches' = <<>>
  BY <1>a
<1>6. (\E p \in 1..Len(text) : ~Blank(p))'
  BY <1>a DEF FitInv, Blank
<1> QED BY <1>1, <1>2, <1>3, <1>5, <1>6 DEF FitInv, NeverRefused

LEMMA FitGroup ==
    ASSUME TextInv, FitInv, Group
    PROVE  FitInv'
<1> USE EmbeddingAssumption
<1> DEFINE k == taken + 1
<1>a. /\ stage = "batch" /\ k \in 1..Len(chunks) /\ k \in Nat /\ UNCHANGED <<text, chunks>>
      /\ batches \in Seq(Seq(Nat)) /\ current \in Seq(Nat) /\ room \in Nat
  BY DEF TextInv, Group, cutting, BatchesOK, GroupInv, ChunksOK
<1>b. ChunkFits(chunks[k]) /\ Size(chunks[k]) \in Nat /\ Size(chunks[k]) <= BatchRoom
  <2>1. ChunkFits(chunks[k])
    BY <1>a DEF FitInv
  <2>2. Size(chunks[k]) \in Nat
    <3>1. chunks[k] \in Chunks
      BY <1>a DEF TextInv, ChunksOK
    <3> QED BY <3>1 DEF Chunks, Size
  <2> QED BY <2>1, <2>2 DEF ChunkFits
<1>c. /\ batches' = IF Full(k) THEN Append(batches, current) ELSE batches
      /\ current' = IF Full(k) THEN <<k>> ELSE Append(current, k)
      /\ room' = IF Full(k) THEN Size(chunks[k]) ELSE room + Size(chunks[k])
      /\ stage' = stage
  BY <1>b DEF Group, Flushed
<1>d. (IF current = <<>> THEN room = 0 ELSE room = Sum(current) /\ BatchFits(current))
      /\ \A j \in 1..Len(batches) : BatchFits(batches[j])
  BY <1>a DEF FitInv
<1>e. Sum(Append(current, k)) = Sum(current) + Size(chunks[k]) /\ Sum(<<k>>) = 0 + Size(chunks[k])
  <2>1. <<>> \in Seq(Nat) /\ Append(<<>>, k) = <<k>>
    OBVIOUS
  <2> HIDE DEF k
  <2> QED BY <2>1, <1>a, SumAppend, SumEmpty
<1> HIDE DEF k
<1>1. room' = Sum(current') /\ current' # <<>> /\ BatchFits(current')
  <2>1. CASE Full(k)
    <3>1. /\ current' = <<k>> /\ <<k>> # <<>> /\ Len(<<k>>) = 1 /\ <<k>>[1] = k
          /\ room' = Size(chunks[k])
      BY <2>1, <1>c
    <3>2. Sum(<<k>>) = Size(chunks[k]) /\ 1 <= BatchSize
      BY <1>b, <1>e
    <3> QED BY <3>1, <3>2, <1>a, <1>b DEF BatchFits
  <2>2. CASE ~Full(k)
    <3> DEFINE c == Append(current, k)
    <3>1. /\ current' = c /\ c # <<>> /\ Len(c) = Len(current) + 1 /\ c[Len(current) + 1] = k
          /\ \A i \in 1..Len(current) : c[i] = current[i]
          /\ Len(current) \in Nat /\ room' = room + Size(chunks[k])
      <4>1. current' = c /\ room' = room + Size(chunks[k])
        BY <2>2, <1>c
      <4>2. current \in Seq(Nat) /\ k \in Nat
        BY <1>a
      <4>3. Len(c) = Len(current) + 1 /\ c[Len(current) + 1] = k /\ \A i \in 1..Len(current) : c[i] = current[i]
        BY ONLY <4>2, AppendProperties
      <4>4. c # <<>> /\ Len(current) \in Nat
        BY ONLY <4>2, AppendProperties
      <4> QED BY <4>1, <4>3, <4>4
    <3>2. Sum(c) = room + Size(chunks[k])
      <4>1. CASE current = <<>>
        BY <4>1, <1>d, <1>e, SumEmpty
      <4>2. CASE current # <<>>
        BY <4>2, <1>d, <1>e
      <4> QED BY <4>1, <4>2
    <3> HIDE DEF c
    <3>3. Len(c) <= BatchSize /\ Sum(c) <= BatchRoom
      <4>1. CASE current = <<>>
        <5>1. Len(current) = 0 /\ room = 0
          BY <4>1, <1>d
        <5> QED BY <5>1, <3>1, <3>2, <1>b
      <4>2. CASE current # <<>>
        BY <4>2, <2>2, <3>1, <3>2, <1>a, <1>b DEF Full
      <4> QED BY <4>1, <4>2
    <3>4. \A i \in 1..Len(c) : c[i] \in 1..Len(chunks)
      <4> TAKE i \in 1..Len(c)
      <4>1. CASE i = Len(current) + 1
        BY <4>1, <3>1, <1>a
      <4>2. CASE i \in 1..Len(current)
        <5>1. current # <<>>
          BY <4>2, <3>1
        <5> QED BY <5>1, <4>2, <3>1, <1>d DEF BatchFits
      <4> QED BY <4>1, <4>2, <3>1
    <3> QED BY <3>1, <3>2, <3>3, <3>4 DEF BatchFits
  <2> QED BY <2>1, <2>2
<1>2. \A j \in 1..Len(batches') : BatchFits(batches'[j])
  <2>1. CASE Full(k)
    <3>1. /\ Len(batches') = Len(batches) + 1 /\ batches'[Len(batches) + 1] = current
          /\ \A j \in 1..Len(batches) : batches'[j] = batches[j]
          /\ Len(batches) \in Nat
      BY <2>1, <1>a, <1>c, AppendProperties
    <3>2. BatchFits(current)
      BY <2>1, <1>d DEF Full
    <3>3. \A j \in 1..Len(batches') : j \in 1..Len(batches) \/ j = Len(batches) + 1
      BY <3>1
    <3> QED BY <3>1, <3>2, <3>3, <1>d
  <2> QED BY <2>1, <1>c, <1>d
<1>3. /\ \A b : Sum(b)' = Sum(b) /\ (BatchFits(b)' <=> BatchFits(b))
      /\ \A c : ChunkFits(c)' <=> ChunkFits(c)
  BY <1>a, FitsStays
<1>4. (\E p \in 1..Len(text) : ~Blank(p))' /\ \A j \in 1..Len(chunks') : ChunkFits(chunks'[j])
  BY <1>a DEF FitInv, Blank
<1> QED BY <1>1, <1>2, <1>3, <1>4, <1>a, <1>c DEF FitInv, NeverRefused


LEMMA FitGrouped ==
    ASSUME TextInv, FitInv, Grouped
    PROVE  FitInv'
<1>a. /\ stage = "batch" /\ stage' = "embed" /\ UNCHANGED <<text, chunks>>
      /\ batches' = IF current = <<>> THEN batches ELSE Append(batches, current)
      /\ batches \in Seq(Seq(Nat)) /\ current \in Seq(Nat)
      /\ \A j \in 1..Len(batches) : BatchFits(batches[j])
  BY DEF TextInv, FitInv, Grouped, cutting, BatchesOK
<1>1. \A j \in 1..Len(batches') : BatchFits(batches'[j])
  <2>1. CASE current # <<>>
    <3>1. /\ Len(batches') = Len(batches) + 1 /\ batches'[Len(batches) + 1] = current
          /\ \A j \in 1..Len(batches) : batches'[j] = batches[j]
          /\ Len(batches) \in Nat
      BY <2>1, <1>a, AppendProperties
    <3>2. BatchFits(current)
      BY <2>1, <1>a DEF FitInv
    <3>3. \A j \in 1..Len(batches') : j \in 1..Len(batches) \/ j = Len(batches) + 1
      BY <3>1
    <3> QED BY <3>1, <3>2, <3>3, <1>a
  <2> QED BY <2>1, <1>a
<1>2. /\ \A b : BatchFits(b)' <=> BatchFits(b)
      /\ \A c : ChunkFits(c)' <=> ChunkFits(c)
  BY <1>a, FitsStays
<1>3. (\E p \in 1..Len(text) : ~Blank(p))' /\ \A j \in 1..Len(chunks') : ChunkFits(chunks'[j])
  BY <1>a DEF FitInv, Blank
<1> QED BY <1>1, <1>2, <1>3, <1>a DEF FitInv, NeverRefused

\* An adapter takes a batch that fits.
LEMMA FitsAccepted ==
    ASSUME TextInv, FitInv, NEW batch \in Seq(Nat), BatchFits(batch)
    PROVE  Accepted(batch)
<1>1. ASSUME NEW i \in 1..Len(batch)
      PROVE  /\ Size(chunks[batch[i]]) <= TextLimit
             /\ \E p \in chunks[batch[i]].from + 1 .. chunks[batch[i]].to : ~Blank(p)
  <2>1. batch[i] \in 1..Len(chunks)
    BY <1>1 DEF BatchFits
  <2>2. ChunkFits(chunks[batch[i]])
    BY <2>1 DEF FitInv
  <2>3. Size(chunks[batch[i]]) \in Int
    <3>1. chunks[batch[i]] \in Chunks
      BY <2>1 DEF TextInv, ChunksOK
    <3> QED BY <3>1 DEF Chunks, Size
  <2> QED BY <2>2, <2>3, EmbeddingAssumption DEF ChunkFits
<1> QED BY <1>1 DEF BatchFits, Accepted

LEMMA FitEmbed ==
    ASSUME TextInv, FitInv, Embed
    PROVE  FitInv'
<1>a. /\ stage = "embed" /\ batches # <<>> /\ batches' = Tail(batches) /\ UNCHANGED <<text, chunks>>
      /\ batches \in Seq(Seq(Nat))
      /\ \A j \in 1..Len(batches) : BatchFits(batches[j])
  BY DEF TextInv, FitInv, Embed, cutting, BatchesOK
<1>b. /\ Head(batches) = batches[1] /\ batches[1] \in Seq(Nat) /\ 1 \in 1..Len(batches)
      /\ Len(batches') = Len(batches) - 1 /\ \A j \in 1..Len(batches') : batches'[j] = batches[j + 1]
      /\ Len(batches) \in Nat
  BY <1>a
<1>c. stage' \in {"embed", "provider_failed"}
  <2>1. Accepted(Head(batches))
    BY <1>a, <1>b, FitsAccepted
  <2> QED BY <2>1, <1>a DEF Embed
<1>1. \A j \in 1..Len(batches') : BatchFits(batches'[j])
  <2>1. \A j \in 1..Len(batches') : j + 1 \in 1..Len(batches)
    BY <1>b
  <2> QED BY <2>1, <1>a, <1>b
<1>2. /\ \A b : BatchFits(b)' <=> BatchFits(b)
      /\ \A c : ChunkFits(c)' <=> ChunkFits(c)
  BY <1>a, FitsStays
<1>3. (\E p \in 1..Len(text) : ~Blank(p))' /\ \A j \in 1..Len(chunks') : ChunkFits(chunks'[j])
  BY <1>a DEF FitInv, Blank
<1> QED BY <1>1, <1>2, <1>3, <1>c DEF FitInv, NeverRefused

\* When no batch is left there are as many vectors as chunks.
LEMMA FitBuild ==
    ASSUME TextInv, FitInv, Build
    PROVE  FitInv'
<1>a. stage = "embed" /\ batches = <<>> /\ UNCHANGED <<text, chunks>>
  BY DEF Build, cutting
<1>1. Len(vectors) = Len(chunks)
  <2>1. After(Len(vectors) + 1, batches) = Len(chunks) + 1
    BY <1>a DEF TextInv, GroupInv
  <2>2. Len(vectors) \in Nat /\ Len(chunks) \in Nat
    BY DEF TextInv, VectorsOK, ChunksOK
  <2> QED BY <2>1, <2>2, <1>a DEF After
<1>2. stage' = "done"
  BY <1>1 DEF Build
<1>3. (\E p \in 1..Len(text) : ~Blank(p))' /\ \A j \in 1..Len(chunks') : ChunkFits(chunks'[j])
  BY <1>a DEF FitInv, Blank
<1>4. \A c : ChunkFits(c)' <=> ChunkFits(c)
  BY <1>a, FitsStays
<1> QED BY <1>2, <1>3, <1>4 DEF FitInv, NeverRefused

LEMMA FitKeeps == TextInv /\ FitInv /\ [TextNext]_textVars => FitInv'
<1> SUFFICES ASSUME TextInv, FitInv, [TextNext]_textVars PROVE FitInv'
  OBVIOUS
<1>1. CASE UNCHANGED textVars
  <2>1. UNCHANGED <<text, chunks, batches, current, room, stage>>
    BY <1>1 DEF textVars, cutting, batching
  <2>2. /\ \A b : Sum(b)' = Sum(b) /\ (BatchFits(b)' <=> BatchFits(b))
        /\ \A c : ChunkFits(c)' <=> ChunkFits(c)
    BY <2>1, FitsStays
  <2>3. (\E p \in 1..Len(text) : ~Blank(p))' /\ \A j \in 1..Len(chunks') : ChunkFits(chunks'[j])
    BY <2>1 DEF FitInv, Blank
  <2> QED BY <2>1, <2>2, <2>3 DEF FitInv, NeverRefused
<1> QED BY <1>1, FitCut, FitGroup, FitGrouped, FitEmbed, FitBuild DEF TextNext

LEMMA FitInit == TextInit => FitInv
<1> SUFFICES ASSUME TextInit PROVE FitInv
  OBVIOUS
<1>1. chunks = <<>> /\ Len(chunks) = 0 /\ room = 0 /\ stage = "cut" /\ \E p \in 1..Len(text) : ~Blank(p)
  BY DEF TextInit
<1> QED BY <1>1 DEF FitInv, NeverRefused

-----------------------------------------------------------------------------
(* Theorems *)

LEMMA TextStart == TextInit => TextInv
<1> SUFFICES ASSUME TextInit PROVE TextInv
  OBVIOUS
<1>1. PICK n \in 1..MaxLength : text \in [1..n -> Kinds]
  BY DEF TextInit
<1>2. text \in Seq(Kinds) /\ Len(text) = n /\ n \in Nat /\ n > 0
  BY <1>1, EmbeddingAssumption
<1>3. TextOK /\ ChunksOK /\ BatchesOK /\ VectorsOK /\ AtOK /\ GroupInv
  BY <1>2 DEF TextInit, TextOK, ChunksOK, BatchesOK, VectorsOK, AtOK, GroupInv
<1>4. CutInv
  BY <1>2 DEF TextInit, CutInv, ChunksAdvance
<1> QED BY <1>3, <1>4 DEF TextInv

LEMMA TextStepKeeps == TextInv /\ [TextNext]_textVars => TextInv'
<1> SUFFICES ASSUME TextInv, [TextNext]_textVars PROVE TextInv'
  OBVIOUS
<1>1. CASE Cut
  <2>1. ChunksOK' /\ CutInv'
    BY <1>1, CutKeeps
  <2>2. TextOK' /\ BatchesOK' /\ VectorsOK'
    BY <1>1 DEF TextInv, Cut, batching, TextOK, BatchesOK, VectorsOK
  <2>3. AtOK' /\ stage' \in {"cut", "batch", "invalid_content"}
    BY <1>1 DEF TextInv, Cut, AtOK
  <2>4. /\ batches' = batches /\ current' = current /\ taken' = taken /\ vectors' = vectors
        /\ batches = <<>> /\ current = <<>> /\ taken = 0 /\ vectors = <<>>
    BY <1>1 DEF TextInv, Cut, batching, GroupInv
  <2>5. Len(chunks') \in Nat
    BY <2>1 DEF ChunksOK
  <2>6. GroupInv'
    BY <2>3, <2>4, <2>5 DEF GroupInv, Chain
  <2> QED BY <2>1, <2>2, <2>3, <2>6 DEF TextInv
<1>2. CASE Group
  <2>1. BatchesOK' /\ GroupInv'
    BY <1>2, GroupKeeps
  <2>2. TextOK' /\ ChunksOK' /\ CutInv'
    BY <1>2, CutStays DEF Group, cutting
  <2>3. VectorsOK' /\ AtOK'
    BY <1>2 DEF TextInv, Group, VectorsOK, AtOK
  <2> QED BY <2>1, <2>2, <2>3 DEF TextInv
<1>3. CASE Grouped
  <2>1. BatchesOK' /\ GroupInv'
    BY <1>3, GroupedKeeps
  <2>2. TextOK' /\ ChunksOK' /\ CutInv'
    BY <1>3, CutStays DEF Grouped, cutting
  <2>3. VectorsOK' /\ AtOK'
    BY <1>3 DEF TextInv, Grouped, VectorsOK, AtOK
  <2> QED BY <2>1, <2>2, <2>3 DEF TextInv
<1>4. CASE Embed
  <2>1. BatchesOK' /\ VectorsOK' /\ GroupInv'
    BY <1>4, EmbedKeeps
  <2>2. TextOK' /\ ChunksOK' /\ CutInv'
    BY <1>4, CutStays DEF Embed, cutting
  <2>3. AtOK'
    BY <1>4 DEF TextInv, Embed, AtOK
  <2> QED BY <2>1, <2>2, <2>3 DEF TextInv
<1>5. CASE Build
  <2>1. TextOK' /\ ChunksOK' /\ CutInv'
    BY <1>5, CutStays DEF Build, cutting
  <2>2. BatchesOK' /\ VectorsOK' /\ AtOK'
    BY <1>5 DEF TextInv, Build, batching, BatchesOK, VectorsOK, AtOK
  <2>3. GroupInv'
    BY <1>5 DEF TextInv, Build, cutting, batching, GroupInv
  <2> QED BY <2>1, <2>2, <2>3 DEF TextInv
<1>6. CASE UNCHANGED textVars
  <2>1. TextOK' /\ ChunksOK' /\ CutInv'
    BY <1>6, CutStays DEF textVars, cutting
  <2>2. BatchesOK' /\ VectorsOK' /\ AtOK' /\ GroupInv'
    BY <1>6 DEF TextInv, textVars, cutting, batching, BatchesOK, VectorsOK, AtOK, GroupInv
  <2> QED BY <2>1, <2>2 DEF TextInv
<1> QED BY <1>1, <1>2, <1>3, <1>4, <1>5, <1>6 DEF TextNext

\* The inductive invariant holds of every text, under all limits the assumption allows.
THEOREM TextInvariance == TextSpec => []TextInv
<1> QED BY TextStart, TextStepKeeps, PTL DEF TextSpec

\* The text, the chunks, the batches and the vectors keep their types.
THEOREM TextTypeCorrect == TextSpec => []TextTypeOK
<1>1. TextInv => TextTypeOK
  <2> SUFFICES ASSUME TextInv PROVE TextTypeOK
    OBVIOUS
  <2>1. Chunks \subseteq [from : Nat, to : Nat]
    BY DEF Chunks
  <2>2. chunks \in Seq([from : Nat, to : Nat])
    <3>1. chunks \in Seq(Chunks)
      BY DEF TextInv, ChunksOK
    <3> QED BY ONLY <2>1, <3>1, SeqMonotonic
  <2> QED BY <2>2 DEF TextInv, TextTypeOK, TextOK, ChunksOK, BatchesOK, VectorsOK, AtOK
<1> QED BY <1>1, TextInvariance, PTL

\* The chunks of every text advance by a stretch that only the limits determine.
THEOREM CutsAdvance == TextSpec => []ChunksAdvance
<1>1. TextInv => ChunksAdvance
  BY DEF TextInv, CutInv
<1> QED BY <1>1, TextInvariance, PTL

\* Every word of every text is in a chunk once the text is cut, and every chunk is stored
\* with the vector of its own text.
THEOREM TextIsIndexed == TextSpec => []RecordsAreTheText
<1>1. TextInv => NoWordIsLost
  <2> SUFFICES ASSUME TextInv, stage \in {"batch", "embed", "done"}, NEW p \in 1..Len(text), ~Blank(p)
               PROVE  \E k \in 1..Len(chunks) : p \in chunks[k].from + 1 .. chunks[k].to
    BY DEF NoWordIsLost
  <2> QED BY DEF TextInv, CutInv, Covered
<1>2. TextInv => VectorsAreTheirs
  BY DEF TextInv, GroupInv, VectorsAreTheirs
<1>3. TextInv => RecordsAreTheText
  BY <1>1, <1>2 DEF RecordsAreTheText
<1> QED BY <1>3, TextInvariance, PTL

\* No text that was accepted is refused later: the chunks, the batches and the vectors are
\* what the next part takes, for all limits that satisfy the assumption.
THEOREM PartsAgree == TextSpec => []NeverRefused
<1>1. FitInv => NeverRefused
  BY DEF FitInv
<1>2. TextSpec => []FitInv
  BY TextInvariance, FitInit, FitKeeps, PTL DEF TextSpec
<1> QED BY <1>1, <1>2, PTL

-----------------------------------------------------------------------------
(* KnowledgeIndexing.                                                       *)

USE IndexingAssumption DEF IndexingAssumption, source, attempts, jobs

\* The inductive invariant's parts.  A job has written the batches it says it has, in the
\* collection of the deployed model; the job an attempt waits for is one of its version; an
\* attempt that will record an index has all of it.
JobsWrote == \A a \in Attempts : jobFor[a] # 0 => 1..done[a] \subseteq points[model][jobFor[a]]
CallsOwnJob == \A a \in Attempts : at[a] = "call" /\ jobFor[a] # 0 => jobFor[a] = claimed[a]
FinalIsWhole == \A a \in Attempts : at[a] = "finalize" => Whole(model, claimed[a])

\* An attempt under way has claimed a version.
BusyHasVersion == \A a \in Attempts : at[a] # "idle" => claimed[a] \in Versions

\* The operation of an attempt that has not settled it is dispatched and its own.
Holding(a) == at[a] \in {"call", "finalize", "complete"}
HoldersDispatched == \A a \in Attempts : Holding(a) => on[a] \in Days /\ op[Key(a)] = "dispatched"
HoldersDiffer == \A a, b \in Attempts : a # b /\ Holding(a) /\ Holding(b) => Key(a) # Key(b)

BaseInv == TypeOK /\ BusyHasVersion /\ HoldersDispatched /\ HoldersDiffer

\* What says it is indexed names a model.
NamesModel == there /\ status = "indexed" => indexed.model \in ModelIds

IndexInv == JobsWrote /\ CallsOwnJob /\ FinalIsWhole /\ NamesModel /\ IndexedIsComplete

-----------------------------------------------------------------------------
(* Types, versions and operations.                                         *)

LEMMA BaseInit == Init => BaseInv
BY DEF Init, BaseInv, TypeOK, SourceOK, WorkOK, PointsOK, OpOK, WorldOK, Versions, ModelIds, Days,
       NotIndexed, Places, BusyHasVersion, HoldersDispatched, HoldersDiffer, Holding

\* The writes of the source are of its types.
LEMMA SourceTypes == TypeOK /\ [Next]_vars => SourceOK'
<1> SUFFICES ASSUME TypeOK, [Next]_vars PROVE SourceOK'
  OBVIOUS
<1>0. SourceOK /\ model \in 0..MaxModel /\ \A a \in Attempts : claimed[a] \in 0..MaxVer
  BY DEF TypeOK, WorkOK, WorldOK, ModelIds
<1>1. CASE Edit \/ Delete \/ LeaseRunsOut
  <2>1. NotIndexed \in [ver : 0..MaxVer, model : 0..MaxModel]
    BY DEF NotIndexed
  <2>2. CASE Edit
    BY <2>1, <2>2, <1>0 DEF Edit, SourceOK, Versions
  <2>3. CASE Delete
    BY <2>1, <2>3, <1>0 DEF Delete, SourceOK
  <2>4. CASE LeaseRunsOut
    BY <2>4, <1>0 DEF LeaseRunsOut, SourceOK
  <2> QED
    BY <1>1, <2>2, <2>3, <2>4
<1>2. CASE UNCHANGED source
  BY <1>2, <1>0 DEF SourceOK
<1>3. ASSUME NEW a \in Attempts, Claim(a) PROVE SourceOK'
  BY <1>3, <1>0 DEF Claim, SourceOK
<1>4. ASSUME NEW a \in Attempts, Finalize(a) PROVE SourceOK'
  <2>1. [ver |-> claimed[a], model |-> model] \in [ver : 0..MaxVer, model : 0..MaxModel]
    BY <1>0
  <2> QED
    BY <1>4, <2>1, <1>0 DEF Finalize, SourceOK
<1>5. ASSUME NEW a \in Attempts, Record(a) PROVE SourceOK'
  BY <1>5, <1>0 DEF Record, SourceOK
<1>6. ASSUME NEW a \in Attempts, Admit(a) \/ Call(a) \/ Complete(a) \/ Dies(a) \/ JobStep(a)
      PROVE UNCHANGED source
  BY <1>6 DEF Admit, Call, Complete, Dies, JobStep
<1>7. NextDay \/ Deploy \/ UNCHANGED vars => UNCHANGED source
  BY DEF NextDay, Deploy, vars
<1> QED
  BY <1>1, <1>2, <1>3, <1>4, <1>5, <1>6, <1>7 DEF Next, Work

\* A job writes points of the version it is for, and counts them.
LEMMA JobWrites ==
    ASSUME TypeOK, NEW a \in Attempts, JobStep(a)
    PROVE  /\ PointsOK'
           /\ jobFor' \in [Attempts -> 0..MaxVer] /\ done' \in [Attempts -> 0..Batches]
           /\ \A m \in ModelIds, v \in Versions : points[m][v] \subseteq points'[m][v]
           /\ \/ UNCHANGED points /\ jobFor'[a] = 0
              \/ done[a] + 1 \in points'[model][jobFor[a]]
           /\ \A b \in Attempts : jobFor'[b] # 0 =>
                 /\ jobFor'[b] = jobFor[b]
                 /\ IF b = a THEN done'[b] = done[b] + 1 ELSE done'[b] = done[b]
<1>0. /\ PointsOK /\ model \in ModelIds
      /\ jobFor \in [Attempts -> 0..MaxVer] /\ done \in [Attempts -> 0..Batches]
  BY DEF TypeOK, WorkOK, WorldOK
<1>1. jobFor[a] \in Versions /\ done[a] + 1 \in 1..Batches
  BY <1>0 DEF JobStep, Running, Versions
<1> DEFINE row == [points[model] EXCEPT ![jobFor[a]] = @ \cup {done[a] + 1}]
<1>2. row \in [Versions -> SUBSET (1..Batches)] /\ done[a] + 1 \in row[jobFor[a]]
      /\ \A v \in Versions : points[model][v] \subseteq row[v]
  BY <1>0, <1>1 DEF PointsOK
<1>3. \/ points' = [points EXCEPT ![model] = row]
      \/ UNCHANGED points /\ jobFor'[a] = 0
  BY <1>0, <1>1 DEF JobStep
<1> HIDE DEF row
<1>4. /\ PointsOK'
      /\ \A m \in ModelIds, v \in Versions : points[m][v] \subseteq points'[m][v]
      /\ \/ UNCHANGED points /\ jobFor'[a] = 0
         \/ done[a] + 1 \in points'[model][jobFor[a]]
  BY <1>0, <1>1, <1>2, <1>3 DEF PointsOK
<1>5. jobFor' \in [Attempts -> 0..MaxVer] /\ done' \in [Attempts -> 0..Batches]
  BY <1>0, <1>1 DEF JobStep
<1>6. \A b \in Attempts : jobFor'[b] # 0 =>
          /\ jobFor'[b] = jobFor[b]
          /\ IF b = a THEN done'[b] = done[b] + 1 ELSE done'[b] = done[b]
  BY <1>0, <1>1 DEF JobStep
<1> QED
  BY <1>4, <1>5, <1>6

\* A settled operation is released or completed; no other changes.
LEMMA SettleTypes ==
    ASSUME OpOK, NEW a \in Attempts, Key(a) \in Versions \X Days,
           NEW to \in {"free", "settled"}, Settle(a, to)
    PROVE  OpOK' /\ \A k \in Versions \X Days : k # Key(a) => op'[k] = op[k]
BY DEF Settle, OpOK

LEMMA BaseNext == BaseInv /\ [Next]_vars => BaseInv'
<1> SUFFICES ASSUME BaseInv, [Next]_vars PROVE BaseInv'
  OBVIOUS
<1> USE DEF BaseInv
<1>0. TypeOK /\ SourceOK /\ WorkOK /\ PointsOK /\ OpOK /\ WorldOK
  BY DEF TypeOK
<1>k. \A a \in Attempts : Holding(a) => Key(a) \in Versions \X Days
  BY DEF BusyHasVersion, HoldersDispatched, Holding, Key
<1>s. SourceOK'
  BY SourceTypes
<1>1. CASE Edit \/ Delete \/ LeaseRunsOut \/ NextDay
  <2>1. UNCHANGED <<points, op, attempts, jobs, model>> /\ day' \in Days /\ faults' \in 0..MaxFaults
    BY <1>1, <1>0 DEF Edit, Delete, LeaseRunsOut, NextDay, Fault, WorldOK, Days
  <2>2. TypeOK'
    BY <2>1, <1>s, <1>0 DEF TypeOK, WorkOK, PointsOK, OpOK, WorldOK
  <2> QED
    BY <2>1, <2>2 DEF BusyHasVersion, HoldersDispatched, HoldersDiffer, Holding, Key
<1>2. CASE Deploy
  <2>1. TypeOK'
    BY <1>2, <1>0, <1>s DEF Deploy, TypeOK, WorkOK, PointsOK, OpOK, WorldOK, ModelIds, Places
  <2> QED
    BY <1>2, <2>1 DEF Deploy, BusyHasVersion, HoldersDispatched, HoldersDiffer, Holding
<1>3. ASSUME NEW a \in Attempts, Claim(a) PROVE BaseInv'
  <2>0. ver \in Versions /\ ver \in 0..MaxVer
    BY <1>0 DEF SourceOK, Versions
  <2>1. TypeOK'
    BY <1>3, <1>0, <1>s, <2>0 DEF Claim, Goes, TypeOK, WorkOK, PointsOK, OpOK, WorldOK, Places
  <2>2. BusyHasVersion'
    BY <1>3, <1>0, <2>0 DEF Claim, Goes, WorkOK, BusyHasVersion
  <2>3. HoldersDispatched' /\ HoldersDiffer'
    BY <1>3, <1>0 DEF Claim, Goes, WorkOK, HoldersDispatched, HoldersDiffer, Holding, Key
  <2> QED
    BY <2>1, <2>2, <2>3
<1>4. ASSUME NEW a \in Attempts, Admit(a) PROVE BaseInv'
  <2> DEFINE key == <<claimed[a], day>>
  <2>1. key \in Versions \X Days /\ claimed[a] \in 0..MaxVer /\ day \in 0..MaxDay
    BY <1>4, <1>0 DEF Admit, BusyHasVersion, WorldOK, Versions, Days
  <2>2. OpOK'
    BY <1>4, <2>1, <1>0 DEF Admit, OpOK
  <2>3. TypeOK'
    <3>1. on' \in [Attempts -> 0..MaxDay]
      BY <1>4, <2>1, <1>0 DEF Admit, WorkOK
    <3>2. jobFor' \in [Attempts -> 0..MaxVer] /\ done' \in [Attempts -> 0..Batches]
      BY <1>4, <2>1, <1>0 DEF Admit, WorkOK
    <3>3. at' \in [Attempts -> Places] /\ faults' \in 0..MaxFaults
      BY <1>4, <1>0 DEF Admit, Goes, Fault, WorkOK, WorldOK, Places
    <3>4. UNCHANGED <<points, claimed, keep, model, day>>
      BY <1>4 DEF Admit
    <3> QED
      BY <2>2, <3>1, <3>2, <3>3, <3>4, <1>0, <1>s DEF TypeOK, WorkOK, PointsOK, WorldOK
  <2>4. BusyHasVersion'
    BY <1>4, <1>0 DEF Admit, Goes, WorkOK, BusyHasVersion
  <2>5. CASE Goes(a, "record") /\ UNCHANGED on /\ (UNCHANGED op \/ (Admits(key) /\ op' = [op EXCEPT ![key] = "dispatched"]))
    <3>1. ASSUME NEW b \in Attempts, Holding(b)' PROVE Holding(b) /\ Key(b)' = Key(b) /\ b # a
      BY <3>1, <2>5, <1>4, <1>0 DEF Goes, Holding, Key, Admit, WorkOK
    <3>2. ASSUME NEW b \in Attempts, Holding(b) PROVE op'[Key(b)] = "dispatched"
      BY <3>2, <2>5, <2>1, <1>k, <1>0 DEF HoldersDispatched, OpOK, Admits
    <3>3. HoldersDiffer'
      BY <3>1 DEF HoldersDiffer
    <3>4. HoldersDispatched'
      BY <3>1, <3>2, <2>5 DEF HoldersDispatched
    <3> QED
      BY <2>3, <2>4, <3>3, <3>4
  <2>6. CASE Admits(key) /\ op' = [op EXCEPT ![key] = "dispatched"] /\ Goes(a, "call") /\ on' = [on EXCEPT ![a] = day]
    <3>1. Key(a)' = key /\ on'[a] \in Days
      BY <2>6, <1>4, <1>0 DEF Key, WorkOK, WorldOK, Admit
    <3>2. ASSUME NEW b \in Attempts, b # a, Holding(b)'
          PROVE  Holding(b) /\ Key(b)' = Key(b) /\ on'[b] = on[b] /\ Key(b) # key
      <4>1. Holding(b) /\ Key(b)' = Key(b) /\ on'[b] = on[b]
        BY <3>2, <2>6, <1>4, <1>0 DEF Goes, Holding, Key, Admit, WorkOK
      <4> QED
        BY <4>1, <2>6 DEF HoldersDispatched, Admits
    <3>3. op'[key] = "dispatched" /\ \A k \in Versions \X Days : k # key => op'[k] = op[k]
      BY <2>6, <2>1, <1>0 DEF OpOK
    <3> HIDE DEF key
    <3>4. ASSUME NEW b \in Attempts, Holding(b)' PROVE on'[b] \in Days /\ op'[Key(b)'] = "dispatched"
      <4>1. CASE b = a
        BY <4>1, <3>1, <3>3
      <4>2. CASE b # a
        <5>1. on[b] \in Days /\ op[Key(b)] = "dispatched" /\ Key(b) \in Versions \X Days
          BY <4>2, <3>2, <3>4, <1>k DEF HoldersDispatched
        <5> QED
          BY <4>2, <3>2, <3>3, <3>4, <5>1
      <4> QED
        BY <4>1, <4>2
    <3>5. HoldersDiffer'
      BY <3>1, <3>2 DEF HoldersDiffer
    <3> QED
      BY <2>3, <2>4, <3>4, <3>5 DEF HoldersDispatched
  <2> QED
    BY <1>4, <2>5, <2>6 DEF Admit
<1>5. ASSUME NEW a \in Attempts, Call(a) \/ Finalize(a) \/ Complete(a) PROVE BaseInv'
  <2>1. Holding(a) /\ UNCHANGED <<claimed, on>> /\ (\E p \in Places : Goes(a, p))
    BY <1>5 DEF Call, Finalize, Complete, Holding, Places
  <2>2. \/ UNCHANGED op
        \/ Goes(a, "record") /\ \E to \in {"free", "settled"} : Settle(a, to)
    BY <1>5 DEF Call, Finalize, Complete
  <2>3. OpOK'
    <3>1. CASE UNCHANGED op
      BY <3>1, <1>0 DEF OpOK
    <3>2. ASSUME NEW to \in {"free", "settled"}, Settle(a, to) PROVE OpOK'
      BY <3>2, <1>0, <1>k, <2>1, SettleTypes
    <3> QED
      BY <2>2, <3>1, <3>2
  <2>4. TypeOK'
    <3>1. at' \in [Attempts -> Places]
      BY <2>1, <1>0 DEF Goes, WorkOK
    <3>2. UNCHANGED faults \/ Fault
      BY <1>5 DEF Call, Finalize, Complete
    <3>3. faults' \in 0..MaxFaults
      BY <3>2, <1>0 DEF Fault, WorldOK
    <3>4. keep' \in [Attempts -> BOOLEAN]
      BY <1>5, <1>0 DEF Call, Finalize, Complete, WorkOK
    <3>5. UNCHANGED <<points, claimed, on, jobFor, done, model, day>>
      BY <1>5 DEF Call, Finalize, Complete
    <3> QED
      BY <2>3, <3>1, <3>3, <3>4, <3>5, <1>0, <1>s DEF TypeOK, WorkOK, PointsOK, WorldOK
  <2>5. BusyHasVersion'
    BY <2>1, <1>0 DEF Goes, BusyHasVersion, Holding, WorkOK
  <2>6. ASSUME NEW b \in Attempts, Holding(b)'
        PROVE  Holding(b) /\ Key(b)' = Key(b) /\ (b = a => UNCHANGED op)
    BY <2>1, <2>2, <2>6, <1>0 DEF Goes, Holding, Key, WorkOK
  <2>7. HoldersDiffer'
    BY <2>6 DEF HoldersDiffer
  <2>8. ASSUME NEW b \in Attempts, Holding(b)' PROVE on'[b] \in Days /\ op'[Key(b)'] = "dispatched"
    <3>1. on[b] \in Days /\ op[Key(b)] = "dispatched" /\ Key(b)' = Key(b) /\ on' = on
      BY <2>6, <2>8, <2>1 DEF HoldersDispatched
    <3>2. CASE UNCHANGED op
      BY <3>1, <3>2
    <3>3. ASSUME b # a, NEW to \in {"free", "settled"}, Settle(a, to)
          PROVE  op'[Key(b)] = "dispatched"
      <4>1. Key(b) # Key(a) /\ Key(b) \in Versions \X Days /\ Key(a) \in Versions \X Days
        BY <3>3, <1>k, <2>1, <2>6, <2>8 DEF HoldersDiffer
      <4> QED
        BY <4>1, <3>1, <3>3, <1>0, SettleTypes
    <3> QED
      BY <3>1, <3>2, <3>3, <2>2, <2>6, <2>8
  <2> QED
    BY <2>4, <2>5, <2>7, <2>8 DEF HoldersDispatched
<1>6. ASSUME NEW a \in Attempts, Record(a) \/ Dies(a) PROVE BaseInv'
  <2>0. Ends(a) /\ UNCHANGED <<points, op, model, day>> /\ (UNCHANGED faults \/ Fault)
    BY <1>6 DEF Record, Dies
  <2>1. WorkOK' /\ faults' \in 0..MaxFaults
    BY <2>0, <1>0 DEF Ends, Goes, Fault, WorkOK, WorldOK, Places
  <2>2. at' = [at EXCEPT ![a] = "idle"] /\ UNCHANGED op
        /\ \A b \in Attempts : b # a => claimed'[b] = claimed[b] /\ on'[b] = on[b]
    BY <2>0, <1>0 DEF Ends, Goes, WorkOK
  <2>3. ASSUME NEW b \in Attempts, at'[b] # "idle" PROVE at'[b] = at[b] /\ claimed'[b] = claimed[b] /\ on'[b] = on[b]
    BY <2>2, <2>3, <1>0 DEF WorkOK
  <2>4. TypeOK'
    BY <2>0, <2>1, <1>0, <1>s DEF TypeOK, PointsOK, OpOK, WorldOK
  <2> QED
    BY <2>2, <2>3, <2>4 DEF BusyHasVersion, HoldersDispatched, HoldersDiffer, Holding, Key
<1>7. ASSUME NEW a \in Attempts, JobStep(a) PROVE BaseInv'
  <2>1. UNCHANGED <<op, at, claimed, on, keep, model, day, faults>>
    BY <1>7 DEF JobStep
  <2>2. TypeOK'
    BY <1>7, <2>1, <1>0, <1>s, JobWrites DEF TypeOK, WorkOK, OpOK, WorldOK
  <2> QED
    BY <2>1, <2>2 DEF BusyHasVersion, HoldersDispatched, HoldersDiffer, Holding, Key
<1>8. CASE UNCHANGED vars
  BY <1>8, <1>0 DEF vars, TypeOK, SourceOK, WorkOK, PointsOK, OpOK, WorldOK, BusyHasVersion,
     HoldersDispatched, HoldersDiffer, Holding, Key
<1> QED
  BY <1>1, <1>2, <1>3, <1>4, <1>5, <1>6, <1>7, <1>8 DEF Next, Work

\* The source, the collection, the operations, the attempts and their jobs keep their types.
THEOREM TypeCorrect == Spec => []TypeOK
<1>1. Spec => []BaseInv
  BY BaseInit, BaseNext, PTL DEF Spec
<1> QED
  BY <1>1, PTL DEF BaseInv

\* InFlightOnce: no version is sent twice at once on one day, whatever lease runs out.
THEOREM SentOnceAtATime == Spec => []InFlightOnce
<1>1. BaseInv => InFlightOnce
  BY DEF BaseInv, HoldersDiffer, Holding, InFlightOnce
<1>2. Spec => []BaseInv
  BY BaseInit, BaseNext, PTL DEF Spec
<1> QED
  BY <1>1, <1>2, PTL

-----------------------------------------------------------------------------
(* The index.                                                              *)

LEMMA IndexInit == Init => IndexInv
BY DEF Init, IndexInv, JobsWrote, CallsOwnJob, FinalIsWhole, NamesModel, IndexedIsComplete

LEMMA IndexNext == BaseInv /\ IndexInv /\ [Next]_vars => IndexInv'
<1> SUFFICES ASSUME BaseInv, IndexInv, [Next]_vars PROVE IndexInv'
  OBVIOUS
<1> USE DEF IndexInv
<1>0. TypeOK /\ WorkOK /\ PointsOK /\ BusyHasVersion /\ model \in ModelIds /\ ver \in Versions
  BY DEF BaseInv, TypeOK, WorldOK, SourceOK
<1>1. CASE Edit \/ Delete \/ LeaseRunsOut \/ NextDay
  <2>1. UNCHANGED <<points, at, claimed, jobFor, done, model>>
    BY <1>1 DEF Edit, Delete, LeaseRunsOut, NextDay
  <2>2. there' /\ status' = "indexed" => UNCHANGED <<there, status, indexed, ver>>
    BY <1>1 DEF Edit, Delete, LeaseRunsOut, NextDay
  <2> QED
    BY <2>1, <2>2 DEF JobsWrote, CallsOwnJob, FinalIsWhole, NamesModel, IndexedIsComplete, Whole
<1>2. CASE Deploy
  BY <1>2 DEF Deploy, JobsWrote, CallsOwnJob, FinalIsWhole, NamesModel, IndexedIsComplete, Whole
<1>3. ASSUME NEW a \in Attempts, Claim(a) PROVE IndexInv'
  BY <1>3, <1>0 DEF Claim, Goes, WorkOK, JobsWrote, CallsOwnJob, FinalIsWhole, NamesModel, IndexedIsComplete, Whole
<1>4. ASSUME NEW a \in Attempts, Admit(a) PROVE IndexInv'
  <2>1. JobsWrote'
    BY <1>4, <1>0 DEF Admit, WorkOK, JobsWrote
  <2>2. CallsOwnJob'
    BY <1>4, <1>0 DEF Admit, Goes, WorkOK, CallsOwnJob
  <2>3. FinalIsWhole' /\ NamesModel' /\ IndexedIsComplete'
    BY <1>4, <1>0 DEF Admit, Goes, WorkOK, FinalIsWhole, NamesModel, IndexedIsComplete, Whole
  <2> QED
    BY <2>1, <2>2, <2>3
<1>5. ASSUME NEW a \in Attempts, Call(a) PROVE IndexInv'
  <2>1. JobsWrote' /\ NamesModel' /\ IndexedIsComplete'
    BY <1>5 DEF Call, JobsWrote, NamesModel, IndexedIsComplete, Whole
  <2>2. CallsOwnJob'
    BY <1>5, <1>0 DEF Call, Goes, WorkOK, CallsOwnJob
  <2>3. ASSUME at'[a] = "finalize" PROVE Whole(model, claimed[a])
    <3>1. jobFor[a] = claimed[a] /\ claimed[a] \in Versions /\ done[a] = Batches
      BY <1>5, <1>0, <2>3 DEF Call, Goes, WorkOK, Answered, CallsOwnJob, BusyHasVersion
    <3>2. 1..Batches \subseteq points[model][claimed[a]]
      BY <3>1 DEF JobsWrote, Versions
    <3>3. points[model][claimed[a]] \subseteq 1..Batches
      BY <3>1, <1>0 DEF PointsOK
    <3> QED
      BY <3>2, <3>3 DEF Whole
  <2>4. FinalIsWhole'
    BY <1>5, <2>3, <1>0 DEF Call, Goes, WorkOK, FinalIsWhole, Whole
  <2> QED
    BY <2>1, <2>2, <2>4
<1>6. ASSUME NEW a \in Attempts, Finalize(a) PROVE IndexInv'
  <2>1. JobsWrote' /\ CallsOwnJob' /\ FinalIsWhole'
    BY <1>6, <1>0 DEF Finalize, Goes, WorkOK, JobsWrote, CallsOwnJob, FinalIsWhole, Whole
  <2>2. NamesModel' /\ IndexedIsComplete'
    <3>1. CASE Held(a) /\ indexed' = [ver |-> claimed[a], model |-> model] /\ UNCHANGED <<ver, points>>
      <4>1. ver = claimed[a] /\ Whole(model, claimed[a])
        BY <1>6, <3>1 DEF Finalize, Held, FinalIsWhole
      <4> QED
        BY <4>1, <3>1, <1>0 DEF NamesModel, IndexedIsComplete, Whole
    <3>2. CASE UNCHANGED <<there, ver, status, indexed, points>>
      BY <3>2 DEF NamesModel, IndexedIsComplete, Whole
    <3> QED
      BY <1>6, <3>1, <3>2 DEF Finalize
  <2> QED
    BY <2>1, <2>2
<1>7. ASSUME NEW a \in Attempts, Complete(a) PROVE IndexInv'
  BY <1>7, <1>0 DEF Complete, Goes, WorkOK, JobsWrote, CallsOwnJob, FinalIsWhole, NamesModel, IndexedIsComplete, Whole
<1>8. ASSUME NEW a \in Attempts, Record(a) \/ Dies(a) PROVE IndexInv'
  <2>1. /\ UNCHANGED <<points, model>> /\ at' = [at EXCEPT ![a] = "idle"]
        /\ \A b \in Attempts : b # a => claimed'[b] = claimed[b]
        /\ \A b \in Attempts : jobFor'[b] # 0 => jobFor'[b] = jobFor[b] /\ done'[b] = done[b]
    <3>1. Ends(a) /\ UNCHANGED <<points, model>>
      BY <1>8 DEF Record, Dies
    <3> QED
      BY <3>1, <1>0 DEF Ends, Goes, WorkOK
  <2>2. JobsWrote'
    <3> SUFFICES ASSUME NEW b \in Attempts, jobFor'[b] # 0
                 PROVE  1..done'[b] \subseteq points[model][jobFor'[b]]
      BY <2>1 DEF JobsWrote
    <3>1. jobFor'[b] = jobFor[b] /\ done'[b] = done[b] /\ jobFor[b] # 0
      BY <2>1
    <3>2. 1..done[b] \subseteq points[model][jobFor[b]]
      BY <3>1 DEF JobsWrote
    <3> QED
      BY <3>1, <3>2
  <2>c. CallsOwnJob'
    BY <2>1, <1>0 DEF CallsOwnJob, WorkOK
  <2>3. FinalIsWhole'
    BY <2>1, <1>0 DEF FinalIsWhole, WorkOK, Whole
  <2>4. NamesModel' /\ IndexedIsComplete'
    BY <1>8 DEF Record, Dies, NamesModel, IndexedIsComplete, Whole
  <2> QED
    BY <2>2, <2>c, <2>3, <2>4
<1>9. ASSUME NEW a \in Attempts, JobStep(a) PROVE IndexInv'
  <2>1. UNCHANGED <<source, at, claimed, model>>
    BY <1>9 DEF JobStep
  <2>2. /\ \A m \in ModelIds, v \in Versions : points[m][v] \subseteq points'[m][v]
        /\ PointsOK'
    BY <1>9, <1>0, JobWrites
  <2>3. ASSUME NEW m \in ModelIds, NEW v \in Versions, Whole(m, v) PROVE Whole(m, v)'
    BY <2>2, <2>3 DEF Whole, PointsOK
  <2>4. JobsWrote'
    <3> SUFFICES ASSUME NEW b \in Attempts, jobFor'[b] # 0
                 PROVE  1..done'[b] \subseteq points'[model][jobFor'[b]]
      BY <2>1 DEF JobsWrote
    <3>1. /\ jobFor'[b] = jobFor[b] /\ done'[b] = (IF b = a THEN done[b] + 1 ELSE done[b])
          /\ b = a => done[a] + 1 \in points'[model][jobFor[a]]
      BY <1>9, <1>0, JobWrites
    <3>2. jobFor[b] \in Versions /\ done[b] \in Nat
      BY <3>1, <1>0 DEF WorkOK, Versions
    <3>3. 1..done[b] \subseteq points'[model][jobFor[b]]
      BY <3>1, <3>2, <2>2, <1>0 DEF JobsWrote
    <3> QED
      BY <3>1, <3>2, <3>3
  <2>5. CallsOwnJob'
    BY <1>9, <2>1, <1>0, JobWrites DEF CallsOwnJob
  <2>6. FinalIsWhole'
    BY <2>1, <2>3, <1>0 DEF FinalIsWhole, BusyHasVersion, Whole
  <2>7. NamesModel' /\ IndexedIsComplete'
    <3> SUFFICES ASSUME there, status = "indexed"
                 PROVE  indexed.model \in ModelIds /\ indexed.ver = ver /\ Whole(indexed.model, ver)'
      BY <2>1 DEF NamesModel, IndexedIsComplete, Whole
    <3>1. indexed.model \in ModelIds /\ indexed.ver = ver /\ Whole(indexed.model, ver)
      BY DEF NamesModel, IndexedIsComplete
    <3> QED
      BY <3>1, <2>1, <2>3, <1>0 DEF Whole
  <2> QED
    BY <2>4, <2>5, <2>6, <2>7
<1>10. CASE UNCHANGED vars
  BY <1>10 DEF vars, JobsWrote, CallsOwnJob, FinalIsWhole, NamesModel, IndexedIsComplete, Whole
<1> QED
  BY <1>1, <1>2, <1>3, <1>4, <1>5, <1>6, <1>7, <1>8, <1>9, <1>10 DEF Next, Work

LEMMA IndexHolds == Spec => [](BaseInv /\ IndexInv)
<1>1. BaseInv /\ IndexInv /\ [Next]_vars => (BaseInv /\ IndexInv)'
  BY BaseNext, IndexNext
<1> QED
  BY <1>1, BaseInit, IndexInit, PTL DEF Spec

\* IndexedIsComplete: what says it is indexed is current and has all of its points, for any
\* number of attempts, batches, edits and faults.
THEOREM IndexIsComplete == Spec => []IndexedIsComplete
BY IndexHolds, PTL DEF IndexInv

\* NothingHalfIndexed: a search answers with nothing but a whole version, the source's.
THEOREM SearchIsCurrent == Spec => []NothingHalfIndexed
<1>1. IndexInv => NothingHalfIndexed
  BY DEF IndexInv, IndexedIsComplete, NothingHalfIndexed, Answers, Candidates, Compatible
<1> QED
  BY <1>1, IndexHolds, PTL

\* IndexIsWhole: the two together, which the run checks.
THEOREM IndexWhole == Spec => []IndexIsWhole
BY IndexIsComplete, SearchIsCurrent, PTL DEF IndexIsWhole

-----------------------------------------------------------------------------
(* SourceIntake.                                                            *)

USE IntakeAssumption DEF IntakeAssumption, intake, Latest

Busy(q) == q.at # "idle"

\* A file has been there once; what a source has of it is trimmed.
FileInv ==
    origin = "github" =>
        /\ Latest >= 1
        /\ \A n \in Notes : note[n].is = "there" =>
              note[n].base = Trimmed(note[n].hash) /\ note[n].text.tail = FALSE

\* An import stores the commit it has pinned.
ImportGood(q) ==
    Busy(q) /\ q.verb = "import" =>
        /\ origin = "github" /\ q.at \in {"shown", "create"}
        /\ q.rev \in 1..Latest /\ q.incoming = q.rev

\* An export stores the revision that was shown, to the source that was.
ExportGood(q) ==
    Busy(q) /\ q.verb = "export" =>
        /\ origin # "github" /\ q.at \in {"shown", "find", "create", "write"}
        /\ q.rev \in 1..Latest
        /\ q.at # "shown" => q.incoming = q.rev
        /\ q.at = "write" => q.id \in Notes

\* While a source has the version a refresh was shown, it has the text that was shown and
\* the hash that was read; and it is unedited if a refresh replaces it unacknowledged.
SameAsRead(q, n) ==
    /\ n.text = q.saw
    /\ q.at = "head" => n.text = q.text /\ n.hash = q.hash
    /\ q.at = "write" /\ ~q.ack => n.text = n.base

RefreshGood(q) ==
    Busy(q) /\ q.verb = "refresh" =>
        /\ origin = "github" /\ q.at \in {"shown", "head", "write"}
        /\ q.at = "write" => q.incoming \in 1..Latest
        /\ q.id \in Notes /\ note[q.id].is # "none"
        /\ note[q.id].is = "there" =>
              /\ q.ver <= note[q.id].ver
              /\ note[q.id].ver = q.ver => SameAsRead(q, note[q.id])

RequestsGood ==
    \A r \in Requests : ImportGood(request[r]) /\ ExportGood(request[r]) /\ RefreshGood(request[r])

IntakeInv == IntakeOK /\ FileInv /\ RequestsGood

-----------------------------------------------------------------------------
(* Texts.                                                                   *)

\* Trimming gives a text without blanks around it, and once is enough.
LEMMA TrimmedText ==
    ASSUME NEW t \in Texts \cup {NoText}
    PROVE  /\ Trimmed(t) \in Texts \cup {NoText} /\ Trimmed(t).tail = FALSE
           /\ Trimmed(Trimmed(t)) = Trimmed(t) /\ (t.tail = FALSE => Trimmed(t) = t)
           /\ t \in Texts => Trimmed(t) \in Texts
<1> DEFINE Any == [body : Bodies \cup {NoBody}, tail : BOOLEAN]
<1>1. \A u \in Any : Trimmed(u) \in Any /\ Trimmed(u).body = u.body /\ Trimmed(u).tail = FALSE
  BY DEF Trimmed
<1>2. t \in Any /\ (t \in Texts => t.body \in Bodies)
  <2>1. \A u \in [body : Bodies, tail : {FALSE}] : u \in Any /\ u.body \in Bodies
    OBVIOUS
  <2>2. \A u \in [body : Ragged, tail : {TRUE}] : u \in Any /\ u.body \in Bodies
    OBVIOUS
  <2>3. NoText \in Any
    BY DEF NoText, Gone
  <2> HIDE DEF Any
  <2>4. NoText \notin Texts
    BY <2>1, <2>2 DEF NoText, Gone, Texts
  <2> QED
    BY <2>1, <2>2, <2>3, <2>4 DEF Texts
<1>3. \A u \in Any : u.tail = FALSE /\ u.body \in Bodies => u \in Texts
  BY DEF Texts
<1>4. \A u \in Any : u.tail = FALSE => u \in Texts \cup {NoText}
  BY <1>3 DEF NoText, Gone
<1>5. \A u, v \in Any : u.body = v.body /\ u.tail = v.tail => u = v
  OBVIOUS
<1> HIDE DEF Any
<1> QED
  BY <1>1, <1>2, <1>3, <1>4, <1>5

\* What is at a place of upstream is a text, and stays there.
LEMMA UpstreamText ==
    ASSUME IntakeOK, NEW i \in 1..Latest
    PROVE  upstream[i] \in Texts \cup {NoText}
BY DEF IntakeOK, NoText, Gone

\* The records of IntakeOK.
NoteRecords == [is : {"none", "there", "gone"}, text : Texts \cup {NoText}, ver : 0..MaxEdits,
                hash : Texts \cup {NoText}, base : Texts \cup {NoText}]

RequestRecords == [at : {"idle", "shown", "head", "find", "create", "write"},
                   verb : {"import", "refresh", "export"}, rev : 0..MaxRev,
                   id : Notes \cup {NoNote}, ver : 0..MaxEdits, saw : Texts \cup {NoText},
                   ack : BOOLEAN, incoming : 0..MaxRev, text : Texts \cup {NoText},
                   hash : Texts \cup {NoText}]

LEMMA TypesOfState ==
    IntakeOK <=> /\ origin \in Origins /\ upstream \in Seq(Texts \cup {Gone}) /\ Latest <= MaxRev
                 /\ note \in [Notes -> NoteRecords]
                 /\ request \in [Requests -> RequestRecords]
BY DEF IntakeOK, NoteRecords, RequestRecords

\* The upstream of a step that does not change it.
LEMMA TypesPrimed ==
    ASSUME IntakeOK, UNCHANGED <<origin, upstream>>, note' \in [Notes -> NoteRecords],
           request' \in [Requests -> RequestRecords]
    PROVE  IntakeOK'
BY DEF IntakeOK, NoteRecords, RequestRecords

-----------------------------------------------------------------------------
(* The initial states.                                                      *)

LEMMA InitOK == IntakeInit => IntakeOK
<1> SUFFICES ASSUME IntakeInit PROVE IntakeOK
  OBVIOUS
<1>1. NoSource \in NoteRecords /\ NoRequest \in RequestRecords
  BY DEF NoSource, NoRequest, NoteRecords, RequestRecords
<1>2. origin \in Origins /\ upstream \in Seq(Texts \cup {Gone}) /\ Latest <= MaxRev
  <2>1. CASE IntakeIdle
    <3>1. upstream = <<>> /\ origin \in Origins
      BY <2>1 DEF IntakeInit, IntakeIdle
    <3> QED
      BY <3>1
  <2>2. CASE origin \in Origins /\ \E t \in Texts : upstream = <<t>>
    <3>1. PICK t \in Texts : upstream = <<t>>
      BY <2>2
    <3>2. upstream \in Seq(Texts \cup {Gone}) /\ Len(upstream) = 1
      BY <3>1
    <3> QED
      BY <2>2, <3>2
  <2> QED
    BY <2>1, <2>2 DEF IntakeInit
<1>3. note = [n \in Notes |-> NoSource] /\ request = [r \in Requests |-> NoRequest]
  BY DEF IntakeInit, IntakeIdle
<1> QED
  BY <1>1, <1>2, <1>3, TypesOfState
LEMMA InitGood == IntakeInit => IntakeInv
<1> SUFFICES ASSUME IntakeInit PROVE IntakeInv
  OBVIOUS
<1>1. IntakeOK
  BY InitOK
<1>2. origin = "github" => Latest >= 1
  <2>1. CASE IntakeIdle
    BY <2>1 DEF IntakeInit
  <2>2. CASE \E t \in Texts : upstream = <<t>>
    <3>1. PICK t \in Texts : upstream = <<t>>
      BY <2>2
    <3>2. Len(upstream) = 1
      BY <3>1
    <3> QED
      BY <3>2
  <2> QED
    BY <2>1, <2>2 DEF IntakeInit
<1>3. note = [n \in Notes |-> NoSource] /\ request = [r \in Requests |-> NoRequest]
  BY DEF IntakeInit, IntakeIdle
<1>4. FileInv
  BY <1>2, <1>3 DEF FileInv, NoSource
<1>5. RequestsGood
  BY <1>3 DEF RequestsGood, ImportGood, ExportGood, RefreshGood, Busy, NoRequest
<1> QED
  BY <1>1, <1>4, <1>5 DEF IntakeInv

-----------------------------------------------------------------------------
(* What a step leaves as it was.                                            *)

\* What a step may do to a source: leave it, delete it, create it or raise its version.
Moves(n) ==
    \/ note'[n] = note[n]
    \/ note'[n].is = "gone"
    \/ note[n].is = "none"
    \/ note[n].is = "there" /\ note'[n].is # "none" /\ note'[n].ver = note[n].ver + 1

Onward == origin' = origin /\ Latest <= Latest' /\ \A n \in Notes : Moves(n)

\* A request that does not take the step stays good.
LEMMA OthersStay ==
    ASSUME IntakeInv, Onward, Latest' \in Nat, NEW p \in Requests, request'[p] = request[p]
    PROVE  ImportGood(request[p])' /\ ExportGood(request[p])' /\ RefreshGood(request[p])'
<1>1. ImportGood(request[p]) /\ ExportGood(request[p]) /\ RefreshGood(request[p])
  BY DEF IntakeInv, RequestsGood
<1>2. request[p] \in RequestRecords /\ note \in [Notes -> NoteRecords] /\ Latest \in Nat
  BY TypesOfState DEF IntakeInv
<1>3. ImportGood(request[p])' /\ ExportGood(request[p])'
  BY <1>1, <1>2 DEF Onward, ImportGood, ExportGood, Busy, RequestRecords
<1>4. RefreshGood(request[p])'
  <2> SUFFICES ASSUME Busy(request[p]), request[p].verb = "refresh"
               PROVE  RefreshGood(request[p])'
    BY DEF RefreshGood, Busy
  <2> DEFINE q == request[p]
             n == q.id
  <2>1. /\ origin = "github" /\ q.at \in {"shown", "head", "write"}
        /\ q.at = "write" => q.incoming \in 1..Latest
        /\ n \in Notes /\ note[n].is # "none"
        /\ note[n].is = "there" =>
              /\ q.ver <= note[n].ver
              /\ note[n].ver = q.ver => SameAsRead(q, note[n])
    BY <1>1 DEF RefreshGood
  <2>2. q.at = "write" => q.incoming \in 1..Latest'
    BY <1>2, <2>1 DEF Onward
  <2>3. q.ver \in Nat /\ note[n].ver \in Nat
    BY <1>2, <2>1 DEF RequestRecords, NoteRecords
  <2>4. /\ note'[n].is # "none"
        /\ note'[n].is = "there" =>
              /\ q.ver <= note'[n].ver
              /\ note'[n].ver = q.ver => SameAsRead(q, note'[n])
    BY <2>1, <2>3 DEF Onward, Moves
  <2>5. origin' = "github"
    BY <2>1 DEF Onward
  <2> QED
    BY <2>1, <2>2, <2>4, <2>5 DEF RefreshGood, SameAsRead
<1> QED
  BY <1>3, <1>4

\* What a source has of its file: the part of FileInv about one source.
FileNote(s) == s.is = "there" => s.base = Trimmed(s.hash) /\ s.text.tail = FALSE

\* A step of request r that leaves the sources alone and r good.
LEMMA RequestStep ==
    ASSUME IntakeInv, NEW r \in Requests, request' \in [Requests -> RequestRecords],
           UNCHANGED <<origin, upstream, note>>,
           \A p \in Requests \ {r} : request'[p] = request[p],
           ImportGood(request'[r]), ExportGood(request'[r]), RefreshGood(request'[r])
    PROVE  IntakeInv'
<1>1. IntakeOK'
  <2>1. note' \in [Notes -> NoteRecords]
    BY TypesOfState DEF IntakeInv
  <2> QED
    BY <2>1, TypesPrimed DEF IntakeInv
<1>2. Onward /\ Latest' \in Nat
  BY TypesOfState DEF Onward, Moves, IntakeInv
<1>3. FileInv'
  BY DEF FileInv, IntakeInv
<1>4. \A p \in Requests \ {r} : ImportGood(request[p])' /\ ExportGood(request[p])' /\ RefreshGood(request[p])'
  BY <1>2, OthersStay
<1>5. ImportGood(request[r])' /\ ExportGood(request[r])' /\ RefreshGood(request[r])'
  BY DEF ImportGood, ExportGood, RefreshGood, Busy, SameAsRead
<1> QED
  BY <1>1, <1>3, <1>4, <1>5 DEF IntakeInv, RequestsGood

\* A step that writes source n, of the owner or of a request that ends with it.
LEMMA SourceStep ==
    ASSUME IntakeInv, NEW n \in Notes, note' \in [Notes -> NoteRecords],
           UNCHANGED <<origin, upstream>>, \A m \in Notes \ {n} : note'[m] = note[m],
           \/ UNCHANGED request
           \/ \E r \in Requests : Finishes(r),
           Moves(n), origin = "github" => FileNote(note'[n])
    PROVE  IntakeInv'
<1>1. \A p \in Requests : request'[p] = request[p] \/ request'[p] = NoRequest
  BY TypesOfState DEF IntakeInv, Finishes
<1>2. NoRequest \in RequestRecords
  BY DEF NoRequest, RequestRecords
<1>3. request' \in [Requests -> RequestRecords]
  BY <1>2, TypesOfState DEF IntakeInv, Finishes
<1>4. IntakeOK'
  BY <1>3, TypesPrimed DEF IntakeInv
<1>5. Onward /\ Latest' \in Nat
  BY TypesOfState DEF Onward, Moves, IntakeInv
<1>6. FileInv'
  BY DEF FileInv, FileNote, IntakeInv
<1>7. ASSUME NEW p \in Requests
      PROVE  ImportGood(request[p])' /\ ExportGood(request[p])' /\ RefreshGood(request[p])'
  <2>1. CASE request'[p] = request[p]
    BY <1>5, <2>1, OthersStay
  <2>2. CASE request'[p] = NoRequest
    BY <2>2 DEF ImportGood, ExportGood, RefreshGood, Busy, NoRequest
  <2> QED
    BY <1>1, <2>1, <2>2
<1> QED
  BY <1>4, <1>6, <1>7 DEF IntakeInv, RequestsGood

\* A request that ends leaves everything good.
LEMMA EndStep ==
    ASSUME IntakeInv, NEW r \in Requests, Finishes(r), UNCHANGED <<origin, upstream, note>>
    PROVE  IntakeInv'
<1>1. NoRequest \in RequestRecords
  BY DEF NoRequest, RequestRecords
<1>2. ImportGood(NoRequest) /\ ExportGood(NoRequest) /\ RefreshGood(NoRequest)
  BY DEF ImportGood, ExportGood, RefreshGood, Busy, NoRequest
<1>3. request' = [request EXCEPT ![r] = NoRequest] /\ request \in [Requests -> RequestRecords]
  BY TypesOfState DEF Finishes, IntakeInv
<1> QED
  BY <1>1, <1>2, <1>3, RequestStep
-----------------------------------------------------------------------------
(* The world, the owner's other requests, and the ends of requests.         *)

LEMMA ChangesKeeps == IntakeInv /\ Changes => IntakeInv'
<1> SUFFICES ASSUME IntakeInv, Changes PROVE IntakeInv'
  OBVIOUS
<1>1. PICK t \in Texts \cup {Gone} : upstream' = Append(upstream, t)
  BY DEF Changes
<1>2. upstream \in Seq(Texts \cup {Gone}) /\ Latest < MaxRev /\ UNCHANGED <<origin, note, request>>
  BY TypesOfState DEF IntakeInv, Changes
<1>3. upstream' \in Seq(Texts \cup {Gone}) /\ Latest' = Latest + 1 /\ Latest \in Nat
  BY <1>1, <1>2
<1>4. IntakeOK'
  BY <1>2, <1>3 DEF IntakeInv, IntakeOK
<1>5. FileInv'
  BY <1>2, <1>3 DEF IntakeInv, FileInv
<1>6. Onward /\ Latest' \in Nat
  BY <1>2, <1>3 DEF Onward, Moves
<1>7. RequestsGood'
  BY <1>2, <1>6, OthersStay DEF RequestsGood
<1> QED
  BY <1>4, <1>5, <1>7 DEF IntakeInv

LEMMA EditKeeps ==
    ASSUME IntakeInv, NEW n \in Notes, EditSource(n)
    PROVE  IntakeInv'
<1>1. PICK u \in Texts : note' = [note EXCEPT ![n].text = Trimmed(u), ![n].ver = @ + 1]
  BY DEF EditSource
<1>2. note \in [Notes -> NoteRecords] /\ note[n].is = "there" /\ note[n].ver < MaxEdits
      /\ UNCHANGED <<origin, upstream, request>>
  BY TypesOfState DEF IntakeInv, EditSource
<1>3. Trimmed(u) \in Texts \cup {NoText} /\ Trimmed(u).tail = FALSE
  BY TrimmedText
<1>4. /\ note' \in [Notes -> NoteRecords]
      /\ \A m \in Notes \ {n} : note'[m] = note[m]
      /\ note'[n].is = "there" /\ note'[n].text = Trimmed(u) /\ note'[n].ver = note[n].ver + 1
      /\ note'[n].base = note[n].base /\ note'[n].hash = note[n].hash
  BY <1>1, <1>2, <1>3 DEF NoteRecords
<1>5. Moves(n)
  BY <1>2, <1>4 DEF Moves
<1>6. origin = "github" => FileNote(note'[n])
  BY <1>2, <1>3, <1>4 DEF IntakeInv, FileInv, FileNote
<1> QED
  BY <1>2, <1>4, <1>5, <1>6, SourceStep

LEMMA DeleteKeeps ==
    ASSUME IntakeInv, NEW n \in Notes, DeleteSource(n)
    PROVE  IntakeInv'
<1> DEFINE s == [NoSource EXCEPT !.is = "gone"]
<1>1. s \in NoteRecords /\ s.is = "gone"
  BY DEF NoteRecords, NoSource
<1>2. note' = [note EXCEPT ![n] = s] /\ note \in [Notes -> NoteRecords]
      /\ UNCHANGED <<origin, upstream, request>>
  BY TypesOfState DEF DeleteSource, IntakeInv
<1> HIDE DEF s
<1>3. Moves(n) /\ FileNote(note'[n])
  BY <1>1, <1>2 DEF Moves, FileNote
<1> QED
  BY <1>1, <1>2, <1>3, SourceStep

LEMMA GivesUpKeeps ==
    ASSUME IntakeInv, NEW r \in Requests, GivesUp(r)
    PROVE  IntakeInv'
BY EndStep DEF GivesUp
-----------------------------------------------------------------------------
(* Imports and exports.                                                     *)

LEMMA State ==
    ASSUME IntakeInv
    PROVE  /\ request \in [Requests -> RequestRecords] /\ note \in [Notes -> NoteRecords]
           /\ NoRequest \in RequestRecords /\ Latest \in 0..MaxRev
           /\ \A r \in Requests :
                 ImportGood(request[r]) /\ ExportGood(request[r]) /\ RefreshGood(request[r])
BY TypesOfState DEF IntakeInv, RequestsGood, NoRequest, RequestRecords

\* A request stays one when a field of it is written.
LEMMA FieldWritten ==
    ASSUME NEW q \in RequestRecords
    PROVE  /\ \A v \in {"shown", "head", "find", "create", "write"} : [q EXCEPT !.at = v] \in RequestRecords
           /\ \A v \in BOOLEAN : [q EXCEPT !.ack = v] \in RequestRecords
           /\ \A v \in 0..MaxRev : [q EXCEPT !.incoming = v] \in RequestRecords
           /\ \A v \in Texts \cup {NoText} : [q EXCEPT !.text = v] \in RequestRecords
           /\ \A v \in Texts \cup {NoText} : [q EXCEPT !.hash = v] \in RequestRecords
BY DEF RequestRecords

LEMMA PreviewRepositoryKeeps ==
    ASSUME IntakeInv, NEW r \in Requests, PreviewRepository(r)
    PROVE  IntakeInv'
<1>1. request' = [request EXCEPT ![r] =
                    [NoRequest EXCEPT !.at = "shown", !.rev = Latest, !.incoming = Latest]]
      /\ origin = "github" /\ UNCHANGED <<origin, upstream, note>>
  BY DEF PreviewRepository
<1>2. /\ request' \in [Requests -> RequestRecords]
      /\ \A p \in Requests \ {r} : request'[p] = request[p]
      /\ request'[r].verb = "import" /\ request'[r].at = "shown"
      /\ request'[r].rev = Latest /\ request'[r].incoming = Latest
  BY <1>1, State DEF RequestRecords, NoRequest
<1>3. Latest \in 1..Latest
  BY <1>1, State DEF IntakeInv, FileInv
<1>4. ImportGood(request'[r]) /\ ExportGood(request'[r]) /\ RefreshGood(request'[r])
  BY <1>1, <1>2, <1>3 DEF ImportGood, ExportGood, RefreshGood
<1> QED
  BY <1>1, <1>2, <1>4, RequestStep

\* An import, or an export, turns to the next of its places.
LEMMA TurnKeeps ==
    ASSUME IntakeInv, NEW r \in Requests,
           NEW place \in {"find", "create", "write"}, Turns(r, place),
           UNCHANGED <<origin, upstream, note>>, Busy(request[r]),
           \/ request[r].verb = "import" /\ place = "create"
           \/ /\ request[r].verb = "export" /\ request[r].at # "shown"
              /\ place = "write" => request[r].id \in Notes
    PROVE  IntakeInv'
<1>1. /\ request' \in [Requests -> RequestRecords]
      /\ \A p \in Requests \ {r} : request'[p] = request[p]
      /\ request'[r].at = place /\ request'[r].verb = request[r].verb
      /\ request'[r].rev = request[r].rev /\ request'[r].incoming = request[r].incoming
      /\ request'[r].id = request[r].id
  <2> DEFINE q == [request[r] EXCEPT !.at = place]
  <2>1. /\ q \in RequestRecords /\ q.at = place /\ q.verb = request[r].verb
        /\ q.rev = request[r].rev /\ q.incoming = request[r].incoming /\ q.id = request[r].id
    <3>1. request[r] \in RequestRecords
      BY State
    <3> QED
      BY <3>1 DEF RequestRecords
  <2>2. request' = [request EXCEPT ![r] = q]
    BY DEF Turns
  <2> HIDE DEF q
  <2> QED
    BY <2>1, <2>2, State
<1>2. ImportGood(request'[r]) /\ ExportGood(request'[r]) /\ RefreshGood(request'[r])
  BY <1>1, State DEF ImportGood, ExportGood, RefreshGood, Busy
<1> QED
  BY <1>1, <1>2, RequestStep

LEMMA ImportFindKeeps ==
    ASSUME IntakeInv, NEW r \in Requests, ImportFind(r)
    PROVE  IntakeInv'
BY EndStep, TurnKeeps DEF ImportFind, Busy

\* What a request stores is what is at the place of upstream it was shown.
LEMMA StoresShown ==
    ASSUME IntakeInv, NEW r \in Requests, Busy(request[r]), request[r].verb # "refresh",
           request[r].at \in {"create", "write"}
    PROVE  request[r].incoming = request[r].rev /\ request[r].incoming \in 1..Latest
<1>1. request[r].verb \in {"import", "export"}
  BY State DEF RequestRecords
<1> QED
  BY <1>1, State DEF ImportGood, ExportGood

LEMMA CreateKeeps ==
    ASSUME IntakeInv, NEW r \in Requests, Create(r), request[r].verb # "refresh"
    PROVE  IntakeInv'
<1> DEFINE t == TextOf(r)
           s == [is |-> "there", text |-> Trimmed(t), ver |-> 1, hash |-> t, base |-> Trimmed(t)]
<1>1. PICK n \in Notes : note[n].is = "none" /\ note' = [note EXCEPT ![n] = s]
  BY DEF Create
<1>2. request[r].incoming \in 1..Latest
  BY StoresShown DEF Create, Busy
<1>3. t \in Texts \cup {NoText}
  BY <1>2, UpstreamText DEF TextOf, IntakeInv
<1>4. Trimmed(t) \in Texts \cup {NoText} /\ Trimmed(t).tail = FALSE
  BY <1>3, TrimmedText
<1> HIDE DEF t
<1>5. s \in NoteRecords /\ FileNote(s)
  BY <1>3, <1>4 DEF NoteRecords, FileNote
<1> HIDE DEF s
<1>6. /\ note' \in [Notes -> NoteRecords] /\ note'[n] = s
      /\ \A m \in Notes \ {n} : note'[m] = note[m]
  BY <1>1, <1>5, State
<1>7. Moves(n) /\ FileNote(note'[n])
  BY <1>1, <1>5, <1>6 DEF Moves
<1>8. UNCHANGED <<origin, upstream>> /\ Finishes(r)
  BY DEF Create
<1> QED
  BY <1>6, <1>7, <1>8, SourceStep

LEMMA PreviewExportKeeps ==
    ASSUME IntakeInv, NEW r \in Requests, PreviewExport(r)
    PROVE  IntakeInv'
<1> DEFINE shown == [NoRequest EXCEPT !.at = "shown", !.verb = "export", !.rev = Latest]
<1>1. UNCHANGED <<origin, upstream, note>> /\ origin # "github" /\ upstream # <<>>
  BY DEF PreviewExport
<1>2. Latest \in 1..Latest
  BY <1>1, TypesOfState DEF IntakeInv
<1>3. shown \in RequestRecords
  BY State DEF RequestRecords, NoRequest
<1>4. \/ request' = [request EXCEPT ![r] = shown]
      \/ \E n \in Notes : request' = [request EXCEPT ![r] = [shown EXCEPT !.id = n, !.ver = note[n].ver,
                                                                !.saw = note[n].text]]
  BY DEF PreviewExport, Existing
<1>5. /\ request' \in [Requests -> RequestRecords]
      /\ \A p \in Requests \ {r} : request'[p] = request[p]
      /\ request'[r].verb = "export" /\ request'[r].at = "shown" /\ request'[r].rev = Latest
  <2>1. CASE request' = [request EXCEPT ![r] = shown]
    BY <1>3, <2>1, State DEF RequestRecords, NoRequest
  <2>2. ASSUME NEW n \in Notes,
               request' = [request EXCEPT ![r] = [shown EXCEPT !.id = n, !.ver = note[n].ver,
                                                                !.saw = note[n].text]]
        PROVE  <1>5!:
    <3>1. note[n].ver \in 0..MaxEdits /\ note[n].text \in Texts \cup {NoText}
      BY State DEF NoteRecords
    <3> QED
      BY <2>2, <3>1, State DEF RequestRecords, NoRequest
  <2> QED
    BY <1>4, <2>1, <2>2
<1>6. ImportGood(request'[r]) /\ ExportGood(request'[r]) /\ RefreshGood(request'[r])
  BY <1>1, <1>2, <1>5 DEF ImportGood, ExportGood, RefreshGood
<1> QED
  BY <1>1, <1>5, <1>6, RequestStep

LEMMA ExportReadKeeps ==
    ASSUME IntakeInv, NEW r \in Requests, ExportRead(r)
    PROVE  IntakeInv'
<1>1. CASE Finishes(r)
  BY <1>1, EndStep DEF ExportRead
<1>2. ASSUME NEW ack \in BOOLEAN, request[r].rev = Latest,
             request' = [request EXCEPT ![r].at = "find", ![r].ack = ack, ![r].incoming = Latest]
      PROVE  IntakeInv'
  <2>1. UNCHANGED <<origin, upstream, note>> /\ request[r].at = "shown" /\ request[r].verb = "export"
    BY DEF ExportRead
  <2>2. /\ request' \in [Requests -> RequestRecords]
        /\ \A p \in Requests \ {r} : request'[p] = request[p]
        /\ request'[r].verb = "export" /\ request'[r].at = "find"
        /\ request'[r].rev = request[r].rev /\ request'[r].incoming = request[r].rev
    <3>1. request \in [Requests -> RequestRecords] /\ Latest \in 0..MaxRev
      BY State
    <3>2. \A p \in Requests \ {r} : request'[p] = request[p]
      BY <1>2, <3>1
    <3>3. request' \in [Requests -> RequestRecords]
      <4> DEFINE q1 == [request[r] EXCEPT !.at = "find"]
                 q2 == [q1 EXCEPT !.ack = ack]
                 q3 == [q2 EXCEPT !.incoming = Latest]
      <4>1. q1 \in RequestRecords
        BY <3>1, FieldWritten
      <4>2. q2 \in RequestRecords
        BY <4>1, FieldWritten
      <4>3. q3 \in RequestRecords
        BY <3>1, <4>2, FieldWritten
      <4>4. request' = [request EXCEPT ![r] = q3]
        BY <1>2, <3>1
      <4> HIDE DEF q3
      <4> QED
        BY <3>1, <4>3, <4>4
    <3>4. request'[r].verb = request[r].verb
      BY <1>2, <3>1 DEF RequestRecords
    <3>5. request'[r].at = "find"
      BY <1>2, <3>1 DEF RequestRecords
    <3>6. request'[r].rev = request[r].rev /\ request'[r].incoming = Latest
      BY <1>2, <3>1 DEF RequestRecords
    <3> QED
      BY <1>2, <2>1, <3>2, <3>3, <3>4, <3>5, <3>6
  <2>3. ImportGood(request'[r]) /\ ExportGood(request'[r]) /\ RefreshGood(request'[r])
    BY <2>1, <2>2, State DEF ImportGood, ExportGood, RefreshGood, Busy
  <2> QED
    BY <2>1, <2>2, <2>3, RequestStep
<1> QED
  BY <1>1, <1>2 DEF ExportRead, IsReviewed

LEMMA ExportFindKeeps ==
    ASSUME IntakeInv, NEW r \in Requests, ExportFind(r)
    PROVE  IntakeInv'
<1>1. Busy(request[r]) /\ request[r].verb = "export" /\ request[r].at = "find"
  <2>1. request[r].verb \in {"import", "refresh", "export"} /\ request[r].at = "find"
    BY State DEF RequestRecords, ExportFind
  <2> QED
    BY <2>1, State DEF ImportGood, RefreshGood, Busy
<1>2. UNCHANGED <<origin, upstream, note>>
  BY DEF ExportFind
<1>3. CASE Finishes(r)
  BY <1>2, <1>3, EndStep
<1>4. CASE Turns(r, "create")
  BY <1>1, <1>2, <1>4, TurnKeeps
<1>5. CASE Turns(r, "write") /\ request[r].id \in Notes
  BY <1>1, <1>2, <1>5, TurnKeeps
<1> QED
  BY <1>3, <1>4, <1>5 DEF ExportFind, Existing

LEMMA ExportWriteKeeps ==
    ASSUME IntakeInv, NEW r \in Requests, ExportWrite(r)
    PROVE  IntakeInv'
<1> DEFINE n == request[r].id
           t == TextOf(r)
<1>1. request[r].at = "write" /\ request[r].verb = "export" /\ request[r].ver < MaxEdits
      /\ Finishes(r) /\ UNCHANGED <<origin, upstream>>
  BY DEF ExportWrite
<1>2. n \in Notes /\ origin # "github"
  BY <1>1, State DEF ExportGood, Busy
<1>3. CASE UNCHANGED note
  BY <1>1, <1>3, EndStep
<1>4. CASE /\ CanReplace(r)
           /\ note' = [note EXCEPT ![n].text = t, ![n].base = t, ![n].ver = @ + 1]
  <2>1. t \in Texts \cup {NoText}
    BY <1>1, StoresShown, UpstreamText DEF TextOf, IntakeInv, Busy
  <2> HIDE DEF t
  <2>2. /\ note' \in [Notes -> NoteRecords]
        /\ \A m \in Notes \ {n} : note'[m] = note[m]
        /\ note[n].is = "there" /\ note'[n].is = "there" /\ note'[n].ver = note[n].ver + 1
    <3>1. note \in [Notes -> NoteRecords] /\ note[n].is = "there" /\ note[n].ver < MaxEdits
      BY <1>1, <1>4, State DEF CanReplace
    <3> HIDE DEF n
    <3> QED
      BY <1>2, <1>4, <2>1, <3>1 DEF NoteRecords
  <2>3. Moves(n)
    BY <2>2 DEF Moves
  <2> QED
    BY <1>1, <1>2, <2>2, <2>3, SourceStep
<1> QED
  BY <1>3, <1>4 DEF ExportWrite
-----------------------------------------------------------------------------
(* Refreshes.                                                               *)

LEMMA CheckRefreshKeeps ==
    ASSUME IntakeInv, NEW r \in Requests, CheckRefresh(r)
    PROVE  IntakeInv'
<1> DEFINE q(n) == [NoRequest EXCEPT !.at = "shown", !.verb = "refresh", !.rev = Latest,
                                     !.id = n, !.ver = note[n].ver, !.saw = note[n].text]
<1>1. PICK n \in Notes : note[n].is = "there" /\ request' = [request EXCEPT ![r] = q(n)]
  BY DEF CheckRefresh
<1>2. origin = "github" /\ UNCHANGED <<origin, upstream, note>>
  BY DEF CheckRefresh
<1>3. note[n] \in NoteRecords
  BY State
<1>4. note[n].ver \in 0..MaxEdits /\ note[n].text \in Texts \cup {NoText}
  BY <1>3 DEF NoteRecords
<1>5. /\ q(n) \in RequestRecords /\ q(n).verb = "refresh" /\ q(n).at = "shown" /\ q(n).id = n
      /\ q(n).ver = note[n].ver /\ q(n).saw = note[n].text
  BY <1>4, State DEF RequestRecords, NoRequest
<1> HIDE DEF q
<1>6. /\ request' \in [Requests -> RequestRecords] /\ request'[r] = q(n)
      /\ \A p \in Requests \ {r} : request'[p] = request[p]
  BY <1>1, <1>5, State
<1>7. ImportGood(q(n)) /\ ExportGood(q(n)) /\ RefreshGood(q(n))
  BY <1>1, <1>2, <1>4, <1>5 DEF ImportGood, ExportGood, RefreshGood, SameAsRead
<1> QED
  BY <1>2, <1>6, <1>7, RequestStep

LEMMA RefreshReadKeeps ==
    ASSUME IntakeInv, NEW r \in Requests, RefreshRead(r)
    PROVE  IntakeInv'
<1> DEFINE n == note[request[r].id]
<1>1. request[r].at = "shown" /\ request[r].verb = "refresh" /\ UNCHANGED <<origin, upstream, note>>
  BY DEF RefreshRead
<1>2. RefreshGood(request[r]) /\ Busy(request[r]) /\ request[r] \in RequestRecords
  BY <1>1, State DEF Busy
<1>3. CASE Finishes(r)
  BY <1>1, <1>3, EndStep
<1>4. ASSUME NEW ack \in BOOLEAN,
             request' = [request EXCEPT ![r].at = "head", ![r].ack = ack, ![r].text = n.text,
                                        ![r].hash = n.hash]
      PROVE  IntakeInv'
  <2> DEFINE q1 == [request[r] EXCEPT !.at = "head"]
             q2 == [q1 EXCEPT !.ack = ack]
             q3 == [q2 EXCEPT !.text = n.text]
             q == [q3 EXCEPT !.hash = n.hash]
  <2>1. n \in NoteRecords
    BY <1>1, <1>2, State DEF RefreshGood
  <2>2. n.text \in Texts \cup {NoText} /\ n.hash \in Texts \cup {NoText} /\ n.ver \in 0..MaxEdits
    BY <2>1 DEF NoteRecords
  <2>3. q1 \in RequestRecords
    BY <1>2, FieldWritten
  <2>4. q2 \in RequestRecords
    BY <2>3, FieldWritten
  <2>5. q3 \in RequestRecords
    BY <2>2, <2>4, FieldWritten
  <2>6. q \in RequestRecords
    BY <2>2, <2>5, FieldWritten
  <2>7. /\ q.at = "head" /\ q.verb = "refresh" /\ q.id = request[r].id /\ q.ver = request[r].ver
        /\ q.saw = request[r].saw /\ q.text = n.text /\ q.hash = n.hash
    BY <1>1, <1>2 DEF RequestRecords
  <2>8. request' = [request EXCEPT ![r] = q]
    BY <1>4, State
  <2> HIDE DEF q
  <2>9. /\ request' \in [Requests -> RequestRecords] /\ request'[r] = q
        /\ \A p \in Requests \ {r} : request'[p] = request[p]
    BY <2>6, <2>8, State
  <2>10. ImportGood(q) /\ ExportGood(q) /\ RefreshGood(q)
    BY <1>1, <1>2, <2>7 DEF ImportGood, ExportGood, RefreshGood, SameAsRead, Busy
  <2> QED
    BY <1>1, <2>9, <2>10, RequestStep
<1> QED
  BY <1>3, <1>4 DEF RefreshRead

LEMMA RefreshHeadKeeps ==
    ASSUME IntakeInv, NEW r \in Requests, RefreshHead(r)
    PROVE  IntakeInv'
<1> DEFINE n == note[request[r].id]
<1>1. request[r].at = "head" /\ UNCHANGED <<origin, upstream, note>> /\ request[r] \in RequestRecords
  BY State DEF RefreshHead
<1>2. request[r].verb = "refresh" /\ Busy(request[r]) /\ RefreshGood(request[r])
  <2>1. request[r].verb \in {"import", "refresh", "export"}
    BY <1>1 DEF RequestRecords
  <2> QED
    BY <1>1, <2>1, State DEF ImportGood, ExportGood, Busy
<1>3. origin = "github" /\ Latest \in 1..Latest
  BY <1>1, <1>2, State DEF RefreshGood, IntakeInv, FileInv
<1>4. CASE Finishes(r)
  BY <1>1, <1>4, EndStep
<1>5. CASE /\ request[r].ack \/ request[r].text = request[r].hash
           /\ request' = [request EXCEPT ![r].at = "write", ![r].incoming = Latest,
                                         ![r].text = NoText, ![r].hash = NoText]
  <2> DEFINE q1 == [request[r] EXCEPT !.at = "write"]
             q2 == [q1 EXCEPT !.incoming = Latest]
             q3 == [q2 EXCEPT !.text = NoText]
             q == [q3 EXCEPT !.hash = NoText]
  <2>1. q1 \in RequestRecords
    BY <1>1, FieldWritten
  <2>2. q2 \in RequestRecords
    BY <2>1, FieldWritten, State
  <2>3. q3 \in RequestRecords
    BY <2>2, FieldWritten
  <2>4. q \in RequestRecords
    BY <2>3, FieldWritten
  <2>5. /\ q.at = "write" /\ q.verb = "refresh" /\ q.id = request[r].id /\ q.ver = request[r].ver
        /\ q.saw = request[r].saw /\ q.ack = request[r].ack /\ q.incoming = Latest
    BY <1>1, <1>2 DEF RequestRecords
  <2>6. request' = [request EXCEPT ![r] = q]
    BY <1>5, State
  <2> HIDE DEF q
  <2>7. /\ request' \in [Requests -> RequestRecords] /\ request'[r] = q
        /\ \A p \in Requests \ {r} : request'[p] = request[p]
    BY <2>4, <2>6, State
  \* A text that is its hash is trimmed, and then it is what was last stored.
  <2>8. ASSUME n.is = "there", n.ver = q.ver
        PROVE  SameAsRead(q, n)
    <3>1. n.text = request[r].saw /\ n.text = request[r].text /\ n.hash = request[r].hash
      BY <1>1, <1>2, <2>5, <2>8 DEF RefreshGood, SameAsRead
    <3>2. request[r].id \in Notes /\ n \in NoteRecords
      BY <1>1, <1>2, State DEF RefreshGood
    <3>3. n.text \in Texts \cup {NoText} /\ n.base = Trimmed(n.hash) /\ n.text.tail = FALSE
      BY <1>3, <2>8, <3>2 DEF IntakeInv, FileInv, NoteRecords
    <3>4. n.text = Trimmed(n.text)
      BY <3>3, TrimmedText
    <3> QED
      BY <1>5, <2>5, <3>1, <3>3, <3>4 DEF SameAsRead
  <2>9. ImportGood(q) /\ ExportGood(q) /\ RefreshGood(q)
    BY <1>1, <1>2, <1>3, <2>5, <2>8 DEF ImportGood, ExportGood, RefreshGood, Busy
  <2> QED
    BY <1>1, <2>7, <2>9, RequestStep
<1> QED
  BY <1>4, <1>5 DEF RefreshHead, NeedsAcknowledgment

LEMMA RefreshWriteKeeps ==
    ASSUME IntakeInv, NEW r \in Requests, RefreshWrite(r)
    PROVE  IntakeInv'
<1> DEFINE n == request[r].id
           h == TextOf(r)
           t == Trimmed(h)
<1>1. request[r].at = "write" /\ request[r].verb = "refresh" /\ request[r].ver < MaxEdits
      /\ Finishes(r) /\ UNCHANGED <<origin, upstream>>
  BY DEF RefreshWrite
<1>2. n \in Notes /\ request[r].incoming \in 1..Latest
  BY <1>1, State DEF RefreshGood, Busy
<1>3. CASE UNCHANGED note
  BY <1>1, <1>3, EndStep
<1>4. CASE /\ CanReplace(r)
           /\ note' = [note EXCEPT ![n].text = t, ![n].base = t, ![n].hash = h, ![n].ver = @ + 1]
  <2>1. h \in Texts \cup {NoText}
    BY <1>2, UpstreamText DEF TextOf, IntakeInv
  <2>2. t \in Texts \cup {NoText} /\ t.tail = FALSE
    BY <2>1, TrimmedText
  <2>3. note[n].is = "there" /\ note[n].ver < MaxEdits /\ note \in [Notes -> NoteRecords]
    BY <1>1, <1>4, State DEF CanReplace
  <2> HIDE DEF h, n
  <2>4. t = Trimmed(h)
    OBVIOUS
  <2> HIDE DEF t
  <2>5. \A m \in Notes \ {n} : note'[m] = note[m]
    BY <1>2, <1>4, <2>3
  <2>6. /\ note'[n].is = "there" /\ note'[n].ver = note[n].ver + 1
        /\ note'[n].text = t /\ note'[n].base = t /\ note'[n].hash = h
    BY <1>2, <1>4, <2>3 DEF NoteRecords
  <2>7. note' \in [Notes -> NoteRecords]
    <3> DEFINE n1 == [note EXCEPT ![n].text = t]
               n2 == [n1 EXCEPT ![n].base = t]
               n3 == [n2 EXCEPT ![n].hash = h]
    <3>1. note' = [n3 EXCEPT ![n].ver = @ + 1]
      BY <1>4
    <3>2. n1 \in [Notes -> NoteRecords] /\ n1[n].ver = note[n].ver
      BY <1>2, <2>2, <2>3 DEF NoteRecords
    <3> HIDE DEF n1
    <3>3. n2 \in [Notes -> NoteRecords] /\ n2[n].ver = note[n].ver
      <4>1. n1[n] \in NoteRecords
        BY <1>2, <3>2
      <4>2. [n1[n] EXCEPT !.base = t] \in NoteRecords /\ [n1[n] EXCEPT !.base = t].ver = n1[n].ver
        BY <2>2, <4>1 DEF NoteRecords
      <4> QED
        BY <1>2, <3>2, <4>2
    <3> HIDE DEF n2
    <3>4. n3 \in [Notes -> NoteRecords] /\ n3[n].ver = note[n].ver
      BY <1>2, <2>1, <3>3 DEF NoteRecords
    <3> HIDE DEF n3
    <3>5. [n3[n] EXCEPT !.ver = n3[n].ver + 1] \in NoteRecords
      <4>1. n3[n] \in NoteRecords
        BY <1>2, <3>4
      <4>2. n3[n].ver + 1 \in 0..MaxEdits
        BY <2>3, <3>4, <4>1 DEF NoteRecords
      <4> QED
        BY <4>1, <4>2 DEF NoteRecords
    <3> QED
      BY <1>2, <3>1, <3>4, <3>5
  <2>8. Moves(n) /\ FileNote(note'[n])
    BY <2>2, <2>3, <2>4, <2>6 DEF Moves, FileNote
  <2> QED
    BY <1>1, <1>2, <2>5, <2>7, <2>8, SourceStep
<1> QED
  BY <1>3, <1>4 DEF RefreshWrite, Provenance
-----------------------------------------------------------------------------
(* Theorems.                                                                *)

LEMMA StepKeeps == IntakeInv /\ [IntakeNext]_intake => IntakeInv'
<1> SUFFICES ASSUME IntakeInv, [IntakeNext]_intake PROVE IntakeInv'
  OBVIOUS
<1>1. CASE UNCHANGED intake
  BY <1>1 DEF IntakeInv, IntakeOK, FileInv, RequestsGood, ImportGood, ExportGood, RefreshGood,
              SameAsRead, Busy
<1>2. CASE Changes
  BY <1>2, ChangesKeeps
<1>3. ASSUME NEW n \in Notes, EditSource(n) \/ DeleteSource(n) PROVE IntakeInv'
  BY <1>3, EditKeeps, DeleteKeeps
<1>4. ASSUME NEW r \in Requests,
             \/ GivesUp(r) \/ PreviewRepository(r) \/ ImportFind(r) \/ ImportCreate(r)
             \/ CheckRefresh(r) \/ RefreshRead(r) \/ RefreshHead(r) \/ RefreshWrite(r)
             \/ PreviewExport(r) \/ ExportRead(r) \/ ExportFind(r) \/ ExportCreate(r) \/ ExportWrite(r)
      PROVE  IntakeInv'
  <2>1. CASE GivesUp(r) \/ PreviewRepository(r) \/ ImportFind(r)
    BY <2>1, GivesUpKeeps, PreviewRepositoryKeeps, ImportFindKeeps
  <2>2. CASE ImportCreate(r) \/ ExportCreate(r)
    BY <2>2, CreateKeeps DEF ImportCreate, ExportCreate
  <2>3. CASE CheckRefresh(r) \/ RefreshRead(r) \/ RefreshHead(r) \/ RefreshWrite(r)
    BY <2>3, CheckRefreshKeeps, RefreshReadKeeps, RefreshHeadKeeps, RefreshWriteKeeps
  <2>4. CASE PreviewExport(r) \/ ExportRead(r) \/ ExportFind(r) \/ ExportWrite(r)
    BY <2>4, PreviewExportKeeps, ExportReadKeeps, ExportFindKeeps, ExportWriteKeeps
  <2> QED
    BY <1>4, <2>1, <2>2, <2>3, <2>4
<1> QED
  BY <1>1, <1>2, <1>3, <1>4 DEF IntakeNext

\* The inductive invariant of every import, refresh, export, edit and deletion.
THEOREM Invariance == IntakeSpec => []IntakeInv
<1> QED
  BY InitGood, StepKeeps, PTL DEF IntakeSpec

\* The state of the sources and of the requests has its types.
THEOREM IntakeTypeCorrect == IntakeSpec => []IntakeOK
<1>1. IntakeInv => IntakeOK
  BY DEF IntakeInv
<1> QED
  BY <1>1, Invariance, PTL

\* The step of a request that stores a text is one of its writes.
LEMMA StoringStep ==
    ASSUME IntakeInv, IntakeNext, NEW r \in Requests, NEW n \in Notes, Stores(r, n)
    PROVE  \/ RefreshWrite(r) \/ ExportWrite(r)
           \/ Create(r) /\ request[r].verb \in {"import", "export"}
<1>1. request'[r] # request[r] /\ note' # note
  BY DEF Stores
<1>2. ASSUME NEW p \in Requests,
             \/ GivesUp(p) \/ PreviewRepository(p) \/ ImportFind(p) \/ CheckRefresh(p) \/ RefreshRead(p)
             \/ RefreshHead(p) \/ PreviewExport(p) \/ ExportRead(p) \/ ExportFind(p)
      PROVE  note' = note
  BY <1>2 DEF GivesUp, PreviewRepository, ImportFind, CheckRefresh, RefreshRead, RefreshHead,
              PreviewExport, ExportRead, ExportFind
<1>3. Changes => note' = note
  BY DEF Changes
<1>4. \A m \in Notes : EditSource(m) \/ DeleteSource(m) => request' = request
  BY DEF EditSource, DeleteSource
<1>5. \A p \in Requests : Finishes(p) => p = r
  BY <1>1, State DEF Finishes
<1>6. \A p \in Requests : ImportCreate(p) \/ ExportCreate(p) \/ RefreshWrite(p) \/ ExportWrite(p)
                             => Finishes(p)
  BY DEF ImportCreate, ExportCreate, Create, RefreshWrite, ExportWrite
<1>7. PICK p \in Requests : ImportCreate(p) \/ ExportCreate(p) \/ RefreshWrite(p) \/ ExportWrite(p)
  BY <1>1, <1>2, <1>3, <1>4 DEF IntakeNext
<1>8. p = r
  BY <1>5, <1>6, <1>7
<1> QED
  BY <1>7, <1>8 DEF ImportCreate, ExportCreate

\* A refresh replaces what GitHub gave, or what its owner saw and gave up.
THEOREM RefreshKeepsEdits == IntakeSpec => EditsAreKept
<1> DEFINE Lasting == \A r \in Requests, n \in Notes :
                      request[r].verb = "refresh" /\ Stores(r, n) =>
                          note[n].text = note[n].base \/ (request[r].ack /\ note[n].text = request[r].saw)
<1>1. IntakeInv /\ [IntakeNext]_intake => [Lasting]_intake
  <2> SUFFICES ASSUME IntakeInv, IntakeNext, NEW r \in Requests, NEW n \in Notes,
                      request[r].verb = "refresh", Stores(r, n)
               PROVE  note[n].text = note[n].base \/ (request[r].ack /\ note[n].text = request[r].saw)
    OBVIOUS
  <2>1. RefreshWrite(r)
    BY StoringStep DEF ExportWrite
  <2>2. request[r].at = "write" /\ RefreshGood(request[r]) /\ request[r].id \in Notes
    BY <2>1, State DEF RefreshWrite, RefreshGood, Busy
  <2>3. note' # note /\ note'[n].text # note[n].text
    BY DEF Stores
  <2>4. n = request[r].id /\ CanReplace(r)
    <3>1. CanReplace(r) /\ \A m \in Notes \ {request[r].id} : note'[m] = note[m]
      BY <2>1, <2>3, State DEF RefreshWrite
    <3> QED
      BY <2>3, <3>1
  <2>5. SameAsRead(request[r], note[n])
    BY <2>2, <2>4 DEF RefreshGood, CanReplace, Busy
  <2>6. request[r].ack \in BOOLEAN
    BY State DEF RequestRecords
  <2> QED
    BY <2>2, <2>5, <2>6 DEF SameAsRead
<1> QED
  BY <1>1, Invariance, PTL DEF IntakeSpec, EditsAreKept

\* An import or an export stores what was shown.
THEOREM StoresWhatWasShown == IntakeSpec => ShownIsSaved
<1> DEFINE Saved == \A r \in Requests, n \in Notes :
                       request[r].verb # "refresh" /\ Stores(r, n) =>
                           Trimmed(note'[n].text) = Trimmed(Shown(r))
<1>1. IntakeInv /\ [IntakeNext]_intake => [Saved]_intake
  <2> SUFFICES ASSUME IntakeInv, IntakeNext, NEW r \in Requests, NEW n \in Notes,
                      request[r].verb # "refresh", Stores(r, n)
               PROVE  Trimmed(note'[n].text) = Trimmed(Shown(r))
    OBVIOUS
  <2> DEFINE t == TextOf(r)
  <2>1. note'[n].text # note[n].text /\ note' # note /\ request[r].at \in {"create", "write"}
    BY DEF Stores
  <2>2. t = Shown(r) /\ t \in Texts \cup {NoText}
    BY <2>1, StoresShown, UpstreamText DEF TextOf, Shown, Busy, IntakeInv
  <2>3. CASE Create(r)
    <3>1. PICK m \in Notes : note' = [note EXCEPT ![m] = [is |-> "there", text |-> Trimmed(t), ver |-> 1,
                                                          hash |-> t, base |-> Trimmed(t)]]
      BY <2>3 DEF Create
    <3>2. m = n
      BY <2>1, <3>1, State
    <3>3. note'[n].text = Trimmed(t)
      BY <3>1, <3>2, State
    <3> QED
      BY <2>2, <3>3, TrimmedText
  <2>4. CASE ExportWrite(r)
    <3> DEFINE m == request[r].id
    <3>1. note' = [note EXCEPT ![m].text = t, ![m].base = t, ![m].ver = @ + 1]
      BY <2>1, <2>4 DEF ExportWrite
    <3>2. m \in Notes
      BY <2>4, State DEF ExportWrite, ExportGood, Busy
    <3> HIDE DEF t, m
    <3>3. n = m
      BY <2>1, <3>1, <3>2, State
    <3>4. note'[n].text = t
      BY <3>1, <3>2, <3>3, State DEF NoteRecords
    <3> QED
      BY <2>2, <3>4
  <2> QED
    BY <2>3, <2>4, StoringStep DEF RefreshWrite
<1> QED
  BY <1>1, Invariance, PTL DEF IntakeSpec, ShownIsSaved
=============================================================================
