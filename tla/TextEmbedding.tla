---------------------------- MODULE TextEmbedding ----------------------------
(***************************************************************************)
(* How the text of a knowledge source becomes vectors: chunk_text of        *)
(* services/chunking.py cuts it into overlapping chunks,                    *)
(* SourceIndexingService of services/source_indexing.py groups them into    *)
(* requests, and the OpenAI and the Gemini adapter ask for their            *)
(* embeddings.                                                              *)
(*                                                                         *)
(* A text is a sequence of kinds of characters, its line ends already       *)
(* normalised.  Place p of the source (counted from 0, as the code does)    *)
(* lies before text[p + 1]; the chunk from s to e holds text[s + 1 .. e].   *)
(* A vector is named by the chunk it is the embedding of, and the service   *)
(* that computes it is external: an item of its answer is the embedding of  *)
(* the input the item's index names (OpenAI), or the item's position does   *)
(* (Gemini).                                                                *)
(***************************************************************************)
EXTENDS Integers, Sequences

CONSTANTS
    ChunkMax,       \* MAX_CHUNK_LENGTH, 1000
    Overlap,        \* CHUNK_OVERLAP, 150
    Lookback,       \* BOUNDARY_LOOKBACK, 200
    BatchSize,      \* MAX_EMBEDDING_BATCH_SIZE, 64
    BatchRoom,      \* MAX_EMBEDDING_BATCH_CODE_POINTS, 32000
    TextLimit,      \* MAX_EMBEDDING_TEXT_LENGTH
    MaxLength       \* MAX_CONTENT_LENGTH, 20000

ASSUME EmbeddingAssumption ==
    /\ ChunkMax \in Nat \ {0} /\ Overlap \in Nat /\ Lookback \in Nat
    /\ Overlap + Lookback < ChunkMax
    /\ BatchSize \in Nat \ {0} /\ BatchRoom \in Nat /\ TextLimit \in Nat
    /\ ChunkMax <= BatchRoom /\ ChunkMax <= TextLimit
    /\ MaxLength \in Nat

VARIABLES
    text,           \* the normalised content
    provider,       \* the adapter the service is built with
    start,          \* where the next chunk starts
    chunks,         \* the chunks so far, each from one place to another
    batches,        \* the batches that are complete, of indexes of chunks
    current, room,  \* the batch being filled, and the characters it holds
    taken,          \* how many chunks are grouped
    vectors,        \* the vectors received, each named by its chunk
    stage           \* cut, batch, embed, done, or the error it ended with

cutting == <<start, chunks>>
batching == <<batches, current, room, taken>>
textVars == <<text, provider, cutting, batching, vectors, stage>>

Kinds == {"letter", "space", "newline"}
Blank(p) == text[p] # "letter"
Size(c) == c.to - c.from
Last(S) == CHOOSE b \in S : \A x \in S : x <= b

-----------------------------------------------------------------------------
(* Cutting *)

\* Where empty lines, and where blanks, end between two places.
ParagraphEnds(first, end) ==
    {b \in first + 2 .. end : text[b - 1] = "newline" /\ text[b] = "newline"}
BlankEnds(first, end) == {b \in first + 1 .. end : Blank(b)}

\* The last empty line, or else the last blank, that is far enough from the start.
ChooseEnd(s, candidate) ==
    LET first == IF s + 1 > candidate - Lookback THEN s + 1 ELSE candidate - Lookback
        paragraphs == ParagraphEnds(first, candidate)
        blanks == BlankEnds(first, candidate)
        Usable(ends) == ends # {} /\ Last(ends) > s + Overlap
    IN  IF candidate = Len(text) THEN candidate
        ELSE IF Usable(paragraphs) THEN Last(paragraphs)
        ELSE IF Usable(blanks) THEN Last(blanks)
        ELSE candidate

CutEnd(s) ==
    LET candidate == IF s + ChunkMax < Len(text) THEN s + ChunkMax ELSE Len(text)
        end == ChooseEnd(s, candidate)
    IN  IF end <= s THEN candidate ELSE end

\* Mutant: a chunk that starts with a blank is dropped.
Kept_Short(s, e) == IF Blank(s + 1) THEN <<>> ELSE <<[from |-> s, to |-> e]>>

\* Mutant: blank chunks are kept.
Kept_All(s, e) == <<[from |-> s, to |-> e]>>

\* A chunk of blanks is not kept.
Kept(s, e) == IF \A p \in s + 1 .. e : Blank(p) THEN <<>> ELSE <<[from |-> s, to |-> e]>>

\* Mutant: the next chunk starts one character late.
NextStart_Late(s, e) == e + 1

NextStart(s, e) == IF s + 1 > e - Overlap THEN s + 1 ELSE e - Overlap

\* A text that is blank or too long never gets here: ChunkingInput refuses it.
TextInit ==
    /\ text \in UNION {[1..n -> Kinds] : n \in 1..MaxLength}
    /\ \E p \in 1..Len(text) : ~Blank(p)
    /\ provider \in {"openai", "gemini"}
    /\ start = 0 /\ chunks = <<>>
    /\ batches = <<>> /\ current = <<>> /\ room = 0 /\ taken = 0
    /\ vectors = <<>> /\ stage = "cut"

\* One turn of the loop of chunk_text; after the last, _chunk_source looks for chunks.
Cut ==
    /\ stage = "cut"
    /\ LET e == CutEnd(start)
       IN  /\ chunks' = chunks \o Kept(start, e)
           /\ start' = IF e >= Len(text) THEN start ELSE NextStart(start, e)
           /\ stage' = IF e < Len(text) THEN "cut"
                    ELSE IF chunks' = <<>> THEN "invalid_content" ELSE "batch"
    /\ UNCHANGED <<text, provider, batching, vectors>>

-----------------------------------------------------------------------------
(* Grouping *)

\* Mutant: the chunk that would overfill the batch still goes into it.
Full_Late(k) == current # <<>> /\ (Len(current) > BatchSize \/ room > BatchRoom)

Full(k) == current # <<>> /\ (Len(current) >= BatchSize \/ room + Size(chunks[k]) > BatchRoom)
Flushed(k) == IF Full(k) THEN Append(batches, current) ELSE batches

\* One turn of the loop of _batches.
Group ==
    /\ stage = "batch" /\ taken < Len(chunks)
    /\ LET k == taken + 1
           size == Size(chunks[k])
       IN  /\ batches' = Flushed(k)
           /\ IF size > BatchRoom
              THEN stage' = "embedding_input_too_large" /\ UNCHANGED <<current, room, taken>>
              ELSE /\ current' = IF Full(k) THEN <<k>> ELSE Append(current, k)
                   /\ room' = IF Full(k) THEN size ELSE room + size
                   /\ taken' = k /\ stage' = stage
    /\ UNCHANGED <<text, provider, cutting, vectors>>

\* After the loop, what is left is a batch too.
Grouped ==
    /\ stage = "batch" /\ taken = Len(chunks)
    /\ batches' = IF current = <<>> THEN batches ELSE Append(batches, current)
    /\ current' = <<>> /\ room' = 0 /\ stage' = "embed"
    /\ UNCHANGED <<text, provider, cutting, taken, vectors>>

-----------------------------------------------------------------------------
(* Embedding *)

Sum(batch) ==
    LET upTo[i \in 0..Len(batch)] == IF i = 0 THEN 0 ELSE upTo[i - 1] + Size(chunks[batch[i]])
    IN  upTo[Len(batch)]

\* What an adapter takes.
Accepted(batch) ==
    /\ batch # <<>> /\ Len(batch) <= BatchSize
    /\ \A i \in 1..Len(batch) :
          LET c == chunks[batch[i]]
          IN  Size(c) <= TextLimit /\ \E p \in c.from + 1 .. c.to : ~Blank(p)
    /\ Sum(batch) <= BatchRoom

\* The answers with as many items as inputs: OpenAI's in any order, or with an index twice.
ItemsOf(batch) ==
    LET n == Len(batch)
        Items(d) == [j \in 1..n |-> [index |-> d[j], of |-> batch[d[j]]]]
    IN  IF provider = "gemini" THEN {Items([j \in 1..n |-> j])}
        ELSE {Items(d) : d \in [1..n -> 1..n]}

\* No index comes twice and none is missing.
AllAnswered(answer) ==
    /\ \A i, j \in 1..Len(answer) : answer[i].index = answer[j].index => i = j
    /\ \A i \in 1..Len(answer) : \E j \in 1..Len(answer) : answer[j].index = i

\* Mutant: the indexes are ignored.
Placed_AsTheyCome(answer) == [i \in 1..Len(answer) |-> answer[i].of]

\* OpenAI's items are put where their indexes say, Gemini's are taken as they come.
Placed(answer) ==
    [i \in 1..Len(answer) |->
        IF provider = "gemini" THEN answer[i].of
        ELSE answer[CHOOSE j \in 1..Len(answer) : answer[j].index = i].of]

\* One batch of SourceIndexingService.index: refused by the adapter, answered, or failed.
Embed ==
    /\ stage = "embed" /\ batches # <<>>
    /\ \/ ~Accepted(Head(batches)) /\ stage' = "invalid_embedding" /\ UNCHANGED vectors
       \/ /\ Accepted(Head(batches))
          /\ \/ stage' = "provider_failed" /\ UNCHANGED vectors
             \/ \E answer \in ItemsOf(Head(batches)) :
                   IF AllAnswered(answer) THEN vectors' = vectors \o Placed(answer) /\ stage' = stage
                   ELSE stage' = "provider_failed" /\ UNCHANGED vectors
    /\ batches' = Tail(batches)
    /\ UNCHANGED <<text, provider, cutting, current, room, taken>>

\* The records are built: one for each chunk, with the vector at its place.
Build ==
    /\ stage = "embed" /\ batches = <<>>
    /\ stage' = IF Len(vectors) = Len(chunks) THEN "done" ELSE "unequal"
    /\ UNCHANGED <<text, provider, cutting, batching, vectors>>

TextNext == Cut \/ Group \/ Grouped \/ Embed \/ Build

TextSpec == TextInit /\ [][TextNext]_textVars

-----------------------------------------------------------------------------
(* Properties *)

TextTypeOK ==
    /\ text \in Seq(Kinds) /\ provider \in {"openai", "gemini"}
    /\ start \in Nat /\ chunks \in Seq([from : Nat, to : Nat])
    /\ batches \in Seq(Seq(Nat)) /\ current \in Seq(Nat) /\ room \in Nat /\ taken \in Nat
    /\ vectors \in Seq(Nat)
    /\ stage \in {"cut", "batch", "embed", "done", "invalid_content", "unequal",
                  "embedding_input_too_large", "invalid_embedding", "provider_failed"}

\* Once the text is cut, every character that is not blank lies in a chunk.
NoWordIsLost ==
    stage \in {"batch", "embed", "done"} =>
        \A p \in 1..Len(text) :
            ~Blank(p) => \E k \in 1..Len(chunks) : p \in chunks[k].from + 1 .. chunks[k].to

\* Two chunks one after the other share at most Overlap characters, and the second starts
\* well after the first: the loop ends, and no text is cut into a crowd of small chunks.
ChunksAdvance ==
    \A k \in 1..Len(chunks) - 1 :
        /\ chunks[k].to - chunks[k + 1].from <= Overlap
        /\ chunks[k + 1].from - chunks[k].from >= ChunkMax - Lookback - Overlap
        /\ chunks[k].to < chunks[k + 1].to

\* What chunking.py and source_indexing.py promise each other and the adapters: no text
\* that was accepted is refused later for a chunk or a batch that is empty or too large,
\* and the vectors are as many as the chunks.
NeverRefused ==
    stage \notin {"invalid_content", "embedding_input_too_large", "invalid_embedding", "unequal"}

VectorsAreTheirs ==
    stage = "done" => \A k \in 1..Len(chunks) : vectors[k] = k

\* The records of a text are all of it, each with the embedding of its own chunk: no word
\* falls between two chunks or with a blank one, and however the chunks were grouped and in
\* whatever order the items of an answer came, no vector is at another's place.
RecordsAreTheText == NoWordIsLost /\ VectorsAreTheirs
=============================================================================
