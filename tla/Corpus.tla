------------------------------- MODULE Corpus -------------------------------
(***************************************************************************)
(* From the corpus to the token files (model/train/data.py and the scripts *)
(* train_tokenizer.py and prepare_data.py): documents are streamed out of  *)
(* a file in chunks, the tokenizer is trained on those of the train split, *)
(* and each split is written as one flat list of ids.  The official split  *)
(* is an offset in one text, so both sides hold a part of one story.       *)
(***************************************************************************)
EXTENDS Tokenizer

CONSTANTS
    Texts,         \* the corpora
    Separator,     \* END_OF_TEXT
    ChunkBytes,    \* CHUNK_BYTES
    FlushTokens,   \* FLUSH_TOKENS
    MaxBytes       \* --max-bytes of train_tokenizer.py

ASSUME CorpusAssumption ==
    /\ {ChunkBytes, FlushTokens, MaxBytes} \subseteq Nat \ {0}
    /\ Len(Separator) > 1

VARIABLES
    text,     \* the corpus, train and valid one after the other
    cut,      \* where train ends
    stage,    \* "count", "merge", "train", "valid" or "ready"
    read,     \* stream_documents: the characters read of its file
    tail,     \* stream_documents: the part of a document carried over
    out,      \* prepare's locals: see Blank
    bin       \* split -> the ids in its file

corpusVars == <<text, cut, stage, read, tail, out, bin>>

File == IF stage = "valid" THEN SubSeq(text, cut + 1, Len(text)) ELSE SubSeq(text, 1, cut)

Limit == IF stage = "count" THEN Min({MaxBytes, Len(File)}) ELSE Len(File)

-----------------------------------------------------------------------------
Width == Len(Separator)

(* str.split(END_OF_TEXT). *)
SplitDocs(t) ==
    LET ends == Selected(t, {i \in 1 .. Len(t) - Width + 1 : SubSeq(t, i, i + Width - 1) = Separator})
        from(k) == IF k = 1 THEN 1 ELSE ends[k - 1] + Width
        to(k) == IF k = Len(ends) + 1 THEN Len(t) ELSE ends[k] - 1
    IN  [k \in 1 .. Len(ends) + 1 |-> SubSeq(t, from(k), to(k))]

Strip(t) ==
    LET kept == {i \in 1 .. Len(t) : t[i] # Space}
    IN  IF kept = {} THEN <<>> ELSE SubSeq(t, Min(kept), Max(kept))

Stripped(parts) ==
    SelectSeq([k \in 1 .. Len(parts) |-> Strip(parts[k])], LAMBDA d : d # <<>>)

Chunk == SubSeq(File, read + 1, Min({read + ChunkBytes, Limit}))

(* Mutant: each chunk is split by itself. *)
PartsOfChunk == IF Chunk = <<>> THEN <<tail, <<>>>> ELSE SplitDocs(Chunk)

(* The parts of one read; the last one is carried over, until nothing is left
   to read. *)
Parts == IF Chunk = <<>> THEN <<tail, <<>>>> ELSE SplitDocs(tail \o Chunk)

Documents == Stripped(Front(Parts))

(* One read of stream_documents. *)
ReadChunk ==
    /\ read' = read + Len(Chunk)
    /\ tail' = Last(Parts)

Rewind == read' = 0 /\ tail' = <<>>

-----------------------------------------------------------------------------
(* prepare: is a document to be dropped, the one held back, the ids not written
   yet, those written, and the manifest's counts. *)
Blank(split) ==
    [dropFirst |-> split = "valid", dropLast |-> split = "train", pending |-> <<>>,
     buf |-> <<>>, ids |-> <<>>, tokens |-> 0, documents |-> 0]

Flushed(o) == [o EXCEPT !.ids = @ \o o.buf, !.buf = <<>>]

WriteDoc(o, doc) ==
    LET ids == Append(Encode(doc), Eos)
        p == [o EXCEPT !.buf = @ \o ids, !.tokens = @ + Len(ids), !.documents = @ + 1]
    IN  IF Len(p.buf) >= FlushTokens THEN Flushed(p) ELSE p

(* The body of prepare's loop; the first document is taken before it. *)
TakeDoc(o, doc) ==
    IF o.dropFirst THEN [o EXCEPT !.dropFirst = FALSE]
    ELSE IF ~o.dropLast THEN WriteDoc(o, doc)
    ELSE LET p == [o EXCEPT !.pending = doc]
         IN  IF o.pending = <<>> THEN p ELSE WriteDoc(p, o.pending)

-----------------------------------------------------------------------------
CorpusInit ==
    /\ TokInit
    /\ text \in Texts /\ cut \in 0 .. Len(text)
    /\ stage = "count" /\ read = 0 /\ tail = <<>>
    /\ out = Blank("train")
    /\ bin = [split \in {"train", "valid"} |-> <<>>]

(* scripts/train_tokenizer.py: the documents are counted as they come ... *)
CountDocs ==
    /\ stage = "count"
    /\ CountPieces(Documents)
    /\ IF Chunk # <<>> THEN ReadChunk /\ UNCHANGED stage ELSE Rewind /\ stage' = "merge"
    /\ UNCHANGED <<words, pairCounts, where, merges, text, cut, out, bin>>

(* ... and the merges learned, until there are enough or no pair is frequent. *)
Learn ==
    /\ stage = "merge"
    /\ \/ words = << >> /\ DOMAIN counts # {} /\ IndexPairs /\ UNCHANGED <<counts, merges>>
       \/ words # << >> /\ LearnMerge
    /\ UNCHANGED corpusVars

Learned ==
    /\ stage = "merge"
    /\ DOMAIN words = DOMAIN counts /\ ~MayLearn
    /\ stage' = "train"
    /\ UNCHANGED <<tokVars, text, cut, read, tail, out, bin>>

(* scripts/prepare_data.py: train, then valid. *)
Prepare ==
    /\ stage \in {"train", "valid"}
    /\ LET o == FoldLeft(TakeDoc, out, Documents)
       IN  IF Chunk # <<>>
           THEN /\ ReadChunk /\ out' = o
                /\ UNCHANGED <<stage, bin>>
           ELSE /\ Rewind
                /\ bin' = [bin EXCEPT ![stage] = Flushed(o).ids]
                /\ out' = IF stage = "train" THEN Blank("valid") ELSE Flushed(o)
                /\ stage' = IF stage = "train" THEN "valid" ELSE "ready"
    /\ UNCHANGED <<tokVars, text, cut>>

CorpusNext == CountDocs \/ Learn \/ Learned \/ Prepare

-----------------------------------------------------------------------------
(* The documents of a token file. *)
Stories(ids) ==
    LET cuts == CutAt(ids, {i \in 1 .. Len(ids) : i = 1 \/ ids[i - 1] = Eos})
    IN  [k \in 1 .. Len(cuts) |-> Decode(Front(cuts[k]))]

(* A document without the characters that the pattern has no match for. *)
Legible(doc) == SelectSeq(doc, LAMBDA c : c \notin Dropped)

(* "Same story, both sides" (scripts/prepare_data.py).  Wherever the split cuts
   the text and wherever the chunks end, the two files hold whole documents of
   the corpus in order: the first ones and the last ones, with one or two
   between them that are in neither.  A document is whole but for its
   underscores, which findall leaves out: one made of nothing else is an
   end-of-text token alone. *)
SplitClean ==
    stage = "ready" =>
        LET docs == Stripped(SplitDocs(text))
            all == [d \in DOMAIN docs |-> Legible(docs[d])]
            k == Len(Stories(bin["train"]))
            n == Len(Stories(bin["valid"]))
        IN  /\ Stories(bin["train"]) = SubSeq(all, 1, k)
            /\ Stories(bin["valid"]) = SubSeq(all, Len(all) - n + 1, Len(all))
            /\ k + n < Len(all) /\ k + n >= Len(all) - 2
            /\ out.tokens = Len(bin["valid"]) /\ out.documents = n
=============================================================================
