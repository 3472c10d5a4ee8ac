----------------------------- MODULE Tokenizer -----------------------------
(***************************************************************************)
(* The byte-level BPE tokenizer (model/tokenizer.py): the merges learned   *)
(* from a table of pieces with an index kept up to date merge by merge,    *)
(* and the encoder that has to cut a text the way training did.            *)
(*                                                                         *)
(* A text is a sequence of characters and UTF-8 is the constant Utf8, with *)
(* characters of one byte or two.  A token id is a byte, or NumBytes plus  *)
(* the rank of the merge it stands for.  Contractions and digits, whose    *)
(* runs the pattern cuts as it does those of letters, are left out; the    *)
(* underscore, which no alternative of the pattern matches, is not.        *)
(***************************************************************************)
EXTENDS Integers, Sequences, FiniteSets, SequencesExt, FiniteSetsExt, TLC

CONSTANTS
    Utf8,          \* character -> its bytes
    NumBytes,      \* BYTE_VOCAB_SIZE
    Space,         \* the white space
    Symbols,       \* the characters that are neither space nor word character
    Dropped,       \* the word characters that are neither letter nor digit: "_"
    VocabSize,     \* vocab_size
    MinFrequency   \* min_frequency

ASSUME Utf8Assumption ==
    /\ \A c \in DOMAIN Utf8 : Utf8[c] \in Seq(0 .. NumBytes - 1) /\ Len(Utf8[c]) \in {1, 2}
    /\ Space \in DOMAIN Utf8 /\ Symbols \cup Dropped \subseteq DOMAIN Utf8 \ {Space}
    /\ Symbols \cap Dropped = {}

VARIABLES
    counts,       \* piece -> how often the corpus has it
    words,        \* piece -> its token ids after the merges so far
    pairCounts,   \* pair of ids -> its frequency, for the pairs that occur
    where,        \* the <<pair, piece>> such that the pair is in the piece's ids
    merges        \* the merged pairs by rank

tokVars == <<counts, words, pairCounts, where, merges>>

Replacement == "?"    \* what an undecodable byte is shown as

Indices(s) == [i \in 1 .. Len(s) |-> i]
Selected(s, I) == SelectSeq(Indices(s), LAMBDA i : i \in I)

(* The parts of s that begin at the indices I. *)
CutAt(s, I) ==
    LET from == Selected(s, I)
        to(k) == IF k = Len(from) THEN Len(s) ELSE from[k + 1] - 1
    IN  [k \in 1 .. Len(from) |-> SubSeq(s, from[k], to(k))]

-----------------------------------------------------------------------------
(* SPLIT_PATTERN: a piece is a run of letters or of symbols with the space in
   front of it; what is left of a run of spaces is a piece of its own.  A
   character that nothing matches ends a piece and begins one. *)
PieceStarts(t) ==
    {i \in 1 .. Len(t) :
        \/ i = 1 \/ t[i] \in Dropped \/ t[i - 1] \in Dropped
        \/ t[i] = Space /\ (t[i - 1] # Space \/ (i < Len(t) /\ t[i + 1] # Space))
        \/ /\ t[i] # Space /\ t[i - 1] # Space
           /\ (t[i] \in Symbols) # (t[i - 1] \in Symbols)}

(* findall: the matches, and nothing of what lies between them. *)
Pieces(t) == SelectSeq(CutAt(t, PieceStarts(t)), LAMBDA piece : piece[1] \notin Dropped)

Bytes(t) == FlattenSeq([i \in 1 .. Len(t) |-> Utf8[t[i]]])

(* bytes.decode("utf-8", errors="replace"). *)
Lead == {Utf8[c][1] : c \in {d \in DOMAIN Utf8 : Len(Utf8[d]) = 2}}
Trail == {Utf8[c][2] : c \in {d \in DOMAIN Utf8 : Len(Utf8[d]) = 2}}
Characters(bs) ==
    LET starts == {i \in 1 .. Len(bs) : ~(bs[i] \in Trail /\ i > 1 /\ bs[i - 1] \in Lead)}
        cut == CutAt(bs, starts)
    IN  [k \in 1 .. Len(cut) |->
            IF \E c \in DOMAIN Utf8 : Utf8[c] = cut[k]
            THEN CHOOSE c \in DOMAIN Utf8 : Utf8[c] = cut[k]
            ELSE Replacement]

-----------------------------------------------------------------------------
PairsOf(ids) == [i \in 1 .. Len(ids) - 1 |-> <<ids[i], ids[i + 1]>>]

(* _apply_merge: the occurrences of pair, from the left and not overlapping. *)
ApplyMerge(ids, pair, new) ==
    LET Add(out, id) == IF out # <<>> /\ Last(out) = pair[1] /\ id = pair[2]
                        THEN Append(Front(out), new)
                        ELSE Append(out, id)
    IN  FoldLeft(Add, <<>>, ids)

Rank(pair) == CHOOSE k \in DOMAIN merges : merges[k] = pair
IdOf(k) == NumBytes + k - 1

(* Mutant: the first pair that can be merged, from the left. *)
NextMergeLeftmost(ids) ==
    LET known == {i \in 1 .. Len(ids) - 1 : <<ids[i], ids[i + 1]>> \in Range(merges)}
    IN  Rank(PairsOf(ids)[Min(known)])

(* The merge that was learned earliest among those available. *)
NextMerge(ids) == Min({Rank(p) : p \in Range(PairsOf(ids)) \cap Range(merges)})

RECURSIVE EncodePiece(_)
EncodePiece(ids) ==
    IF Range(PairsOf(ids)) \cap Range(merges) = {} THEN ids
    ELSE LET k == NextMerge(ids) IN EncodePiece(ApplyMerge(ids, merges[k], IdOf(k)))

(* encode with allowed_special=False. *)
Encode(t) ==
    LET cut == Pieces(t)
    IN  FlattenSeq([k \in 1 .. Len(cut) |-> EncodePiece(Bytes(cut[k]))])

(* vocab: the bytes a token stands for. *)
RECURSIVE Vocab(_)
Vocab(id) ==
    IF id < NumBytes THEN <<id>>
    ELSE Vocab(merges[id - NumBytes + 1][1]) \o Vocab(merges[id - NumBytes + 1][2])

Decode(ids) == Characters(FlattenSeq([i \in 1 .. Len(ids) |-> Vocab(ids[i])]))

Eos == IdOf(Len(merges) + 1)

-----------------------------------------------------------------------------
TokInit ==
    /\ counts = << >> /\ words = << >> /\ pairCounts = << >>
    /\ where = {} /\ merges = <<>>

Count(f, x) == IF x \in DOMAIN f THEN f[x] ELSE 0

(* A Counter with n added to x; an entry that is used up is deleted. *)
Bump(f, x, n) ==
    IF Count(f, x) + n <= 0 THEN [y \in DOMAIN f \ {x} |-> f[y]]
    ELSE (x :> Count(f, x) + n) @@ f

BumpAll(f, xs, n) == FoldLeft(LAMBDA g, x : Bump(g, x, n), f, xs)

(* The first loop of train, for some documents of the corpus. *)
CountPieces(docs) ==
    counts' = BumpAll(counts, FlattenSeq([k \in 1 .. Len(docs) |-> Pieces(docs[k])]), 1)

PairsIn(ws) == UNION {Range(PairsOf(ws[w])) \X {w} : w \in DOMAIN ws}

(* "index which words contain which pairs" *)
IndexPairs ==
    /\ words' = [w \in DOMAIN counts |-> Bytes(w)]
    /\ pairCounts' =
         FoldSet(LAMBDA w, f : BumpAll(f, PairsOf(words'[w]), counts[w]), << >>, DOMAIN counts)
    /\ where' = PairsIn(words')

(* max by frequency, then by the pair itself. *)
Below(p, q) ==
    \/ pairCounts[p] < pairCounts[q]
    \/ /\ pairCounts[p] = pairCounts[q]
       /\ p[1] < q[1] \/ (p[1] = q[1] /\ p[2] < q[2])
BestPair == CHOOSE p \in DOMAIN pairCounts : \A q \in DOMAIN pairCounts \ {p} : Below(q, p)

MayLearn ==
    /\ Len(merges) < VocabSize - NumBytes - 1
    /\ DOMAIN pairCounts # {}
    /\ pairCounts[BestPair] >= MinFrequency

(* A piece's contribution is taken back ... *)
Retract(f, w) == BumpAll(f, PairsOf(words[w]), - counts[w])

(* ... and added again after the merge. *)
LearnMerge ==
    /\ MayLearn
    /\ LET best == BestPair
           affected == {w \in DOMAIN words : <<best, w>> \in where}
           Rewrite(w, f) == BumpAll(Retract(f, w), PairsOf(words'[w]), counts[w])
       IN  /\ merges' = Append(merges, best)
           /\ words' = [w \in DOMAIN words |->
                          IF w \in affected THEN ApplyMerge(words[w], best, Eos) ELSE words[w]]
           /\ pairCounts' = FoldSet(Rewrite, pairCounts, affected)
           /\ where' = ((where \ PairsIn([w \in affected |-> words[w]]))
                          \cup PairsIn([w \in affected |-> words'[w]]))
                       \ ({best} \X DOMAIN words)
    /\ UNCHANGED counts

-----------------------------------------------------------------------------
Occurrences(p, ids) == Cardinality({i \in 1 .. Len(ids) - 1 : PairsOf(ids)[i] = p})

(* "Taking any other order would produce a different tokenisation than training
   did" (_encode_piece).  After every merge the counts and the index that train
   patches word by word are those of the rewritten corpus, so that the next best
   pair is the true one; the encoder, which sees one piece and the ranks, cuts
   every piece of the corpus as training has it; and decoding gives it back. *)
MergesSound ==
    /\ \A p \in DOMAIN pairCounts \cup {x[1] : x \in PairsIn(words)} :
         Count(pairCounts, p)
           = MapThenSumSet(LAMBDA w : counts[w] * Occurrences(p, words[w]), DOMAIN words)
    /\ where = PairsIn(words)
    /\ \A w \in DOMAIN words : EncodePiece(Bytes(w)) = words[w] /\ Decode(words[w]) = w
=============================================================================
