---------------------------- MODULE PrefixCache ----------------------------
(***************************************************************************)
(* PrefixCache of src/engine/prefix_cache.py over the paged pool: a        *)
(* content-addressed store of full blocks that outlive the sequence that   *)
(* produced them, and the prefill that uses it (_prefill of scheduler.py). *)
(*                                                                         *)
(* The key of a block is the hash of its tokens chained onto its parent's  *)
(* key.  It is represented by the token prefix it stands for, which takes  *)
(* block_hash to be free of collisions.  last_used is a counter bumped on  *)
(* every touch, so its values are distinct and only their order matters:   *)
(* lru lists the keys from the coldest to the last used, and the tie-break *)
(* on depth never applies.                                                 *)
(***************************************************************************)
EXTENDS PagedKV

CONSTANTS Prompts,   \* the prompts requests may bring
          Enabled    \* the cache's enabled flag

ASSUME EnabledAssumption == Enabled \in BOOLEAN
ASSUME PromptsAssumption ==
    \A ids \in Prompts : ids \in Seq(Tokens) /\ Len(ids) \in 1 .. MaxTokens

VARIABLES
    entries,    \* _entries: key -> block
    byBlock,    \* _by_block: block -> key
    lru,        \* the keys of _entries, by increasing last_used
    prompt      \* cache -> the prompt being prefilled; <<>> when none is

cacheVars == <<entries, byBlock, lru>>
pcVars == <<kvVars, cacheVars, prompt>>

(* Mutant: the hash is not chained onto the parent. *)
UnchainedKeyAt(ids, j) == SubSeq(ids, (j - 1) * BlockSize + 1, j * BlockSize)

(* hash_chain: one key per full block of ids. *)
KeyAt(ids, j) == SubSeq(ids, 1, j * BlockSize)
FullBlocks(ids) == Len(ids) \div BlockSize

(* match looks at ids[:-1] and stops at the first miss. *)
Reusable(ids) == (Len(ids) - 1) \div BlockSize
Hits(ids) ==
    {m \in 0 .. Reusable(ids) : \A j \in 1 .. m : KeyAt(ids, j) \in DOMAIN entries}
MatchLength(ids) ==
    IF Enabled THEN CHOOSE m \in Hits(ids) : \A n \in Hits(ids) : n <= m ELSE 0

(* attach returns the number of tokens the sequence starts with. *)
Attached(ids) == MatchLength(ids) * BlockSize

(* Touched keys move to the hot end, in the order they are touched. *)
Touched(keys) ==
    SelectSeq(lru, LAMBDA k : \A i \in 1 .. Len(keys) : keys[i] # k) \o keys

CacheInit ==
    /\ KVInit
    /\ entries = <<>>
    /\ byBlock = <<>>
    /\ lru = <<>>
    /\ prompt = [c \in Caches |-> <<>>]

-----------------------------------------------------------------------------
(* Mutant: match does not take the references it hands over. *)
MatchWithoutIncref(c, ids) ==
    LET m == MatchLength(ids)
        blocks == [j \in 1 .. m |-> entries[KeyAt(ids, j)]]
    IN  /\ status[c] = "open" /\ table[c] = <<>> /\ prompt[c] = <<>>
        /\ table' = [table EXCEPT ![c] = blocks]
        /\ numTokens' = [numTokens EXCEPT ![c] = Attached(ids)]
        /\ text' = [text EXCEPT ![c] = SubSeq(ids, 1, Attached(ids))]
        /\ lru' = Touched([j \in 1 .. m |-> KeyAt(ids, j)])
        /\ prompt' = [prompt EXCEPT ![c] = ids]
        /\ UNCHANGED <<refs, kv, status, entries, byBlock>>

(* match, then attach: a fresh cache starts with the cached blocks of the
   prompt, one reference each transferred to it. *)
Match(c, ids) ==
    LET m == MatchLength(ids)
        blocks == [j \in 1 .. m |-> entries[KeyAt(ids, j)]]
    IN  /\ status[c] = "open" /\ table[c] = <<>> /\ prompt[c] = <<>>
        /\ refs' = [b \in Blocks |->
                        IF \E j \in 1 .. m : blocks[j] = b THEN refs[b] + 1 ELSE refs[b]]
        /\ table' = [table EXCEPT ![c] = blocks]
        /\ numTokens' = [numTokens EXCEPT ![c] = Attached(ids)]
        /\ text' = [text EXCEPT ![c] = SubSeq(ids, 1, Attached(ids))]
        /\ lru' = Touched([j \in 1 .. m |-> KeyAt(ids, j)])
        /\ prompt' = [prompt EXCEPT ![c] = ids]
        /\ UNCHANGED <<kv, status, entries, byBlock>>

(* The model runs over the suffix that was not cached. *)
Suffix(c) == SubSeq(prompt[c], numTokens[c] + 1, Len(prompt[c]))

Prefill(c) ==
    /\ numTokens[c] < Len(prompt[c])
    /\ UpdateFits(c, Suffix(c)) \/ UpdateRaises(c, Suffix(c))
    /\ UNCHANGED <<cacheVars, prompt>>

(* insert: every full block of the prompt whose key is unknown, and which is
   not registered under another key, is registered with a reference of the
   cache's own.  Known keys are only touched. *)
Insert(c) ==
    LET ids == prompt[c]
        depths == {j \in 1 .. FullBlocks(ids) : j <= Len(table[c])}
        new == {j \in depths : KeyAt(ids, j) \notin DOMAIN entries
                               /\ table[c][j] \notin DOMAIN byBlock}
        known == {j \in depths : KeyAt(ids, j) \in DOMAIN entries}
        keys == [j \in depths |-> KeyAt(ids, j)]
    IN  /\ status[c] = "open"
        /\ prompt[c] # <<>> /\ numTokens[c] = Len(prompt[c])
        /\ prompt' = [prompt EXCEPT ![c] = <<>>]
        /\ IF Enabled
           THEN /\ refs' = [b \in Blocks |->
                     IF \E j \in new : table[c][j] = b THEN refs[b] + 1 ELSE refs[b]]
                /\ entries' = [k \in DOMAIN entries \cup {keys[j] : j \in new} |->
                     IF k \in DOMAIN entries THEN entries[k]
                     ELSE table[c][CHOOSE j \in new : keys[j] = k]]
                /\ byBlock' = [b \in DOMAIN byBlock \cup {table[c][j] : j \in new} |->
                     IF b \in DOMAIN byBlock THEN byBlock[b]
                     ELSE keys[CHOOSE j \in new : table[c][j] = b]]
                /\ lru' = Touched(SelectSeq(keys, LAMBDA k :
                     \E j \in new \cup known : keys[j] = k))
           ELSE UNCHANGED <<refs, cacheVars>>
        /\ UNCHANGED <<kv, table, numTokens, text, status>>

(* evict: the coldest entries among those only the cache references. *)
Evictable == {k \in DOMAIN entries : refs[entries[k]] = 1}
Colder(k) ==
    {h \in Evictable : \E i, j \in 1 .. Len(lru) : i < j /\ lru[i] = h /\ lru[j] = k}
Victims(n) == {k \in Evictable : Cardinality(Colder(k)) < n}

(* Mutant: _by_block keeps the blocks that were given back. *)
ForgetKeepsIndex(keys) ==
    LET gone == {entries[k] : k \in keys}
    IN  /\ refs' = [b \in Blocks |-> IF b \in gone THEN refs[b] - 1 ELSE refs[b]]
        /\ kv' = [b \in Blocks |-> IF refs'[b] = 0 THEN Garbage ELSE kv[b]]
        /\ entries' = [k \in DOMAIN entries \ keys |-> entries[k]]
        /\ lru' = SelectSeq(lru, LAMBDA k : k \notin keys)
        /\ UNCHANGED <<table, numTokens, text, status, prompt, byBlock>>

(* Entries leave the cache and its reference on their block is dropped. *)
Forget(keys) ==
    LET gone == {entries[k] : k \in keys}
    IN  /\ refs' = [b \in Blocks |-> IF b \in gone THEN refs[b] - 1 ELSE refs[b]]
        /\ kv' = [b \in Blocks |-> IF refs'[b] = 0 THEN Garbage ELSE kv[b]]
        /\ entries' = [k \in DOMAIN entries \ keys |-> entries[k]]
        /\ byBlock' = [b \in DOMAIN byBlock \ gone |-> byBlock[b]]
        /\ lru' = SelectSeq(lru, LAMBDA k : k \notin keys)
        /\ UNCHANGED <<table, numTokens, text, status, prompt>>

(* ensure_free(n): the first evict asks for what is missing; if it frees less,
   nothing evictable is left and the second one ends the loop. *)
EnsureFree(n) ==
    /\ NumFree < n
    /\ Evictable # {}
    /\ Forget(Victims(n - NumFree))

Clear ==
    /\ DOMAIN entries # {}
    /\ Forget(DOMAIN entries)

-----------------------------------------------------------------------------
(* The pool's own operations, on a cache that no prefill is using. *)
Decode(c, t) ==
    /\ prompt[c] = <<>> /\ numTokens[c] > 0
    /\ UpdateFits(c, <<t>>) \/ UpdateRaises(c, <<t>>)
    /\ UNCHANGED <<cacheVars, prompt>>

Open(c) == Allocate(c) /\ UNCHANGED <<cacheVars, prompt>>

Branch(p, c) ==
    /\ prompt[p] = <<>> /\ numTokens[p] > 0
    /\ Fork(p, c)
    /\ UNCHANGED <<cacheVars, prompt>>

Release(c) ==
    /\ Free(c)
    /\ prompt' = [prompt EXCEPT ![c] = <<>>]
    /\ UNCHANGED cacheVars

CacheNext ==
    \/ \E c \in Caches :
        \/ Open(c)
        \/ \E ids \in Prompts : Match(c, ids)
        \/ Prefill(c)
        \/ Insert(c)
        \/ \E t \in Tokens : Decode(c, t)
        \/ \E p \in Caches : Branch(p, c)
        \/ Release(c)
    \/ \E n \in 1 .. Cardinality(Blocks) : EnsureFree(n)
    \/ Clear

CacheSpec == CacheInit /\ [][CacheNext]_pcVars

-----------------------------------------------------------------------------
CacheTypeOK ==
    /\ KVTypeOK
    /\ DOMAIN entries \subseteq Seq(Tokens)
    /\ \A k \in DOMAIN entries : entries[k] \in Blocks
    /\ DOMAIN byBlock \subseteq Blocks
    /\ prompt \in [Caches -> Prompts \cup {<<>>}]

(* Every reference is somebody's: a block's count is the number of tables
   listing it plus one if the cache registered it.  match, attach, insert,
   evict, clear and free each move references between two owners, and a slip
   in any of them leaks the block or frees it under a reader. *)
AllRefsOwned ==
    \A b \in Blocks :
        refs[b] = Cardinality(Holders(b)) + (IF b \in DOMAIN byBlock THEN 1 ELSE 0)

(* A cached block holds, slot by slot, the entries of exactly the prefix its
   key stands for, long after the sequence that wrote it is gone: this is
   what allows match to hand it to another request. *)
CachedContextTrue ==
    \A k \in DOMAIN entries : \A i \in 1 .. BlockSize :
        kv[entries[k]][i] = SubSeq(k, 1, Len(k) - BlockSize + i)

(* A prompt just prefilled is cached whole: the branch of insert that skips a
   block "already tracked under another key" is never taken. *)
PromptsBecomeCached ==
    [][\A c \in Caches :
        Enabled /\ prompt[c] # <<>> /\ prompt'[c] = <<>> /\ status'[c] = "open"
        => \A j \in 1 .. FullBlocks(prompt[c]) :
             KeyAt(prompt[c], j) \in DOMAIN entries']_pcVars
=============================================================================
