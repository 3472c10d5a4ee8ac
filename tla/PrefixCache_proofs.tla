------------------------- MODULE PrefixCache_proofs -------------------------
(***************************************************************************)
(* For every pool, block size, set of sequences and set of prompts: every  *)
(* reference is a table's or the prefix cache's, a cached block holds the  *)
(* entries of its key, and a prompt just prefilled is cached whole.        *)
(*                                                                         *)
(* The argument is a balance.  Each operation of the pool changes the      *)
(* count of a block by as much as it changes the number of tables listing  *)
(* it, so the difference, the surplus, never moves.  Without a prefix      *)
(* cache it is zero; with one, the cache owns it.  A cached block is       *)
(* therefore never the writer's alone, and no update or free touches what  *)
(* it holds.                                                               *)
(***************************************************************************)
EXTENDS PrefixCache, SequenceTheorems, FiniteSetTheorems, NaturalsInduction,
        WellFoundedInduction, TLAPS

-----------------------------------------------------------------------------
(* The pool and the tables. *)

Elements(s) == {s[i] : i \in 1 .. Len(s)}
NoRepeat(s) == \A i, j \in 1 .. Len(s) : s[i] = s[j] => i = j

(* No table lists a block twice; a closed cache has no table; and no table
   entry is without a reference. *)
TablesSound ==
    /\ \A c \in Caches : NoRepeat(table[c])
    /\ \A c \in Caches : status[c] = "closed" => table[c] = <<>>
    /\ \A b \in Blocks : Cardinality(Holders(b)) <= refs[b]

Surplus(b) == refs[b] - Cardinality(Holders(b))

-----------------------------------------------------------------------------
(* Sequences without repetitions. *)

(* Appending fresh elements keeps a sequence without repetitions. *)
LEMMA ConcatNoRepeat ==
  ASSUME NEW S, NEW s \in Seq(S), NEW f \in Seq(S), NoRepeat(s), NoRepeat(f),
         Elements(s) \cap Elements(f) = {}
  PROVE  /\ s \o f \in Seq(S)
         /\ NoRepeat(s \o f)
         /\ Elements(s \o f) = Elements(s) \cup Elements(f)
<1> DEFINE t == s \o f
<1>0. /\ t \in Seq(S) /\ Len(t) = Len(s) + Len(f)
      /\ \A i \in 1 .. Len(s) + Len(f) : t[i] = IF i <= Len(s) THEN s[i] ELSE f[i - Len(s)]
  BY ConcatProperties
<1> HIDE DEF t
<1>n. Len(s) \in Nat /\ Len(f) \in Nat /\ Len(t) = Len(s) + Len(f)
  BY <1>0
<1>1. \A i \in 1 .. Len(s) : i \in 1 .. Len(t) /\ t[i] = s[i]
  BY <1>0, <1>n
<1>2. ASSUME NEW i \in 1 .. Len(f) PROVE i + Len(s) \in 1 .. Len(t) /\ t[i + Len(s)] = f[i]
  <2>1. i + Len(s) \in 1 .. Len(s) + Len(f) /\ ~(i + Len(s) <= Len(s)) /\ (i + Len(s)) - Len(s) = i
    BY <1>n
  <2> QED BY <1>0, <2>1
<1>b. ASSUME NEW i \in 1 .. Len(t), i \notin 1 .. Len(s)
      PROVE  i - Len(s) \in 1 .. Len(f) /\ t[i] = f[i - Len(s)]
  BY <1>0, <1>n, <1>b
<1>3. \A i \in 1 .. Len(s), j \in 1 .. Len(f) : s[i] # f[j]
  BY DEF Elements
<1>4. NoRepeat(t)
  <2> SUFFICES ASSUME NEW i \in 1 .. Len(t), NEW j \in 1 .. Len(t), t[i] = t[j] PROVE i = j
    BY DEF NoRepeat
  <2>1. CASE i \in 1 .. Len(s) /\ j \in 1 .. Len(s)
    BY <2>1, <1>1 DEF NoRepeat
  <2>2. CASE i \notin 1 .. Len(s) /\ j \notin 1 .. Len(s)
    <3>1. f[i - Len(s)] = f[j - Len(s)] /\ i - Len(s) \in 1 .. Len(f) /\ j - Len(s) \in 1 .. Len(f)
      BY <2>2, <1>b
    <3>2. i - Len(s) = j - Len(s)
      BY <3>1 DEF NoRepeat
    <3> QED BY <3>2, <1>n
  <2>3. CASE i \in 1 .. Len(s) /\ j \notin 1 .. Len(s)
    BY <2>3, <1>1, <1>b, <1>3
  <2>4. CASE i \notin 1 .. Len(s) /\ j \in 1 .. Len(s)
    BY <2>4, <1>1, <1>b, <1>3
  <2> QED BY <2>1, <2>2, <2>3, <2>4
<1>5. ASSUME NEW i \in 1 .. Len(t) PROVE t[i] \in Elements(s) \cup Elements(f)
  <2>1. CASE i \in 1 .. Len(s)
    BY <2>1, <1>1 DEF Elements
  <2>2. CASE i \notin 1 .. Len(s)
    BY <2>2, <1>b DEF Elements
  <2> QED BY <2>1, <2>2
<1>6. Elements(t) \subseteq Elements(s) \cup Elements(f)
  BY <1>5 DEF Elements
<1>7. Elements(s) \cup Elements(f) \subseteq Elements(t)
  BY <1>1, <1>2 DEF Elements
<1> QED BY <1>0, <1>4, <1>6, <1>7 DEF t

(* Replacing the last element by one that is not there. *)
LEMMA ReplaceLast ==
  ASSUME NEW S, NEW s \in Seq(S), s # <<>>, NEW x \in S, NoRepeat(s), x \notin Elements(s)
  PROVE  LET t == [s EXCEPT ![Len(s)] = x]
         IN  /\ t \in Seq(S)
             /\ NoRepeat(t)
             /\ Elements(t) = (Elements(s) \ {s[Len(s)]}) \cup {x}
<1> DEFINE t == [s EXCEPT ![Len(s)] = x]
<1>0. Len(s) \in Nat /\ Len(s) \in 1 .. Len(s)
  BY EmptySeq
<1>1. /\ t \in Seq(S) /\ Len(t) = Len(s)
      /\ \A j \in 1 .. Len(s) : t[j] = IF j = Len(s) THEN x ELSE s[j]
  BY <1>0, ExceptSeq
<1> HIDE DEF t
<1>2. \A j \in 1 .. Len(s) : s[j] # x
  BY DEF Elements
<1>3. NoRepeat(t)
  BY <1>0, <1>1, <1>2 DEF NoRepeat
<1>4. Elements(t) \subseteq (Elements(s) \ {s[Len(s)]}) \cup {x}
  BY <1>0, <1>1 DEF Elements, NoRepeat
<1>5. ASSUME NEW y \in Elements(s), y # s[Len(s)] PROVE y \in Elements(t)
  BY <1>0, <1>1, <1>5 DEF Elements
<1>6. x \in Elements(t)
  BY <1>0, <1>1 DEF Elements
<1> QED BY <1>1, <1>3, <1>4, <1>5, <1>6 DEF t

(* The tail of a sequence without repetitions has none, and lacks the head. *)
LEMMA TailNoRepeat ==
  ASSUME NEW S, NEW f \in Seq(S), f # <<>>, NoRepeat(f)
  PROVE  /\ f[1] \in S
         /\ Tail(f) \in Seq(S)
         /\ NoRepeat(Tail(f))
         /\ f[1] \notin Elements(Tail(f))
         /\ Elements(f) = {f[1]} \cup Elements(Tail(f))
<1> DEFINE t == Tail(f)
<1>0. Len(f) \in Nat /\ 1 \in 1 .. Len(f)
  BY EmptySeq
<1>1. /\ t \in Seq(S) /\ Len(t) = Len(f) - 1
      /\ \A i \in 1 .. Len(f) - 1 : t[i] = f[i + 1]
  BY HeadTailProperties
<1> HIDE DEF t
<1>2. NoRepeat(t) /\ f[1] \notin Elements(t)
  BY <1>0, <1>1 DEF NoRepeat, Elements
<1>3. Elements(t) \subseteq Elements(f) /\ f[1] \in Elements(f)
  BY <1>0, <1>1 DEF Elements
<1>4. ASSUME NEW i \in 1 .. Len(f), i # 1 PROVE f[i] \in Elements(t)
  <2>1. i - 1 \in 1 .. Len(t) /\ t[i - 1] = f[i]
    BY <1>0, <1>1, <1>4
  <2> QED BY <2>1 DEF Elements
<1>5. Elements(f) \subseteq {f[1]} \cup Elements(t)
  BY <1>4 DEF Elements
<1>6. f[1] \in S
  BY <1>0
<1> QED BY <1>1, <1>2, <1>3, <1>5, <1>6 DEF t

-----------------------------------------------------------------------------
(* Holders. *)

(* Sets of caches are finite, so holders can be counted. *)
LEMMA FiniteHolders ==
  ASSUME NEW H \in SUBSET Caches
  PROVE  IsFiniteSet(H) /\ Cardinality(H) \in Nat
  BY CachesAssumption, FS_Subset, FS_CardinalityType

(* A block that may be handed out is in no table. *)
LEMMA FreeUnheld ==
  ASSUME KVTypeOK, TablesSound, NEW b \in FreeBlocks
  PROVE  Holders(b) = {}
<1>1. Holders(b) \in SUBSET Caches /\ b \in Blocks /\ refs[b] = 0
  BY DEF Holders, FreeBlocks
<1>2. Cardinality(Holders(b)) <= 0
  BY <1>1 DEF TablesSound
<1>3. IsFiniteSet(Holders(b)) /\ Cardinality(Holders(b)) \in Nat
  BY <1>1, FiniteHolders
<1>4. Cardinality(Holders(b)) = 0
  BY <1>2, <1>3
<1> QED BY <1>3, <1>4, FS_EmptySet

(* What the allocator hands out: distinct blocks that no table lists. *)
LEMMA FreshFacts ==
  ASSUME KVTypeOK, TablesSound, NEW n \in Nat, NEW f \in DistinctFree(n)
  PROVE  /\ f \in Seq(Blocks) /\ Len(f) = n /\ NoRepeat(f)
         /\ \A b : b \in Elements(f) <=> \E i \in 1 .. Len(f) : f[i] = b
         /\ \A b \in Elements(f) : b \in Blocks /\ refs[b] = 0 /\ Holders(b) = {}
<1>1. f \in [1 .. n -> FreeBlocks] /\ \A i, j \in 1 .. n : f[i] = f[j] => i = j
  BY DEF DistinctFree
<1>2. f \in Seq(FreeBlocks) /\ Len(f) = n
  BY <1>1
<1>3. FreeBlocks \subseteq Blocks
  BY DEF FreeBlocks
<1>4. f \in Seq(Blocks) /\ NoRepeat(f) /\ Elements(f) \subseteq FreeBlocks
  BY <1>1, <1>2, <1>3, SeqMonotonic DEF NoRepeat, Elements
<1>5. \A b \in Elements(f) : b \in Blocks /\ refs[b] = 0 /\ Holders(b) = {}
  BY <1>4, FreeUnheld DEF FreeBlocks
<1> QED BY <1>2, <1>4, <1>5 DEF Elements

(* The table update leaves, with the blocks f obtained so far. *)
LEMMA GrownTableFacts ==
  ASSUME KVTypeOK, TablesSound, NEW c \in Caches, NEW n \in Nat, NEW f \in DistinctFree(n)
  PROVE  LET old == table[c]
             tail == old[Len(old)]
             copies == CopiesTail(c) /\ f # <<>>
             gone == IF copies THEN {tail} ELSE {}
             t == GrownTable(c, f)
         IN  /\ t \in Seq(Blocks) /\ NoRepeat(t)
             /\ Elements(t) = (Elements(old) \ gone) \cup Elements(f)
             /\ Elements(old) \cap Elements(f) = {}
             /\ copies => old # <<>> /\ tail \in Elements(old) /\ refs[tail] > 1
             /\ Len(t) = Len(old) + Len(f) - (IF copies THEN 1 ELSE 0)
             /\ \A i \in 1 .. Len(old) : t[i] = IF copies /\ i = Len(old) THEN f[1] ELSE old[i]
             /\ \A i \in 1 .. Len(t) : i > Len(old) => t[i] \in Elements(f)
<1> DEFINE old == table[c]
           tail == old[Len(old)]
           copies == CopiesTail(c) /\ f # <<>>
           gone == IF copies THEN {tail} ELSE {}
           t == GrownTable(c, f)
<1>1. old \in Seq(Blocks) /\ NoRepeat(old) /\ Len(old) \in Nat
  BY DEF KVTypeOK, TablesSound
<1>2. /\ f \in Seq(Blocks) /\ NoRepeat(f) /\ Len(f) \in Nat
      /\ \A b \in Elements(f) : Holders(b) = {}
  BY FreshFacts
<1>4. Elements(old) \cap Elements(f) = {}
  BY <1>2 DEF Holders, TableBlocks, Elements
<1>5. copies => old # <<>> /\ tail \in Elements(old) /\ refs[tail] > 1
  <2>1. copies => old # <<>> /\ refs[tail] > 1
    BY DEF CopiesTail
  <2>2. old # <<>> => Len(old) \in 1 .. Len(old)
    BY <1>1, EmptySeq
  <2> QED BY <2>1, <2>2 DEF Elements
<1>6. /\ t \in Seq(Blocks) /\ NoRepeat(t)
      /\ Elements(t) = (Elements(old) \ gone) \cup Elements(f)
  <2>1. CASE ~copies
    <3>1. t = old \o f
      BY <2>1 DEF GrownTable
    <3> HIDE DEF t
    <3> QED BY <2>1, <3>1, <1>1, <1>2, <1>4, ConcatNoRepeat
  <2>2. CASE copies
    <3> DEFINE u == [old EXCEPT ![Len(old)] = f[1]]
    <3>1. t = u \o Tail(f)
      BY <2>2 DEF GrownTable
    <3>2. /\ f[1] \in Blocks /\ Tail(f) \in Seq(Blocks) /\ NoRepeat(Tail(f))
          /\ f[1] \notin Elements(Tail(f))
          /\ Elements(f) = {f[1]} \cup Elements(Tail(f))
      BY <2>2, <1>2, TailNoRepeat
    <3>3. /\ u \in Seq(Blocks) /\ NoRepeat(u)
          /\ Elements(u) = (Elements(old) \ {tail}) \cup {f[1]}
      <4>1. f[1] \notin Elements(old) /\ old # <<>>
        BY <2>2, <3>2, <1>4, <1>5
      <4>2. f[1] \in Blocks /\ old \in Seq(Blocks) /\ NoRepeat(old)
        BY <3>2, <1>1
      <4> HIDE DEF old
      <4> QED BY <4>1, <4>2, ReplaceLast
    <3> DEFINE w == Tail(f)
    <3>w. t = u \o w /\ w \in Seq(Blocks) /\ NoRepeat(w)
      BY <3>1, <3>2
    <3> HIDE DEF t, u, old
    <3>4. Elements(u) \cap Elements(w) = {}
      BY <3>2, <3>3, <1>4
    <3>5. /\ t \in Seq(Blocks) /\ NoRepeat(t)
          /\ Elements(t) = Elements(u) \cup Elements(w)
      <4> HIDE DEF w
      <4> QED BY <3>w, <3>3, <3>4, ConcatNoRepeat
    <3>6. gone = {tail}
      BY <2>2
    <3> QED BY <3>2, <3>3, <3>5, <3>6
  <2> QED BY <2>1, <2>2
<1>7. /\ Len(t) = Len(old) + Len(f) - (IF copies THEN 1 ELSE 0)
      /\ \A i \in 1 .. Len(old) : t[i] = IF copies /\ i = Len(old) THEN f[1] ELSE old[i]
      /\ \A i \in 1 .. Len(t) : i > Len(old) => t[i] \in Elements(f)
  <2>1. CASE ~copies
    <3>1. t = old \o f
      BY <2>1 DEF GrownTable
    <3> HIDE DEF t, old, copies
    <3>2. /\ Len(t) = Len(old) + Len(f)
          /\ \A i \in 1 .. Len(old) + Len(f) : t[i] = IF i <= Len(old) THEN old[i] ELSE f[i - Len(old)]
      BY <3>1, <1>1, <1>2, ConcatProperties
    <3>3. \A i \in 1 .. Len(old) : t[i] = old[i]
      BY <3>2, <1>1, <1>2
    <3>4. ASSUME NEW i \in 1 .. Len(t), i > Len(old) PROVE t[i] \in Elements(f)
      <4>1. t[i] = f[i - Len(old)] /\ i - Len(old) \in 1 .. Len(f)
        BY <3>2, <3>4, <1>1, <1>2
      <4> QED BY <4>1 DEF Elements
    <3> QED BY <2>1, <3>2, <3>3, <3>4, <1>1, <1>2
  <2>2. CASE copies
    <3> DEFINE u == [old EXCEPT ![Len(old)] = f[1]]
               w == Tail(f)
    <3>1. t = u \o w
      BY <2>2 DEF GrownTable
    <3>2. /\ f # <<>> /\ f[1] \in Blocks /\ w \in Seq(Blocks) /\ Len(w) = Len(f) - 1
          /\ \A i \in 1 .. Len(f) - 1 : w[i] = f[i + 1]
      BY <2>2, <1>2, TailNoRepeat, HeadTailProperties
    <3>3. Len(old) \in 1 .. Len(old)
      BY <2>2, <1>1, <1>5, EmptySeq
    <3>4. /\ u \in Seq(Blocks) /\ Len(u) = Len(old)
          /\ \A j \in 1 .. Len(old) : u[j] = IF j = Len(old) THEN f[1] ELSE old[j]
      <4> HIDE DEF old
      <4> QED BY <3>2, <3>3, <1>1, ExceptSeq
    <3> HIDE DEF t, old, copies, u, w
    <3>5. /\ Len(t) = Len(old) + Len(w)
          /\ \A i \in 1 .. Len(old) + Len(w) : t[i] = IF i <= Len(old) THEN u[i] ELSE w[i - Len(old)]
      BY <3>1, <3>2, <3>4, ConcatProperties
    <3>n. Len(w) \in Nat /\ Len(w) = Len(f) - 1
      BY <3>2
    <3>6. \A i \in 1 .. Len(old) : t[i] = u[i]
      BY <3>5, <3>n, <1>1
    <3>7. ASSUME NEW i \in 1 .. Len(t), i > Len(old) PROVE t[i] \in Elements(f)
      <4>1. t[i] = w[i - Len(old)] /\ i - Len(old) \in 1 .. Len(f) - 1
        BY <3>5, <3>7, <3>n, <1>1, <1>2
      <4>2. t[i] = f[i - Len(old) + 1] /\ i - Len(old) + 1 \in 1 .. Len(f)
        BY <4>1, <3>2, <1>1, <1>2, SMTT(40)
      <4> QED BY <4>2 DEF Elements
    <3> QED BY <2>2, <3>4, <3>5, <3>6, <3>7, <3>n, <1>1, <1>2
  <2> QED BY <2>1, <2>2
<1> QED BY <1>4, <1>5, <1>6, <1>7

(* What update does to the counts and to the table of c, whether it ends well
   or not: fresh blocks gain this one holder, a copied tail loses it. *)
LEMMA GrowBalance ==
  ASSUME KVTypeOK, TablesSound, NEW c \in Caches, NEW n \in Nat, NEW f \in DistinctFree(n),
         refs' = GrownRefs(c, f),
         table' = [table EXCEPT ![c] = GrownTable(c, f)]
  PROVE  /\ refs' \in [Blocks -> Nat]
         /\ table' \in [Caches -> Seq(Blocks)]
         /\ \A d \in Caches : NoRepeat(table'[d])
         /\ \A b \in Blocks : Surplus(b)' = Surplus(b)
<1> DEFINE old == table[c]
           tail == old[Len(old)]
           copies == CopiesTail(c) /\ f # <<>>
           gone == IF copies THEN {tail} ELSE {}
           t == GrownTable(c, f)
<1>1. /\ refs \in [Blocks -> Nat] /\ table \in [Caches -> Seq(Blocks)]
      /\ old \in Seq(Blocks) /\ NoRepeat(old)
  BY DEF KVTypeOK, TablesSound
<1>2. /\ f \in Seq(Blocks) /\ NoRepeat(f)
      /\ \A b : b \in Elements(f) <=> \E i \in 1 .. Len(f) : f[i] = b
  BY FreshFacts
<1>3. \A b \in Elements(f) : b \in Blocks /\ refs[b] = 0 /\ Holders(b) = {}
  BY FreshFacts
<1>6. /\ t \in Seq(Blocks) /\ NoRepeat(t)
      /\ Elements(t) = (Elements(old) \ gone) \cup Elements(f)
  BY GrownTableFacts
<1>4. Elements(old) \cap Elements(f) = {}
  BY GrownTableFacts
<1>5. copies => old # <<>> /\ tail \in Elements(old) /\ refs[tail] > 1
  BY GrownTableFacts
<1>7. table' \in [Caches -> Seq(Blocks)] /\ table'[c] = t
      /\ \A d \in Caches : d # c => table'[d] = table[d]
  BY <1>1, <1>6
<1>8. \A d \in Caches : NoRepeat(table'[d])
  BY <1>6, <1>7 DEF TablesSound
<1>9. /\ refs' \in [Blocks -> Int]
      /\ \A b \in Blocks : refs'[b] = IF b \in Elements(f) THEN 1
                                      ELSE IF b \in gone THEN refs[b] - 1 ELSE refs[b]
  <2>1. \A b \in Blocks : refs'[b] = IF b \in Elements(f) THEN 1
                                      ELSE IF b \in gone THEN refs[b] - 1 ELSE refs[b]
    <3> SUFFICES ASSUME NEW b \in Blocks
                 PROVE  refs'[b] = IF b \in Elements(f) THEN 1
                                   ELSE IF b \in gone THEN refs[b] - 1 ELSE refs[b]
      OBVIOUS
    <3>1. refs'[b] = CASE \E i \in 1 .. Len(f) : f[i] = b -> 1
                       [] copies /\ b = tail -> refs[b] - 1
                       [] OTHER -> refs[b]
      BY DEF GrownRefs
    <3>2. copies /\ b = tail => b \in Elements(old)
      BY <1>5
    <3>3. CASE b \in Elements(f)
      <4>1. (\E i \in 1 .. Len(f) : f[i] = b) /\ ~(copies /\ b = tail)
        BY <3>2, <3>3, <1>2, <1>4
      <4> QED BY <4>1, <3>1, <3>3
    <3>4. CASE b \notin Elements(f)
      <4>1. ~(\E i \in 1 .. Len(f) : f[i] = b)
        BY <3>4, <1>2
      <4> HIDE DEF copies, tail
      <4> QED BY <4>1, <3>1, <3>4
    <3> QED BY <3>3, <3>4
  <2>2. refs' = [b \in Blocks |-> refs'[b]]
    BY DEF GrownRefs
  <2> QED BY <2>1, <2>2, <1>1
<1>10. refs' \in [Blocks -> Nat]
  <2>1. ASSUME NEW b \in Blocks PROVE refs'[b] \in Nat
    <3>1. b \in gone => refs[b] > 1
      BY <1>5
    <3>2. refs[b] \in Nat
      BY <1>1
    <3> HIDE DEF gone
    <3> QED BY <3>1, <3>2, <1>9
  <2> QED BY <2>1, <1>9
<1>11. ASSUME NEW b \in Blocks PROVE Surplus(b)' = Surplus(b)
  <2> DEFINE H == Holders(b)
             K == Holders(b)'
  <2>0. H \in SUBSET Caches /\ K \in SUBSET Caches
    BY DEF Holders
  <2>1. K = {d \in Caches : b \in Elements(table'[d])} /\ H = {d \in Caches : b \in Elements(table[d])}
    BY DEF Holders, TableBlocks, Elements
  <2>2. \A d \in Caches : d # c => (d \in K <=> d \in H)
    BY <2>1, <1>7
  <2>3. c \in K <=> b \in Elements(t)
    BY <2>1, <1>7
  <2>4. c \in H <=> b \in Elements(old)
    BY <2>1
  <2>5. IsFiniteSet(H) /\ Cardinality(H) \in Nat /\ refs[b] \in Nat
    BY <2>0, <1>1, FiniteHolders
  <2> HIDE DEF H, K, old, t, tail, gone, copies
  <2>6. CASE b \in Elements(f)
    <3>1. H = {} /\ refs[b] = 0 /\ refs'[b] = 1
      BY <2>6, <1>3, <1>9 DEF H
    <3>2. K = {c}
      BY <3>1, <2>0, <2>2, <2>3, <2>6, <1>6
    <3>3. Cardinality(H) = 0 /\ Cardinality(K) = 1
      BY <3>1, <3>2, FS_EmptySet, FS_Singleton
    <3> QED BY <3>1, <3>3 DEF Surplus, H, K
  <2>7. CASE b \notin Elements(f) /\ b \in gone
    <3>1. b \in Elements(old)
      BY <2>7, <1>5 DEF gone
    <3>2. K = H \ {c} /\ c \in H
      BY <3>1, <2>0, <2>2, <2>3, <2>4, <2>7, <1>6
    <3>3. Cardinality(K) = Cardinality(H) - 1
      BY <3>2, <2>5, FS_RemoveElement
    <3>4. refs'[b] = refs[b] - 1
      BY <2>7, <1>9
    <3> QED BY <3>3, <3>4, <2>5 DEF Surplus, H, K
  <2>8. CASE b \notin Elements(f) /\ b \notin gone
    <3>1. b \in Elements(t) <=> b \in Elements(old)
      BY <2>8, <1>6
    <3>2. c \in K <=> c \in H
      BY <3>1, <2>3, <2>4
    <3>3. K = H
      BY <3>2, <2>0, <2>2
    <3>4. refs'[b] = refs[b]
      BY <2>8, <1>9
    <3> QED BY <3>3, <3>4 DEF Surplus, H, K
  <2> QED BY <2>6, <2>7, <2>8
<1> QED BY <1>7, <1>8, <1>10, <1>11

-----------------------------------------------------------------------------
(* Each operation keeps the types, the tables sound and the surplus still. *)

Balanced == \A b \in Blocks : Surplus(b)' = Surplus(b)

(* The tables stay sound when no count falls below its holders. *)
LEMMA StillSound ==
  ASSUME KVTypeOK, TablesSound, Balanced, refs' \in [Blocks -> Nat],
         \A c \in Caches : NoRepeat(table'[c]),
         \A c \in Caches : status'[c] = "closed" => table'[c] = <<>>
  PROVE  TablesSound'
<1>1. ASSUME NEW b \in Blocks PROVE Cardinality(Holders(b)') <= refs'[b]
  <2>1. Holders(b) \in SUBSET Caches /\ Holders(b)' \in SUBSET Caches
    BY DEF Holders
  <2>2. Cardinality(Holders(b)) \in Nat /\ Cardinality(Holders(b)') \in Nat
    BY <2>1, FiniteHolders
  <2>3. refs'[b] - Cardinality(Holders(b)') = refs[b] - Cardinality(Holders(b))
    BY DEF Balanced, Surplus
  <2>4. Cardinality(Holders(b)) <= refs[b] /\ refs[b] \in Nat /\ refs'[b] \in Nat
    BY DEF TablesSound, KVTypeOK
  <2> QED BY <2>2, <2>3, <2>4
<1> QED BY <1>1 DEF TablesSound

(* allocate: no block moves. *)
LEMMA AllocateStep ==
  ASSUME KVTypeOK, TablesSound, NEW c \in Caches, Allocate(c)
  PROVE  KVTypeOK' /\ TablesSound' /\ Balanced
<1>1. /\ status[c] = "closed" /\ status' = [status EXCEPT ![c] = "open"]
      /\ UNCHANGED <<refs, kv, table, numTokens, text>>
  BY DEF Allocate
<1>2. KVTypeOK'
  BY <1>1 DEF KVTypeOK
<1>3. Balanced
  BY <1>1 DEF Balanced, Surplus, Holders, TableBlocks
<1>4. /\ \A d \in Caches : NoRepeat(table'[d])
      /\ \A d \in Caches : status'[d] = "closed" => table'[d] = <<>>
      /\ refs' \in [Blocks -> Nat]
  BY <1>1 DEF TablesSound, KVTypeOK
<1> QED BY <1>2, <1>3, <1>4, StillSound

(* The scatter stores contexts of the sequence that writes. *)
LEMMA ScatterType ==
  ASSUME NEW store \in [Blocks -> [1 .. BlockSize -> Seq(Tokens)]], NEW t,
         NEW start \in Nat, NEW whole \in Seq(Tokens)
  PROVE  Scattered(store, t, start, whole) \in [Blocks -> [1 .. BlockSize -> Seq(Tokens)]]
<1> SUFFICES ASSUME NEW b \in Blocks, NEW i \in 1 .. BlockSize
             PROVE  Scattered(store, t, start, whole)[b][i] \in Seq(Tokens)
  BY DEF Scattered
<1> DEFINE Here(p) == t[((p - 1) \div BlockSize) + 1] = b /\ Offset(p) = i
           q == CHOOSE p \in start + 1 .. Len(whole) : Here(p)
<1>1. Scattered(store, t, start, whole)[b][i] =
        IF \E p \in start + 1 .. Len(whole) : Here(p) THEN SubSeq(whole, 1, q) ELSE store[b][i]
  BY DEF Scattered
<1>2. (\E p \in start + 1 .. Len(whole) : Here(p)) => q \in start + 1 .. Len(whole)
  <2> HIDE DEF Here
  <2> QED OBVIOUS
<1> HIDE DEF q, Here
<1>3. ASSUME NEW p \in start + 1 .. Len(whole) PROVE SubSeq(whole, 1, p) \in Seq(Tokens)
  <2>1. p \in Int /\ \A j \in 1 .. p : whole[j] \in Tokens
    OBVIOUS
  <2> QED BY <2>1, SubSeqProperties
<1>4. store[b][i] \in Seq(Tokens)
  OBVIOUS
<1> QED BY <1>1, <1>2, <1>3, <1>4

(* copy_block stores what a block held. *)
LEMMA CopiedType ==
  ASSUME KVTypeOK, NEW c \in Caches, NEW f
  PROVE  CopiedKV(c, f) \in [Blocks -> [1 .. BlockSize -> Seq(Tokens)]]
<1>1. kv \in [Blocks -> [1 .. BlockSize -> Seq(Tokens)]] /\ table[c] \in Seq(Blocks)
  BY DEF KVTypeOK
<1>2. CopiesTail(c) => table[c][Len(table[c])] \in Blocks
  <2>1. CopiesTail(c) => table[c] # <<>>
    BY DEF CopiesTail
  <2>2. table[c] # <<>> => Len(table[c]) \in 1 .. Len(table[c])
    BY <1>1, EmptySeq
  <2> QED BY <2>1, <2>2, <1>1
<1>3. CopiesTail(c) => kv[table[c][Len(table[c])]] \in [1 .. BlockSize -> Seq(Tokens)]
  BY <1>1, <1>2
<1> DEFINE x == kv[table[c][Len(table[c])]]
<1>4. CopiedKV(c, f) = IF CopiesTail(c) /\ f # <<>> THEN [kv EXCEPT ![f[1]] = x] ELSE kv
  BY DEF CopiedKV
<1> HIDE DEF x
<1>5. CopiesTail(c) => x \in [1 .. BlockSize -> Seq(Tokens)]
  BY <1>3 DEF x
<1> QED BY <1>1, <1>4, <1>5

(* update, whether it fits or raises. *)
LEMMA UpdateStep ==
  ASSUME KVTypeOK, TablesSound, NEW c \in Caches, NEW new \in Seq(Tokens),
         UpdateFits(c, new) \/ UpdateRaises(c, new)
  PROVE  KVTypeOK' /\ TablesSound' /\ Balanced
<1>1. /\ refs \in [Blocks -> Nat] /\ table \in [Caches -> Seq(Blocks)]
      /\ numTokens \in [Caches -> 0 .. MaxTokens] /\ text \in [Caches -> Seq(Tokens)]
      /\ status \in [Caches -> {"closed", "open", "failed"}]
      /\ MaxTokens \in Nat /\ Len(new) \in Nat
  BY MaxTokensAssumption DEF KVTypeOK
<1> DEFINE Grows(f) ==
        /\ refs' = GrownRefs(c, f)
        /\ table' = [table EXCEPT ![c] = GrownTable(c, f)]
        /\ \/ kv' = CopiedKV(c, f)
           \/ kv' = Scattered(CopiedKV(c, f), GrownTable(c, f), numTokens[c], text[c] \o new)
<1>0. PICK n \in Nat : \E f \in DistinctFree(n) : Grows(f)
  <2>1. NumFree \in Nat
    <3>1. FreeBlocks \in SUBSET Blocks
      BY DEF FreeBlocks
    <3> QED BY <3>1, BlocksAssumption, FS_Subset, FS_CardinalityType DEF NumFree
  <2>2. BlocksWanted(c, Len(new)) \in Nat
    <3>1. table[c] \in Seq(Blocks) /\ numTokens[c] \in Nat
      BY <1>1
    <3>2. Len(table[c]) \in Nat
      BY <3>1
    <3>3. CeilDiv(numTokens[c] + Len(new), BlockSize) \in Int
      BY <3>1, <1>1, BlockSizeAssumption DEF CeilDiv
    <3> QED BY <3>2, <3>3 DEF BlocksWanted
  <2>3. \A n \in Nat : FreshBlocks(n) \subseteq DistinctFree(n)
    BY DEF FreshBlocks
  <2>4. CASE UpdateFits(c, new)
    BY <2>2, <2>3, <2>4 DEF UpdateFits
  <2>5. CASE UpdateRaises(c, new)
    BY <2>1, <2>3, <2>5 DEF UpdateRaises
  <2> QED BY <2>4, <2>5
<1>2. PICK f \in DistinctFree(n) : Grows(f)
  BY <1>0
<1>3. /\ refs' \in [Blocks -> Nat] /\ table' \in [Caches -> Seq(Blocks)]
      /\ \A d \in Caches : NoRepeat(table'[d])
      /\ Balanced
  BY <1>2, GrowBalance DEF Balanced
<1>4. /\ status[c] = "open" /\ numTokens[c] + Len(new) <= MaxTokens
      /\ \/ /\ numTokens' = [numTokens EXCEPT ![c] = @ + Len(new)]
            /\ text' = [text EXCEPT ![c] = @ \o new] /\ UNCHANGED status
         \/ UNCHANGED <<numTokens, text>> /\ status' = [status EXCEPT ![c] = "failed"]
  BY DEF UpdateFits, UpdateRaises
<1>5. numTokens' \in [Caches -> 0 .. MaxTokens]
  <2>1. numTokens[c] + Len(new) \in 0 .. MaxTokens
    BY <1>1, <1>4
  <2> QED BY <2>1, <1>1, <1>4
<1>6. text[c] \o new \in Seq(Tokens)
  BY <1>1, ConcatProperties
<1>7. text' \in [Caches -> Seq(Tokens)]
  BY <1>1, <1>4, <1>6
<1>8. kv' \in [Blocks -> [1 .. BlockSize -> Seq(Tokens)]]
  <2>1. CopiedKV(c, f) \in [Blocks -> [1 .. BlockSize -> Seq(Tokens)]] /\ numTokens[c] \in Nat
    BY <1>1, CopiedType
  <2> DEFINE whole == text[c] \o new
  <2>2. whole \in Seq(Tokens)
    BY <1>6
  <2> HIDE DEF whole
  <2>3. Scattered(CopiedKV(c, f), GrownTable(c, f), numTokens[c], whole)
          \in [Blocks -> [1 .. BlockSize -> Seq(Tokens)]]
    BY <2>1, <2>2, ScatterType
  <2> QED BY <2>1, <2>3, <1>2 DEF whole
<1>9. KVTypeOK'
  BY <1>1, <1>3, <1>4, <1>5, <1>7, <1>8 DEF KVTypeOK
<1>10. \A d \in Caches : status'[d] = "closed" => table'[d] = <<>>
  <2> SUFFICES ASSUME NEW d \in Caches, status'[d] = "closed" PROVE table'[d] = <<>>
    OBVIOUS
  <2>1. d # c /\ status[d] = "closed"
    BY <1>1, <1>4
  <2> QED BY <2>1, <1>1, <1>2 DEF TablesSound
<1> QED BY <1>3, <1>9, <1>10, StillSound

(* A table is taken up by a cache that had none, or dropped: the blocks it
   lists gain or lose exactly this holder. *)
LEMMA OneHolder ==
  ASSUME KVTypeOK, NEW c \in Caches, NEW b \in Blocks, table' \in [Caches -> Seq(Blocks)],
         \A d \in Caches : d # c => table'[d] = table[d]
  PROVE  /\ b \notin TableBlocks(c) /\ b \in TableBlocks(c)'
              => Cardinality(Holders(b)') = Cardinality(Holders(b)) + 1
         /\ b \in TableBlocks(c) /\ b \notin TableBlocks(c)'
              => Cardinality(Holders(b)') = Cardinality(Holders(b)) - 1
         /\ (b \in TableBlocks(c) <=> b \in TableBlocks(c)')
              => Holders(b)' = Holders(b)
<1> DEFINE H == Holders(b)
           K == Holders(b)'
<1>1. H \in SUBSET Caches /\ K \in SUBSET Caches
  BY DEF Holders
<1>2. \A d \in Caches : d # c => (d \in K <=> d \in H)
  BY DEF Holders, TableBlocks
<1>3. (c \in H <=> b \in TableBlocks(c)) /\ (c \in K <=> b \in TableBlocks(c)')
  BY DEF Holders
<1>4. IsFiniteSet(H)
  BY <1>1, FiniteHolders
<1> HIDE DEF H, K
<1>5. c \notin H /\ c \in K => Cardinality(K) = Cardinality(H) + 1
  <2>1. c \notin H /\ c \in K => K = H \cup {c}
    BY <1>1, <1>2
  <2> QED BY <2>1, <1>4, FS_AddElement
<1>6. c \in H /\ c \notin K => Cardinality(K) = Cardinality(H) - 1
  <2>1. c \in H /\ c \notin K => K = H \ {c}
    BY <1>1, <1>2
  <2> QED BY <2>1, <1>4, FS_RemoveElement
<1>7. (c \in H <=> c \in K) => K = H
  <2> SUFFICES ASSUME c \in H <=> c \in K PROVE K = H
    OBVIOUS
  <2>1. \A d \in Caches : d \in K <=> d \in H
    BY <1>2
  <2> QED BY <2>1, <1>1
<1> QED BY <1>3, <1>5, <1>6, <1>7 DEF H, K

(* fork: the child's table entries come with a reference each. *)
LEMMA ForkStep ==
  ASSUME KVTypeOK, TablesSound, NEW p \in Caches, NEW c \in Caches, Fork(p, c)
  PROVE  KVTypeOK' /\ TablesSound' /\ Balanced
<1>1. /\ status[p] = "open" /\ status[c] = "closed"
      /\ refs' = [b \in Blocks |-> IF b \in TableBlocks(p) THEN refs[b] + 1 ELSE refs[b]]
      /\ table' = [table EXCEPT ![c] = table[p]]
      /\ numTokens' = [numTokens EXCEPT ![c] = numTokens[p]]
      /\ text' = [text EXCEPT ![c] = text[p]]
      /\ status' = [status EXCEPT ![c] = "open"]
      /\ kv' = kv
  BY DEF Fork
<1>2. KVTypeOK'
  BY <1>1 DEF KVTypeOK
<1>3. /\ table' \in [Caches -> Seq(Blocks)] /\ table'[c] = table[p] /\ table[c] = <<>>
      /\ \A d \in Caches : d # c => table'[d] = table[d]
  BY <1>1 DEF KVTypeOK, TablesSound
<1>4. TableBlocks(c) = {} /\ TableBlocks(c)' = TableBlocks(p)
  BY <1>3 DEF TableBlocks
<1>5. Balanced
  <2> SUFFICES ASSUME NEW b \in Blocks PROVE Surplus(b)' = Surplus(b)
    BY DEF Balanced
  <2>1. refs[b] \in Nat /\ Cardinality(Holders(b)) \in Nat
    <3>1. Holders(b) \in SUBSET Caches
      BY DEF Holders
    <3> QED BY <3>1, FiniteHolders DEF KVTypeOK
  <2>2. CASE b \in TableBlocks(p)
    <3>1. Cardinality(Holders(b)') = Cardinality(Holders(b)) + 1
      BY <2>2, <1>3, <1>4, OneHolder
    <3>2. refs'[b] = refs[b] + 1
      BY <2>2, <1>1
    <3> QED BY <3>1, <3>2, <2>1 DEF Surplus
  <2>3. CASE b \notin TableBlocks(p)
    <3>1. Holders(b)' = Holders(b)
      BY <2>3, <1>3, <1>4, OneHolder
    <3>2. refs'[b] = refs[b]
      BY <2>3, <1>1
    <3> QED BY <3>1, <3>2 DEF Surplus
  <2> QED BY <2>2, <2>3
<1>6. \A d \in Caches : NoRepeat(table'[d])
  BY <1>3 DEF TablesSound
<1>7. \A d \in Caches : status'[d] = "closed" => table'[d] = <<>>
  BY <1>1, <1>3 DEF TablesSound, KVTypeOK
<1> QED BY <1>2, <1>5, <1>6, <1>7, StillSound DEF KVTypeOK

(* free: the entries go with their references. *)
LEMMA FreeStep ==
  ASSUME KVTypeOK, TablesSound, NEW c \in Caches, Free(c)
  PROVE  KVTypeOK' /\ TablesSound' /\ Balanced
<1>1. /\ refs' = [b \in Blocks |-> IF b \in TableBlocks(c) THEN refs[b] - 1 ELSE refs[b]]
      /\ kv' = [b \in Blocks |-> IF refs'[b] = 0 THEN Garbage ELSE kv[b]]
      /\ table' = [table EXCEPT ![c] = <<>>]
      /\ numTokens' = [numTokens EXCEPT ![c] = 0]
      /\ text' = [text EXCEPT ![c] = <<>>]
      /\ status' = [status EXCEPT ![c] = "closed"]
  BY DEF Free
<1>2. /\ table' \in [Caches -> Seq(Blocks)] /\ table'[c] = <<>>
      /\ \A d \in Caches : d # c => table'[d] = table[d]
  BY <1>1 DEF KVTypeOK
<1>3. TableBlocks(c)' = {}
  BY <1>2 DEF TableBlocks
<1>4. ASSUME NEW b \in Blocks
      PROVE  /\ refs[b] \in Nat /\ Cardinality(Holders(b)) \in Nat
             /\ b \in TableBlocks(c) => refs[b] > 0
  <2>1. Holders(b) \in SUBSET Caches /\ (b \in TableBlocks(c) => c \in Holders(b))
    BY DEF Holders
  <2>2. IsFiniteSet(Holders(b)) /\ Cardinality(Holders(b)) \in Nat
    BY <2>1, FiniteHolders
  <2>3. b \in TableBlocks(c) => Cardinality(Holders(b)) # 0
    BY <2>1, <2>2, FS_EmptySet
  <2>4. Cardinality(Holders(b)) <= refs[b] /\ refs[b] \in Nat
    BY DEF TablesSound, KVTypeOK
  <2> QED BY <2>2, <2>3, <2>4
<1>5. Balanced
  <2> SUFFICES ASSUME NEW b \in Blocks PROVE Surplus(b)' = Surplus(b)
    BY DEF Balanced
  <2>1. refs[b] \in Nat /\ Cardinality(Holders(b)) \in Nat
    BY <1>4
  <2>2. CASE b \in TableBlocks(c)
    <3>1. Cardinality(Holders(b)') = Cardinality(Holders(b)) - 1
      BY <2>2, <1>2, <1>3, OneHolder
    <3>2. refs'[b] = refs[b] - 1
      BY <2>2, <1>1
    <3> QED BY <3>1, <3>2, <2>1 DEF Surplus
  <2>3. CASE b \notin TableBlocks(c)
    <3>1. Holders(b)' = Holders(b)
      BY <2>3, <1>2, <1>3, OneHolder
    <3>2. refs'[b] = refs[b]
      BY <2>3, <1>1
    <3> QED BY <3>1, <3>2 DEF Surplus
  <2> QED BY <2>2, <2>3
<1>6. refs' \in [Blocks -> Nat]
  BY <1>1, <1>4
<1>7. kv' \in [Blocks -> [1 .. BlockSize -> Seq(Tokens)]]
  <2>1. Garbage \in [1 .. BlockSize -> Seq(Tokens)]
    BY DEF Garbage, NoKV
  <2>2. kv \in [Blocks -> [1 .. BlockSize -> Seq(Tokens)]]
    BY DEF KVTypeOK
  <2> HIDE DEF Garbage
  <2> QED BY <1>1, <2>1, <2>2
<1>8. KVTypeOK'
  BY <1>1, <1>2, <1>6, <1>7, MaxTokensAssumption DEF KVTypeOK
<1>9. /\ \A d \in Caches : NoRepeat(table'[d])
      /\ \A d \in Caches : status'[d] = "closed" => table'[d] = <<>>
  <2>1. NoRepeat(<<>>)
    BY DEF NoRepeat
  <2> QED BY <2>1, <1>1, <1>2 DEF TablesSound, KVTypeOK
<1> QED BY <1>5, <1>6, <1>8, <1>9, StillSound

-----------------------------------------------------------------------------
(* At first no block has a holder or a reference. *)
LEMMA KVInitSound == KVInit => KVTypeOK /\ TablesSound /\ RefsExact
<1> SUFFICES ASSUME KVInit PROVE KVTypeOK /\ TablesSound /\ RefsExact
  OBVIOUS
<1>1. /\ refs = [b \in Blocks |-> 0] /\ kv = [b \in Blocks |-> Garbage]
      /\ table = [c \in Caches |-> <<>>] /\ numTokens = [c \in Caches |-> 0]
      /\ text = [c \in Caches |-> <<>>] /\ status = [c \in Caches |-> "closed"]
  BY DEF KVInit
<1>2. KVTypeOK
  <2>1. Garbage \in [1 .. BlockSize -> Seq(Tokens)]
    BY DEF Garbage, NoKV
  <2> HIDE DEF Garbage
  <2> QED BY <1>1, <2>1, MaxTokensAssumption DEF KVTypeOK
<1>3. \A b \in Blocks : Holders(b) = {}
  BY <1>1 DEF Holders, TableBlocks
<1>4. RefsExact
  BY <1>1, <1>3, FS_EmptySet DEF RefsExact
<1>5. NoRepeat(<<>>)
  BY DEF NoRepeat
<1>6. TablesSound
  BY <1>1, <1>3, <1>5, FS_EmptySet, SMTT(40) DEF TablesSound
<1> QED BY <1>2, <1>4, <1>6

(* Every operation. *)
LEMMA KVStep ==
  ASSUME KVTypeOK, TablesSound, [KVNext]_kvVars
  PROVE  KVTypeOK' /\ TablesSound' /\ Balanced
<1>1. CASE KVNext
  <2>1. PICK c \in Caches :
          \/ Allocate(c)
          \/ \E new \in Texts : UpdateFits(c, new) \/ UpdateRaises(c, new)
          \/ \E p \in Caches : Fork(p, c)
          \/ Free(c)
    BY <1>1 DEF KVNext
  <2>2. CASE Allocate(c)
    BY <2>2, AllocateStep
  <2>3. CASE \E new \in Texts : UpdateFits(c, new) \/ UpdateRaises(c, new)
    <3>1. PICK new \in Texts : UpdateFits(c, new) \/ UpdateRaises(c, new)
      BY <2>3
    <3>2. new \in Seq(Tokens)
      BY MaxTokensAssumption DEF Texts
    <3> QED BY <3>1, <3>2, UpdateStep
  <2>4. CASE \E p \in Caches : Fork(p, c)
    BY <2>4, ForkStep
  <2>5. CASE Free(c)
    BY <2>5, FreeStep
  <2> QED BY <2>1, <2>2, <2>3, <2>4, <2>5
<1>2. CASE UNCHANGED kvVars
  <2>1. /\ refs' = refs /\ kv' = kv /\ table' = table
        /\ numTokens' = numTokens /\ text' = text /\ status' = status
    BY <1>2 DEF kvVars
  <2>2. KVTypeOK'
    BY <2>1 DEF KVTypeOK
  <2>3. Balanced /\ TablesSound'
    BY <2>1 DEF Balanced, TablesSound, Surplus, Holders, TableBlocks
  <2> QED BY <2>2, <2>3
<1> QED BY <1>1, <1>2

(* With no other owner of references the surplus is zero, and stays zero. *)
LEMMA ExactStays ==
  ASSUME KVTypeOK, KVTypeOK', Balanced, RefsExact
  PROVE  RefsExact'
<1> SUFFICES ASSUME NEW b \in Blocks PROVE refs'[b] = Cardinality(Holders(b)')
  BY DEF RefsExact
<1>1. Holders(b) \in SUBSET Caches /\ Holders(b)' \in SUBSET Caches
  BY DEF Holders
<1>2. Cardinality(Holders(b)) \in Nat /\ Cardinality(Holders(b)') \in Nat
  BY <1>1, FiniteHolders
<1>3. refs'[b] - Cardinality(Holders(b)') = refs[b] - Cardinality(Holders(b))
  BY DEF Balanced, Surplus
<1>4. refs[b] = Cardinality(Holders(b)) /\ refs[b] \in Nat /\ refs'[b] \in Nat
  BY DEF RefsExact, KVTypeOK
<1> QED BY <1>2, <1>3, <1>4

(* PagedKVCache and its pool, for every size: counts never go negative, tables
   list blocks of the pool, and the stored contexts are token sequences. *)
THEOREM KVTypeCorrect == KVSpec => []KVTypeOK
<1>1. KVInit => KVTypeOK /\ TablesSound
  BY KVInitSound
<1>2. (KVTypeOK /\ TablesSound) /\ [KVNext]_kvVars => (KVTypeOK /\ TablesSound)'
  BY KVStep
<1> QED BY <1>1, <1>2, PTL DEF KVSpec

(* No leak and no double free in block_manager.py, whatever is allocated,
   grown, copied on write, forked, freed or aborted by OutOfBlocks: every count
   is the number of tables that list the block. *)
THEOREM RefsCorrect == KVSpec => []RefsExact
<1> DEFINE Inv == KVTypeOK /\ TablesSound /\ RefsExact
<1>1. KVInit => Inv
  BY KVInitSound
<1>2. Inv /\ [KVNext]_kvVars => Inv'
  BY KVStep, ExactStays
<1>3. Inv => RefsExact
  OBVIOUS
<1> QED BY <1>1, <1>2, <1>3, PTL DEF KVSpec

-----------------------------------------------------------------------------
(* What the blocks hold: a sequence reads its own context at every position,
   no block that two sequences can read is written, and the paged cache
   implements the contiguous one.

   The argument: a step of one cache writes only fresh blocks and its own
   tail, the latter only when nobody else holds a reference to it; and
   different positions of a sequence live in different slots. *)

(* The index in the block table of position p. *)
Idx(p) == ((p - 1) \div BlockSize) + 1

(* Each cache holds the text it was fed, and the blocks for it. *)
ContextSound ==
    /\ \A c \in Caches : Len(text[c]) = numTokens[c]
    /\ \A c \in Caches : status[c] = "closed" => numTokens[c] = 0
    /\ HoldsWhatItNeeds
    /\ ReadsOwnContext

-----------------------------------------------------------------------------
(* Positions, table indices and slots. *)

(* Division with remainder. *)
LEMMA DivMod ==
  ASSUME NEW n \in Nat, NEW d \in Nat \ {0}
  PROVE  /\ n \div d \in Nat /\ n % d \in 0 .. d - 1
         /\ n = d * (n \div d) + (n % d)
<1>1. n \div d \in Nat /\ d * (n \div d) <= n /\ n < d * (n \div d) + d
  OBVIOUS
<1> DEFINE q == n \div d
           r == n - d * q
<1>2. q \in Nat /\ d * q \in Int /\ d * q <= n /\ n < d * q + d
  BY <1>1
<1> HIDE DEF q
<1>3. r \in 0 .. d - 1 /\ n = d * q + r
  BY <1>2
<1> HIDE DEF r
<1>4. n % d = r
  BY <1>2, <1>3
<1> QED BY <1>2, <1>3, <1>4 DEF q

(* Quotient and remainder are determined. *)
LEMMA DivUnique ==
  ASSUME NEW d \in Nat \ {0}, NEW q \in Nat, NEW r \in 0 .. d - 1
  PROVE  (d * q + r) \div d = q /\ (d * q + r) % d = r
  OBVIOUS

(* A quotient grows with its dividend. *)
LEMMA DivMono ==
  ASSUME NEW m \in Nat, NEW n \in Nat, NEW d \in Nat \ {0}, m <= n
  PROVE  m \div d <= n \div d
<1> DEFINE q == m \div d
           k == n \div d
<1>1. q \in Nat /\ k \in Nat /\ d * q <= m /\ n < d * k + d
  OBVIOUS
<1> HIDE DEF q, k
<1>2. SUFFICES ASSUME k < q PROVE FALSE
  BY <1>1 DEF q, k
<1>3. d * k + d <= d * q
  BY <1>1, <1>2
<1>4. d * k \in Int /\ d * q \in Int
  BY <1>1
<1> QED BY <1>1, <1>3, <1>4

(* A position is given by its table index and its offset. *)
LEMMA IdxFacts ==
  ASSUME NEW p \in Nat \ {0}
  PROVE  /\ Idx(p) \in Nat \ {0} /\ Offset(p) \in 1 .. BlockSize
         /\ p = BlockSize * (Idx(p) - 1) + Offset(p)
<1>1. p - 1 \in Nat /\ BlockSize \in Nat \ {0}
  BY BlockSizeAssumption
<1> DEFINE q == (p - 1) \div BlockSize
           r == (p - 1) % BlockSize
<1>2. q \in Nat /\ r \in 0 .. BlockSize - 1 /\ p - 1 = BlockSize * q + r
  BY <1>1, DivMod
<1>3. Idx(p) = q + 1 /\ Offset(p) = r + 1
  BY DEF Idx, Offset
<1> HIDE DEF q, r
<1>4. Idx(p) - 1 = q /\ BlockSize * q \in Int
  BY <1>1, <1>2, <1>3
<1> QED BY <1>1, <1>2, <1>3, <1>4

(* Two positions never share a slot. *)
LEMMA SlotUnique ==
  ASSUME NEW p \in Nat \ {0}, NEW q \in Nat \ {0}, Idx(p) = Idx(q), Offset(p) = Offset(q)
  PROVE  p = q
  BY IdxFacts

(* Later positions are not earlier in the table. *)
LEMMA IdxMono ==
  ASSUME NEW p \in Nat \ {0}, NEW q \in Nat \ {0}, p <= q
  PROVE  Idx(p) <= Idx(q)
<1>1. p - 1 \in Nat /\ q - 1 \in Nat /\ p - 1 <= q - 1 /\ BlockSize \in Nat \ {0}
  BY BlockSizeAssumption
<1>2. (p - 1) \div BlockSize <= (q - 1) \div BlockSize
  BY <1>1, DivMono
<1>3. (p - 1) \div BlockSize \in Int /\ (q - 1) \div BlockSize \in Int
  BY <1>1
<1> QED BY <1>2, <1>3 DEF Idx

(* The blocks n tokens need: the index of the last one. *)
LEMMA CeilDivIdx ==
  ASSUME NEW n \in Nat
  PROVE  CeilDiv(n, BlockSize) = IF n = 0 THEN 0 ELSE Idx(n)
<1>1. BlockSize \in Nat \ {0}
  BY BlockSizeAssumption
<1>2. CASE n = 0
  <2>1. (BlockSize * 0 + (BlockSize - 1)) \div BlockSize = 0
    BY <1>1, DivUnique
  <2>2. BlockSize * 0 + (BlockSize - 1) = n + BlockSize - 1
    BY <1>1, <1>2
  <2> QED BY <2>1, <2>2, <1>2 DEF CeilDiv
<1>3. CASE n # 0
  <2> DEFINE q == Idx(n)
             r == Offset(n) - 1
  <2>1. q \in Nat \ {0} /\ r \in 0 .. BlockSize - 1 /\ n = BlockSize * (q - 1) + r + 1
    BY <1>1, <1>3, IdxFacts
  <2> HIDE DEF q, r
  <2>2. BlockSize * (q - 1) + BlockSize = BlockSize * q /\ BlockSize * q \in Int
        /\ BlockSize * (q - 1) \in Int
    BY <1>1, <2>1
  <2>3. n + BlockSize - 1 = BlockSize * q + r
    BY <1>1, <2>1, <2>2
  <2>4. (BlockSize * q + r) \div BlockSize = q
    BY <1>1, <2>1, DivUnique
  <2> QED BY <2>3, <2>4, <1>3 DEF CeilDiv, q
<1> QED BY <1>2, <1>3

(* The blocks of n tokens hold the positions up to n. *)
LEMMA WithinTable ==
  ASSUME NEW n \in Nat, NEW p \in 1 .. n
  PROVE  Idx(p) \in 1 .. CeilDiv(n, BlockSize)
<1>1. n # 0 /\ p \in Nat \ {0} /\ n \in Nat \ {0} /\ p <= n
  OBVIOUS
<1>2. Idx(p) <= Idx(n) /\ Idx(p) \in Nat \ {0} /\ Idx(n) \in Nat
  BY <1>1, IdxMono, IdxFacts
<1> QED BY <1>1, <1>2, CeilDivIdx

(* A position past n that falls within n tokens' blocks is in a partly filled tail. *)
LEMMA BeyondTable ==
  ASSUME NEW n \in Nat, NEW p \in Nat, p > n, Idx(p) <= CeilDiv(n, BlockSize)
  PROVE  n % BlockSize # 0 /\ Idx(p) = CeilDiv(n, BlockSize)
<1>1. p \in Nat \ {0} /\ Idx(p) \in Nat \ {0} /\ BlockSize \in Nat \ {0}
  BY IdxFacts, BlockSizeAssumption
<1>2. n # 0 /\ CeilDiv(n, BlockSize) = Idx(n)
  BY <1>1, CeilDivIdx
<1>3. Idx(n) <= Idx(p) /\ Idx(n) \in Nat
  BY <1>1, <1>2, IdxMono, IdxFacts
<1>4. Idx(p) = Idx(n)
  BY <1>1, <1>2, <1>3
<1>5. ASSUME n % BlockSize = 0 PROVE FALSE
  <2> DEFINE k == n \div BlockSize
  <2>1. k \in Nat /\ n = BlockSize * k
    <3>1. k \in Nat /\ n = BlockSize * k + (n % BlockSize)
      BY <1>1, DivMod
    <3> HIDE DEF k
    <3>2. n = BlockSize * k + 0
      BY <3>1, <1>5, Zenon
    <3>3. BlockSize * k \in Int
      BY <3>1, <1>1
    <3> QED BY <3>1, <3>2, <3>3
  <2>2. k <= (p - 1) \div BlockSize
    BY <1>1, DivMono
  <2>3. (p - 1) \div BlockSize \in Nat
    BY <1>1
  <2>4. k + 1 <= Idx(p)
    BY <2>1, <2>2, <2>3 DEF Idx
  <2>5. n = BlockSize * (Idx(n) - 1) + Offset(n) /\ Offset(n) \in 1 .. BlockSize
    BY <1>2, IdxFacts
  <2> HIDE DEF k
  <2> DEFINE j == Idx(n) - 1
  <2>6. j \in Nat /\ k <= j /\ BlockSize * k = BlockSize * j + Offset(n)
    BY <2>1, <2>4, <2>5, <1>1, <1>4
  <2> HIDE DEF j
  <2>7. BlockSize * k <= BlockSize * j /\ BlockSize * k \in Int /\ BlockSize * j \in Int
    BY <2>1, <2>6, <1>1
  <2> QED BY <2>5, <2>6, <2>7
<1> QED BY <1>2, <1>4, <1>5

-----------------------------------------------------------------------------
(* What a step of one cache leaves alone. *)

(* Somebody other than c has a reference to b. *)
NotOnlyOf(c, b) == refs[b] > 0 /\ ~(refs[b] = 1 /\ b \in TableBlocks(c))

(* A block in another cache's table is not the writer's alone. *)
LEMMA OthersNotOnly ==
  ASSUME KVTypeOK, TablesSound, NEW c \in Caches, NEW d \in Caches, d # c,
         NEW b \in TableBlocks(d)
  PROVE  b \in Blocks /\ NotOnlyOf(c, b)
<1>1. b \in Blocks
  BY DEF TableBlocks, KVTypeOK
<1>2. d \in Holders(b) /\ Holders(b) \in SUBSET Caches /\ (b \in TableBlocks(c) => c \in Holders(b))
  BY DEF Holders
<1>3. IsFiniteSet(Holders(b)) /\ Cardinality(Holders(b)) \in Nat
  BY <1>2, FiniteHolders
<1>4. Cardinality(Holders(b)) # 0
  BY <1>2, <1>3, FS_EmptySet
<1>5. b \in TableBlocks(c) => Cardinality(Holders(b)) # 1
  BY <1>2, <1>3, FS_Singleton
<1>6. Cardinality(Holders(b)) <= refs[b] /\ refs[b] \in Nat
  BY <1>1 DEF TablesSound, KVTypeOK
<1> QED BY <1>1, <1>3, <1>4, <1>5, <1>6 DEF NotOnlyOf

(* copy_block writes a fresh block, and nothing else. *)
LEMMA CopiedBlock ==
  ASSUME KVTypeOK, TablesSound, NEW c \in Caches, NEW n \in Nat, NEW f \in DistinctFree(n),
         NEW b \in Blocks
  PROVE  b \notin Elements(f) => CopiedKV(c, f)[b] = kv[b]
<1>1. kv \in [Blocks -> [1 .. BlockSize -> Seq(Tokens)]] /\ f \in Seq(Blocks)
  BY FreshFacts DEF KVTypeOK
<1>2. f # <<>> => f[1] \in Elements(f)
  BY <1>1, EmptySeq DEF Elements
<1> QED BY <1>1, <1>2 DEF CopiedKV

(* The scatter writes exactly the slots of the new positions. *)
LEMMA ScatterElsewhere ==
  ASSUME NEW store, NEW t, NEW start \in Nat, NEW whole, NEW b \in Blocks, NEW i \in 1 .. BlockSize,
         \A p \in start + 1 .. Len(whole) : ~(t[Idx(p)] = b /\ Offset(p) = i)
  PROVE  Scattered(store, t, start, whole)[b][i] = store[b][i]
<1>1. ~ \E p \in start + 1 .. Len(whole) : t[((p - 1) \div BlockSize) + 1] = b /\ Offset(p) = i
  BY DEF Idx
<1> QED BY <1>1 DEF Scattered

(* A new position's slot receives its context. *)
LEMMA ScatterHere ==
  ASSUME NEW store, NEW t, NEW start \in Nat, NEW whole, NEW p \in start + 1 .. Len(whole),
         t[Idx(p)] \in Blocks, Len(whole) \in Nat,
         \A q \in start + 1 .. Len(whole) : t[Idx(q)] = t[Idx(p)] => Idx(q) = Idx(p)
  PROVE  Scattered(store, t, start, whole)[t[Idx(p)]][Offset(p)] = SubSeq(whole, 1, p)
<1> DEFINE b == t[Idx(p)]
           i == Offset(p)
           Here(q) == t[((q - 1) \div BlockSize) + 1] = b /\ Offset(q) = i
           z == CHOOSE q \in start + 1 .. Len(whole) : Here(q)
<1>0. p \in Nat \ {0}
  OBVIOUS
<1>1. p \in Nat \ {0} /\ b \in Blocks /\ i \in 1 .. BlockSize
  BY <1>0, IdxFacts
<1>2. \A q \in start + 1 .. Len(whole) : Here(q) => q = p
  <2> SUFFICES ASSUME NEW q \in start + 1 .. Len(whole), Here(q) PROVE q = p
    OBVIOUS
  <2>1. Idx(q) = Idx(p) /\ Offset(q) = Offset(p) /\ q \in Nat \ {0}
    BY DEF Idx
  <2> QED BY <2>1, <1>1, SlotUnique
<1>3. Here(p)
  BY DEF Idx
<1>4. z = p
  <2> HIDE DEF Here
  <2>1. z \in start + 1 .. Len(whole) /\ Here(z)
    BY <1>3
  <2> HIDE DEF z
  <2> QED BY <2>1, <1>2
<1>5. Scattered(store, t, start, whole)[b][i] =
        IF \E q \in start + 1 .. Len(whole) : Here(q) THEN SubSeq(whole, 1, z) ELSE store[b][i]
  <2> HIDE DEF b, i
  <2> QED BY <1>1 DEF Scattered
<1> HIDE DEF Here, z
<1> QED BY <1>3, <1>4, <1>5

-----------------------------------------------------------------------------
(* update *)

(* The common part of UpdateFits and UpdateRaises. *)
LEMMA UpdateShape ==
  ASSUME KVTypeOK, TablesSound, NEW c \in Caches, NEW new \in Seq(Tokens),
         UpdateFits(c, new) \/ UpdateRaises(c, new)
  PROVE  \E n \in Nat : \E f \in DistinctFree(n) :
           /\ refs' = GrownRefs(c, f)
           /\ table' = [table EXCEPT ![c] = GrownTable(c, f)]
           /\ status[c] = "open"
           /\ \/ /\ UpdateFits(c, new)
                 /\ n = BlocksWanted(c, Len(new))
                 /\ kv' = Scattered(CopiedKV(c, f), GrownTable(c, f), numTokens[c], text[c] \o new)
                 /\ numTokens' = [numTokens EXCEPT ![c] = @ + Len(new)]
                 /\ text' = [text EXCEPT ![c] = @ \o new]
                 /\ status' = status
              \/ /\ UpdateRaises(c, new)
                 /\ kv' = CopiedKV(c, f)
                 /\ numTokens' = numTokens /\ text' = text
                 /\ status' = [status EXCEPT ![c] = "failed"]
<1>1. NumFree \in Nat
  <2>1. FreeBlocks \in SUBSET Blocks
    BY DEF FreeBlocks
  <2> QED BY <2>1, BlocksAssumption, FS_Subset, FS_CardinalityType DEF NumFree
<1>2. BlocksWanted(c, Len(new)) \in Nat
  <2>1. table[c] \in Seq(Blocks) /\ numTokens[c] \in Nat /\ Len(new) \in Nat
    BY MaxTokensAssumption DEF KVTypeOK
  <2>2. Len(table[c]) \in Nat
    BY <2>1
  <2>3. CeilDiv(numTokens[c] + Len(new), BlockSize) \in Int
    BY <2>1, BlockSizeAssumption DEF CeilDiv
  <2> QED BY <2>2, <2>3 DEF BlocksWanted
<1>3. \A n \in Nat : FreshBlocks(n) \subseteq DistinctFree(n)
  BY DEF FreshBlocks
<1>4. CASE UpdateFits(c, new)
  BY <1>2, <1>3, <1>4 DEF UpdateFits
<1>5. CASE UpdateRaises(c, new)
  BY <1>1, <1>3, <1>5 DEF UpdateRaises
<1> QED BY <1>4, <1>5

(* Where the new positions of an update go: a fresh block, or a tail that only
   the writer references. *)
LEMMA WritePlace ==
  ASSUME KVTypeOK, TablesSound, ContextSound, NEW c \in Caches, NEW n \in Nat,
         NEW f \in DistinctFree(n), status[c] = "open",
         NEW p \in Nat, p > numTokens[c], Idx(p) \in 1 .. Len(GrownTable(c, f)),
         CopiesTail(c) => n > 0
  PROVE  \/ GrownTable(c, f)[Idx(p)] \in Elements(f)
         \/ ~NotOnlyOf(c, GrownTable(c, f)[Idx(p)])
<1> DEFINE old == table[c]
           t == GrownTable(c, f)
           copies == CopiesTail(c) /\ f # <<>>
<1>1. /\ t \in Seq(Blocks) /\ old \in Seq(Blocks) /\ Len(old) \in Nat
      /\ \A i \in 1 .. Len(old) : t[i] = IF copies /\ i = Len(old) THEN f[1] ELSE old[i]
      /\ \A i \in 1 .. Len(t) : i > Len(old) => t[i] \in Elements(f)
  BY GrownTableFacts, SMTT(40) DEF KVTypeOK
<1>2. Len(f) = n /\ f \in Seq(Blocks)
  BY FreshFacts
<1>3. numTokens[c] \in Nat /\ Len(old) = CeilDiv(numTokens[c], BlockSize)
  BY MaxTokensAssumption DEF KVTypeOK, ContextSound, HoldsWhatItNeeds
<1> HIDE DEF t, old
<1>4. CASE Idx(p) > Len(old)
  BY <1>1, <1>4 DEF t
<1>5. CASE ~(Idx(p) > Len(old))
  <2>1. Idx(p) <= Len(old) /\ Idx(p) \in 1 .. Len(old)
    BY <1>1, <1>5 DEF t
  <2>2. numTokens[c] % BlockSize # 0 /\ Idx(p) = Len(old)
    BY <2>1, <1>3, BeyondTable
  <2>3. CASE copies
    <3>1. t[Idx(p)] = f[1]
      BY <2>1, <2>2, <2>3, <1>1
    <3>2. f[1] \in Elements(f)
      BY <2>3, <1>2, EmptySeq DEF Elements
    <3> QED BY <3>1, <3>2 DEF t
  <2>4. CASE ~copies
    <3>1. ~CopiesTail(c)
      <4>1. n > 0 => f # <<>>
        BY <1>2, EmptySeq
      <4> QED BY <2>4, <4>1
    <3>2. t[Idx(p)] = old[Len(old)] /\ old # <<>>
      BY <2>1, <2>2, <2>4, <1>1
    <3>3. ~(refs[old[Len(old)]] > 1)
      BY <3>1, <3>2, <2>2 DEF CopiesTail, old
    <3>4. old[Len(old)] \in TableBlocks(c) /\ old[Len(old)] \in Blocks
      BY <2>1, <2>2, <1>1 DEF TableBlocks, old
    <3>5. refs[old[Len(old)]] \in Nat
      BY <3>4 DEF KVTypeOK
    <3> HIDE DEF copies
    <3> QED BY <3>2, <3>3, <3>4, <3>5 DEF NotOnlyOf, t
  <2> QED BY <2>3, <2>4
<1> QED BY <1>4, <1>5

(* The number of blocks is a number. *)
LEMMA CeilNat ==
  ASSUME NEW n \in Nat
  PROVE  CeilDiv(n, BlockSize) \in Nat
  BY CeilDivIdx, IdxFacts

(* More tokens need no fewer blocks. *)
LEMMA CeilMono ==
  ASSUME NEW m \in Nat, NEW n \in Nat, m <= n
  PROVE  /\ CeilDiv(m, BlockSize) \in Nat /\ CeilDiv(n, BlockSize) \in Nat
         /\ CeilDiv(m, BlockSize) <= CeilDiv(n, BlockSize)
<1>1. \A k \in Nat : CeilDiv(k, BlockSize) = (IF k = 0 THEN 0 ELSE Idx(k))
  BY CeilDivIdx
<1>2. \A k \in Nat \ {0} : Idx(k) \in Nat
  BY IdxFacts
<1>3. m # 0 => n # 0 /\ Idx(m) <= Idx(n)
  BY IdxMono
<1> QED BY <1>1, <1>2, <1>3

(* An update that fits leaves exactly the blocks the tokens need. *)
LEMMA FitsLength ==
  ASSUME KVTypeOK, TablesSound, ContextSound, NEW c \in Caches, NEW new \in Seq(Tokens),
         status[c] = "open", NEW n \in Nat, n = BlocksWanted(c, Len(new)), NEW f \in DistinctFree(n)
  PROVE  /\ Len(GrownTable(c, f)) = CeilDiv(numTokens[c] + Len(new), BlockSize)
         /\ CopiesTail(c) => n > 0
<1> DEFINE old == table[c]
           t == GrownTable(c, f)
           a == CeilDiv(numTokens[c], BlockSize)
           z == CeilDiv(numTokens[c] + Len(new), BlockSize)
<1>1. numTokens[c] \in Nat /\ Len(new) \in Nat /\ Len(old) = a
  BY MaxTokensAssumption DEF KVTypeOK, ContextSound, HoldsWhatItNeeds
<1>2. a \in Nat /\ z \in Nat /\ a <= z
  <2>1. numTokens[c] + Len(new) \in Nat /\ numTokens[c] <= numTokens[c] + Len(new)
    BY <1>1
  <2> QED BY <1>1, <2>1, CeilMono
<1>3. n = (IF CopiesTail(c) THEN 1 ELSE 0) + (IF z - Len(old) > 0 THEN z - Len(old) ELSE 0)
  BY DEF BlocksWanted
<1>4. Len(t) = Len(old) + Len(f) - (IF CopiesTail(c) /\ f # <<>> THEN 1 ELSE 0)
  BY GrownTableFacts
<1>5. Len(f) = n /\ (n > 0 => f # <<>>)
  BY FreshFacts, EmptySeq
<1> HIDE DEF a, z, t, old
<1>6. Len(t) = z /\ (CopiesTail(c) => n > 0)
  BY <1>1, <1>2, <1>3, <1>4, <1>5
<1> QED BY <1>6 DEF t, z

(* Two blocks with equal slots are equal. *)
LEMMA SameContents ==
  ASSUME NEW g \in [1 .. BlockSize -> Seq(Tokens)], NEW h \in [1 .. BlockSize -> Seq(Tokens)],
         \A i \in 1 .. BlockSize : g[i] = h[i]
  PROVE  g = h
<1>1. g = [i \in 1 .. BlockSize |-> g[i]] /\ h = [i \in 1 .. BlockSize |-> h[i]]
  OBVIOUS
<1>2. [i \in 1 .. BlockSize |-> g[i]] = [i \in 1 .. BlockSize |-> h[i]]
  OBVIOUS
<1> QED BY <1>1, <1>2, Zenon

(* A step of c leaves every block alone that anybody else references. *)
LEMMA UpdateKeeps ==
  ASSUME KVTypeOK, TablesSound, ContextSound, NEW c \in Caches, NEW new \in Seq(Tokens),
         UpdateFits(c, new) \/ UpdateRaises(c, new),
         NEW b \in Blocks, NotOnlyOf(c, b)
  PROVE  kv'[b] = kv[b]
<1>1. PICK n \in Nat : \E f \in DistinctFree(n) :
           /\ refs' = GrownRefs(c, f)
           /\ table' = [table EXCEPT ![c] = GrownTable(c, f)]
           /\ status[c] = "open"
           /\ \/ /\ n = BlocksWanted(c, Len(new))
                 /\ kv' = Scattered(CopiedKV(c, f), GrownTable(c, f), numTokens[c], text[c] \o new)
              \/ kv' = CopiedKV(c, f)
  BY UpdateShape
<1>2. PICK f \in DistinctFree(n) :
           /\ status[c] = "open"
           /\ \/ /\ n = BlocksWanted(c, Len(new))
                 /\ kv' = Scattered(CopiedKV(c, f), GrownTable(c, f), numTokens[c], text[c] \o new)
              \/ kv' = CopiedKV(c, f)
  BY <1>1
<1>3. b \notin Elements(f)
  BY FreshFacts DEF NotOnlyOf
<1>4. CopiedKV(c, f)[b] = kv[b]
  BY <1>3, CopiedBlock
<1>5. CASE kv' = CopiedKV(c, f)
  BY <1>4, <1>5
<1>6. CASE /\ n = BlocksWanted(c, Len(new))
           /\ kv' = Scattered(CopiedKV(c, f), GrownTable(c, f), numTokens[c], text[c] \o new)
  <2> DEFINE t == GrownTable(c, f)
             start == numTokens[c]
             whole == text[c] \o new
             store == CopiedKV(c, f)
  <2>1. /\ Len(t) = CeilDiv(start + Len(new), BlockSize) /\ (CopiesTail(c) => n > 0)
    BY <1>2, <1>6, FitsLength
  <2>2. /\ start \in Nat /\ whole \in Seq(Tokens) /\ Len(whole) = start + Len(new)
        /\ Len(whole) \in Nat
    <3>1. /\ text[c] \in Seq(Tokens) /\ new \in Seq(Tokens)
          /\ Len(text[c]) = start /\ start \in Nat
      BY MaxTokensAssumption DEF KVTypeOK, ContextSound
    <3>2. text[c] \o new \in Seq(Tokens) /\ Len(text[c] \o new) = Len(text[c]) + Len(new)
      BY <3>1, ConcatProperties
    <3>3. Len(new) \in Nat
      BY <3>1
    <3> QED BY <3>1, <3>2, <3>3
  <2>3. ASSUME NEW p \in start + 1 .. Len(whole) PROVE t[Idx(p)] # b
    <3>1. p \in 1 .. Len(whole) /\ p \in Nat /\ p > start
      BY <2>2
    <3>2. Idx(p) \in 1 .. Len(t)
      BY <3>1, <2>1, <2>2, WithinTable
    <3>3. t[Idx(p)] \in Elements(f) \/ ~NotOnlyOf(c, t[Idx(p)])
      BY <3>1, <3>2, <2>1, <1>2, WritePlace
    <3> QED BY <3>3, <1>3
  <2>4. kv'[b] \in [1 .. BlockSize -> Seq(Tokens)] /\ kv[b] \in [1 .. BlockSize -> Seq(Tokens)]
    BY UpdateStep DEF KVTypeOK
  <2> HIDE DEF t, whole, store, start
  <2>5. kv' = Scattered(store, t, start, whole)
    BY <1>6 DEF t, whole, store, start
  <2>6. ASSUME NEW i \in 1 .. BlockSize PROVE kv'[b][i] = kv[b][i]
    <3>1. kv'[b][i] = store[b][i]
      BY <2>2, <2>3, <2>5, ScatterElsewhere, SMTT(40)
    <3> QED BY <3>1, <1>4 DEF store
  <2> DEFINE g == kv'[b]
             h == kv[b]
  <2>7. /\ g \in [1 .. BlockSize -> Seq(Tokens)] /\ h \in [1 .. BlockSize -> Seq(Tokens)]
        /\ \A i \in 1 .. BlockSize : g[i] = h[i]
    BY <2>4, <2>6
  <2> HIDE DEF g, h
  <2>8. g = h
    BY <2>7, SameContents
  <2> QED BY <2>8 DEF g, h
<1> QED BY <1>2, <1>5, <1>6

(* The copied tail reads like the shared one. *)
LEMMA CopiedReads ==
  ASSUME KVTypeOK, TablesSound, NEW c \in Caches, NEW n \in Nat, NEW f \in DistinctFree(n),
         NEW i \in 1 .. Len(table[c])
  PROVE  /\ i \in 1 .. Len(GrownTable(c, f))
         /\ CopiedKV(c, f)[GrownTable(c, f)[i]] = kv[table[c][i]]
<1> DEFINE old == table[c]
           t == GrownTable(c, f)
           copies == CopiesTail(c) /\ f # <<>>
<1>0. old \in Seq(Blocks) /\ Len(old) \in Nat /\ i \in 1 .. Len(old)
  BY DEF KVTypeOK
<1>1. /\ old \in Seq(Blocks) /\ Len(old) \in Nat /\ old[i] \in Blocks /\ old[i] \in Elements(old)
      /\ Elements(old) \cap Elements(f) = {}
      /\ Len(t) = Len(old) + Len(f) - (IF copies THEN 1 ELSE 0)
      /\ t[i] = IF copies /\ i = Len(old) THEN f[1] ELSE old[i]
  <2>1. old[i] \in Blocks /\ old[i] \in Elements(old)
    BY <1>0 DEF Elements
  <2>2. /\ Elements(old) \cap Elements(f) = {}
        /\ Len(t) = Len(old) + Len(f) - (IF copies THEN 1 ELSE 0)
        /\ \A j \in 1 .. Len(old) : t[j] = IF copies /\ j = Len(old) THEN f[1] ELSE old[j]
    BY GrownTableFacts
  <2> QED BY <2>1, <2>2, <1>0
<1>2. /\ f \in Seq(Blocks) /\ Len(f) \in Nat /\ (f # <<>> => Len(f) > 0 /\ f[1] \in Blocks)
      /\ kv \in [Blocks -> [1 .. BlockSize -> Seq(Tokens)]]
  BY FreshFacts, EmptySeq DEF KVTypeOK
<1>3. i \in 1 .. Len(t)
  <2> HIDE DEF t, old
  <2> QED BY <1>1, <1>2 DEF old
<1>4. CASE copies /\ i = Len(old)
  <2>1. CopiedKV(c, f) = [kv EXCEPT ![f[1]] = kv[old[Len(old)]]]
    BY <1>4 DEF CopiedKV
  <2> QED BY <2>1, <1>1, <1>2, <1>3, <1>4
<1>5. CASE ~(copies /\ i = Len(old))
  <2>1. t[i] = old[i] /\ old[i] \notin Elements(f)
    BY <1>1, <1>5
  <2>2. CopiedKV(c, f)[old[i]] = kv[old[i]]
    BY <2>1, <1>1, CopiedBlock
  <2> QED BY <2>1, <2>2, <1>3
<1> QED BY <1>4, <1>5

(* The sequence that is updated reads its own text, the new part included. *)
LEMMA UpdateReads ==
  ASSUME KVTypeOK, TablesSound, ContextSound, NEW c \in Caches, NEW new \in Seq(Tokens),
         UpdateFits(c, new) \/ UpdateRaises(c, new),
         NEW p \in 1 .. numTokens'[c]
  PROVE  kv'[table'[c][Idx(p)]][Offset(p)] = SubSeq(text'[c], 1, p)
<1> DEFINE old == table[c]
           start == numTokens[c]
           txt == text[c]
           Shape(n, f) ==
             /\ table' = [table EXCEPT ![c] = GrownTable(c, f)]
             /\ status[c] = "open"
             /\ \/ /\ n = BlocksWanted(c, Len(new))
                   /\ kv' = Scattered(CopiedKV(c, f), GrownTable(c, f), numTokens[c], text[c] \o new)
                   /\ numTokens' = [numTokens EXCEPT ![c] = @ + Len(new)]
                   /\ text' = [text EXCEPT ![c] = @ \o new]
                \/ /\ kv' = CopiedKV(c, f)
                   /\ numTokens' = numTokens /\ text' = text
<1>1. PICK n \in Nat : \E f \in DistinctFree(n) : Shape(n, f)
  BY UpdateShape
<1>2. PICK f \in DistinctFree(n) : Shape(n, f)
  BY <1>1
<1> DEFINE t == GrownTable(c, f)
           store == CopiedKV(c, f)
           whole == txt \o new
<1>3. /\ start \in Nat /\ txt \in Seq(Tokens) /\ Len(txt) = start /\ Len(new) \in Nat
      /\ table'[c] = t /\ old \in Seq(Blocks) /\ Len(old) = CeilDiv(start, BlockSize)
      /\ numTokens \in [Caches -> Nat] /\ text \in [Caches -> Seq(Tokens)]
  BY <1>2, MaxTokensAssumption DEF KVTypeOK, ContextSound, HoldsWhatItNeeds
<1>4. t \in Seq(Blocks) /\ NoRepeat(t)
  BY GrownTableFacts
<1>5. ASSUME NEW q \in 1 .. start
      PROVE  /\ Idx(q) \in 1 .. Len(t)
             /\ store[t[Idx(q)]][Offset(q)] = SubSeq(txt, 1, q)
  <2>1. Idx(q) \in 1 .. Len(old)
    BY <1>3, WithinTable
  <2>2. Idx(q) \in 1 .. Len(t) /\ store[t[Idx(q)]] = kv[old[Idx(q)]]
    BY <2>1, CopiedReads
  <2>3. kv[old[Idx(q)]][Offset(q)] = SubSeq(txt, 1, q)
    BY DEF ContextSound, ReadsOwnContext, Slot, BlockOf, Idx
  <2> QED BY <2>2, <2>3
<1>6. CASE kv' = store /\ numTokens' = numTokens /\ text' = text
  BY <1>3, <1>5, <1>6
<1>7. CASE /\ n = BlocksWanted(c, Len(new))
           /\ kv' = Scattered(store, t, start, whole)
           /\ numTokens' = [numTokens EXCEPT ![c] = @ + Len(new)]
           /\ text' = [text EXCEPT ![c] = @ \o new]
  <2>1. numTokens'[c] = start + Len(new) /\ text'[c] = whole
    BY <1>3, <1>7
  <2>2. whole \in Seq(Tokens) /\ Len(whole) = start + Len(new) /\ Len(whole) \in Nat
    <3>1. txt \in Seq(Tokens) /\ Len(txt) = start /\ start \in Nat
      BY <1>3
    <3> HIDE DEF txt, start
    <3>2. whole \in Seq(Tokens) /\ Len(whole) = Len(txt) + Len(new) /\ Len(new) \in Nat
      BY <3>1, ConcatProperties
    <3> QED BY <3>1, <3>2
  <2>0. start \in Nat
    BY <1>3
  <2>3. Len(t) = CeilDiv(start + Len(new), BlockSize)
    BY <1>2, <1>7, FitsLength
  <2>4. ASSUME NEW q \in 1 .. Len(whole)
        PROVE  Idx(q) \in 1 .. Len(t) /\ t[Idx(q)] \in Blocks /\ Offset(q) \in 1 .. BlockSize
               /\ q \in Nat \ {0}
    <3>1. Idx(q) \in 1 .. Len(t)
      BY <2>2, <2>3, WithinTable
    <3>2. q \in Nat \ {0}
      BY <2>2
    <3> QED BY <3>1, <3>2, <1>4, IdxFacts
  <2>5. \A q, r \in 1 .. Len(whole) : t[Idx(q)] = t[Idx(r)] => Idx(q) = Idx(r)
    BY <2>4, <1>4 DEF NoRepeat
  <2> HIDE DEF t, store, whole, start, txt, old
  <2>6. p \in 1 .. Len(whole)
    BY <2>1, <2>2
  <2>7. CASE p > start
    <3>1. p \in start + 1 .. Len(whole)
      BY <2>6, <2>7, <1>3
    <3>2. \A q \in start + 1 .. Len(whole) : t[Idx(q)] = t[Idx(p)] => Idx(q) = Idx(p)
      BY <2>5, <2>6, <1>3, <2>2
    <3>3. t[Idx(p)] \in Blocks
      BY <2>4, <2>6
    <3>l. Len(whole) \in Nat
      BY <2>2
    <3>4. Scattered(store, t, start, whole)[t[Idx(p)]][Offset(p)] = SubSeq(whole, 1, p)
      BY ONLY <3>1, <3>2, <3>3, <3>l, <2>0, ScatterHere
    <3> QED BY <3>4, <2>1, <1>3, <1>7
  <2>8. CASE ~(p > start)
    <3>1. p \in 1 .. start
      BY <2>6, <2>8, <1>3, <2>2
    <3>2. \A q \in start + 1 .. Len(whole) : ~(t[Idx(q)] = t[Idx(p)] /\ Offset(q) = Offset(p))
      <4> SUFFICES ASSUME NEW q \in start + 1 .. Len(whole), t[Idx(q)] = t[Idx(p)],
                          Offset(q) = Offset(p)
                   PROVE  FALSE
        OBVIOUS
      <4>1. q \in 1 .. Len(whole) /\ q # p
        BY <3>1, <1>3, <2>2
      <4>2. Idx(q) = Idx(p) /\ q \in Nat \ {0} /\ p \in Nat \ {0}
        BY <4>1, <2>4, <2>5, <2>6
      <4> QED BY <4>1, <4>2, SlotUnique
    <3>3. t[Idx(p)] \in Blocks /\ Offset(p) \in 1 .. BlockSize
      BY <2>4, <2>6
    <3>4. Scattered(store, t, start, whole)[t[Idx(p)]][Offset(p)] = store[t[Idx(p)]][Offset(p)]
      BY <3>2, <3>3, <2>0, ScatterElsewhere
    <3>5. store[t[Idx(p)]][Offset(p)] = SubSeq(txt, 1, p)
      BY <3>1, <1>5
    <3>6. SubSeq(whole, 1, p) = SubSeq(txt, 1, p)
      <4>1. p \in 1 .. Len(txt) /\ 1 \in 1 .. Len(txt)
        BY <3>1, <1>3
      <4> QED BY <4>1, <1>3, SubSeqOfConcat1 DEF whole
    <3> QED BY <3>4, <3>5, <3>6, <2>1, <1>3, <1>7
  <2> QED BY <2>7, <2>8
<1> QED BY <1>2, <1>6, <1>7

(* A cache that reads the blocks it read before reads what it read before. *)
LEMMA KeptContext ==
  ASSUME ContextSound, NEW c \in Caches, NEW d \in Caches,
         table'[c] = table[d], numTokens'[c] = numTokens[d], text'[c] = text[d],
         KVTypeOK, \A b \in TableBlocks(d) : kv'[b] = kv[b],
         NEW p \in 1 .. numTokens'[c]
  PROVE  kv'[table'[c][Idx(p)]][Offset(p)] = SubSeq(text'[c], 1, p)
<1>1. p \in 1 .. numTokens[d] /\ numTokens[d] \in Nat
  BY MaxTokensAssumption DEF KVTypeOK
<1>2. Idx(p) \in 1 .. CeilDiv(numTokens[d], BlockSize)
  BY <1>1, WithinTable
<1>3. CeilDiv(numTokens[d], BlockSize) \in Nat
  BY <1>1, CeilNat
<1>4. CeilDiv(numTokens[d], BlockSize) <= Len(table[d]) /\ Len(table[d]) \in Nat
  <2>1. Len(table[d]) \in Nat
    BY DEF KVTypeOK
  <2> QED BY <2>1, <1>3 DEF ContextSound, HoldsWhatItNeeds
<1>5. Idx(p) \in 1 .. Len(table[d])
  BY <1>2, <1>3, <1>4
<1>6. table[d][Idx(p)] \in TableBlocks(d)
  BY <1>5 DEF TableBlocks
<1>7. kv[table[d][Idx(p)]][Offset(p)] = SubSeq(text[d], 1, p)
  BY <1>1 DEF ContextSound, ReadsOwnContext, Slot, BlockOf, Idx
<1> QED BY <1>6, <1>7

(* update keeps every sequence's context. *)
LEMMA UpdateContext ==
  ASSUME KVTypeOK, TablesSound, ContextSound, NEW c \in Caches, NEW new \in Seq(Tokens),
         UpdateFits(c, new) \/ UpdateRaises(c, new)
  PROVE  ContextSound'
<1> DEFINE Shape(n, f) ==
             /\ table' = [table EXCEPT ![c] = GrownTable(c, f)]
             /\ status[c] = "open"
             /\ \/ /\ n = BlocksWanted(c, Len(new))
                   /\ numTokens' = [numTokens EXCEPT ![c] = @ + Len(new)]
                   /\ text' = [text EXCEPT ![c] = @ \o new]
                   /\ status' = status
                \/ /\ numTokens' = numTokens /\ text' = text
                   /\ status' = [status EXCEPT ![c] = "failed"]
<1>1. PICK n \in Nat : \E f \in DistinctFree(n) : Shape(n, f)
  BY UpdateShape
<1>2. PICK f \in DistinctFree(n) : Shape(n, f)
  BY <1>1
<1>3. /\ numTokens \in [Caches -> Nat] /\ text \in [Caches -> Seq(Tokens)]
      /\ table \in [Caches -> Seq(Blocks)] /\ Len(new) \in Nat
      /\ status \in [Caches -> {"closed", "open", "failed"}]
  BY MaxTokensAssumption DEF KVTypeOK
<1>4. \A d \in Caches : d # c => /\ table'[d] = table[d] /\ numTokens'[d] = numTokens[d]
                               /\ text'[d] = text[d] /\ status'[d] = status[d]
  BY <1>2, <1>3
<1>5. ASSUME NEW d \in Caches PROVE Len(text'[d]) = numTokens'[d]
  <2>1. Len(text[c] \o new) = numTokens[c] + Len(new)
    <3> DEFINE txt == text[c]
    <3>1. txt \in Seq(Tokens) /\ Len(txt) = numTokens[c]
      BY <1>3 DEF ContextSound
    <3> HIDE DEF txt
    <3>2. Len(txt \o new) = Len(txt) + Len(new)
      BY <3>1, ConcatProperties
    <3> QED BY <3>1, <3>2 DEF txt
  <2> QED BY <2>1, <1>2, <1>3, <1>4 DEF ContextSound
<1>6. ASSUME NEW d \in Caches, status'[d] = "closed" PROVE numTokens'[d] = 0
  <2>1. d # c
    BY <1>2, <1>3, <1>6
  <2> QED BY <2>1, <1>4, <1>6 DEF ContextSound
<1>7. HoldsWhatItNeeds'
  <2> SUFFICES ASSUME NEW d \in Caches
               PROVE  IF status'[d] = "failed"
                      THEN Len(table'[d]) >= CeilDiv(numTokens'[d], BlockSize)
                      ELSE Len(table'[d]) = CeilDiv(numTokens'[d], BlockSize)
    BY DEF HoldsWhatItNeeds, CeilDiv
  <2>1. CASE d # c
    BY <2>1, <1>4 DEF ContextSound, HoldsWhatItNeeds
  <2>2. CASE d = c
    <3> DEFINE t == GrownTable(c, f)
    <3>1. table'[c] = t
      BY <1>2, <1>3
    <3>2. CASE /\ n = BlocksWanted(c, Len(new)) /\ status' = status
               /\ numTokens' = [numTokens EXCEPT ![c] = @ + Len(new)]
      <4>1. Len(t) = CeilDiv(numTokens[c] + Len(new), BlockSize)
        BY <3>2, <1>2, FitsLength
      <4>2. numTokens'[c] = numTokens[c] + Len(new) /\ status'[c] = "open"
        BY <3>2, <1>2, <1>3
      <4> QED BY <4>1, <4>2, <3>1, <2>2
    <3>3. CASE numTokens' = numTokens /\ status' = [status EXCEPT ![c] = "failed"]
      <4>1. Len(table[c]) = CeilDiv(numTokens[c], BlockSize)
        BY <1>2 DEF ContextSound, HoldsWhatItNeeds
      <4>2. Len(t) = Len(table[c]) + Len(f) - (IF CopiesTail(c) /\ f # <<>> THEN 1 ELSE 0)
        BY GrownTableFacts
      <4>3. Len(f) \in Nat /\ (f # <<>> => Len(f) > 0) /\ Len(table[c]) \in Nat
        BY <1>3, FreshFacts, EmptySeq
      <4> HIDE DEF t
      <4>4. Len(t) >= Len(table[c])
        BY <4>2, <4>3
      <4> QED BY <4>1, <4>4, <3>1, <3>3, <2>2, <1>3
    <3> QED BY <3>2, <3>3, <1>2
  <2> QED BY <2>1, <2>2
<1>8. ReadsOwnContext'
  <2> SUFFICES ASSUME NEW d \in Caches, NEW p \in 1 .. numTokens'[d]
               PROVE  kv'[table'[d][Idx(p)]][Offset(p)] = SubSeq(text'[d], 1, p)
    BY DEF ReadsOwnContext, Slot, BlockOf, Idx, Offset
  <2>1. CASE d = c
    BY <2>1, UpdateReads
  <2>2. CASE d # c
    <3>1. \A b \in TableBlocks(d) : kv'[b] = kv[b]
      BY <2>2, OthersNotOnly, UpdateKeeps
    <3> QED BY <3>1, <2>2, <1>4, KeptContext
  <2> QED BY <2>1, <2>2
<1> QED BY <1>5, <1>6, <1>7, <1>8 DEF ContextSound

-----------------------------------------------------------------------------
(* The other operations *)

(* No cache has a table at first. *)
LEMMA InitContext == KVInit => ContextSound
<1> SUFFICES ASSUME KVInit PROVE ContextSound
  OBVIOUS
<1>1. /\ table = [c \in Caches |-> <<>>] /\ numTokens = [c \in Caches |-> 0]
      /\ text = [c \in Caches |-> <<>>] /\ status = [c \in Caches |-> "closed"]
  BY DEF KVInit
<1>2. CeilDiv(0, BlockSize) = 0
  BY CeilDivIdx
<1>3. HoldsWhatItNeeds
  BY <1>1, <1>2 DEF HoldsWhatItNeeds
<1>4. ReadsOwnContext
  BY <1>1 DEF ReadsOwnContext
<1> QED BY <1>1, <1>3, <1>4 DEF ContextSound

(* allocate only opens the cache. *)
LEMMA AllocateContext ==
  ASSUME KVTypeOK, ContextSound, NEW c \in Caches, Allocate(c)
  PROVE  ContextSound'
<1>1. /\ status[c] = "closed" /\ status' = [status EXCEPT ![c] = "open"]
      /\ refs' = refs /\ kv' = kv /\ table' = table /\ numTokens' = numTokens /\ text' = text
  BY DEF Allocate
<1>2. HoldsWhatItNeeds'
  <2> SUFFICES ASSUME NEW d \in Caches
               PROVE  IF status'[d] = "failed"
                      THEN Len(table'[d]) >= CeilDiv(numTokens'[d], BlockSize)
                      ELSE Len(table'[d]) = CeilDiv(numTokens'[d], BlockSize)
    BY DEF HoldsWhatItNeeds, CeilDiv
  <2> QED BY <1>1 DEF ContextSound, HoldsWhatItNeeds, KVTypeOK
<1>3. ReadsOwnContext'
  BY <1>1 DEF ContextSound, ReadsOwnContext, Slot, BlockOf, Offset
<1>4. /\ \A d \in Caches : Len(text'[d]) = numTokens'[d]
      /\ \A d \in Caches : status'[d] = "closed" => numTokens'[d] = 0
  BY <1>1 DEF ContextSound, KVTypeOK
<1> QED BY <1>2, <1>3, <1>4 DEF ContextSound

(* The child of a fork reads what its parent reads. *)
LEMMA ForkContext ==
  ASSUME KVTypeOK, ContextSound, NEW q \in Caches, NEW c \in Caches, Fork(q, c)
  PROVE  ContextSound'
<1>1. /\ status[q] = "open" /\ status[c] = "closed" /\ kv' = kv
      /\ table' = [table EXCEPT ![c] = table[q]]
      /\ numTokens' = [numTokens EXCEPT ![c] = numTokens[q]]
      /\ text' = [text EXCEPT ![c] = text[q]]
      /\ status' = [status EXCEPT ![c] = "open"]
  BY DEF Fork
<1>2. ASSUME NEW d \in Caches
      PROVE  \E e \in Caches : /\ table'[d] = table[e] /\ numTokens'[d] = numTokens[e]
                               /\ text'[d] = text[e] /\ status'[d] = status[e]
  <2>1. CASE d = c
    BY <2>1, <1>1 DEF KVTypeOK
  <2>2. CASE d # c
    BY <2>2, <1>1 DEF KVTypeOK
  <2> QED BY <2>1, <2>2
<1>3. HoldsWhatItNeeds'
  <2> SUFFICES ASSUME NEW d \in Caches
               PROVE  IF status'[d] = "failed"
                      THEN Len(table'[d]) >= CeilDiv(numTokens'[d], BlockSize)
                      ELSE Len(table'[d]) = CeilDiv(numTokens'[d], BlockSize)
    BY DEF HoldsWhatItNeeds, CeilDiv
  <2>1. PICK e \in Caches : /\ table'[d] = table[e] /\ numTokens'[d] = numTokens[e]
                            /\ status'[d] = status[e]
    BY <1>2
  <2> QED BY <2>1 DEF ContextSound, HoldsWhatItNeeds
<1>4. ReadsOwnContext'
  <2> SUFFICES ASSUME NEW d \in Caches, NEW p \in 1 .. numTokens'[d]
               PROVE  kv'[table'[d][Idx(p)]][Offset(p)] = SubSeq(text'[d], 1, p)
    BY DEF ReadsOwnContext, Slot, BlockOf, Idx, Offset
  <2>1. PICK e \in Caches : /\ table'[d] = table[e] /\ numTokens'[d] = numTokens[e]
                            /\ text'[d] = text[e]
    BY <1>2
  <2>2. \A b \in TableBlocks(e) : kv'[b] = kv[b]
    BY <1>1
  <2> QED BY <2>1, <2>2, KeptContext
<1>5. /\ \A d \in Caches : Len(text'[d]) = numTokens'[d]
      /\ \A d \in Caches : status'[d] = "closed" => numTokens'[d] = 0
  <2> SUFFICES ASSUME NEW d \in Caches
               PROVE  /\ Len(text'[d]) = numTokens'[d]
                      /\ status'[d] = "closed" => numTokens'[d] = 0
    OBVIOUS
  <2>1. PICK e \in Caches : /\ numTokens'[d] = numTokens[e] /\ text'[d] = text[e]
                            /\ status'[d] = status[e]
    BY <1>2
  <2> QED BY <2>1 DEF ContextSound
<1> QED BY <1>3, <1>4, <1>5 DEF ContextSound

(* free forgets only blocks that no other table lists. *)
LEMMA FreeContext ==
  ASSUME KVTypeOK, TablesSound, ContextSound, NEW c \in Caches, Free(c)
  PROVE  ContextSound'
<1>1. /\ refs' = [b \in Blocks |-> IF b \in TableBlocks(c) THEN refs[b] - 1 ELSE refs[b]]
      /\ kv' = [b \in Blocks |-> IF refs'[b] = 0 THEN Garbage ELSE kv[b]]
      /\ table' = [table EXCEPT ![c] = <<>>]
      /\ numTokens' = [numTokens EXCEPT ![c] = 0]
      /\ text' = [text EXCEPT ![c] = <<>>]
      /\ status' = [status EXCEPT ![c] = "closed"]
  BY DEF Free
<1>2. /\ table'[c] = <<>> /\ numTokens'[c] = 0 /\ text'[c] = <<>> /\ status'[c] = "closed"
      /\ \A d \in Caches : d # c => /\ table'[d] = table[d] /\ numTokens'[d] = numTokens[d]
                                    /\ text'[d] = text[d] /\ status'[d] = status[d]
  BY <1>1 DEF KVTypeOK
<1>3. ASSUME NEW d \in Caches, d # c, NEW b \in TableBlocks(d) PROVE kv'[b] = kv[b]
  <2>1. b \in Blocks /\ NotOnlyOf(c, b)
    BY <1>3, OthersNotOnly
  <2>2. refs[b] \in Nat
    BY <2>1 DEF KVTypeOK
  <2>3. refs'[b] # 0
    BY <2>1, <2>2, <1>1 DEF NotOnlyOf
  <2> QED BY <2>1, <2>3, <1>1
<1>4. CeilDiv(0, BlockSize) = 0
  BY CeilDivIdx
<1>5. HoldsWhatItNeeds'
  <2> SUFFICES ASSUME NEW d \in Caches
               PROVE  IF status'[d] = "failed"
                      THEN Len(table'[d]) >= CeilDiv(numTokens'[d], BlockSize)
                      ELSE Len(table'[d]) = CeilDiv(numTokens'[d], BlockSize)
    BY DEF HoldsWhatItNeeds, CeilDiv
  <2>1. CASE d = c
    BY <2>1, <1>2, <1>4
  <2>2. CASE d # c
    BY <2>2, <1>2 DEF ContextSound, HoldsWhatItNeeds
  <2> QED BY <2>1, <2>2
<1>6. ReadsOwnContext'
  <2> SUFFICES ASSUME NEW d \in Caches, NEW p \in 1 .. numTokens'[d]
               PROVE  kv'[table'[d][Idx(p)]][Offset(p)] = SubSeq(text'[d], 1, p)
    BY DEF ReadsOwnContext, Slot, BlockOf, Idx, Offset
  <2>1. d # c
    BY <1>2
  <2>2. \A b \in TableBlocks(d) : kv'[b] = kv[b]
    BY <2>1, <1>3
  <2> QED BY <2>1, <2>2, <1>2, KeptContext
<1>7. /\ \A d \in Caches : Len(text'[d]) = numTokens'[d]
      /\ \A d \in Caches : status'[d] = "closed" => numTokens'[d] = 0
  BY <1>2 DEF ContextSound
<1> QED BY <1>5, <1>6, <1>7 DEF ContextSound

-----------------------------------------------------------------------------
KVInv == KVTypeOK /\ TablesSound /\ ContextSound

(* Every operation keeps the whole invariant. *)
LEMMA ContextStep ==
  ASSUME KVInv, [KVNext]_kvVars
  PROVE  KVInv'
<1>0. KVTypeOK' /\ TablesSound'
  BY KVStep DEF KVInv
<1>1. CASE KVNext
  <2>1. PICK c \in Caches :
          \/ Allocate(c)
          \/ \E new \in Texts : UpdateFits(c, new) \/ UpdateRaises(c, new)
          \/ \E p \in Caches : Fork(p, c)
          \/ Free(c)
    BY <1>1 DEF KVNext
  <2>2. CASE Allocate(c)
    BY <2>2, <1>0, AllocateContext DEF KVInv
  <2>3. CASE \E new \in Texts : UpdateFits(c, new) \/ UpdateRaises(c, new)
    <3>1. PICK new \in Texts : UpdateFits(c, new) \/ UpdateRaises(c, new)
      BY <2>3
    <3>2. new \in Seq(Tokens)
      BY MaxTokensAssumption DEF Texts
    <3> QED BY <3>1, <3>2, <1>0, UpdateContext DEF KVInv
  <2>4. CASE \E p \in Caches : Fork(p, c)
    BY <2>4, <1>0, ForkContext DEF KVInv
  <2>5. CASE Free(c)
    BY <2>5, <1>0, FreeContext DEF KVInv
  <2> QED BY <2>1, <2>2, <2>3, <2>4, <2>5
<1>2. CASE UNCHANGED kvVars
  <2>1. /\ refs' = refs /\ kv' = kv /\ table' = table
        /\ numTokens' = numTokens /\ text' = text /\ status' = status
    BY <1>2 DEF kvVars
  <2> QED BY <2>1, <1>0 DEF KVInv, ContextSound, HoldsWhatItNeeds, CeilDiv,
                             ReadsOwnContext, Slot, BlockOf, Offset
<1> QED BY <1>1, <1>2

(* The pool starts sound. *)
LEMMA KVInitInv == KVInit => KVInv
  BY KVInitSound, InitContext DEF KVInv

(* _ensure_capacity, for every block size: a sequence holds the blocks its
   tokens need and no other, so every position a gather addresses exists. *)
THEOREM TablesExact == KVSpec => []HoldsWhatItNeeds
<1>1. KVInv => HoldsWhatItNeeds
  BY DEF KVInv, ContextSound
<1> QED BY <1>1, KVInitInv, ContextStep, PTL DEF KVSpec

(* What PagedKVCache.update returns to attention, for every pool, block size
   and schedule of forks, copies, frees and failures: at each position the
   entry computed from this sequence's own tokens. *)
THEOREM ContextCorrect == KVSpec => []ReadsOwnContext
<1>1. KVInv => ReadsOwnContext
  BY DEF KVInv, ContextSound
<1> QED BY <1>1, KVInitInv, ContextStep, PTL DEF KVSpec

(* Copy-on-write of _unshare_tail: no step writes a block that is left with
   more than one reference. *)
THEOREM SharedBlocksImmutable == KVSpec => NoSharedWrite
<1> DEFINE Safe == \A b \in Blocks : kv'[b] # kv[b] => refs'[b] <= 1
<1>1. ASSUME KVInv, KVInv', [KVNext]_kvVars PROVE [Safe]_kvVars
  <2> SUFFICES ASSUME NEW b \in Blocks, kv'[b] # kv[b] PROVE refs'[b] <= 1
    OBVIOUS
  <2>0. KVTypeOK /\ TablesSound /\ ContextSound /\ refs[b] \in Nat
    BY <1>1 DEF KVInv, KVTypeOK
  <2>1. KVNext
    BY <1>1 DEF kvVars
  <2>2. PICK c \in Caches :
          \/ Allocate(c)
          \/ \E new \in Texts : UpdateFits(c, new) \/ UpdateRaises(c, new)
          \/ \E p \in Caches : Fork(p, c)
          \/ Free(c)
    BY <2>1 DEF KVNext
  <2>3. CASE \E new \in Texts : UpdateFits(c, new) \/ UpdateRaises(c, new)
    <3>1. PICK new \in Texts : UpdateFits(c, new) \/ UpdateRaises(c, new)
      BY <2>3
    <3>2. new \in Seq(Tokens)
      BY MaxTokensAssumption DEF Texts
    <3>3. ~NotOnlyOf(c, b)
      BY <3>1, <3>2, <2>0, UpdateKeeps
    <3>4. refs[b] <= 1
      BY <3>3, <2>0 DEF NotOnlyOf
    <3>5. PICK n \in Nat : \E f \in DistinctFree(n) : refs' = GrownRefs(c, f)
      BY <3>1, <3>2, <2>0, UpdateShape
    <3>6. PICK f \in DistinctFree(n) : refs' = GrownRefs(c, f)
      BY <3>5
    <3>7. refs'[b] = CASE \E i \in 1 .. Len(f) : f[i] = b -> 1
                       [] CopiesTail(c) /\ f # <<>> /\ b = table[c][Len(table[c])] -> refs[b] - 1
                       [] OTHER -> refs[b]
      BY <3>6 DEF GrownRefs
    <3>8. refs'[b] \in {1, refs[b] - 1, refs[b]}
      BY <3>7
    <3> QED BY <3>4, <3>8, <2>0
  <2>4. CASE Allocate(c) \/ \E p \in Caches : Fork(p, c)
    BY <2>4 DEF Allocate, Fork
  <2>5. CASE Free(c)
    <3>1. kv' = [d \in Blocks |-> IF refs'[d] = 0 THEN Garbage ELSE kv[d]]
      BY <2>5 DEF Free
    <3>2. refs'[b] = 0
      BY <3>1
    <3> QED BY <3>2
  <2> QED BY <2>2, <2>3, <2>4, <2>5
<1> QED BY <1>1, KVInitInv, ContextStep, PTL DEF KVSpec, NoSharedWrite

-----------------------------------------------------------------------------
(* The contiguous cache *)

(* The entries of a text: what a sequence that was fed it must read. *)
Prefixes(s) == [p \in 1 .. Len(s) |-> SubSeq(s, 1, p)]

(* The entries are token sequences, one per token. *)
LEMMA PrefixesType ==
  ASSUME NEW s \in Seq(Tokens)
  PROVE  Prefixes(s) \in Seq(Seq(Tokens)) /\ Len(Prefixes(s)) = Len(s)
<1>1. Len(s) \in Nat
  OBVIOUS
<1>2. \A p \in 1 .. Len(s) : SubSeq(s, 1, p) \in Seq(Tokens)
  <2> SUFFICES ASSUME NEW p \in 1 .. Len(s) PROVE SubSeq(s, 1, p) \in Seq(Tokens)
    OBVIOUS
  <2>1. \A i \in 1 .. p : s[i] \in Tokens
    BY <1>1
  <2>2. p \in Int /\ 1 \in Int
    BY <1>1
  <2> QED BY <2>1, <2>2, SubSeqProperties
<1> QED BY <1>1, <1>2 DEF Prefixes

(* Appending tokens appends their entries, each in the context of all before. *)
LEMMA PrefixesConcat ==
  ASSUME NEW s \in Seq(Tokens), NEW new \in Seq(Tokens)
  PROVE  Prefixes(s \o new) =
           Prefixes(s) \o Contiguous!Entries(Contiguous!Context(Prefixes(s)), new)
<1> DEFINE whole == s \o new
           a == Prefixes(s)
           e == [i \in 1 .. Len(new) |-> s \o SubSeq(new, 1, i)]
<1>1. /\ Len(s) \in Nat /\ Len(new) \in Nat
      /\ whole \in Seq(Tokens) /\ Len(whole) = Len(s) + Len(new)
  BY ConcatProperties
<1>2. a \in Seq(Seq(Tokens)) /\ Len(a) = Len(s)
      /\ Prefixes(whole) \in Seq(Seq(Tokens)) /\ Len(Prefixes(whole)) = Len(whole)
  BY <1>1, PrefixesType
<1>3. Contiguous!Context(a) = s
  <2>1. CASE Len(s) = 0
    <3>1. s = <<>> /\ a = <<>>
      BY <2>1, <1>2, EmptySeq
    <3> QED BY <3>1 DEF Contiguous!Context
  <2>2. CASE Len(s) # 0
    <3>1. a # <<>> /\ Len(s) \in 1 .. Len(s)
      BY <2>2, <1>1, <1>2
    <3>2. a[Len(a)] = SubSeq(s, 1, Len(s))
      BY <3>1, <1>2 DEF Prefixes
    <3>3. SubSeq(s, 1, Len(s)) = s
      BY SubSeqFull
    <3> QED BY <3>1, <3>2, <3>3 DEF Contiguous!Context
  <2> QED BY <2>1, <2>2
<1>4. Contiguous!Entries(s, new) = e
  BY DEF Contiguous!Entries
<1>5. ASSUME NEW i \in 1 .. Len(new)
      PROVE  e[i] \in Seq(Tokens) /\ e[i] = SubSeq(whole, 1, Len(s) + i)
  <2> DEFINE u == SubSeq(new, 1, i)
             v == SubSeq(whole, 1, Len(s) + i)
  <2>1. /\ i \in Int /\ 1 \in Int /\ 1 <= i /\ i - 1 + 1 = i
        /\ \A j \in 1 .. i : new[j] \in Tokens
    BY <1>1
  <2>2. /\ u \in Seq(Tokens) /\ Len(u) = i
        /\ \A j \in 1 .. i : u[j] = new[j]
    <3>1. /\ u \in Seq(Tokens) /\ Len(u) = IF 1 <= i THEN i - 1 + 1 ELSE 0
          /\ \A j \in 1 .. i - 1 + 1 : u[j] = new[1 + j - 1]
      BY <2>1, SubSeqProperties
    <3> HIDE DEF u
    <3> QED BY <3>1, <2>1
  <2>3. /\ Len(s) + i \in Int /\ 1 <= Len(s) + i
        /\ \A j \in 1 .. Len(s) + i : whole[j] \in Tokens
    <3> HIDE DEF whole
    <3> QED BY <1>1, <2>1
  <2>4. /\ v \in Seq(Tokens) /\ Len(v) = Len(s) + i
        /\ \A j \in 1 .. Len(s) + i : v[j] = whole[j]
    <3>1. /\ v \in Seq(Tokens) /\ Len(v) = IF 1 <= Len(s) + i THEN (Len(s) + i) - 1 + 1 ELSE 0
          /\ \A j \in 1 .. (Len(s) + i) - 1 + 1 : v[j] = whole[1 + j - 1]
      <4> HIDE DEF whole
      <4> QED BY <2>3, SubSeqProperties
    <3> HIDE DEF v, whole
    <3>2. (Len(s) + i) - 1 + 1 = Len(s) + i
      BY <1>1, <2>1
    <3> QED BY <3>1, <3>2, <2>3
  <2>5. /\ s \o u \in Seq(Tokens) /\ Len(s \o u) = Len(s) + i
        /\ \A j \in 1 .. Len(s) + i : (s \o u)[j] = IF j <= Len(s) THEN s[j] ELSE u[j - Len(s)]
    <3> HIDE DEF u
    <3> QED BY <2>2, ConcatProperties
  <2>6. \A j \in 1 .. Len(s) + Len(new) : whole[j] = IF j <= Len(s) THEN s[j] ELSE new[j - Len(s)]
    BY ConcatProperties
  <2> HIDE DEF u, v, whole
  <2>7. ASSUME NEW j \in 1 .. Len(s) + i PROVE (s \o u)[j] = v[j]
    <3>1. j \in 1 .. Len(s) + Len(new) /\ (~(j <= Len(s)) => j - Len(s) \in 1 .. i)
      BY <1>1, <2>1
    <3>2. whole[j] = IF j <= Len(s) THEN s[j] ELSE new[j - Len(s)]
      BY <3>1, <2>6
    <3>3. (s \o u)[j] = IF j <= Len(s) THEN s[j] ELSE u[j - Len(s)]
      BY <2>5
    <3>4. ~(j <= Len(s)) => u[j - Len(s)] = new[j - Len(s)]
      BY <3>1, <2>2
    <3>5. v[j] = whole[j]
      BY <2>4
    <3> QED BY <3>2, <3>3, <3>4, <3>5
  <2>8. s \o u = v
    <3> DEFINE x == s \o u
    <3>1. x \in Seq(Tokens) /\ v \in Seq(Tokens) /\ Len(x) = Len(v) /\ \A j \in 1 .. Len(x) : x[j] = v[j]
      BY <2>4, <2>5, <2>7
    <3> HIDE DEF x
    <3>2. x = v
      BY <3>1, SeqEqual
    <3> QED BY <3>2 DEF x
  <2>9. e[i] = s \o u
    BY DEF u
  <2> QED BY <2>5, <2>8, <2>9 DEF v
<1>6. e \in Seq(Seq(Tokens)) /\ Len(e) = Len(new)
  <2>1. \A i \in 1 .. Len(new) : s \o SubSeq(new, 1, i) \in Seq(Tokens)
    BY <1>5
  <2> QED BY <2>1, <1>1
<1> DEFINE x == Prefixes(whole)
           y == a \o e
<1> HIDE DEF a, e
<1>7. /\ y \in Seq(Seq(Tokens)) /\ Len(y) = Len(a) + Len(e)
      /\ \A i \in 1 .. Len(a) + Len(e) : y[i] = IF i <= Len(a) THEN a[i] ELSE e[i - Len(a)]
  BY <1>2, <1>6, ConcatProperties
<1>8. ASSUME NEW i \in 1 .. Len(x) PROVE x[i] = y[i]
  <2>1. i \in 1 .. Len(s) + Len(new)
    BY <1>1, <1>2
  <2>2. x[i] = SubSeq(whole, 1, i)
    BY <2>1, <1>1 DEF Prefixes
  <2>3. y[i] = IF i <= Len(s) THEN a[i] ELSE e[i - Len(s)]
    BY <2>1, <1>2, <1>6, <1>7
  <2>4. CASE i <= Len(s)
    <3>1. i \in 1 .. Len(s) /\ 1 \in 1 .. Len(s)
      BY <2>1, <2>4, <1>1
    <3>2. a[i] = SubSeq(s, 1, i)
      BY <3>1 DEF a, Prefixes
    <3>3. SubSeq(whole, 1, i) = SubSeq(s, 1, i)
      BY <3>1, SubSeqOfConcat1
    <3> QED BY <2>2, <2>3, <2>4, <3>2, <3>3
  <2>5. CASE ~(i <= Len(s))
    <3> DEFINE k == i - Len(s)
    <3>1. k \in 1 .. Len(new) /\ Len(s) + k = i
      BY <2>1, <2>5, <1>1
    <3>2. e[k] = SubSeq(whole, 1, Len(s) + k)
      <4> HIDE DEF k, whole
      <4> QED BY <3>1, <1>5
    <3> HIDE DEF whole, x, y
    <3> QED BY <2>2, <2>3, <2>5, <3>1, <3>2
  <2> QED BY <2>4, <2>5
<1>9. Len(x) = Len(y)
  BY <1>1, <1>2, <1>6, <1>7
<1>10. x = y
  <2>1. x \in Seq(Seq(Tokens)) /\ y \in Seq(Seq(Tokens))
    BY <1>2, <1>7
  <2> HIDE DEF x, y
  <2> QED BY <2>1, <1>8, <1>9, SeqEqual
<1> QED BY <1>3, <1>4, <1>10 DEF a

(* What a gather returns is determined by the text. *)
LEMMA GatherPrefixes ==
  ASSUME KVTypeOK, ContextSound, NEW c \in Caches
  PROVE  Gather(c) = Prefixes(text[c])
<1>1. Len(text[c]) = numTokens[c]
  BY DEF ContextSound
<1>2. \A p \in 1 .. numTokens[c] : Slot(c, p) = SubSeq(text[c], 1, p)
  BY DEF ContextSound, ReadsOwnContext
<1>3. Gather(c) = [p \in 1 .. numTokens[c] |-> SubSeq(text[c], 1, p)]
  BY <1>2 DEF Gather
<1> QED BY <1>1, <1>3 DEF Prefixes

(* "Attention cannot tell this apart from a contiguous cache": for every pool
   and block size the paged cache implements ContiguousKV. *)
THEOREM PagedImplementsContiguous == KVSpec => ImplementsContiguous
<1> DEFINE View == [c \in Caches |-> Gather(c)]
<1>1. KVInit => Contiguous!Init
  <2> SUFFICES ASSUME KVInit PROVE View = [c \in Caches |-> <<>>]
    BY DEF Contiguous!Init
  <2>1. \A c \in Caches : Gather(c) = <<>>
    BY DEF KVInit, Gather
  <2> QED BY <2>1
<1>2. ASSUME KVInv, KVInv', [KVNext]_kvVars PROVE [Contiguous!Next]_View
  <2>0. /\ KVTypeOK /\ TablesSound /\ ContextSound /\ text \in [Caches -> Seq(Tokens)]
    BY <1>2 DEF KVInv, KVTypeOK
  <2>1. \A c \in Caches : Gather(c) = Prefixes(text[c])
    BY <2>0, GatherPrefixes
  <2>2. \A c \in Caches : Gather(c)' = Prefixes(text'[c])
    <3> SUFFICES ASSUME NEW c \in Caches PROVE Gather(c)' = Prefixes(text'[c])
      OBVIOUS
    <3>1. KVTypeOK' /\ ContextSound'
      BY <1>2 DEF KVInv
    <3>2. Len(text'[c]) = numTokens'[c]
      BY <3>1 DEF ContextSound
    <3>3. \A p \in 1 .. numTokens'[c] : Slot(c, p)' = SubSeq(text'[c], 1, p)
      BY <3>1 DEF ContextSound, ReadsOwnContext
    <3>4. Gather(c)' = [p \in 1 .. numTokens'[c] |-> SubSeq(text'[c], 1, p)]
      BY <3>3 DEF Gather
    <3> QED BY <3>2, <3>4 DEF Prefixes
  <2>3. View = [c \in Caches |-> Prefixes(text[c])] /\ View' = [c \in Caches |-> Prefixes(text'[c])]
    BY <2>1, <2>2
  <2> DEFINE now == View
             then == View'
  <2>4. CASE text' = text
    BY <2>3, <2>4
  <2>5. CASE KVNext /\ text' # text
    <3>1. PICK c \in Caches :
            \/ Allocate(c)
            \/ \E new \in Texts : UpdateFits(c, new) \/ UpdateRaises(c, new)
            \/ \E p \in Caches : Fork(p, c)
            \/ Free(c)
      BY <2>5 DEF KVNext
    <3>2. ASSUME NEW new \in Texts, UpdateFits(c, new) PROVE Contiguous!AppendNew(c, new)
      <4>1. text' = [text EXCEPT ![c] = @ \o new] /\ new \in Seq(Tokens)
        BY <3>2, MaxTokensAssumption DEF UpdateFits, Texts
      <4>2. Prefixes(text[c] \o new) = Prefixes(text[c]) \o
              Contiguous!Entries(Contiguous!Context(Prefixes(text[c])), new)
        BY <4>1, <2>0, PrefixesConcat
      <4> DEFINE g == Prefixes(text[c])
                 h == Prefixes(text[c] \o new)
      <4>3. \A d \in Caches : text'[d] = IF d = c THEN text[c] \o new ELSE text[d]
        BY <4>1, <2>0
      <4>4. then = [d \in Caches |-> IF d = c THEN h ELSE Prefixes(text[d])]
        BY <2>3, <4>3
      <4>5. now = [d \in Caches |-> Prefixes(text[d])] /\ now[c] = g
        BY <2>3
      <4> HIDE DEF g, h
      <4>6. then = [now EXCEPT ![c] = h]
        <5> HIDE DEF now, then
        <5> QED BY <4>4, <4>5
      <4>7. h = now[c] \o Contiguous!Entries(Contiguous!Context(now[c]), new)
        <5>1. h = g \o Contiguous!Entries(Contiguous!Context(g), new)
          BY <4>2 DEF g, h
        <5> QED BY <5>1, <4>5
      <4>8. then = [now EXCEPT ![c] = now[c] \o Contiguous!Entries(Contiguous!Context(now[c]), new)]
        <5> HIDE DEF now, then
        <5> QED BY <4>6, <4>7
      <4> QED BY <4>8 DEF Contiguous!AppendNew
    <3>3. ASSUME NEW q \in Caches, Fork(q, c) PROVE Contiguous!Copy(q, c)
      <4>1. text' = [text EXCEPT ![c] = text[q]] /\ status[c] = "closed"
        BY <3>3 DEF Fork
      <4>2. Len(text[c]) = 0
        BY <4>1, <2>0 DEF ContextSound
      <4>3. text[c] = <<>>
        BY <4>2, <2>0, EmptySeq
      <4>4. now[c] = <<>>
        BY <4>3, <2>3 DEF Prefixes
      <4>5. \A d \in Caches : text'[d] = IF d = c THEN text[q] ELSE text[d]
        BY <4>1, <2>0
      <4>6. then = [d \in Caches |-> IF d = c THEN Prefixes(text[q]) ELSE Prefixes(text[d])]
        BY <2>3, <4>5
      <4>7. then = [now EXCEPT ![c] = now[q]]
        BY <4>6, <2>3
      <4> QED BY <4>4, <4>7 DEF Contiguous!Copy
    <3>4. ASSUME Free(c) PROVE Contiguous!Drop(c)
      <4>1. text' = [text EXCEPT ![c] = <<>>]
        BY <3>4 DEF Free
      <4>2. Prefixes(<<>>) = <<>>
        BY DEF Prefixes
      <4>3. \A d \in Caches : text'[d] = IF d = c THEN <<>> ELSE text[d]
        BY <4>1, <2>0
      <4>4. then = [d \in Caches |-> IF d = c THEN <<>> ELSE Prefixes(text[d])]
        BY <2>3, <4>2, <4>3
      <4>5. then = [now EXCEPT ![c] = <<>>]
        BY <4>4, <2>3
      <4> QED BY <4>5 DEF Contiguous!Drop
    <3>5. ~Allocate(c) /\ \A new \in Texts : ~UpdateRaises(c, new)
      BY <2>5 DEF Allocate, UpdateRaises
    <3>6. Texts \subseteq Contiguous!Texts
      BY MaxTokensAssumption DEF Texts, Contiguous!Texts
    <3> QED BY <3>1, <3>2, <3>3, <3>4, <3>5, <3>6 DEF Contiguous!Next
  <2> QED BY <2>4, <2>5, <1>2 DEF kvVars
<1> QED BY <1>1, <1>2, KVInitInv, ContextStep, PTL DEF KVSpec, ImplementsContiguous, Contiguous!Spec

-----------------------------------------------------------------------------
(* The prefix cache. *)

(* _entries and _by_block are inverse to each other. *)
IndexSound ==
    /\ DOMAIN entries \subseteq Seq(Tokens) /\ DOMAIN byBlock \subseteq Blocks
    /\ \A k \in DOMAIN entries : entries[k] \in DOMAIN byBlock /\ byBlock[entries[k]] = k
    /\ \A b \in DOMAIN byBlock : byBlock[b] \in DOMAIN entries /\ entries[byBlock[b]] = b

(* A sequence being prefilled was fed a part of its prompt, from the start. *)
PromptSound ==
    /\ prompt \in [Caches -> Prompts \cup {<<>>}]
    /\ \A c \in Caches : prompt[c] # <<>> =>
          /\ status[c] # "closed" /\ numTokens[c] <= Len(prompt[c])
          /\ text[c] = SubSeq(prompt[c], 1, numTokens[c])

CacheInv == KVInv /\ IndexSound /\ PromptSound /\ AllRefsOwned /\ CachedContextTrue

-----------------------------------------------------------------------------
(* Parts of token sequences. *)

LEMMA PartFacts ==
  ASSUME NEW s \in Seq(Tokens), NEW n \in 0 .. Len(s)
  PROVE  /\ SubSeq(s, 1, n) \in Seq(Tokens) /\ Len(SubSeq(s, 1, n)) = n
         /\ \A i \in 1 .. n : SubSeq(s, 1, n)[i] = s[i]
<1>1. Len(s) \in Nat /\ n \in Int /\ \A i \in 1 .. n : s[i] \in Tokens
  OBVIOUS
<1>2. PICK t : t = SubSeq(s, 1, n)
  OBVIOUS
<1>3. /\ t \in Seq(Tokens) /\ Len(t) = IF 1 <= n THEN n - 1 + 1 ELSE 0
      /\ \A i \in 1 .. n - 1 + 1 : t[i] = s[1 + i - 1]
  BY <1>1, <1>2, SubSeqProperties
<1>4. Len(t) = n /\ \A i \in 1 .. n : t[i] = s[i]
  BY <1>1, <1>3
<1> QED BY <1>2, <1>3, <1>4

(* The start of a start. *)
LEMMA PartOfPart ==
  ASSUME NEW s \in Seq(Tokens), NEW n \in 0 .. Len(s), NEW p \in 0 .. n
  PROVE  SubSeq(SubSeq(s, 1, n), 1, p) = SubSeq(s, 1, p)
<1>1. PICK t : t = SubSeq(s, 1, n)
  OBVIOUS
<1>2. t \in Seq(Tokens) /\ Len(t) = n /\ \A i \in 1 .. n : t[i] = s[i]
  BY <1>1, PartFacts
<1>3. p \in 0 .. Len(s) /\ p \in 0 .. Len(t)
  BY <1>2
<1>4. PICK u, v : u = SubSeq(t, 1, p) /\ v = SubSeq(s, 1, p)
  OBVIOUS
<1>5. /\ u \in Seq(Tokens) /\ Len(u) = p /\ \A i \in 1 .. p : u[i] = t[i]
      /\ v \in Seq(Tokens) /\ Len(v) = p /\ \A i \in 1 .. p : v[i] = s[i]
  BY <1>2, <1>3, <1>4, PartFacts
<1>6. \A i \in 1 .. p : i \in 1 .. n
  BY <1>2
<1>7. \A i \in 1 .. Len(u) : u[i] = v[i]
  BY <1>2, <1>5, <1>6
<1>8. u = v
  BY <1>5, <1>7, SeqEqual
<1> QED BY <1>1, <1>4, <1>8

(* The key of the j-th full block. *)
LEMMA KeyFacts ==
  ASSUME NEW ids \in Seq(Tokens), NEW j \in Nat \ {0}, j * BlockSize <= Len(ids)
  PROVE  /\ KeyAt(ids, j) \in Seq(Tokens) /\ Len(KeyAt(ids, j)) = j * BlockSize
         /\ \A i \in 1 .. BlockSize :
               /\ (j - 1) * BlockSize + i \in 1 .. Len(ids)
               /\ SubSeq(KeyAt(ids, j), 1, Len(KeyAt(ids, j)) - BlockSize + i)
                     = SubSeq(ids, 1, (j - 1) * BlockSize + i)
<1>1. BlockSize \in Nat \ {0} /\ Len(ids) \in Nat
  BY BlockSizeAssumption
<1>2. PICK n, m : n = j * BlockSize /\ m = (j - 1) * BlockSize
  OBVIOUS
<1>3. n \in Nat /\ m \in Nat /\ n = m + BlockSize
  BY <1>1, <1>2
<1>4. n \in 0 .. Len(ids)
  BY <1>1, <1>2, <1>3
<1>5. PICK k : k = SubSeq(ids, 1, n)
  OBVIOUS
<1>6. k = KeyAt(ids, j) /\ k \in Seq(Tokens) /\ Len(k) = n
  BY <1>2, <1>4, <1>5, PartFacts DEF KeyAt
<1>7. ASSUME NEW i \in 1 .. BlockSize
      PROVE  m + i \in 1 .. Len(ids) /\ SubSeq(k, 1, n - BlockSize + i) = SubSeq(ids, 1, m + i)
  <2>1. m + i \in 1 .. Len(ids) /\ m + i \in 0 .. n /\ n - BlockSize + i = m + i
    BY <1>1, <1>3, <1>4
  <2>2. PICK p : p = m + i
    OBVIOUS
  <2>3. SubSeq(k, 1, p) = SubSeq(ids, 1, p)
    BY <1>4, <1>5, <2>1, <2>2, PartOfPart
  <2> QED BY <2>1, <2>2, <2>3
<1> QED BY <1>2, <1>6, <1>7

(* Full blocks of n tokens. *)
LEMMA FullFacts ==
  ASSUME NEW n \in Nat, NEW j \in 1 .. n \div BlockSize
  PROVE  j \in Nat \ {0} /\ j * BlockSize <= n
<1>1. BlockSize \in Nat \ {0}
  BY BlockSizeAssumption
<1>2. PICK q : q = n \div BlockSize
  OBVIOUS
<1>3. q \in Nat /\ BlockSize * q <= n
  BY <1>1, <1>2
<1>4. j <= q /\ j \in Nat \ {0}
  BY <1>2, <1>3
<1>5. j * BlockSize <= BlockSize * q /\ j * BlockSize \in Int /\ BlockSize * q \in Int
  BY <1>1, <1>3, <1>4
<1> QED BY <1>3, <1>4, <1>5

LEMMA PromptFacts ==
  ASSUME NEW ids \in Prompts
  PROVE  /\ ids \in Seq(Tokens) /\ Len(ids) \in Nat \ {0} /\ Len(ids) <= MaxTokens /\ ids # <<>>
         /\ Len(ids) - 1 \in Nat /\ Reusable(ids) \in Nat /\ FullBlocks(ids) \in Nat
<1>1. ids \in Seq(Tokens) /\ Len(ids) \in 1 .. MaxTokens /\ MaxTokens \in Nat
  BY PromptsAssumption, MaxTokensAssumption
<1>2. Len(ids) - 1 \in Nat /\ BlockSize \in Nat \ {0}
  BY <1>1, BlockSizeAssumption
<1>3. (Len(ids) - 1) \div BlockSize \in Nat /\ Len(ids) \div BlockSize \in Nat
  BY <1>1, <1>2
<1> QED BY <1>1, <1>2, <1>3, EmptySeq DEF Reusable, FullBlocks

(* A set of counts that is bounded has a largest. *)
LEMMA Largest ==
  ASSUME NEW n \in Nat, NEW S \in SUBSET (0 .. n), S # {}
  PROVE  \E x \in S : \A y \in S : y <= x
<1> DEFINE T == {n - x : x \in S}
<1>1. T \subseteq Nat /\ T # {}
  <2>1. \A x \in S : n - x \in Nat
    OBVIOUS
  <2>2. \A y \in T : y \in Nat
    BY <2>1
  <2> QED BY <2>2
<1>2. PICK m \in T : \A y \in T : ~ (<<y, m>> \in OpToRel(<, Nat))
  BY <1>1, NatLessThanWellFounded, WFMin
<1>3. \A y \in T : y \in Nat /\ m \in Nat /\ ~ (y < m)
  <2>1. ASSUME NEW y \in T PROVE y \in Nat /\ m \in Nat /\ ~ (y < m)
    <3>1. y \in Nat /\ m \in Nat
      BY <1>1
    <3>2. y < m => <<y, m>> \in OpToRel(<, Nat)
      BY <3>1 DEF OpToRel
    <3> QED BY <1>2, <3>1, <3>2
  <2> QED BY <2>1
<1>4. PICK x \in S : m = n - x
  OBVIOUS
<1>5. ASSUME NEW y \in S PROVE y <= x
  <2>1. ~ (n - y < m)
    BY <1>3
  <2> QED BY <1>4, <2>1
<1> QED BY <1>5

(* match returns blocks that are cached, a prefix of those it asks for. *)
LEMMA MatchFacts ==
  ASSUME NEW ids \in Prompts
  PROVE  /\ MatchLength(ids) \in 0 .. Reusable(ids)
         /\ \A j \in 1 .. MatchLength(ids) : KeyAt(ids, j) \in DOMAIN entries
<1>1. Reusable(ids) \in Nat
  BY PromptFacts
<1>2. Hits(ids) \in SUBSET (0 .. Reusable(ids)) /\ 0 \in Hits(ids)
  BY <1>1 DEF Hits
<1>3. PICK H, n : H = Hits(ids) /\ n = Reusable(ids)
  OBVIOUS
<1>4. \E m \in H : \A x \in H : x <= m
  BY <1>1, <1>2, <1>3, Largest
<1>5. (CHOOSE m \in H : \A x \in H : x <= m) \in H
  BY <1>4
<1>6. MatchLength(ids) \in Hits(ids)
  BY <1>2, <1>3, <1>5 DEF MatchLength
<1> QED BY <1>6 DEF Hits

-----------------------------------------------------------------------------
(* The pool's operations, beside the cache. *)

(* A cached block is nobody's alone. *)
LEMMA CachedNotOnly ==
  ASSUME CacheInv, NEW b \in DOMAIN byBlock
  PROVE  /\ b \in Blocks /\ refs[b] \in Nat /\ Cardinality(Holders(b)) \in Nat
         /\ refs[b] = Cardinality(Holders(b)) + 1
         /\ \A c \in Caches : NotOnlyOf(c, b)
<1>1. b \in Blocks /\ refs[b] \in Nat /\ Holders(b) \in SUBSET Caches
  BY DEF CacheInv, KVInv, KVTypeOK, IndexSound, Holders
<1>2. IsFiniteSet(Holders(b)) /\ Cardinality(Holders(b)) \in Nat
  BY <1>1, FiniteHolders
<1>3. refs[b] = Cardinality(Holders(b)) + 1
  BY <1>1 DEF CacheInv, AllRefsOwned
<1>4. ASSUME NEW c \in Caches PROVE NotOnlyOf(c, b)
  <2>1. b \in TableBlocks(c) => Holders(b) # {}
    BY DEF Holders
  <2>2. b \in TableBlocks(c) => Cardinality(Holders(b)) # 0
    BY <1>2, <2>1, FS_EmptySet
  <2> QED BY <1>2, <1>3, <2>2 DEF NotOnlyOf
<1> QED BY <1>1, <1>2, <1>3, <1>4

(* What the cache owns is unaffected by a step that keeps the surplus of
   every block and the contents of the cached ones. *)
LEMMA SameIndex ==
  ASSUME CacheInv, KVTypeOK', Balanced, UNCHANGED <<entries, byBlock>>,
         \A b \in DOMAIN byBlock : kv'[b] = kv[b]
  PROVE  IndexSound' /\ AllRefsOwned' /\ CachedContextTrue'
<1>1. IndexSound'
  BY DEF CacheInv, IndexSound
<1>2. AllRefsOwned'
  <2> SUFFICES ASSUME NEW b \in Blocks
               PROVE  refs'[b] = Cardinality(Holders(b)') + (IF b \in DOMAIN byBlock THEN 1 ELSE 0)
    BY DEF AllRefsOwned
  <2>1. Holders(b) \in SUBSET Caches /\ Holders(b)' \in SUBSET Caches
    BY DEF Holders
  <2>2. Cardinality(Holders(b)) \in Nat /\ Cardinality(Holders(b)') \in Nat
    BY <2>1, FiniteHolders
  <2>3. refs'[b] - Cardinality(Holders(b)') = refs[b] - Cardinality(Holders(b))
    BY DEF Balanced, Surplus
  <2>4. refs[b] = Cardinality(Holders(b)) + (IF b \in DOMAIN byBlock THEN 1 ELSE 0)
        /\ refs[b] \in Nat /\ refs'[b] \in Nat
    BY DEF CacheInv, AllRefsOwned, KVInv, KVTypeOK
  <2> QED BY <2>2, <2>3, <2>4
<1>3. CachedContextTrue'
  <2>1. \A k \in DOMAIN entries : kv'[entries[k]] = kv[entries[k]]
    BY DEF CacheInv, IndexSound
  <2> QED BY <2>1 DEF CacheInv, CachedContextTrue
<1> QED BY <1>1, <1>2, <1>3

LEMMA OpenStep == ASSUME CacheInv, NEW c \in Caches, Open(c) PROVE CacheInv'
<1>1. /\ Allocate(c) /\ UNCHANGED <<entries, byBlock, prompt, kv, numTokens, text>>
      /\ status' = [status EXCEPT ![c] = "open"]
      /\ KVTypeOK /\ TablesSound /\ ContextSound
  BY DEF Open, Allocate, cacheVars, CacheInv, KVInv
<1>2. KVTypeOK' /\ TablesSound' /\ Balanced /\ ContextSound'
  BY <1>1, AllocateStep, AllocateContext
<1>3. IndexSound' /\ AllRefsOwned' /\ CachedContextTrue'
  BY <1>1, <1>2, SameIndex
<1>4. PromptSound'
  BY <1>1 DEF CacheInv, PromptSound, KVTypeOK
<1> QED BY <1>2, <1>3, <1>4 DEF CacheInv, KVInv

(* update, in a prefill or in a decode. *)
LEMMA UpdateStepCache ==
  ASSUME CacheInv, NEW c \in Caches, NEW new \in Seq(Tokens),
         UpdateFits(c, new) \/ UpdateRaises(c, new), UNCHANGED <<entries, byBlock>>
  PROVE  KVInv' /\ IndexSound' /\ AllRefsOwned' /\ CachedContextTrue'
<1>1. KVTypeOK /\ TablesSound /\ ContextSound
  BY DEF CacheInv, KVInv
<1>2. KVTypeOK' /\ TablesSound' /\ Balanced /\ ContextSound'
  BY <1>1, UpdateStep, UpdateContext
<1>3. \A b \in DOMAIN byBlock : kv'[b] = kv[b]
  BY <1>1, CachedNotOnly, UpdateKeeps
<1>4. IndexSound' /\ AllRefsOwned' /\ CachedContextTrue'
  BY <1>2, <1>3, SameIndex
<1> QED BY <1>2, <1>4 DEF KVInv

LEMMA SuffixFacts ==
  ASSUME CacheInv, NEW c \in Caches, prompt[c] # <<>>, numTokens[c] < Len(prompt[c])
  PROVE  /\ Suffix(c) \in Seq(Tokens) /\ Len(Suffix(c)) = Len(prompt[c]) - numTokens[c]
         /\ text[c] \o Suffix(c) = prompt[c] /\ prompt[c] \in Prompts
<1>1. PICK ids, n, s : ids = prompt[c] /\ n = numTokens[c] /\ s = Suffix(c)
  OBVIOUS
<1>2. /\ ids \in Prompts /\ text[c] = SubSeq(ids, 1, n) /\ n < Len(ids)
      /\ n \in Nat /\ s = SubSeq(ids, n + 1, Len(ids))
  BY <1>1, MaxTokensAssumption DEF CacheInv, PromptSound, Suffix, KVInv, KVTypeOK
<1>3. ids \in Seq(Tokens) /\ Len(ids) \in Nat
  BY <1>2, PromptFacts
<1>4. PICK t : t = text[c]
  OBVIOUS
<1>5. t \in Seq(Tokens) /\ Len(t) = n /\ \A i \in 1 .. n : t[i] = ids[i]
  BY <1>2, <1>3, <1>4, PartFacts
<1>6. /\ s \in Seq(Tokens) /\ Len(s) = Len(ids) - n
      /\ \A i \in 1 .. Len(ids) - n : s[i] = ids[n + i]
  <2>1. n + 1 \in Int /\ Len(ids) \in Int /\ \A i \in n + 1 .. Len(ids) : ids[i] \in Tokens
    BY <1>2, <1>3
  <2>2. PICK m, z : m = n + 1 /\ z = Len(ids)
    OBVIOUS
  <2>3. /\ s \in Seq(Tokens) /\ Len(s) = IF m <= z THEN z - m + 1 ELSE 0
        /\ \A i \in 1 .. z - m + 1 : s[i] = ids[m + i - 1]
    BY <1>2, <2>1, <2>2, SubSeqProperties
  <2>4. Len(s) = Len(ids) - n
    BY <1>2, <1>3, <2>2, <2>3
  <2>5. ASSUME NEW i \in 1 .. Len(ids) - n PROVE s[i] = ids[n + i]
    <3>1. i \in 1 .. z - m + 1 /\ m + i - 1 = n + i
      BY <1>2, <1>3, <2>2
    <3> QED BY <2>3, <3>1
  <2> QED BY <2>3, <2>4, <2>5
<1>7. PICK w : w = t \o s
  OBVIOUS
<1>8. /\ w \in Seq(Tokens) /\ Len(w) = Len(t) + Len(s)
      /\ \A i \in 1 .. Len(t) + Len(s) : w[i] = IF i <= Len(t) THEN t[i] ELSE s[i - Len(t)]
  BY <1>5, <1>6, <1>7, ConcatProperties
<1>9. Len(w) = Len(ids)
  BY <1>2, <1>3, <1>5, <1>6, <1>8
<1>10. ASSUME NEW i \in 1 .. Len(w) PROVE w[i] = ids[i]
  <2>1. i \in 1 .. Len(t) + Len(s)
    BY <1>8
  <2>2. CASE i <= n
    BY <1>2, <1>5, <1>8, <2>1, <2>2
  <2>3. CASE ~ (i <= n)
    <3>1. i - n \in 1 .. Len(ids) - n /\ n + (i - n) = i
      BY <1>2, <1>3, <1>9, <2>3
    <3>2. s[i - n] = ids[i]
      BY <1>6, <3>1
    <3> QED BY <1>5, <1>8, <2>1, <2>3, <3>2
  <2> QED BY <2>2, <2>3
<1>11. w = ids
  BY <1>3, <1>8, <1>9, <1>10, SeqEqual
<1> QED BY <1>1, <1>2, <1>4, <1>6, <1>7, <1>11

LEMMA PrefillStep == ASSUME CacheInv, NEW c \in Caches, Prefill(c), prompt[c] # <<>> PROVE CacheInv'
<1>1. PICK new : new = Suffix(c)
  OBVIOUS
<1>2. /\ numTokens[c] < Len(prompt[c])
      /\ UpdateFits(c, new) \/ UpdateRaises(c, new)
      /\ UNCHANGED <<entries, byBlock, prompt>>
  BY <1>1 DEF Prefill, cacheVars
<1>3. /\ new \in Seq(Tokens) /\ Len(new) = Len(prompt[c]) - numTokens[c]
      /\ text[c] \o new = prompt[c] /\ prompt[c] \in Prompts
  BY <1>1, <1>2, SuffixFacts
<1>4. KVInv' /\ IndexSound' /\ AllRefsOwned' /\ CachedContextTrue'
  BY <1>2, <1>3, UpdateStepCache
<1>5. /\ KVTypeOK /\ Len(prompt[c]) \in Nat /\ numTokens[c] \in Nat /\ prompt[c] \in Seq(Tokens)
      /\ PromptSound
  BY <1>3, PromptFacts, MaxTokensAssumption DEF CacheInv, KVInv, KVTypeOK
<1>6. /\ status[c] = "open"
      /\ \/ /\ numTokens' = [numTokens EXCEPT ![c] = numTokens[c] + Len(new)]
            /\ text' = [text EXCEPT ![c] = text[c] \o new] /\ UNCHANGED status
         \/ UNCHANGED <<numTokens, text>> /\ status' = [status EXCEPT ![c] = "failed"]
  BY <1>2 DEF UpdateFits, UpdateRaises
<1>7. ASSUME NEW d \in Caches, prompt[d] # <<>>
      PROVE  /\ status'[d] # "closed" /\ numTokens'[d] <= Len(prompt[d])
             /\ text'[d] = SubSeq(prompt[d], 1, numTokens'[d])
  <2>1. CASE d # c
    BY <1>5, <1>6, <1>7, <2>1 DEF PromptSound, KVTypeOK
  <2>2. CASE d = c /\ UNCHANGED <<numTokens, text>> /\ status' = [status EXCEPT ![c] = "failed"]
    BY <1>5, <1>7, <2>2 DEF PromptSound, KVTypeOK
  <2>3. CASE /\ d = c /\ numTokens' = [numTokens EXCEPT ![c] = numTokens[c] + Len(new)]
             /\ text' = [text EXCEPT ![c] = text[c] \o new] /\ UNCHANGED status
    <3>1. numTokens'[c] = numTokens[c] + Len(new) /\ text'[c] = prompt[c] /\ status'[c] = "open"
      BY <1>3, <1>5, <1>6, <2>3 DEF KVTypeOK
    <3>2. numTokens'[c] = Len(prompt[c])
      BY <1>3, <1>5, <3>1
    <3>3. SubSeq(prompt[c], 1, Len(prompt[c])) = prompt[c]
      BY <1>5, SubSeqFull
    <3>4. d = c /\ Len(prompt[c]) <= Len(prompt[c])
      BY <1>5, <2>3
    <3> QED BY <3>1, <3>2, <3>3, <3>4
  <2> QED BY <1>6, <2>1, <2>2, <2>3
<1>8. PromptSound'
  BY <1>2, <1>5, <1>7 DEF PromptSound
<1> QED BY <1>4, <1>8 DEF CacheInv

LEMMA DecodeStep ==
  ASSUME CacheInv, NEW c \in Caches, NEW t \in Tokens, Decode(c, t) PROVE CacheInv'
<1>1. PICK new : new = <<t>>
  OBVIOUS
<1>2. /\ prompt[c] = <<>>
      /\ UpdateFits(c, new) \/ UpdateRaises(c, new)
      /\ UNCHANGED <<entries, byBlock, prompt>>
  BY <1>1 DEF Decode, cacheVars
<1>3. new \in Seq(Tokens)
  BY <1>1
<1>4. KVInv' /\ IndexSound' /\ AllRefsOwned' /\ CachedContextTrue'
  BY <1>2, <1>3, UpdateStepCache
<1>5. /\ status[c] = "open" /\ KVTypeOK
      /\ \/ /\ numTokens' = [numTokens EXCEPT ![c] = numTokens[c] + Len(new)]
            /\ text' = [text EXCEPT ![c] = text[c] \o new] /\ UNCHANGED status
         \/ UNCHANGED <<numTokens, text>> /\ status' = [status EXCEPT ![c] = "failed"]
  BY <1>2 DEF UpdateFits, UpdateRaises, CacheInv, KVInv
<1>6. \A d \in Caches : d # c => /\ numTokens'[d] = numTokens[d] /\ text'[d] = text[d]
                                 /\ status'[d] = status[d]
  BY <1>5 DEF KVTypeOK
<1>7. PromptSound'
  BY <1>2, <1>6 DEF CacheInv, PromptSound
<1> QED BY <1>4, <1>7 DEF CacheInv

LEMMA BranchStep ==
  ASSUME CacheInv, NEW p \in Caches, NEW c \in Caches, Branch(p, c) PROVE CacheInv'
<1>1. /\ Fork(p, c) /\ UNCHANGED <<entries, byBlock, prompt, kv>> /\ status[c] = "closed"
      /\ numTokens' = [numTokens EXCEPT ![c] = numTokens[p]]
      /\ text' = [text EXCEPT ![c] = text[p]] /\ status' = [status EXCEPT ![c] = "open"]
      /\ KVTypeOK /\ TablesSound /\ ContextSound /\ PromptSound
  BY DEF Branch, Fork, cacheVars, CacheInv, KVInv
<1>2. KVTypeOK' /\ TablesSound' /\ Balanced /\ ContextSound'
  BY <1>1, ForkStep, ForkContext
<1>3. IndexSound' /\ AllRefsOwned' /\ CachedContextTrue'
  BY <1>1, <1>2, SameIndex
<1>4. prompt[c] = <<>>
  BY <1>1 DEF PromptSound
<1>5. \A d \in Caches : d # c => /\ numTokens'[d] = numTokens[d] /\ text'[d] = text[d]
                                 /\ status'[d] = status[d]
  BY <1>1 DEF KVTypeOK
<1>6. PromptSound'
  BY <1>1, <1>4, <1>5 DEF PromptSound
<1> QED BY <1>2, <1>3, <1>6 DEF CacheInv, KVInv

LEMMA ReleaseStep == ASSUME CacheInv, NEW c \in Caches, Release(c) PROVE CacheInv'
<1>1. /\ Free(c) /\ UNCHANGED <<entries, byBlock>>
      /\ prompt' = [prompt EXCEPT ![c] = <<>>]
      /\ KVTypeOK /\ TablesSound /\ ContextSound /\ PromptSound
  BY DEF Release, cacheVars, CacheInv, KVInv
<1>2. KVTypeOK' /\ TablesSound' /\ Balanced /\ ContextSound'
  BY <1>1, FreeStep, FreeContext
<1>3. /\ refs' = [b \in Blocks |-> IF b \in TableBlocks(c) THEN refs[b] - 1 ELSE refs[b]]
      /\ kv' = [b \in Blocks |-> IF refs'[b] = 0 THEN Garbage ELSE kv[b]]
      /\ numTokens' = [numTokens EXCEPT ![c] = 0] /\ text' = [text EXCEPT ![c] = <<>>]
      /\ status' = [status EXCEPT ![c] = "closed"]
  BY <1>1 DEF Free
<1>4. ASSUME NEW b \in DOMAIN byBlock PROVE kv'[b] = kv[b]
  <2>1. b \in Blocks /\ refs[b] \in Nat /\ NotOnlyOf(c, b)
    BY CachedNotOnly
  <2>2. refs'[b] # 0
    BY <1>3, <2>1 DEF NotOnlyOf
  <2> QED BY <1>3, <2>1, <2>2
<1>5. IndexSound' /\ AllRefsOwned' /\ CachedContextTrue'
  BY <1>1, <1>2, <1>4, SameIndex
<1>6. \A d \in Caches : d # c => /\ numTokens'[d] = numTokens[d] /\ text'[d] = text[d]
                                 /\ status'[d] = status[d] /\ prompt'[d] = prompt[d]
  BY <1>1, <1>3 DEF KVTypeOK, PromptSound
<1>7. prompt' \in [Caches -> Prompts \cup {<<>>}] /\ prompt'[c] = <<>>
  BY <1>1 DEF PromptSound
<1>8. PromptSound'
  BY <1>1, <1>6, <1>7 DEF PromptSound
<1> QED BY <1>2, <1>5, <1>8 DEF CacheInv, KVInv

-----------------------------------------------------------------------------
(* evict and clear: the entries go with the cache's references on their blocks. *)
LEMMA ForgetStep ==
  ASSUME CacheInv, NEW keys \in SUBSET DOMAIN entries, Forget(keys) PROVE CacheInv'
<1>a. KVTypeOK /\ TablesSound /\ ContextSound /\ IndexSound /\ PromptSound /\ CachedContextTrue
  BY DEF CacheInv, KVInv
<1> DEFINE gone == {entries[k] : k \in keys}
<1>1. /\ refs' = [b \in Blocks |-> IF b \in gone THEN refs[b] - 1 ELSE refs[b]]
      /\ kv' = [b \in Blocks |-> IF refs'[b] = 0 THEN Garbage ELSE kv[b]]
      /\ entries' = [k \in DOMAIN entries \ keys |-> entries[k]]
      /\ byBlock' = [b \in DOMAIN byBlock \ gone |-> byBlock[b]]
      /\ UNCHANGED <<table, numTokens, text, status, prompt>>
  BY DEF Forget
<1>2. gone \subseteq DOMAIN byBlock /\ DOMAIN byBlock \subseteq Blocks
      /\ \A b \in gone : byBlock[b] \in keys
  BY <1>a DEF IndexSound
<1> HIDE DEF gone
<1>3. ASSUME NEW b \in Blocks
      PROVE  /\ Holders(b)' = Holders(b) /\ Cardinality(Holders(b)) \in Nat
             /\ refs'[b] = Cardinality(Holders(b)) + (IF b \in DOMAIN byBlock' THEN 1 ELSE 0)
  <2>1. Holders(b)' = Holders(b) /\ Holders(b) \in SUBSET Caches
    BY <1>1 DEF Holders, TableBlocks
  <2>2. Cardinality(Holders(b)) \in Nat
    BY <2>1, FiniteHolders
  <2>3. refs[b] = Cardinality(Holders(b)) + (IF b \in DOMAIN byBlock THEN 1 ELSE 0)
    BY DEF CacheInv, AllRefsOwned
  <2>4. b \in DOMAIN byBlock' <=> b \in DOMAIN byBlock /\ b \notin gone
    BY <1>1
  <2>5. refs'[b] = IF b \in gone THEN refs[b] - 1 ELSE refs[b]
    BY <1>1
  <2> QED BY <1>2, <2>1, <2>2, <2>3, <2>4, <2>5
<1>4. AllRefsOwned'
  BY <1>3 DEF AllRefsOwned
<1>5. refs' \in [Blocks -> Nat]
  <2>1. \A b \in Blocks : refs'[b] \in Nat
    BY <1>3
  <2> QED BY <1>1, <2>1
<1>6. ASSUME NEW b \in Blocks, b \in DOMAIN byBlock' \/ \E c \in Caches : b \in TableBlocks(c)
      PROVE  kv'[b] = kv[b]
  <2>1. (\E c \in Caches : b \in TableBlocks(c)) => Holders(b) # {}
    BY DEF Holders
  <2>2. Holders(b) \in SUBSET Caches
    BY DEF Holders
  <2>3. Holders(b) # {} => Cardinality(Holders(b)) # 0
    BY <2>2, FiniteHolders, FS_EmptySet
  <2>4. refs'[b] # 0
    BY <1>3, <1>6, <2>1, <2>3
  <2> QED BY <1>1, <2>4
<1>7. kv' \in [Blocks -> [1 .. BlockSize -> Seq(Tokens)]]
  <2>1. Garbage \in [1 .. BlockSize -> Seq(Tokens)]
    BY DEF Garbage, NoKV
  <2>2. kv \in [Blocks -> [1 .. BlockSize -> Seq(Tokens)]]
    BY <1>a DEF KVTypeOK
  <2> QED BY <1>1, <2>1, <2>2
<1>8. KVTypeOK'
  BY <1>1, <1>5, <1>7, <1>a DEF KVTypeOK
<1>9. TablesSound'
  <2>1. ASSUME NEW b \in Blocks PROVE Cardinality(Holders(b)') <= refs'[b]
    BY <1>3
  <2> QED BY <1>1, <1>a, <2>1 DEF TablesSound
<1>10. ContextSound'
  <2>1. ReadsOwnContext'
    <3> SUFFICES ASSUME NEW d \in Caches, NEW p \in 1 .. numTokens'[d]
                 PROVE  kv'[table'[d][Idx(p)]][Offset(p)] = SubSeq(text'[d], 1, p)
      BY DEF ReadsOwnContext, Slot, BlockOf, Idx, Offset
    <3>1. ASSUME NEW b \in TableBlocks(d) PROVE kv'[b] = kv[b]
      <4>1. b \in Blocks
        BY <1>a DEF TableBlocks, KVTypeOK
      <4> QED BY <1>6, <4>1
    <3>2. table'[d] = table[d] /\ numTokens'[d] = numTokens[d] /\ text'[d] = text[d]
      BY <1>1
    <3> QED BY <1>a, <3>1, <3>2, KeptContext
  <2>2. HoldsWhatItNeeds'
    BY <1>1, <1>a DEF ContextSound, HoldsWhatItNeeds, CeilDiv
  <2> QED BY <1>1, <1>a, <2>1, <2>2 DEF ContextSound
<1>11. IndexSound'
  <2>1. DOMAIN entries' = DOMAIN entries \ keys /\ DOMAIN byBlock' = DOMAIN byBlock \ gone
    BY <1>1
  <2>2. ASSUME NEW k \in DOMAIN entries \ keys
        PROVE  entries'[k] = entries[k] /\ entries[k] \in DOMAIN byBlock \ gone
               /\ byBlock'[entries[k]] = k
    <3>1. entries[k] \in DOMAIN byBlock /\ byBlock[entries[k]] = k
      BY <1>a DEF IndexSound
    <3>2. entries[k] \notin gone
      BY <1>2, <3>1
    <3> QED BY <1>1, <3>1, <3>2
  <2>3. ASSUME NEW b \in DOMAIN byBlock \ gone
        PROVE  byBlock'[b] = byBlock[b] /\ byBlock[b] \in DOMAIN entries \ keys
               /\ entries'[byBlock[b]] = b
    <3>1. byBlock[b] \in DOMAIN entries /\ entries[byBlock[b]] = b
      BY <1>a DEF IndexSound
    <3>2. byBlock[b] \notin keys
      BY <3>1 DEF gone
    <3> QED BY <1>1, <3>1, <3>2
  <2> QED BY <1>a, <2>1, <2>2, <2>3 DEF IndexSound
<1>12. CachedContextTrue'
  <2> SUFFICES ASSUME NEW k \in DOMAIN entries', NEW i \in 1 .. BlockSize
               PROVE  kv'[entries'[k]][i] = SubSeq(k, 1, Len(k) - BlockSize + i)
    BY DEF CachedContextTrue
  <2>1. k \in DOMAIN entries /\ entries'[k] = entries[k]
    BY <1>1
  <2>2. entries'[k] \in DOMAIN byBlock' /\ entries'[k] \in Blocks
    BY <1>11, <2>1, <1>a DEF IndexSound
  <2>3. kv'[entries[k]] = kv[entries[k]]
    BY <1>6, <2>1, <2>2
  <2> QED BY <1>a, <2>1, <2>3 DEF CachedContextTrue
<1>13. PromptSound'
  BY <1>1, <1>a DEF PromptSound
<1> QED BY <1>4, <1>8, <1>9, <1>10, <1>11, <1>12, <1>13 DEF CacheInv, KVInv

LEMMA EnsureFreeStep == ASSUME CacheInv, NEW n, EnsureFree(n) PROVE CacheInv'
<1>1. PICK keys : keys = Victims(n - NumFree)
  OBVIOUS
<1>2. keys \in SUBSET DOMAIN entries /\ Forget(keys)
  BY <1>1 DEF Victims, Evictable, EnsureFree
<1> QED BY <1>2, ForgetStep

LEMMA ClearStep == ASSUME CacheInv, Clear PROVE CacheInv'
<1>1. PICK keys : keys = DOMAIN entries
  OBVIOUS
<1> QED BY <1>1, ForgetStep DEF Clear

-----------------------------------------------------------------------------
(* match and attach. *)

LEMMA MultipleUnique ==
  ASSUME NEW i \in Nat, NEW j \in Nat, i * BlockSize = j * BlockSize
  PROVE  i = j
<1>1. BlockSize \in Nat \ {0}
  BY BlockSizeAssumption
<1>2. (BlockSize * i + 0) \div BlockSize = i /\ (BlockSize * j + 0) \div BlockSize = j
  BY <1>1, DivUnique
<1>3. BlockSize * i = BlockSize * j
  BY <1>1
<1> QED BY <1>2, <1>3

(* The blocks of a multiple of the block size. *)
LEMMA CeilOfMultiple ==
  ASSUME NEW m \in Nat
  PROVE  CeilDiv(m * BlockSize, BlockSize) = m
<1>1. BlockSize \in Nat \ {0} /\ BlockSize - 1 \in 0 .. BlockSize - 1
  BY BlockSizeAssumption
<1>2. (BlockSize * m + (BlockSize - 1)) \div BlockSize = m
  BY <1>1, DivUnique
<1>3. PICK x : x = m * BlockSize
  OBVIOUS
<1>4. x = BlockSize * m /\ x \in Nat
  BY <1>1, <1>3
<1>5. (x + (BlockSize - 1)) \div BlockSize = m
  BY <1>2, <1>4
<1>6. x + BlockSize - 1 = x + (BlockSize - 1)
  BY <1>1, <1>4
<1>7. CeilDiv(x, BlockSize) = m
  BY <1>5, <1>6 DEF CeilDiv
<1> QED BY <1>3, <1>7

(* What match hands over. *)
LEMMA MatchedBlocks ==
  ASSUME CacheInv, NEW ids \in Prompts, NEW m, m = MatchLength(ids),
         NEW s, s = [j \in 1 .. m |-> entries[KeyAt(ids, j)]]
  PROVE  /\ m \in Nat /\ m * BlockSize \in Nat /\ m * BlockSize < Len(ids)
         /\ s \in Seq(Blocks) /\ Len(s) = m /\ NoRepeat(s)
         /\ \A j \in 1 .. m : /\ j \in Nat \ {0} /\ j * BlockSize <= Len(ids)
                              /\ s[j] \in DOMAIN byBlock /\ s[j] = entries[KeyAt(ids, j)]
                              /\ KeyAt(ids, j) \in DOMAIN entries
<1>1. BlockSize \in Nat \ {0}
  BY BlockSizeAssumption
<1>2. /\ ids \in Seq(Tokens) /\ Len(ids) \in Nat \ {0} /\ Len(ids) - 1 \in Nat
      /\ Reusable(ids) \in Nat /\ m \in 0 .. Reusable(ids)
      /\ \A j \in 1 .. m : KeyAt(ids, j) \in DOMAIN entries
  BY PromptFacts, MatchFacts
<1>3. m \in Nat /\ m * BlockSize \in Nat
  BY <1>1, <1>2
<1>4. ASSUME NEW j \in 1 .. m PROVE j \in Nat \ {0} /\ j * BlockSize <= Len(ids) - 1
  <2>1. PICK n : n = Len(ids) - 1
    OBVIOUS
  <2>2. j \in 1 .. n \div BlockSize
    BY <1>2, <2>1 DEF Reusable
  <2> QED BY <1>2, <2>1, <2>2, FullFacts
<1>5. m * BlockSize < Len(ids)
  <2>1. CASE m = 0
    BY <1>1, <1>2, <2>1
  <2>2. CASE m # 0
    <3>1. m \in 1 .. m
      BY <1>3, <2>2
    <3> QED BY <1>2, <1>3, <1>4, <3>1
  <2> QED BY <2>1, <2>2
<1>6. ASSUME NEW j \in 1 .. m
      PROVE  /\ j \in Nat \ {0} /\ j * BlockSize <= Len(ids)
             /\ s[j] = entries[KeyAt(ids, j)] /\ KeyAt(ids, j) \in DOMAIN entries
             /\ s[j] \in DOMAIN byBlock /\ byBlock[s[j]] = KeyAt(ids, j) /\ s[j] \in Blocks
  <2>1. j \in Nat \ {0} /\ j * BlockSize <= Len(ids) - 1
    BY <1>4
  <2>2. j * BlockSize \in Nat
    BY <1>1, <2>1
  <2>3. j * BlockSize <= Len(ids)
    BY <1>2, <2>1, <2>2
  <2>4. s[j] = entries[KeyAt(ids, j)] /\ KeyAt(ids, j) \in DOMAIN entries
    BY <1>2
  <2>5. s[j] \in DOMAIN byBlock /\ byBlock[s[j]] = KeyAt(ids, j) /\ s[j] \in Blocks
    BY <2>4 DEF CacheInv, IndexSound
  <2> QED BY <2>1, <2>3, <2>4, <2>5
<1>7. s \in Seq(Blocks) /\ Len(s) = m
  <2>1. s \in [1 .. m -> Blocks]
    BY <1>6
  <2> QED BY <1>3, <2>1
<1>8. NoRepeat(s)
  <2> SUFFICES ASSUME NEW i \in 1 .. m, NEW j \in 1 .. m, s[i] = s[j] PROVE i = j
    BY <1>7, ZenonT(40) DEF NoRepeat
  <2>1. KeyAt(ids, i) = KeyAt(ids, j)
    BY <1>6
  <2>2. Len(KeyAt(ids, i)) = i * BlockSize /\ Len(KeyAt(ids, j)) = j * BlockSize
    BY <1>2, <1>6, KeyFacts
  <2>3. i \in Nat /\ j \in Nat
    BY <1>6
  <2> QED BY <2>1, <2>2, <2>3, MultipleUnique
<1> QED BY <1>3, <1>5, <1>6, <1>7, <1>8

LEMMA MatchStep ==
  ASSUME CacheInv, NEW c \in Caches, NEW ids \in Prompts, Match(c, ids) PROVE CacheInv'
<1>a. KVTypeOK /\ TablesSound /\ ContextSound /\ IndexSound /\ PromptSound /\ CachedContextTrue
  BY DEF CacheInv, KVInv
<1>b. PICK m, s, n : /\ m = MatchLength(ids) /\ s = [j \in 1 .. m |-> entries[KeyAt(ids, j)]]
                     /\ n = m * BlockSize
  OBVIOUS
<1>c. PICK t : t = SubSeq(ids, 1, n)
  OBVIOUS
<1>1. /\ status[c] = "open" /\ table[c] = <<>> /\ prompt[c] = <<>>
      /\ refs' = [b \in Blocks |-> IF \E j \in 1 .. m : s[j] = b THEN refs[b] + 1 ELSE refs[b]]
      /\ table' = [table EXCEPT ![c] = s]
      /\ numTokens' = [numTokens EXCEPT ![c] = n] /\ text' = [text EXCEPT ![c] = t]
      /\ prompt' = [prompt EXCEPT ![c] = ids]
      /\ UNCHANGED <<kv, status, entries, byBlock>>
  BY <1>b, <1>c DEF Match, Attached
<1>2. /\ m \in Nat /\ n \in Nat /\ n < Len(ids)
      /\ s \in Seq(Blocks) /\ Len(s) = m /\ NoRepeat(s)
      /\ \A j \in 1 .. m : /\ j \in Nat \ {0} /\ j * BlockSize <= Len(ids)
                           /\ s[j] \in DOMAIN byBlock /\ s[j] = entries[KeyAt(ids, j)]
                           /\ KeyAt(ids, j) \in DOMAIN entries
  BY <1>b, MatchedBlocks
<1>3. ids \in Seq(Tokens) /\ Len(ids) \in Nat /\ Len(ids) <= MaxTokens /\ MaxTokens \in Nat
      /\ ids # <<>> /\ BlockSize \in Nat \ {0}
  BY PromptFacts, MaxTokensAssumption, BlockSizeAssumption
<1>4. t \in Seq(Tokens) /\ Len(t) = n /\ n \in 0 .. Len(ids) /\ n \in 0 .. MaxTokens
  <2>1. n \in 0 .. Len(ids) /\ n \in 0 .. MaxTokens
    BY <1>2, <1>3
  <2> QED BY <1>3, <1>c, <2>1, PartFacts
<1>5. /\ table'[c] = s /\ numTokens'[c] = n /\ text'[c] = t /\ prompt'[c] = ids
      /\ table' \in [Caches -> Seq(Blocks)]
      /\ \A d \in Caches : d # c => /\ table'[d] = table[d] /\ numTokens'[d] = numTokens[d]
                                    /\ text'[d] = text[d] /\ prompt'[d] = prompt[d]
  BY <1>1, <1>2, <1>a DEF KVTypeOK, PromptSound
<1>6. refs' \in [Blocks -> Nat]
  BY <1>1, <1>a DEF KVTypeOK
<1>7. KVTypeOK'
  BY <1>1, <1>2, <1>4, <1>6, <1>a DEF KVTypeOK
<1>8. TableBlocks(c) = {} /\ TableBlocks(c)' = {s[j] : j \in 1 .. m}
  BY <1>1, <1>2, <1>5 DEF TableBlocks
<1>9. Balanced
  <2> SUFFICES ASSUME NEW b \in Blocks PROVE Surplus(b)' = Surplus(b)
    BY DEF Balanced
  <2>1. refs[b] \in Nat /\ Cardinality(Holders(b)) \in Nat
    <3>1. Holders(b) \in SUBSET Caches
      BY DEF Holders
    <3> QED BY <1>a, <3>1, FiniteHolders DEF KVTypeOK
  <2>2. CASE \E j \in 1 .. m : s[j] = b
    <3>1. Cardinality(Holders(b)') = Cardinality(Holders(b)) + 1
      BY <1>5, <1>8, <1>a, <2>2, OneHolder
    <3>2. refs'[b] = refs[b] + 1
      BY <1>1, <2>2
    <3> QED BY <2>1, <3>1, <3>2 DEF Surplus
  <2>3. CASE ~ \E j \in 1 .. m : s[j] = b
    <3>1. Holders(b)' = Holders(b)
      BY <1>5, <1>8, <1>a, <2>3, OneHolder
    <3>2. refs'[b] = refs[b]
      BY <1>1, <2>3
    <3> QED BY <3>1, <3>2 DEF Surplus
  <2> QED BY <2>2, <2>3
<1>10. TablesSound'
  <2>1. \A d \in Caches : NoRepeat(table'[d])
    BY <1>2, <1>5, <1>a DEF TablesSound
  <2>2. \A d \in Caches : status'[d] = "closed" => table'[d] = <<>>
    BY <1>1, <1>5, <1>a DEF TablesSound
  <2> QED BY <1>6, <1>9, <1>a, <2>1, <2>2, StillSound
<1>11. IndexSound' /\ AllRefsOwned' /\ CachedContextTrue'
  BY <1>1, <1>7, <1>9, SameIndex
<1>12. ASSUME NEW p \in 1 .. n PROVE kv[s[Idx(p)]][Offset(p)] = SubSeq(t, 1, p)
  <2>1. p \in Nat \ {0} /\ p \in 0 .. n
    BY <1>2
  <2>2. Idx(p) \in 1 .. m
    <3>1. CeilDiv(n, BlockSize) = m
      BY <1>2, <1>b, CeilOfMultiple
    <3> QED BY <1>2, <3>1, WithinTable
  <2>3. PICK j, i, k : j = Idx(p) /\ i = Offset(p) /\ k = KeyAt(ids, j)
    OBVIOUS
  <2>4. i \in 1 .. BlockSize /\ p = BlockSize * (j - 1) + i /\ j \in Nat \ {0}
    BY <2>1, <2>3, IdxFacts
  <2>5. s[j] = entries[k] /\ k \in DOMAIN entries /\ j * BlockSize <= Len(ids)
    BY <1>2, <2>2, <2>3
  <2>6. kv[entries[k]][i] = SubSeq(k, 1, Len(k) - BlockSize + i)
    BY <1>a, <2>4, <2>5 DEF CachedContextTrue
  <2>7. SubSeq(k, 1, Len(k) - BlockSize + i) = SubSeq(ids, 1, (j - 1) * BlockSize + i)
    BY <1>3, <2>3, <2>4, <2>5, KeyFacts
  <2>8. (j - 1) * BlockSize + i = p
    BY <1>3, <2>4
  <2>9. SubSeq(t, 1, p) = SubSeq(ids, 1, p)
    BY <1>3, <1>4, <1>c, <2>1, PartOfPart
  <2> QED BY <2>3, <2>5, <2>6, <2>7, <2>8, <2>9
<1>13. ReadsOwnContext'
  <2> SUFFICES ASSUME NEW d \in Caches, NEW p \in 1 .. numTokens'[d]
               PROVE  kv'[table'[d][Idx(p)]][Offset(p)] = SubSeq(text'[d], 1, p)
    BY DEF ReadsOwnContext, Slot, BlockOf, Idx, Offset
  <2>1. CASE d = c
    BY <1>1, <1>5, <1>12, <2>1
  <2>2. CASE d # c
    BY <1>1, <1>5, <1>a, <2>2, KeptContext
  <2> QED BY <2>1, <2>2
<1>14. HoldsWhatItNeeds'
  <2> SUFFICES ASSUME NEW d \in Caches
               PROVE  IF status'[d] = "failed"
                      THEN Len(table'[d]) >= CeilDiv(numTokens'[d], BlockSize)
                      ELSE Len(table'[d]) = CeilDiv(numTokens'[d], BlockSize)
    BY DEF HoldsWhatItNeeds, CeilDiv
  <2>1. CASE d = c
    <3>1. CeilDiv(n, BlockSize) = m
      BY <1>2, <1>b, CeilOfMultiple
    <3> QED BY <1>1, <1>2, <1>5, <2>1, <3>1
  <2>2. CASE d # c
    BY <1>1, <1>5, <1>a, <2>2 DEF ContextSound, HoldsWhatItNeeds
  <2> QED BY <2>1, <2>2
<1>15. ContextSound'
  <2>1. ASSUME NEW d \in Caches PROVE Len(text'[d]) = numTokens'[d]
    BY <1>4, <1>5, <1>a DEF ContextSound
  <2>2. ASSUME NEW d \in Caches, status'[d] = "closed" PROVE numTokens'[d] = 0
    BY <1>1, <1>5, <1>a, <2>2 DEF ContextSound
  <2> QED BY <1>13, <1>14, <2>1, <2>2 DEF ContextSound
<1>16. PromptSound'
  <2>1. prompt' \in [Caches -> Prompts \cup {<<>>}]
    BY <1>1, <1>a DEF PromptSound
  <2>2. ASSUME NEW d \in Caches, prompt'[d] # <<>>
        PROVE  /\ status'[d] # "closed" /\ numTokens'[d] <= Len(prompt'[d])
               /\ text'[d] = SubSeq(prompt'[d], 1, numTokens'[d])
    <3>1. CASE d = c
      <4>1. n <= Len(ids) /\ status'[c] = "open"
        BY <1>1, <1>2, <1>3
      <4> QED BY <1>5, <1>c, <3>1, <4>1
    <3>2. CASE d # c
      BY <1>1, <1>5, <1>a, <2>2, <3>2 DEF PromptSound
    <3> QED BY <3>1, <3>2
  <2> QED BY <2>1, <2>2 DEF PromptSound
<1> QED BY <1>7, <1>10, <1>11, <1>15, <1>16 DEF CacheInv, KVInv

-----------------------------------------------------------------------------
(* insert. *)

(* The blocks of a prompt that was fed whole hold the contexts its keys
   stand for. *)
LEMMA FedBlocks ==
  ASSUME CacheInv, NEW c \in Caches, prompt[c] # <<>>, numTokens[c] = Len(prompt[c]),
         status[c] = "open", NEW j \in 1 .. FullBlocks(prompt[c])
  PROVE  /\ prompt[c] \in Prompts /\ j \in Nat \ {0} /\ j \in 1 .. Len(table[c])
         /\ table[c][j] \in Blocks
         /\ KeyAt(prompt[c], j) \in Seq(Tokens) /\ Len(KeyAt(prompt[c], j)) = j * BlockSize
         /\ \A i \in 1 .. BlockSize : kv[table[c][j]][i]
               = SubSeq(KeyAt(prompt[c], j), 1, Len(KeyAt(prompt[c], j)) - BlockSize + i)
<1>a. KVTypeOK /\ TablesSound /\ ContextSound /\ PromptSound
  BY DEF CacheInv, KVInv
<1>1. PICK ids, n, k : ids = prompt[c] /\ n = Len(ids) /\ k = KeyAt(ids, j)
  OBVIOUS
<1>2. ids \in Prompts /\ ids \in Seq(Tokens) /\ n \in Nat \ {0} /\ BlockSize \in Nat \ {0}
  BY <1>1, <1>a, PromptFacts, BlockSizeAssumption DEF PromptSound
<1>3. j \in Nat \ {0} /\ j * BlockSize <= n
  BY <1>1, <1>2, FullFacts DEF FullBlocks
<1>4. text[c] = ids
  <2>1. text[c] = SubSeq(ids, 1, n)
    BY <1>1, <1>a DEF PromptSound
  <2> QED BY <1>1, <1>2, <2>1, SubSeqFull
<1>5. /\ k \in Seq(Tokens) /\ Len(k) = j * BlockSize
      /\ \A i \in 1 .. BlockSize :
            /\ (j - 1) * BlockSize + i \in 1 .. n
            /\ SubSeq(k, 1, Len(k) - BlockSize + i) = SubSeq(ids, 1, (j - 1) * BlockSize + i)
  BY <1>1, <1>2, <1>3, KeyFacts
<1>6. ASSUME NEW i \in 1 .. BlockSize
      PROVE  /\ j \in 1 .. Len(table[c])
             /\ kv[table[c][j]][i] = SubSeq(k, 1, Len(k) - BlockSize + i)
  <2>1. PICK p : p = (j - 1) * BlockSize + i
    OBVIOUS
  <2>2. p \in 1 .. n /\ p \in Nat \ {0} /\ SubSeq(k, 1, Len(k) - BlockSize + i) = SubSeq(ids, 1, p)
    <3>1. p \in 1 .. n
      BY <1>5, <2>1
    <3>2. SubSeq(k, 1, Len(k) - BlockSize + i) = SubSeq(ids, 1, p)
      BY <1>5, <2>1
    <3>3. p \in Nat \ {0}
      BY <1>2, <3>1
    <3> QED BY <3>1, <3>2, <3>3
  <2>3. Idx(p) = j /\ Offset(p) = i
    <3>1. i - 1 \in 0 .. BlockSize - 1 /\ j - 1 \in Nat
      BY <1>2, <1>3
    <3>2. /\ (BlockSize * (j - 1) + (i - 1)) \div BlockSize = j - 1
          /\ (BlockSize * (j - 1) + (i - 1)) % BlockSize = i - 1
      BY <1>2, <3>1, DivUnique
    <3>3. p - 1 = BlockSize * (j - 1) + (i - 1)
      BY <1>2, <1>3, <2>1
    <3>4. (p - 1) \div BlockSize = j - 1 /\ (p - 1) % BlockSize = i - 1
      BY <3>2, <3>3
    <3> QED BY <1>3, <3>4 DEF Idx, Offset
  <2>4. j \in 1 .. Len(table[c])
    <3>1. Len(table[c]) = CeilDiv(n, BlockSize)
      BY <1>1, <1>a DEF ContextSound, HoldsWhatItNeeds
    <3> QED BY <1>2, <2>2, <2>3, <3>1, WithinTable
  <2>5. kv[table[c][j]][i] = SubSeq(ids, 1, p)
    BY <1>1, <1>4, <1>a, <2>2, <2>3 DEF ContextSound, ReadsOwnContext, Slot, BlockOf, Idx
  <2> QED BY <2>2, <2>4, <2>5
<1>7. j \in 1 .. Len(table[c])
  <2>1. 1 \in 1 .. BlockSize
    BY <1>2
  <2> QED BY <1>6, <2>1
<1>8. table[c][j] \in Blocks
  BY <1>7, <1>a DEF KVTypeOK
<1> QED BY <1>1, <1>2, <1>3, <1>5, <1>6, <1>7, <1>8

(* The only one of its kind is the one chosen. *)
LEMMA ChosenOne ==
  ASSUME NEW S, NEW f, NEW j \in S, \A i \in S : f[i] = f[j] => i = j
  PROVE  (CHOOSE i \in S : f[i] = f[j]) = j
  OBVIOUS

(* Registering: blocks of c nobody registered, under keys nobody knows. *)
LEMMA RegisterStep ==
  ASSUME CacheInv, NEW c \in Caches, status[c] = "open",
         prompt[c] # <<>>, numTokens[c] = Len(prompt[c]),
         NEW N \in SUBSET (1 .. FullBlocks(prompt[c])),
         NEW K, \A j \in N : K[j] = KeyAt(prompt[c], j) /\ K[j] \notin DOMAIN entries
                             /\ table[c][j] \notin DOMAIN byBlock,
         refs' = [b \in Blocks |-> IF \E j \in N : table[c][j] = b THEN refs[b] + 1 ELSE refs[b]],
         entries' = [k \in DOMAIN entries \cup {K[j] : j \in N} |->
             IF k \in DOMAIN entries THEN entries[k]
             ELSE table[c][CHOOSE j \in N : K[j] = k]],
         byBlock' = [b \in DOMAIN byBlock \cup {table[c][j] : j \in N} |->
             IF b \in DOMAIN byBlock THEN byBlock[b]
             ELSE K[CHOOSE j \in N : table[c][j] = b]],
         UNCHANGED <<kv, table, numTokens, text, status>>
  PROVE  KVTypeOK' /\ TablesSound' /\ IndexSound' /\ AllRefsOwned' /\ CachedContextTrue'
<1>a. KVTypeOK /\ TablesSound /\ IndexSound /\ CachedContextTrue
  BY DEF CacheInv, KVInv
<1>b. PICK t : t = table[c]
  OBVIOUS
<1>1. ASSUME NEW j \in N
      PROVE  /\ j \in Nat /\ j \in 1 .. Len(t) /\ t[j] \in Blocks /\ t[j] \notin DOMAIN byBlock
             /\ K[j] \notin DOMAIN entries /\ K[j] \in Seq(Tokens) /\ Len(K[j]) = j * BlockSize
             /\ \A i \in 1 .. BlockSize : kv[t[j]][i] = SubSeq(K[j], 1, Len(K[j]) - BlockSize + i)
  BY <1>b, FedBlocks
<1>2. \A i, j \in N : t[i] = t[j] => i = j
  BY <1>1, <1>a, <1>b DEF TablesSound, NoRepeat
<1>3. \A i, j \in N : K[i] = K[j] => i = j
  <2> SUFFICES ASSUME NEW i \in N, NEW j \in N, K[i] = K[j] PROVE i = j
    OBVIOUS
  <2>1. i * BlockSize = j * BlockSize /\ i \in Nat /\ j \in Nat
    BY <1>1
  <2> QED BY <2>1, MultipleUnique
<1>4. ASSUME NEW j \in N
      PROVE  K[j] \in DOMAIN entries' /\ entries'[K[j]] = t[j]
             /\ t[j] \in DOMAIN byBlock' /\ byBlock'[t[j]] = K[j]
  <2>1. (CHOOSE i \in N : K[i] = K[j]) = j /\ (CHOOSE i \in N : t[i] = t[j]) = j
    BY <1>2, <1>3, ChosenOne
  <2>2. K[j] \in DOMAIN entries' /\ entries'[K[j]] = t[CHOOSE i \in N : K[i] = K[j]]
    BY <1>1, <1>b
  <2>3. t[j] \in DOMAIN byBlock' /\ byBlock'[t[j]] = K[CHOOSE i \in N : t[i] = t[j]]
    BY <1>1, <1>b
  <2> QED BY <2>1, <2>2, <2>3
<1>5. /\ \A k \in DOMAIN entries : k \in DOMAIN entries' /\ entries'[k] = entries[k]
      /\ \A b \in DOMAIN byBlock : b \in DOMAIN byBlock' /\ byBlock'[b] = byBlock[b]
  OBVIOUS
<1>6. /\ \A k \in DOMAIN entries' : k \in DOMAIN entries \/ \E j \in N : k = K[j]
      /\ \A b \in DOMAIN byBlock' : b \in DOMAIN byBlock \/ \E j \in N : b = t[j]
  BY <1>b
<1>7. IndexSound'
  <2>1. DOMAIN entries' \subseteq Seq(Tokens) /\ DOMAIN byBlock' \subseteq Blocks
    BY <1>1, <1>6, <1>a DEF IndexSound
  <2>2. ASSUME NEW k \in DOMAIN entries'
        PROVE  entries'[k] \in DOMAIN byBlock' /\ byBlock'[entries'[k]] = k
    <3>1. CASE k \in DOMAIN entries
      BY <1>5, <1>a, <3>1 DEF IndexSound
    <3>2. CASE \E j \in N : k = K[j]
      <4>1. PICK j \in N : k = K[j]
        BY <3>2
      <4>2. entries'[K[j]] = t[j] /\ t[j] \in DOMAIN byBlock' /\ byBlock'[t[j]] = K[j]
        BY <1>4
      <4> QED BY <4>1, <4>2
    <3> QED BY <1>6, <3>1, <3>2
  <2>3. ASSUME NEW b \in DOMAIN byBlock'
        PROVE  byBlock'[b] \in DOMAIN entries' /\ entries'[byBlock'[b]] = b
    <3>1. CASE b \in DOMAIN byBlock
      BY <1>5, <1>a, <3>1 DEF IndexSound
    <3>2. CASE \E j \in N : b = t[j]
      <4>1. PICK j \in N : b = t[j]
        BY <3>2
      <4>2. byBlock'[t[j]] = K[j] /\ K[j] \in DOMAIN entries' /\ entries'[K[j]] = t[j]
        BY <1>4
      <4> QED BY <4>1, <4>2
    <3> QED BY <1>6, <3>1, <3>2
  <2> QED BY <2>1, <2>2, <2>3 DEF IndexSound
<1>8. ASSUME NEW b \in Blocks
      PROVE  /\ Holders(b)' = Holders(b) /\ Cardinality(Holders(b)) \in Nat
             /\ Cardinality(Holders(b)) <= refs'[b] /\ refs'[b] \in Nat
             /\ refs'[b] = Cardinality(Holders(b)) + (IF b \in DOMAIN byBlock' THEN 1 ELSE 0)
  <2>1. Holders(b)' = Holders(b) /\ Holders(b) \in SUBSET Caches
    BY DEF Holders, TableBlocks
  <2>2. Cardinality(Holders(b)) \in Nat
    BY <2>1, FiniteHolders
  <2>3. refs[b] = Cardinality(Holders(b)) + (IF b \in DOMAIN byBlock THEN 1 ELSE 0)
    BY DEF CacheInv, AllRefsOwned
  <2>4. CASE \E j \in N : t[j] = b
    <3>1. b \notin DOMAIN byBlock /\ b \in DOMAIN byBlock' /\ refs'[b] = refs[b] + 1
      BY <1>1, <1>4, <1>b, <2>4
    <3> QED BY <2>1, <2>2, <2>3, <3>1
  <2>5. CASE ~ \E j \in N : t[j] = b
    <3>1. refs'[b] = refs[b]
      BY <1>b, <2>5
    <3>2. b \in DOMAIN byBlock' => b \in DOMAIN byBlock
      BY <1>6, <2>5
    <3>3. b \in DOMAIN byBlock => b \in DOMAIN byBlock'
      BY <1>5
    <3>4. CASE b \in DOMAIN byBlock
      BY <2>1, <2>2, <2>3, <3>1, <3>3, <3>4
    <3>5. CASE b \notin DOMAIN byBlock
      BY <2>1, <2>2, <2>3, <3>1, <3>2, <3>5
    <3> QED BY <3>4, <3>5
  <2> QED BY <2>4, <2>5
<1>9. AllRefsOwned'
  BY <1>8 DEF AllRefsOwned
<1>10. KVTypeOK'
  <2>1. refs' \in [Blocks -> Nat]
    BY <1>8
  <2> QED BY <1>a, <2>1 DEF KVTypeOK
<1>11. TablesSound'
  BY <1>8, <1>a DEF TablesSound
<1>12. CachedContextTrue'
  <2> SUFFICES ASSUME NEW k \in DOMAIN entries', NEW i \in 1 .. BlockSize
               PROVE  kv[entries'[k]][i] = SubSeq(k, 1, Len(k) - BlockSize + i)
    BY DEF CachedContextTrue
  <2>1. CASE k \in DOMAIN entries
    BY <1>5, <1>a, <2>1 DEF CachedContextTrue
  <2>2. CASE \E j \in N : k = K[j]
    <3>1. PICK j \in N : k = K[j]
      BY <2>2
    <3>2. entries'[K[j]] = t[j]
      BY <1>4
    <3>3. kv[t[j]][i] = SubSeq(K[j], 1, Len(K[j]) - BlockSize + i)
      BY <1>1
    <3> QED BY <3>1, <3>2, <3>3
  <2> QED BY <1>6, <2>1, <2>2
<1> QED BY <1>7, <1>9, <1>10, <1>11, <1>12

(* The blocks insert registers: those of unknown keys, and of every key that
   insert skips the block is already the one registered. *)
LEMMA InsertStep == ASSUME CacheInv, NEW c \in Caches, Insert(c) PROVE CacheInv'
<1>a. KVTypeOK /\ TablesSound /\ ContextSound /\ PromptSound
  BY DEF CacheInv, KVInv
<1>1. /\ status[c] = "open" /\ prompt[c] # <<>> /\ numTokens[c] = Len(prompt[c])
      /\ prompt' = [prompt EXCEPT ![c] = <<>>]
      /\ UNCHANGED <<kv, table, numTokens, text, status>>
  BY DEF Insert
<1>2. ContextSound' /\ PromptSound'
  <2>1. ContextSound'
    BY <1>1, <1>a DEF ContextSound, ReadsOwnContext, HoldsWhatItNeeds, Slot, BlockOf, Offset, CeilDiv
  <2>2. PromptSound'
    BY <1>1, <1>a DEF PromptSound
  <2> QED BY <2>1, <2>2
<1>3. CASE ~ Enabled
  <2>1. UNCHANGED <<refs, entries, byBlock>>
    BY <1>3 DEF Insert, cacheVars
  <2>2. KVTypeOK' /\ TablesSound' /\ Balanced
    BY <1>1, <1>a, <2>1 DEF KVTypeOK, TablesSound, Balanced, Surplus, Holders, TableBlocks
  <2>3. IndexSound' /\ AllRefsOwned' /\ CachedContextTrue'
    BY <1>1, <2>1, <2>2, SameIndex
  <2> QED BY <1>2, <2>2, <2>3 DEF CacheInv, KVInv
<1>4. CASE Enabled
  <2> DEFINE ids == prompt[c]
             depths == {j \in 1 .. FullBlocks(ids) : j <= Len(table[c])}
             N == {j \in depths : KeyAt(ids, j) \notin DOMAIN entries
                                  /\ table[c][j] \notin DOMAIN byBlock}
             K == [j \in depths |-> KeyAt(ids, j)]
  <2>3. /\ refs' = [b \in Blocks |-> IF \E j \in N : table[c][j] = b THEN refs[b] + 1 ELSE refs[b]]
        /\ entries' = [k \in DOMAIN entries \cup {K[j] : j \in N} |->
             IF k \in DOMAIN entries THEN entries[k]
             ELSE table[c][CHOOSE j \in N : K[j] = k]]
        /\ byBlock' = [b \in DOMAIN byBlock \cup {table[c][j] : j \in N} |->
             IF b \in DOMAIN byBlock THEN byBlock[b]
             ELSE K[CHOOSE j \in N : table[c][j] = b]]
    BY <1>4, Zenon DEF Insert
  <2>4. N \in SUBSET (1 .. FullBlocks(prompt[c]))
    OBVIOUS
  <2>5. \A j \in N : K[j] = KeyAt(prompt[c], j) /\ K[j] \notin DOMAIN entries
                             /\ table[c][j] \notin DOMAIN byBlock
    OBVIOUS
  <2> HIDE DEF N, K
  <2>6. KVTypeOK' /\ TablesSound' /\ IndexSound' /\ AllRefsOwned' /\ CachedContextTrue'
    BY <1>1, <2>3, <2>4, <2>5, RegisterStep
  <2> QED BY <1>2, <2>6 DEF CacheInv, KVInv
<1> QED BY <1>3, <1>4

-----------------------------------------------------------------------------
LEMMA CacheInitInv == CacheInit => CacheInv
<1> SUFFICES ASSUME CacheInit PROVE CacheInv
  OBVIOUS
<1>1. KVInit /\ entries = <<>> /\ byBlock = <<>> /\ prompt = [c \in Caches |-> <<>>]
  BY DEF CacheInit
<1>2. KVInv /\ RefsExact
  BY <1>1, KVInitInv, KVInitSound
<1>3. DOMAIN entries = {} /\ DOMAIN byBlock = {}
  BY <1>1
<1>4. IndexSound /\ CachedContextTrue
  BY <1>3 DEF IndexSound, CachedContextTrue
<1>5. AllRefsOwned
  <2> SUFFICES ASSUME NEW b \in Blocks PROVE refs[b] = Cardinality(Holders(b)) + 0
    BY <1>3 DEF AllRefsOwned
  <2>1. refs[b] = Cardinality(Holders(b)) /\ refs[b] \in Nat
    BY <1>2 DEF RefsExact, KVInv, KVTypeOK
  <2> QED BY <2>1
<1>6. PromptSound
  BY <1>1 DEF PromptSound
<1> QED BY <1>2, <1>4, <1>5, <1>6 DEF CacheInv

(* Nothing is left to prefill of no prompt. *)
LEMMA PrefillHasPrompt == ASSUME CacheInv, NEW c \in Caches, Prefill(c) PROVE prompt[c] # <<>>
<1>1. numTokens[c] \in Nat /\ numTokens[c] < Len(prompt[c])
  BY MaxTokensAssumption DEF CacheInv, KVInv, KVTypeOK, Prefill
<1>2. Len(<<>>) = 0
  OBVIOUS
<1> QED BY <1>1, <1>2

LEMMA CacheInvStep == CacheInv /\ [CacheNext]_pcVars => CacheInv'
<1> SUFFICES ASSUME CacheInv, [CacheNext]_pcVars PROVE CacheInv'
  OBVIOUS
<1>1. ASSUME NEW c \in Caches, Open(c) PROVE CacheInv'
  BY <1>1, OpenStep
<1>2. ASSUME NEW c \in Caches, NEW ids \in Prompts, Match(c, ids) PROVE CacheInv'
  BY <1>2, MatchStep
<1>3. ASSUME NEW c \in Caches, Prefill(c) PROVE CacheInv'
  BY <1>3, PrefillStep, PrefillHasPrompt
<1>4. ASSUME NEW c \in Caches, Insert(c) PROVE CacheInv'
  BY <1>4, InsertStep
<1>5. ASSUME NEW c \in Caches, NEW t \in Tokens, Decode(c, t) PROVE CacheInv'
  BY <1>5, DecodeStep
<1>6. ASSUME NEW c \in Caches, NEW p \in Caches, Branch(p, c) PROVE CacheInv'
  BY <1>6, BranchStep
<1>7. ASSUME NEW c \in Caches, Release(c) PROVE CacheInv'
  BY <1>7, ReleaseStep
<1>8. ASSUME NEW n \in 1 .. Cardinality(Blocks), EnsureFree(n) PROVE CacheInv'
  BY <1>8, EnsureFreeStep
<1>9. ASSUME Clear PROVE CacheInv'
  BY <1>9, ClearStep
<1>10. ASSUME UNCHANGED pcVars PROVE CacheInv'
  <2>1. UNCHANGED <<refs, kv, table, numTokens, text, status, entries, byBlock, prompt>>
    BY <1>10 DEF pcVars, kvVars, cacheVars
  <2>2. KVTypeOK' /\ TablesSound'
    BY <2>1 DEF CacheInv, KVInv, KVTypeOK, TablesSound, Holders, TableBlocks
  <2>3. ContextSound'
    BY <2>1 DEF CacheInv, KVInv, ContextSound, ReadsOwnContext, HoldsWhatItNeeds, Slot, BlockOf,
                Offset, CeilDiv
  <2>4. IndexSound' /\ PromptSound' /\ CachedContextTrue'
    BY <2>1 DEF CacheInv, IndexSound, PromptSound, CachedContextTrue
  <2>5. AllRefsOwned'
    BY <2>1 DEF CacheInv, AllRefsOwned, Holders, TableBlocks
  <2> QED BY <2>2, <2>3, <2>4, <2>5 DEF CacheInv, KVInv
<1> QED BY <1>1, <1>2, <1>3, <1>4, <1>5, <1>6, <1>7, <1>8, <1>9, <1>10 DEF CacheNext

LEMMA CacheAlways == CacheSpec => []CacheInv
<1>1. CacheInit => CacheInv
  BY CacheInitInv
<1>2. CacheInv /\ [CacheNext]_pcVars => CacheInv'
  BY CacheInvStep
<1> QED BY <1>1, <1>2, PTL DEF CacheSpec

(* Match, attach, insert, evict, clear and free move references between the
   tables and the cache and lose none: the count of a block is the number of
   tables listing it plus the cache's own reference. *)
THEOREM NoReferenceLost == CacheSpec => []AllRefsOwned
<1>1. CacheInv => AllRefsOwned
  BY DEF CacheInv
<1> QED BY <1>1, CacheAlways, PTL

(* A cached block holds the entries of the prefix its key stands for, so that
   what match hands over is what the prefill would have computed. *)
THEOREM CachedBlocksTrue == CacheSpec => []CachedContextTrue
<1>1. CacheInv => CachedContextTrue
  BY DEF CacheInv
<1> QED BY <1>1, CacheAlways, PTL

(* Whatever was matched, forked, copied on write, evicted and reused before:
   a sequence that starts from cached blocks gathers its own context. *)
THEOREM CachedSequencesReadOwnContext == CacheSpec => []ReadsOwnContext
<1>1. CacheInv => ReadsOwnContext
  BY DEF CacheInv, KVInv, ContextSound
<1> QED BY <1>1, CacheAlways, PTL

(* insert skips no block: one whose key is unknown is not registered. *)
LEMMA InsertCaches ==
  ASSUME CacheInv, NEW c \in Caches, Insert(c), Enabled, NEW j \in 1 .. FullBlocks(prompt[c])
  PROVE  KeyAt(prompt[c], j) \in DOMAIN entries'
<1>1. status[c] = "open" /\ prompt[c] # <<>> /\ numTokens[c] = Len(prompt[c])
  BY DEF Insert
<1>2. PICK k, b : k = KeyAt(prompt[c], j) /\ b = table[c][j]
  OBVIOUS
<1>3. /\ j \in 1 .. Len(table[c]) /\ j \in Nat /\ k \in Seq(Tokens) /\ Len(k) = j * BlockSize
      /\ \A i \in 1 .. BlockSize : kv[b][i] = SubSeq(k, 1, Len(k) - BlockSize + i)
  BY <1>1, <1>2, FedBlocks
<1>4. b \in DOMAIN byBlock => k \in DOMAIN entries
  <2> SUFFICES ASSUME b \in DOMAIN byBlock PROVE k \in DOMAIN entries
    OBVIOUS
  <2>1. PICK h : h = byBlock[b]
    OBVIOUS
  <2>2. h \in DOMAIN entries /\ entries[h] = b /\ h \in Seq(Tokens)
    BY <2>1 DEF CacheInv, IndexSound
  <2>3. BlockSize \in Nat \ {0} /\ BlockSize \in 1 .. BlockSize /\ Len(h) \in Nat /\ Len(k) \in Nat
    BY <1>3, <2>2, BlockSizeAssumption
  <2>4. kv[b][BlockSize] = SubSeq(h, 1, Len(h) - BlockSize + BlockSize)
    BY <2>2, <2>3 DEF CacheInv, CachedContextTrue
  <2>5. kv[b][BlockSize] = SubSeq(k, 1, Len(k) - BlockSize + BlockSize)
    BY <1>3, <2>3
  <2>6. Len(h) - BlockSize + BlockSize = Len(h) /\ Len(k) - BlockSize + BlockSize = Len(k)
    BY <2>3
  <2>7. SubSeq(h, 1, Len(h)) = h /\ SubSeq(k, 1, Len(k)) = k
    BY <1>3, <2>2, SubSeqFull
  <2>8. h = k
    BY <2>4, <2>5, <2>6, <2>7
  <2> QED BY <2>2, <2>8
<1> DEFINE ids == prompt[c]
           depths == {i \in 1 .. FullBlocks(ids) : i <= Len(table[c])}
           N == {i \in depths : KeyAt(ids, i) \notin DOMAIN entries
                                /\ table[c][i] \notin DOMAIN byBlock}
           K == [i \in depths |-> KeyAt(ids, i)]
<1>5. DOMAIN entries' = DOMAIN entries \cup {K[i] : i \in N}
  <2>1. entries' = [h \in DOMAIN entries \cup {K[i] : i \in N} |->
             IF h \in DOMAIN entries THEN entries[h]
             ELSE table[c][CHOOSE i \in N : K[i] = h]]
    BY Zenon DEF Insert
  <2> QED BY <2>1
<1>6. j \in depths
  BY <1>3
<1>7. k \notin DOMAIN entries => j \in N
  BY <1>2, <1>4, <1>6
<1>8. K[j] = k
  BY <1>2, <1>6
<1> QED BY <1>2, <1>5, <1>7, <1>8

(* A prompt just prefilled is cached whole. *)
THEOREM PromptsAlwaysCached == CacheSpec => PromptsBecomeCached
<1>1. ASSUME CacheInv, [CacheNext]_pcVars
      PROVE  [\A c \in Caches :
               Enabled /\ prompt[c] # <<>> /\ prompt'[c] = <<>> /\ status'[c] = "open"
               => \A j \in 1 .. FullBlocks(prompt[c]) :
                    KeyAt(prompt[c], j) \in DOMAIN entries']_pcVars
  <2> SUFFICES ASSUME CacheNext, NEW c \in Caches, Enabled, prompt[c] # <<>>,
                      prompt'[c] = <<>>, status'[c] = "open"
               PROVE  \A j \in 1 .. FullBlocks(prompt[c]) : KeyAt(prompt[c], j) \in DOMAIN entries'
    BY <1>1
  <2>a. prompt \in [Caches -> Prompts \cup {<<>>}] /\ status \in [Caches -> {"closed", "open", "failed"}]
    BY <1>1 DEF CacheInv, PromptSound, KVInv, KVTypeOK
  <2>1. prompt'[c] # prompt[c]
    OBVIOUS
  <2>2. ASSUME NEW d \in Caches, NEW ids \in Prompts, Match(d, ids) PROVE FALSE
    <3>1. prompt[d] = <<>> /\ prompt' = [prompt EXCEPT ![d] = ids]
      BY <2>2 DEF Match
    <3> QED BY <2>1, <2>a, <3>1
  <2>3. ASSUME NEW d \in Caches, Release(d) PROVE FALSE
    <3>1. prompt' = [prompt EXCEPT ![d] = <<>>] /\ status' = [status EXCEPT ![d] = "closed"]
      BY <2>3 DEF Release, Free
    <3> QED BY <2>1, <2>a, <3>1
  <2>4. ASSUME NEW d \in Caches, \/ Open(d) \/ Prefill(d) \/ (\E t \in Tokens : Decode(d, t))
                                 \/ \E p \in Caches : Branch(p, d)
        PROVE  FALSE
    <3>1. UNCHANGED prompt
      BY <2>4 DEF Open, Prefill, Decode, Branch
    <3> QED BY <2>1, <3>1
  <2>5. ASSUME (\E n \in 1 .. Cardinality(Blocks) : EnsureFree(n)) \/ Clear PROVE FALSE
    <3>1. UNCHANGED prompt
      BY <2>5 DEF EnsureFree, Clear, Forget
    <3> QED BY <2>1, <3>1
  <2>6. ASSUME NEW d \in Caches, Insert(d) PROVE d = c
    <3>1. prompt' = [prompt EXCEPT ![d] = <<>>]
      BY <2>6 DEF Insert
    <3> QED BY <2>1, <2>a, <3>1
  <2>7. \E d \in Caches : Insert(d)
    BY <2>2, <2>3, <2>4, <2>5 DEF CacheNext
  <2>8. Insert(c)
    BY <2>6, <2>7
  <2> QED BY <1>1, <2>8, InsertCaches
<1> QED BY <1>1, CacheAlways, PTL DEF CacheSpec, PromptsBecomeCached

=============================================================================
