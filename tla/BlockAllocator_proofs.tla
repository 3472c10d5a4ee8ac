------------------------ MODULE BlockAllocator_proofs ------------------------
(***************************************************************************)
(* For every pool size: the free list and the reference counts of          *)
(* BlockAllocator never disagree, and the allocator implements BlockPool.  *)
(***************************************************************************)
EXTENDS BlockAllocator, SequenceTheorems, TLAPS

Inv == TypeOK /\ FreeListExact

(* The initial list, reversed(range(n)), holds every block once. *)
LEMMA InitInv == Init => Inv
<1> SUFFICES ASSUME Init PROVE Inv
  OBVIOUS
<1> USE NumBlocksAssumption DEF Blocks
<1>1. free = [i \in 1 .. NumBlocks |-> NumBlocks - i] /\ refs = [b \in Blocks |-> 0]
  BY DEF Init
<1>2. /\ free \in Seq(Blocks) /\ Len(free) = NumBlocks
      /\ \A i \in 1 .. NumBlocks : free[i] = NumBlocks - i
  BY <1>1
<1>3. ASSUME NEW b \in Blocks
      PROVE  \E i \in 1 .. Len(free) : free[i] = b
  <2>1. NumBlocks - b \in 1 .. Len(free) /\ free[NumBlocks - b] = b
    BY <1>2
  <2> QED BY <2>1
<1>4. \A i, j \in 1 .. Len(free) : free[i] = free[j] => i = j
  BY <1>2
<1>5. refs \in [Blocks -> Nat] /\ \A b \in Blocks : refs[b] = 0
  BY <1>1
<1> QED BY <1>2, <1>3, <1>4, <1>5 DEF Inv, TypeOK, FreeListExact

(* The list after n pops from its end. *)
LEMMA PopFacts ==
  ASSUME NEW S, NEW s \in Seq(S), NEW n \in 0 .. Len(s)
  PROVE  /\ SubSeq(s, 1, Len(s) - n) \in Seq(S)
         /\ Len(SubSeq(s, 1, Len(s) - n)) = Len(s) - n
         /\ \A i \in 1 .. Len(s) - n : SubSeq(s, 1, Len(s) - n)[i] = s[i]
<1>1. Len(s) \in Nat /\ Len(s) - n \in Int /\ \A i \in 1 .. Len(s) - n : s[i] \in S
  OBVIOUS
<1> DEFINE t == SubSeq(s, 1, Len(s) - n)
<1>2. /\ t \in Seq(S)
      /\ Len(t) = IF 1 <= Len(s) - n THEN Len(s) - n - 1 + 1 ELSE 0
      /\ \A i \in 1 .. Len(s) - n - 1 + 1 : t[i] = s[1 + i - 1]
  BY <1>1, SubSeqProperties
<1> QED BY <1>1, <1>2

(* Every operation keeps the list and the counts in step. *)
LEMMA NextInv == Inv /\ [Next]_vars => Inv'
<1> SUFFICES ASSUME Inv, [Next]_vars PROVE Inv'
  OBVIOUS
<1>a. /\ free \in Seq(Blocks) /\ refs \in [Blocks -> Nat]
      /\ \A i, j \in 1 .. Len(free) : free[i] = free[j] => i = j
      /\ \A b \in Blocks : refs[b] = 0 <=> \E i \in 1 .. Len(free) : free[i] = b
      /\ Len(free) \in Nat
      /\ \A i \in 1 .. Len(free) : free[i] \in Blocks
  BY DEF Inv, TypeOK, FreeListExact
<1>b. ASSUME NEW n \in 1 .. Len(free),
             free' = SubSeq(free, 1, Len(free) - n),
             refs' = [b \in Blocks |-> IF b \in Popped(n) THEN 1 ELSE refs[b]]
      PROVE  Inv'
  <2>0. free \in Seq(Blocks) /\ Len(free) \in Nat /\ n \in 0 .. Len(free)
    BY <1>a
  <2>1. /\ free' \in Seq(Blocks)
        /\ Len(free') = Len(free) - n
        /\ \A i \in 1 .. Len(free) - n : free'[i] = free[i]
    BY <2>0, <1>b, PopFacts
  <2>2. \A i, j \in 1 .. Len(free') : free'[i] = free'[j] => i = j
    <3> SUFFICES ASSUME NEW i \in 1 .. Len(free'), NEW j \in 1 .. Len(free'),
                        free'[i] = free'[j]
                 PROVE  i = j
      OBVIOUS
    <3>1. i \in 1 .. Len(free) /\ j \in 1 .. Len(free) /\ free[i] = free[j]
      BY <2>0, <2>1
    <3> QED BY <1>a, <3>1
  <2>3. ASSUME NEW b \in Blocks
        PROVE refs'[b] = 0 <=> \E i \in 1 .. Len(free') : free'[i] = b
    <3>1. CASE b \in Popped(n)
      <4>1. PICK k \in Len(free) - n + 1 .. Len(free) : free[k] = b
        BY <3>1 DEF Popped
      <4>2. \A i \in 1 .. Len(free) - n : free[i] # b
        BY <1>a, <4>1
      <4> QED BY <1>b, <2>1, <3>1, <4>2
    <3>2. CASE b \notin Popped(n)
      <4>1. refs'[b] = refs[b]
        BY <1>b, <3>2
      <4>2. \A i \in Len(free) - n + 1 .. Len(free) : free[i] # b
        BY <3>2 DEF Popped
      <4>3. (\E i \in 1 .. Len(free) : free[i] = b)
               <=> (\E i \in 1 .. Len(free) - n : free[i] = b)
        BY <1>a, <4>2
      <4> QED BY <1>a, <2>1, <4>1, <4>3
    <3> QED BY <3>1, <3>2
  <2>4. refs' \in [Blocks -> Nat]
    BY <1>a, <1>b
  <2> QED BY <2>1, <2>2, <2>3, <2>4 DEF Inv, TypeOK, FreeListExact
<1>1. CASE Allocate
  <2>1. 1 \in 1 .. Len(free) /\ Popped(1) = {free[Len(free)]}
    BY <1>1, <1>a DEF Allocate, Popped
  <2>2. /\ free' = SubSeq(free, 1, Len(free) - 1)
        /\ refs' = [b \in Blocks |-> IF b \in Popped(1) THEN 1 ELSE refs[b]]
    BY <1>1, <1>a, <2>1 DEF Allocate
  <2> QED BY <1>b, <2>1, <2>2
<1>2. ASSUME NEW n \in 1 .. NumBlocks, AllocateMany(n) PROVE Inv'
  BY <1>a, <1>b, <1>2, NumBlocksAssumption DEF AllocateMany
<1>3. ASSUME NEW b \in Blocks, Incref(b) PROVE Inv'
  <2>1. refs' \in [Blocks -> Nat] /\ \A a \in Blocks : refs'[a] = 0 <=> refs[a] = 0
    BY <1>a, <1>3 DEF Incref
  <2>2. free' = free
    BY <1>3 DEF Incref
  <2> QED BY <1>a, <2>1, <2>2 DEF Inv, TypeOK, FreeListExact
<1>4. ASSUME NEW b \in Blocks, Decref(b) PROVE Inv'
  <2>1. /\ refs' \in [Blocks -> Nat]
        /\ \A a \in Blocks : refs'[a] = IF a = b THEN refs[b] - 1 ELSE refs[a]
        /\ refs[b] > 0
    BY <1>4, <1>a DEF Decref
  <2>2. CASE refs[b] = 1
    <3>1. free' = Append(free, b)
      BY <1>4, <2>2 DEF Decref
    <3>2. /\ free' \in Seq(Blocks)
          /\ Len(free') = Len(free) + 1
          /\ \A i \in 1 .. Len(free) : free'[i] = free[i]
          /\ free'[Len(free) + 1] = b
      BY <1>a, <3>1, AppendProperties
    <3>3. \A i \in 1 .. Len(free) : free[i] # b
      BY <1>a, <2>2
    <3>a. Len(free) \in Nat /\ 1 .. Len(free') = (1 .. Len(free)) \cup {Len(free) + 1}
      BY <1>a, <3>2
    <3>4. \A i, j \in 1 .. Len(free') : free'[i] = free'[j] => i = j
      <4> SUFFICES ASSUME NEW i \in 1 .. Len(free'), NEW j \in 1 .. Len(free'),
                          free'[i] = free'[j]
                   PROVE  i = j
        OBVIOUS
      <4>1. CASE i \in 1 .. Len(free) /\ j \in 1 .. Len(free)
        <5>1. free[i] = free[j]
          BY <3>2, <4>1
        <5> QED BY <1>a, <4>1, <5>1
      <4>2. CASE i = Len(free) + 1 \/ j = Len(free) + 1
        BY <3>2, <3>3, <3>a, <4>2
      <4> QED BY <3>a, <4>1, <4>2
    <3>5. \A a \in Blocks : (\E i \in 1 .. Len(free') : free'[i] = a)
                            <=> a = b \/ \E i \in 1 .. Len(free) : free[i] = a
      BY <3>a, <3>2
    <3>6. \A a \in Blocks : refs'[a] = 0 <=> \E i \in 1 .. Len(free') : free'[i] = a
      BY <1>a, <2>1, <2>2, <3>5
    <3> QED BY <2>1, <3>2, <3>4, <3>6 DEF Inv, TypeOK, FreeListExact
  <2>3. CASE refs[b] # 1
    <3>1. free' = free
      BY <1>4, <2>3 DEF Decref
    <3>2. \A a \in Blocks : refs'[a] = 0 <=> refs[a] = 0
      BY <1>a, <2>1, <2>3
    <3> QED BY <1>a, <2>1, <3>1, <3>2 DEF Inv, TypeOK, FreeListExact
  <2> QED BY <2>2, <2>3
<1>5. CASE UNCHANGED vars
  BY <1>5 DEF vars, Inv, TypeOK, FreeListExact
<1> QED BY <1>1, <1>2, <1>3, <1>4, <1>5 DEF Next

(* Type correctness of the allocator. *)
THEOREM TypeCorrect == Spec => []TypeOK
<1>1. Inv => TypeOK
  BY DEF Inv
<1> QED BY <1>1, InitInv, NextInv, PTL DEF Spec

(* The free list holds exactly the unreferenced blocks, each once: no
   sequence of allocate, allocate_many, incref and decref hands a block out
   twice or loses one. *)
THEOREM FreeListCorrect == Spec => []FreeListExact
<1>1. Inv => FreeListExact
  BY DEF Inv
<1> QED BY <1>1, InitInv, NextInv, PTL DEF Spec

(* The list-based allocator implements the pool its callers reason about. *)
THEOREM AllocatorImplementsPool == Spec => PoolSpec
<1>1. Init => Pool!Init
  BY DEF Init, Pool!Init
<1>2. ASSUME Inv, [Next]_vars PROVE [Pool!Next]_refs
  <2>a. /\ free \in Seq(Blocks) /\ refs \in [Blocks -> Nat]
        /\ Len(free) \in Nat
        /\ \A i \in 1 .. Len(free) : free[i] \in Blocks /\ refs[free[i]] = 0
    BY <1>2 DEF Inv, TypeOK, FreeListExact
  <2>1. CASE Allocate
    <3>1. Len(free) \in 1 .. Len(free)
      BY <2>1, <2>a DEF Allocate
    <3>2. {free[Len(free)]} \in SUBSET Pool!Free
      BY <2>a, <3>1 DEF Pool!Free
    <3>3. refs' = [b \in Blocks |-> IF b \in {free[Len(free)]} THEN 1 ELSE refs[b]]
      BY <2>1, <2>a, <3>1 DEF Allocate
    <3>4. Pool!Take({free[Len(free)]})
      BY <3>3 DEF Pool!Take
    <3> QED BY <3>2, <3>4 DEF Pool!Next
  <2>2. ASSUME NEW n \in 1 .. NumBlocks, AllocateMany(n) PROVE [Pool!Next]_refs
    <3>1. n <= Len(free) /\ n \in Nat \ {0}
      BY <2>2, NumBlocksAssumption DEF AllocateMany
    <3>2. Popped(n) \in SUBSET Pool!Free
      BY <2>a, <3>1 DEF Pool!Free, Popped
    <3>3. free[Len(free)] \in Popped(n)
      BY <2>a, <3>1 DEF Popped
    <3>4. Pool!Take(Popped(n))
      BY <2>2, <3>3 DEF AllocateMany, Pool!Take
    <3> QED BY <3>2, <3>4 DEF Pool!Next
  <2>3. ASSUME NEW b \in Blocks, Incref(b) PROVE [Pool!Next]_refs
    <3>1. refs[b] \in 1 .. MaxRefs - 1 /\ refs' = [refs EXCEPT ![b] = @ + 1]
      BY <2>a, <2>3, MaxRefsAssumption DEF Incref
    <3>2. Pool!Share(b)
      BY <3>1 DEF Pool!Share
    <3> QED BY <3>2 DEF Pool!Next
  <2>4. ASSUME NEW b \in Blocks, Decref(b) PROVE [Pool!Next]_refs
    <3>1. Pool!Drop(b)
      BY <2>4 DEF Decref, Pool!Drop
    <3> QED BY <3>1 DEF Pool!Next
  <2>5. CASE UNCHANGED vars
    BY <2>5 DEF vars
  <2> QED BY <1>2, <2>1, <2>2, <2>3, <2>4, <2>5 DEF Next
<1> QED BY <1>1, <1>2, InitInv, NextInv, PTL DEF Spec, PoolSpec, Pool!Spec
=============================================================================
