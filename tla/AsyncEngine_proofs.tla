------------------------- MODULE AsyncEngine_proofs -------------------------
(***************************************************************************)
(* For every set of requests, token budgets, batch size and any number of  *)
(* preemptions: no token is lost, doubled or reordered between the step    *)
(* thread that emits it and the connection it belongs to, and a request    *)
(* whose connection was closed is out of the engine or on its way out.     *)
(***************************************************************************)
EXTENDS AsyncEngine, SequenceTheorems, TLAPS

(* A list of requests without repetition. *)
Uniq(s) == \A i, j \in 1 .. Len(s) : s[i] = s[j] => i = j
List(s) == s \in Seq(Reqs) /\ Uniq(s)

StepPcs == {"off", "cancel", "apply", "scan", "drop", "dead", "admit", "accept", "retire",
            "decode", "end"}
Applying == {"apply", "scan", "drop", "dead"}

Types ==
    /\ List(waiting) /\ List(running) /\ List(st.batch)
    /\ st \in [pc : StepPcs, to : {"admit", "end"}, batch : Seq(Reqs), wanted : SUBSET Reqs,
               moved : BOOLEAN]
    /\ el \in [at : {"free", "scan", "emit", "done"},
               task : {"submit", "cancel", "kill", "loop"}, who : Reqs \cup {NoReq},
               moved : BOOLEAN]
    /\ el.task # "loop" => el.who \in Reqs
    /\ cancels \subseteq Reqs /\ streams \subseteq Reqs
    /\ conn \in [Reqs -> {"new", "submit", "error", "open", "refused", "cancel", "closed"}]
    /\ output \in [Reqs -> Nat]
    /\ {emitted, made, got, queue} \subseteq [Reqs -> Seq(Nat)]

(* A request is queued or runs, never both; the sequences that await their
   token are running; and there is one to preempt. *)
Places ==
    /\ ToSet(waiting) \cap ToSet(running) = {}
    /\ st.pc \in {"accept", "retire"} => ToSet(st.batch) \subseteq ToSet(running)
    /\ st.pc = "retire" => st.batch # <<>>
    /\ st.pc = "decode" => running # <<>>

(* A request that was not submitted, or is just being, is not in the engine;
   nothing was produced for one that was not submitted. *)
Unheard ==
    /\ el.at = "scan" => el.task = "submit" /\ conn[el.who] = "submit" /\ ~InEngine(el.who)
    /\ \A r \in Reqs : conn[r] = "new" =>
          /\ ~InEngine(r)
          /\ emitted[r] = <<>> /\ made[r] = <<>> /\ got[r] = <<>> /\ queue[r] = <<>>

(* cancel() for r is over, or about to be. *)
Returned(r) ==
    conn[r] = "closed" \/ (el.at # "free" /\ el.task = "cancel" /\ el.who = r)

(* An id recorded by cancel() stays recorded, or in the hands of the step
   thread, until the request is out of the engine; and a cancel() that did
   not time out has waited for the step thread to take it. *)
Pursued ==
    /\ st.pc \notin Applying => st.wanted = {}
    /\ st.pc \in {"scan", "drop"} => st.wanted \cap ToSet(running) = {}
    /\ \A r \in Reqs : Returned(r) => conn[r] \in {"cancel", "closed"}
    /\ \A r \in Reqs : InEngine(r) =>
          /\ conn[r] \in {"cancel", "closed"} => r \in cancels \cup st.wanted
          /\ Returned(r) /\ r \notin Slow => r \in st.wanted

Inv == Types /\ Places /\ Unheard /\ NoTokenLost /\ Pursued

-----------------------------------------------------------------------------
(* Lists. *)

LEMMA ListFacts ==
  ASSUME NEW s, List(s)
  PROVE  /\ Len(s) \in Nat /\ DOMAIN s = 1 .. Len(s) /\ s \in Seq(Reqs)
         /\ \A i \in 1 .. Len(s) : s[i] \in Reqs /\ s[i] \in ToSet(s)
         /\ ToSet(s) \subseteq Reqs
         /\ s = <<>> <=> Len(s) = 0
         /\ s = <<>> <=> ToSet(s) = {}
<1>1. Len(s) \in Nat /\ DOMAIN s = 1 .. Len(s) /\ s \in Seq(Reqs)
  BY LenProperties DEF List
<1>2. \A i \in 1 .. Len(s) : s[i] \in Reqs
  BY <1>1, ElementOfSeq
<1>3. s = <<>> <=> Len(s) = 0
  BY <1>1, EmptySeq
<1>4. ToSet(s) = {} <=> Len(s) = 0
  <2>1. Len(s) # 0 => 1 \in DOMAIN s
    BY <1>1
  <2>2. Len(s) = 0 => DOMAIN s = {}
    BY <1>1
  <2> QED BY <2>1, <2>2 DEF ToSet
<1> QED BY <1>1, <1>2, <1>3, <1>4 DEF ToSet

LEMMA EmptyList == List(<<>>) /\ ToSet(<<>>) = {} /\ Len(<<>>) = 0
BY EmptySeq DEF List, Uniq, ToSet

LEMMA AppendList ==
  ASSUME NEW s, List(s), NEW x \in Reqs, x \notin ToSet(s)
  PROVE  /\ List(Append(s, x)) /\ Len(Append(s, x)) = Len(s) + 1
         /\ ToSet(Append(s, x)) = ToSet(s) \cup {x} /\ Append(s, x) # <<>>
<1>1. PICK t : t = Append(s, x)
  OBVIOUS
<1>2. Len(s) \in Nat /\ s \in Seq(Reqs)
  BY ListFacts
<1>3. /\ t \in Seq(Reqs) /\ Len(t) = Len(s) + 1 /\ t # <<>>
      /\ \A i \in 1 .. Len(s) : t[i] = s[i]
      /\ t[Len(s) + 1] = x
  BY <1>1, <1>2, AppendProperties
<1>4. \A i \in 1 .. Len(s) : t[i] # x
  BY <1>3 DEF ToSet
<1>5. Uniq(t)
  BY <1>2, <1>3, <1>4 DEF Uniq, List
<1>6. ToSet(t) = ToSet(s) \cup {x}
  BY <1>2, <1>3 DEF ToSet
<1> QED BY <1>1, <1>3, <1>5, <1>6 DEF List

LEMMA ConcatList ==
  ASSUME NEW s, List(s), NEW t, List(t), ToSet(s) \cap ToSet(t) = {}
  PROVE  /\ List(s \o t) /\ Len(s \o t) = Len(s) + Len(t)
         /\ ToSet(s \o t) = ToSet(s) \cup ToSet(t)
<1>1. PICK u : u = s \o t
  OBVIOUS
<1>2. Len(s) \in Nat /\ Len(t) \in Nat /\ s \in Seq(Reqs) /\ t \in Seq(Reqs)
  BY ListFacts
<1>3. /\ u \in Seq(Reqs) /\ Len(u) = Len(s) + Len(t)
      /\ \A i \in 1 .. Len(s) + Len(t) : u[i] = IF i <= Len(s) THEN s[i] ELSE t[i - Len(s)]
  BY <1>1, <1>2, ConcatProperties
<1>4. \A i \in 1 .. Len(s) : u[i] = s[i] /\ u[i] \in ToSet(s)
  BY <1>2, <1>3 DEF ToSet
<1>5. \A i \in 1 .. Len(u) : i > Len(s) =>
         i - Len(s) \in 1 .. Len(t) /\ u[i] = t[i - Len(s)] /\ u[i] \in ToSet(t)
  BY <1>2, <1>3 DEF ToSet
<1>6. Uniq(u)
  <2>1. ASSUME NEW i \in 1 .. Len(u), NEW j \in 1 .. Len(u), u[i] = u[j] PROVE i = j
    <3>1. CASE i <= Len(s) /\ j <= Len(s)
      BY <1>2, <1>3, <1>4, <2>1, <3>1, SMTT(40) DEF List, Uniq
    <3>2. CASE i > Len(s) /\ j > Len(s)
      <4>1. i - Len(s) = j - Len(s)
        BY <1>5, <2>1, <3>2 DEF List, Uniq
      <4> QED BY <1>2, <1>3, <4>1
    <3>3. CASE ~ (i <= Len(s) <=> j <= Len(s))
      <4>1. u[i] \in ToSet(s) \cap ToSet(t) \/ u[j] \in ToSet(s) \cap ToSet(t)
        BY <1>2, <1>3, <1>4, <1>5, <2>1, <3>3
      <4> QED BY <4>1
    <3> QED BY <1>2, <1>3, <3>1, <3>2, <3>3
  <2> QED BY <2>1 DEF Uniq
<1>7. ToSet(u) = ToSet(s) \cup ToSet(t)
  <2>1. ASSUME NEW i \in 1 .. Len(u) PROVE u[i] \in ToSet(s) \cup ToSet(t)
    BY <1>2, <1>3, <1>4, <1>5
  <2>2. ASSUME NEW i \in 1 .. Len(s) PROVE s[i] \in ToSet(u)
    BY <1>2, <1>3, <1>4 DEF ToSet
  <2>3. ASSUME NEW i \in 1 .. Len(t) PROVE t[i] \in ToSet(u)
    <3>1. Len(s) + i \in 1 .. Len(u) /\ Len(s) + i > Len(s) /\ (Len(s) + i) - Len(s) = i
      BY <1>2, <1>3
    <3>2. u[Len(s) + i] = t[i]
      BY <1>5, <3>1
    <3> QED BY <3>1, <3>2 DEF ToSet
  <2>4. DOMAIN u = 1 .. Len(u) /\ DOMAIN s = 1 .. Len(s) /\ DOMAIN t = 1 .. Len(t)
    BY <1>2, <1>3
  <2> QED BY <2>1, <2>2, <2>3, <2>4 DEF ToSet
<1> QED BY <1>1, <1>3, <1>6, <1>7 DEF List

(* A part of a list. *)
LEMMA PartList ==
  ASSUME NEW s, List(s), NEW m \in Nat \ {0}, NEW n \in Nat, n <= Len(s), m <= n + 1
  PROVE  /\ List(SubSeq(s, m, n)) /\ Len(SubSeq(s, m, n)) = n - m + 1
         /\ ToSet(SubSeq(s, m, n)) = {s[i] : i \in m .. n}
<1>1. PICK t : t = SubSeq(s, m, n)
  OBVIOUS
<1>2. Len(s) \in Nat /\ \A i \in 1 .. Len(s) : s[i] \in Reqs
  BY ListFacts
<1>3. \A i \in m .. n : s[i] \in Reqs
  BY <1>2
<1>4. /\ t \in Seq(Reqs)
      /\ Len(t) = IF m <= n THEN n - m + 1 ELSE 0
      /\ \A i \in 1 .. n - m + 1 : t[i] = s[m + i - 1]
  BY <1>1, <1>3, SubSeqProperties
<1>5. Len(t) = n - m + 1
  BY <1>4
<1>6. Uniq(t)
  <2>1. ASSUME NEW i \in 1 .. Len(t), NEW j \in 1 .. Len(t), t[i] = t[j] PROVE i = j
    <3>1. m + i - 1 \in 1 .. Len(s) /\ m + j - 1 \in 1 .. Len(s) /\ s[m + i - 1] = s[m + j - 1]
      BY <1>2, <1>4, <1>5, <2>1
    <3>2. m + i - 1 = m + j - 1
      BY <3>1 DEF List, Uniq
    <3> QED BY <1>5, <3>2
  <2> QED BY <2>1 DEF Uniq
<1>7. ToSet(t) = {s[i] : i \in m .. n}
  <2>1. ASSUME NEW i \in 1 .. Len(t) PROVE t[i] \in {s[k] : k \in m .. n}
    <3>1. m + i - 1 \in m .. n
      BY <1>5
    <3> QED BY <1>4, <1>5, <3>1
  <2>2. ASSUME NEW k \in m .. n PROVE s[k] \in ToSet(t)
    <3>1. k - m + 1 \in 1 .. Len(t) /\ m + (k - m + 1) - 1 = k
      BY <1>5
    <3>2. t[k - m + 1] = s[k]
      BY <1>4, <1>5, <3>1
    <3> QED BY <3>1, <3>2 DEF ToSet
  <2> QED BY <2>1, <2>2 DEF ToSet
<1> QED BY <1>1, <1>4, <1>5, <1>6, <1>7 DEF List

LEMMA WithoutList ==
  ASSUME NEW s, List(s), NEW r \in ToSet(s)
  PROVE  List(Without(s, r)) /\ ToSet(Without(s, r)) = ToSet(s) \ {r}
         /\ Len(Without(s, r)) = Len(s) - 1
<1>1. PICK i : i = CHOOSE j \in 1 .. Len(s) : s[j] = r
  OBVIOUS
<1>2. i \in 1 .. Len(s) /\ s[i] = r
  BY <1>1 DEF ToSet
<1>3. Len(s) \in Nat
  BY ListFacts
<1>4. PICK a, b : a = SubSeq(s, 1, i - 1) /\ b = SubSeq(s, i + 1, Len(s))
  OBVIOUS
<1>5. List(a) /\ Len(a) = i - 1 /\ ToSet(a) = {s[j] : j \in 1 .. i - 1}
  <2>1. i - 1 \in Nat /\ i - 1 <= Len(s) /\ 1 <= (i - 1) + 1 /\ i - 1 - 1 + 1 = i - 1
    BY <1>2, <1>3
  <2> QED BY <1>4, <2>1, PartList
<1>6. List(b) /\ Len(b) = Len(s) - i /\ ToSet(b) = {s[j] : j \in i + 1 .. Len(s)}
  <2>1. /\ i + 1 \in Nat \ {0} /\ i + 1 <= Len(s) + 1 /\ Len(s) <= Len(s)
        /\ Len(s) - (i + 1) + 1 = Len(s) - i
    BY <1>2, <1>3
  <2>2. PICK m, n : m = i + 1 /\ n = Len(s)
    OBVIOUS
  <2>3. m \in Nat \ {0} /\ n \in Nat /\ n <= Len(s) /\ m <= n + 1
    BY <1>3, <2>1, <2>2
  <2>4. /\ List(SubSeq(s, m, n)) /\ Len(SubSeq(s, m, n)) = n - m + 1
        /\ ToSet(SubSeq(s, m, n)) = {s[j] : j \in m .. n}
    BY <2>3, PartList
  <2> QED BY <1>4, <2>1, <2>2, <2>4
<1>7. \A j, k \in 1 .. Len(s) : s[j] = s[k] => j = k
  BY DEF List, Uniq
<1>8. ToSet(a) \cap ToSet(b) = {}
  <2>1. ASSUME NEW j \in 1 .. i - 1, NEW k \in i + 1 .. Len(s) PROVE s[j] # s[k]
    <3>1. j \in 1 .. Len(s) /\ k \in 1 .. Len(s) /\ j # k
      BY <1>2, <1>3
    <3> QED BY <1>7, <3>1
  <2> QED BY <1>5, <1>6, <2>1
<1>9. /\ List(a \o b) /\ Len(a \o b) = Len(a) + Len(b) /\ ToSet(a \o b) = ToSet(a) \cup ToSet(b)
  BY <1>5, <1>6, <1>8, ConcatList
<1>10. ToSet(a) \cup ToSet(b) = ToSet(s) \ {r}
  <2>1. ASSUME NEW x \in ToSet(a) \cup ToSet(b) PROVE x \in ToSet(s) \ {r}
    <3>1. PICK j \in 1 .. Len(s) : j # i /\ x = s[j]
      BY <1>2, <1>3, <1>5, <1>6
    <3> QED BY <1>2, <1>7, <3>1 DEF ToSet
  <2>2. ASSUME NEW x \in ToSet(s) \ {r} PROVE x \in ToSet(a) \cup ToSet(b)
    <3>1. PICK j \in 1 .. Len(s) : x = s[j]
      BY DEF ToSet
    <3>2. j \in 1 .. i - 1 \/ j \in i + 1 .. Len(s)
      BY <1>2, <1>3, <3>1
    <3> QED BY <1>5, <1>6, <3>1, <3>2
  <2> QED BY <2>1, <2>2
<1>11. Without(s, r) = a \o b
  BY <1>1, <1>4 DEF Without
<1>12. Len(a) + Len(b) = Len(s) - 1
  BY <1>2, <1>3, <1>5, <1>6
<1> QED BY <1>9, <1>10, <1>11, <1>12

LEMMA TailList ==
  ASSUME NEW s, List(s), s # <<>>
  PROVE  /\ List(Tail(s)) /\ Len(Tail(s)) = Len(s) - 1 /\ Head(s) \in ToSet(s)
         /\ Head(s) \in Reqs /\ ToSet(Tail(s)) = ToSet(s) \ {Head(s)}
<1>1. Len(s) \in Nat \ {0} /\ s \in Seq(Reqs)
  BY ListFacts
<1>2. PICK t : t = Tail(s)
  OBVIOUS
<1>3. /\ t \in Seq(Reqs) /\ Len(t) = Len(s) - 1 /\ Head(s) = s[1] /\ Head(s) \in Reqs
      /\ \A i \in 1 .. Len(s) - 1 : t[i] = s[i + 1]
  BY <1>1, <1>2, HeadTailProperties
<1>4. \A j, k \in 1 .. Len(s) : s[j] = s[k] => j = k
  BY DEF List, Uniq
<1>5. Uniq(t)
  <2>1. ASSUME NEW i \in 1 .. Len(t), NEW j \in 1 .. Len(t), t[i] = t[j] PROVE i = j
    <3>1. i + 1 \in 1 .. Len(s) /\ j + 1 \in 1 .. Len(s) /\ s[i + 1] = s[j + 1]
      BY <1>1, <1>3, <2>1
    <3>2. i + 1 = j + 1
      BY <1>4, <3>1
    <3> QED BY <1>1, <1>3, <3>2
  <2> QED BY <2>1 DEF Uniq
<1>6. ToSet(t) = ToSet(s) \ {Head(s)}
  <2>1. ASSUME NEW i \in 1 .. Len(t) PROVE t[i] \in ToSet(s) \ {Head(s)}
    <3>1. i + 1 \in 1 .. Len(s) /\ i + 1 # 1 /\ 1 \in 1 .. Len(s) /\ t[i] = s[i + 1]
      BY <1>1, <1>3
    <3> QED BY <1>3, <1>4, <3>1 DEF ToSet
  <2>2. ASSUME NEW k \in 1 .. Len(s), s[k] # Head(s) PROVE s[k] \in ToSet(t)
    <3>1. k - 1 \in 1 .. Len(t) /\ (k - 1) + 1 = k
      BY <1>1, <1>3, <2>2
    <3>2. t[k - 1] = s[k]
      BY <1>3, <3>1
    <3> QED BY <3>1, <3>2 DEF ToSet
  <2> QED BY <2>1, <2>2 DEF ToSet
<1>7. Head(s) \in ToSet(s)
  BY <1>1, <1>3 DEF ToSet
<1> QED BY <1>2, <1>3, <1>5, <1>6, <1>7 DEF List

LEMMA LastList ==
  ASSUME NEW s, List(s), s # <<>>
  PROVE  /\ List(Front(s)) /\ Last(s) \in ToSet(s) /\ Last(s) \in Reqs
         /\ ToSet(Front(s)) = ToSet(s) \ {Last(s)}
<1>1. Len(s) \in Nat \ {0} /\ DOMAIN s = 1 .. Len(s) /\ \A i \in 1 .. Len(s) : s[i] \in Reqs
  BY ListFacts, LenProperties DEF List
<1>2. PICK n : n = Len(s) - 1
  OBVIOUS
<1>3. n \in Nat /\ n <= Len(s) /\ 1 \in Nat \ {0} /\ 1 <= n + 1 /\ Len(s) = n + 1
  BY <1>1, <1>2
<1>4. List(SubSeq(s, 1, n)) /\ ToSet(SubSeq(s, 1, n)) = {s[i] : i \in 1 .. n}
  BY <1>3, PartList
<1>5. Front(s) = SubSeq(s, 1, n) /\ Last(s) = s[n + 1]
  BY <1>1, <1>2 DEF Front, Last
<1>6. \A j, k \in 1 .. Len(s) : s[j] = s[k] => j = k
  BY DEF List, Uniq
<1>7. ASSUME NEW x PROVE x \in {s[i] : i \in 1 .. n} <=> x \in ToSet(s) \ {s[n + 1]}
  <2>1. ASSUME NEW i \in 1 .. n, x = s[i] PROVE x \in ToSet(s) \ {s[n + 1]}
    <3>1. i \in 1 .. Len(s) /\ n + 1 \in 1 .. Len(s) /\ i # n + 1
      BY <1>3
    <3> QED BY <1>1, <1>6, <2>1, <3>1 DEF ToSet
  <2>2. ASSUME x \in ToSet(s) \ {s[n + 1]} PROVE x \in {s[i] : i \in 1 .. n}
    <3>1. PICK i \in 1 .. Len(s) : x = s[i]
      BY <1>1, <2>2 DEF ToSet
    <3>2. i \in 1 .. n
      BY <1>1, <1>2, <2>2, <3>1
    <3> QED BY <3>1, <3>2
  <2> QED BY <2>1, <2>2
<1>8. s[n + 1] \in ToSet(s) /\ s[n + 1] \in Reqs
  BY <1>1, <1>2 DEF ToSet
<1> QED BY <1>4, <1>5, <1>7, <1>8

-----------------------------------------------------------------------------
(* Every step keeps the invariant. *)

LEMMA InitInv == Init => Inv
<1> SUFFICES ASSUME Init PROVE Inv
  OBVIOUS
<1>1. Types
  BY EmptyList, EmptySeq DEF Init, Types, Off, Free, Drained, StepPcs
<1>2. Places
  BY EmptyList DEF Init, Places, Off
<1>3. Unheard
  BY EmptyList DEF Init, Unheard, Free, Drained, InEngine
<1>4. NoTokenLost
  BY DEF Init, NoTokenLost
<1>5. Pursued
  BY EmptyList DEF Init, Pursued, Returned, Off, Free, InEngine, Applying
<1> QED BY <1>1, <1>2, <1>3, <1>4, <1>5 DEF Inv

LEMMA SubmitInv ==
  ASSUME Inv, NEW r \in Reqs, Submit(r)
  PROVE  Inv'
<1> USE DEF Inv, Submit, core, loopSide
<1>1. Types'
  BY DEF Types, Section
<1>2. Places'
  BY DEF Places
<1>3. Unheard'
  BY DEF Types, Unheard, Section, InEngine
<1>4. NoTokenLost'
  <2>1. got[r] = <<>> /\ queue[r] = <<>> /\ emitted[r] = <<>> /\ made[r] = <<>>
    BY DEF Unheard
  <2>2. <<>> \o <<>> \o <<>> = <<>>
    BY ConcatEmptySeq, EmptySeq
  <2> QED BY <2>1, <2>2 DEF NoTokenLost
<1>5. Pursued'
  BY DEF Types, Pursued, Returned, InEngine, Section, Unheard, Free
<1> QED BY <1>1, <1>2, <1>3, <1>4, <1>5

LEMMA ScanRaisesInv ==
  ASSUME Inv, ScanRaises
  PROVE  Inv'
<1> USE DEF Inv, ScanRaises, core, loopSide
<1>1. Types'
  BY DEF Types, Free
<1>2. Places'
  BY DEF Places
<1>3. Unheard'
  BY DEF Types, Unheard, Free, InEngine
<1>4. NoTokenLost'
  BY DEF NoTokenLost
<1>5. Pursued'
  BY DEF Types, Pursued, Returned, InEngine, Free, Unheard
<1> QED BY <1>1, <1>2, <1>3, <1>4, <1>5

LEMMA AddedInv ==
  ASSUME Inv, Added
  PROVE  Inv'
<1> USE DEF Inv, Added, core, loopSide
<1>1. el.who \in Reqs /\ conn[el.who] = "submit" /\ el.task = "submit"
      /\ el.who \notin ToSet(waiting) /\ el.who \notin ToSet(running)
  BY DEF Types, Unheard, InEngine
<1>2. /\ List(Append(waiting, el.who))
      /\ ToSet(Append(waiting, el.who)) = ToSet(waiting) \cup {el.who}
  BY <1>1, AppendList DEF Types
<1>3. List(waiting') /\ ToSet(waiting') \subseteq ToSet(waiting) \cup {el.who}
  BY <1>2 DEF Types
<1>4. /\ st' \in [pc : StepPcs, to : {"admit", "end"}, batch : Seq(Reqs), wanted : SUBSET Reqs,
                  moved : BOOLEAN]
      /\ st'.pc = st.pc /\ st'.batch = st.batch /\ st'.wanted = st.wanted
  BY DEF Types
<1>5. /\ el' \in [at : {"free", "scan", "emit", "done"},
                  task : {"submit", "cancel", "kill", "loop"}, who : Reqs \cup {NoReq},
                  moved : BOOLEAN]
      /\ el'.at = "emit" /\ el'.who = el.who /\ el'.task = el.task
  BY DEF Types
<1>6. Types'
  BY <1>1, <1>3, <1>4, <1>5 DEF Types
<1>7. Places'
  BY <1>1, <1>3, <1>4 DEF Places
<1>8. Unheard'
  BY <1>1, <1>3, <1>5 DEF Unheard, InEngine
<1>9. NoTokenLost'
  BY DEF NoTokenLost
<1>10. Pursued'
  BY <1>1, <1>3, <1>4, <1>5 DEF Pursued, Returned, InEngine
<1> QED BY <1>6, <1>7, <1>8, <1>9, <1>10

LEMMA FanEmitInv ==
  ASSUME Inv, FanEmit
  PROVE  Inv'
<1> USE DEF Inv, FanEmit, core, loopSide
<1>1. \A r \in Reqs : queue[r] \in Seq(Nat) /\ emitted[r] \in Seq(Nat) /\ got[r] \in Seq(Nat)
  BY DEF Types
<1>2. \A r \in Reqs : queue[r] \o emitted[r] \in Seq(Nat)
  BY <1>1, ConcatProperties
<1>3. queue' \in [Reqs -> Seq(Nat)] /\ Drained \in [Reqs -> Seq(Nat)]
  BY <1>1, <1>2, EmptySeq DEF Drained
<1>4. /\ el' \in [at : {"free", "scan", "emit", "done"},
                  task : {"submit", "cancel", "kill", "loop"}, who : Reqs \cup {NoReq},
                  moved : BOOLEAN]
      /\ el'.at = "done" /\ el'.who = el.who /\ el'.task = el.task
  BY DEF Types
<1>5. Types'
  BY <1>3, <1>4 DEF Types
<1>6. Places'
  BY DEF Places
<1>7. Unheard'
  <2>1. ASSUME NEW r \in Reqs, conn[r] = "new" PROVE queue'[r] = <<>> /\ emitted'[r] = <<>>
    <3>1. queue[r] = <<>> /\ emitted[r] = <<>>
      BY <2>1 DEF Unheard
    <3>2. <<>> \o <<>> = <<>>
      BY ConcatEmptySeq, EmptySeq
    <3> QED BY <3>1, <3>2 DEF Drained
  <2> QED BY <1>4, <2>1 DEF Unheard, InEngine
<1>8. NoTokenLost'
  <2>1. ASSUME NEW r \in streams PROVE got[r] \o queue'[r] \o emitted'[r] = made[r]
    <3>1. r \in Reqs
      BY DEF Types
    <3>2. PICK g, q, e : g = got[r] /\ q = queue[r] /\ e = emitted[r]
      OBVIOUS
    <3>3. g \in Seq(Nat) /\ q \in Seq(Nat) /\ e \in Seq(Nat)
      BY <1>1, <3>1, <3>2
    <3>4. (g \o q) \o e = g \o (q \o e)
      BY <3>3, ConcatAssociative, SMTT(40)
    <3>5. q \o e \in Seq(Nat) /\ g \o (q \o e) \in Seq(Nat)
      BY <3>3, ConcatProperties
    <3>6. (g \o (q \o e)) \o <<>> = g \o (q \o e)
      BY <3>5, ConcatEmptySeq
    <3>7. queue'[r] = q \o e /\ emitted'[r] = <<>>
      BY <3>1, <3>2 DEF Drained
    <3>8. (g \o q) \o e = made[r]
      BY <3>2 DEF NoTokenLost
    <3> QED BY <3>2, <3>4, <3>6, <3>7, <3>8
  <2> QED BY <2>1 DEF NoTokenLost
<1>9. Pursued'
  BY <1>4 DEF Pursued, Returned, InEngine
<1> QED BY <1>5, <1>6, <1>7, <1>8, <1>9

LEMMA FanDoneInv ==
  ASSUME Inv, FanDone
  PROVE  Inv'
<1> USE DEF Inv, FanDone, core, loopSide
<1>1. /\ streams' \subseteq streams
      /\ conn' \in [Reqs -> {"new", "submit", "error", "open", "refused", "cancel", "closed"}]
      /\ \A r \in Reqs : conn'[r] = "new" => conn[r] = "new"
      /\ \A r \in Reqs : conn'[r] \in {"cancel", "closed"} =>
           conn[r] = conn'[r] \/ Returned(r)
  BY ZenonT(40) DEF Resume, Types, Returned
<1>2. Types'
  BY <1>1 DEF Types, Free
<1>3. Places'
  BY DEF Places
<1>4. Unheard'
  BY <1>1 DEF Unheard, InEngine, Free
<1>5. NoTokenLost'
  BY <1>1 DEF NoTokenLost
<1>6. Pursued'
  <2>1. \A r \in Reqs : Returned(r)' => conn'[r] = "closed"
    BY DEF Returned, Free
  <2>2. \A r \in Reqs : conn'[r] = "closed" => Returned(r)
    BY <1>1 DEF Returned
  <2> QED BY <1>1, <2>1, <2>2 DEF Pursued, InEngine
<1> QED BY <1>2, <1>3, <1>4, <1>5, <1>6

(* A token moved from the head of the queue to the end of what was sent. *)
LEMMA MoveHead ==
  ASSUME NEW g \in Seq(Nat), NEW q \in Seq(Nat), q # <<>>
  PROVE  Append(g, Head(q)) \o Tail(q) = g \o q
<1>1. PICK k, t, a, b : /\ k = Append(g, Head(q)) /\ t = Tail(q)
                        /\ a = k \o t /\ b = g \o q
  OBVIOUS
<1>2. PICK m, n : m = Len(g) /\ n = Len(q) - 1
  OBVIOUS
<1>3. m \in Nat /\ n \in Nat /\ Len(q) = n + 1
  BY <1>2, LenProperties, EmptySeq
<1>4. /\ Head(q) = q[1] /\ Head(q) \in Nat /\ t \in Seq(Nat) /\ Len(t) = n
      /\ \A i \in 1 .. n : t[i] = q[i + 1]
  BY <1>1, <1>2, HeadTailProperties
<1>5. /\ k \in Seq(Nat) /\ Len(k) = m + 1 /\ k[m + 1] = q[1]
      /\ \A i \in 1 .. m : k[i] = g[i]
  BY <1>1, <1>2, <1>4, AppendProperties
<1>6. /\ a \in Seq(Nat) /\ Len(a) = Len(k) + Len(t)
      /\ \A i \in 1 .. Len(k) + Len(t) : a[i] = IF i <= Len(k) THEN k[i] ELSE t[i - Len(k)]
  BY <1>1, <1>4, <1>5, ConcatProperties
<1>7. /\ b \in Seq(Nat) /\ Len(b) = Len(g) + Len(q)
      /\ \A i \in 1 .. Len(g) + Len(q) : b[i] = IF i <= Len(g) THEN g[i] ELSE q[i - Len(g)]
  BY <1>1, ConcatProperties
<1>8. /\ Len(a) = m + 1 + n /\ Len(b) = m + 1 + n
      /\ \A i \in 1 .. m + 1 + n : a[i] = IF i <= m + 1 THEN k[i] ELSE t[i - (m + 1)]
      /\ \A i \in 1 .. m + 1 + n : b[i] = IF i <= m THEN g[i] ELSE q[i - m]
  <2>1. Len(k) = m + 1 /\ Len(t) = n /\ Len(g) = m /\ Len(q) = n + 1
    BY <1>2, <1>3, <1>4, <1>5
  <2>2. m + (n + 1) = m + 1 + n
    BY <1>3
  <2> QED BY <1>6, <1>7, <2>1, <2>2
<1>9. ASSUME NEW i \in 1 .. m + 1 + n PROVE a[i] = b[i]
  <2>1. CASE i <= m
    <3>1. i \in 1 .. m /\ i <= m + 1
      BY <1>3, <2>1
    <3> QED BY <1>5, <1>8, <2>1, <3>1
  <2>2. CASE i = m + 1
    <3>1. i <= m + 1 /\ ~ (i <= m) /\ i - m = 1
      BY <1>3, <2>2
    <3> QED BY <1>5, <1>8, <2>2, <3>1
  <2>3. CASE i > m + 1
    <3>1. /\ ~ (i <= m + 1) /\ ~ (i <= m) /\ i - (m + 1) \in 1 .. n
          /\ (i - (m + 1)) + 1 = i - m
      BY <1>3, <2>3
    <3> QED BY <1>4, <1>8, <3>1
  <2> QED BY <1>3, <2>1, <2>2, <2>3
<1>10. a = b
  BY <1>6, <1>7, <1>8, <1>9, SeqEqual
<1> QED BY <1>1, <1>10

LEMMA TakeTokenInv ==
  ASSUME Inv, NEW r \in Reqs, TakeToken(r)
  PROVE  Inv'
<1> USE DEF Inv, TakeToken, core, loopSide
<1>1. PICK g, q, h, t : g = got[r] /\ q = queue[r] /\ h = Head(q) /\ t = Tail(q)
  OBVIOUS
<1>2. g \in Seq(Nat) /\ q \in Seq(Nat) /\ q # <<>> /\ emitted[r] \in Seq(Nat)
  BY <1>1 DEF Types
<1>3. h \in Nat /\ t \in Seq(Nat) /\ Append(g, h) \in Seq(Nat)
  BY <1>1, <1>2, HeadTailProperties, AppendProperties
<1>4. /\ got' = [got EXCEPT ![r] = Append(g, h)] /\ queue' = [queue EXCEPT ![r] = t]
      /\ got' \in [Reqs -> Seq(Nat)] /\ queue' \in [Reqs -> Seq(Nat)]
  BY <1>1, <1>3 DEF Types
<1>5. Types'
  BY <1>4 DEF Types
<1>6. Places'
  BY DEF Places
<1>7. Unheard'
  BY <1>4 DEF Unheard, InEngine, Types
<1>8. Append(g, h) \o t = g \o q
  BY <1>1, <1>2, MoveHead
<1>9. NoTokenLost'
  <2>1. \A c \in Reqs \ {r} : got'[c] = got[c] /\ queue'[c] = queue[c]
    BY <1>4 DEF Types
  <2>2. got'[r] \o queue'[r] = got[r] \o queue[r]
    BY <1>1, <1>4, <1>8 DEF Types
  <2>3. ASSUME NEW c \in streams PROVE got'[c] \o queue'[c] = got[c] \o queue[c]
    BY <2>1, <2>2 DEF Types
  <2>4. streams' = streams /\ emitted' = emitted /\ made' = made
    OBVIOUS
  <2> QED BY <2>3, <2>4 DEF NoTokenLost
<1>10. Pursued'
  BY DEF Pursued, Returned, InEngine
<1> QED BY <1>5, <1>6, <1>7, <1>9, <1>10

LEMMA StreamEndsInv ==
  ASSUME Inv, NEW r \in Reqs, StreamEnds(r)
  PROVE  Inv'
<1> USE DEF Inv, StreamEnds, Closing, core, loopSide
<1>1. Types'
  BY DEF Types
<1>2. Places'
  BY DEF Places
<1>3. Unheard'
  BY DEF Types, Unheard, Free, InEngine
<1>4. NoTokenLost'
  BY DEF NoTokenLost
<1>5. Pursued'
  BY DEF Types, Pursued, Returned, InEngine, Free
<1> QED BY <1>1, <1>2, <1>3, <1>4, <1>5

LEMMA CancelReturnsInv ==
  ASSUME Inv, NEW r \in Reqs, CancelReturns(r)
  PROVE  Inv'
<1> USE DEF Inv, CancelReturns, Section, core, loopSide
<1>1. Types'
  BY DEF Types
<1>2. Places'
  BY DEF Places
<1>3. Unheard'
  BY DEF Unheard, InEngine
<1>4. NoTokenLost'
  BY DEF NoTokenLost
<1>5. Pursued'
  BY DEF Types, Pursued, Returned, InEngine, Free
<1> QED BY <1>1, <1>2, <1>3, <1>4, <1>5

LEMMA KillInv ==
  ASSUME Inv, NEW r \in Reqs, Kill(r) \/ KillReturns(r) \/ Disconnect(r)
  PROVE  Inv'
<1> USE DEF Inv, Kill, KillReturns, Disconnect, Section, core, loopSide
<1>1. Types'
  <2>1. CASE Kill(r)
    BY <2>1 DEF Types
  <2>2. CASE KillReturns(r)
    BY <2>2 DEF Types
  <2>3. CASE Disconnect(r)
    BY <2>3 DEF Types
  <2> QED BY <2>1, <2>2, <2>3
<1>2. Places'
  BY DEF Places
<1>3. Unheard'
  BY DEF Unheard, InEngine, Free
<1>4. NoTokenLost'
  BY DEF NoTokenLost
<1>5. Pursued'
  BY DEF Types, Pursued, Returned, InEngine, Free
<1> QED BY <1>1, <1>2, <1>3, <1>4, <1>5

LEMMA LoopInv ==
  ASSUME Inv, Loop
  PROVE  Inv'
<1> USE DEF Inv, Loop, StartStep, IdlePass, StepReturns, Section, core, loopSide
<1>1. Types'
  <2>1. CASE StartStep
    BY <2>1 DEF Types, StepPcs
  <2>2. CASE IdlePass
    BY <2>2 DEF Types
  <2>3. CASE StepReturns
    BY <2>3, EmptyList, EmptySeq DEF Types, Off, StepPcs
  <2> QED BY <2>1, <2>2, <2>3
<1>2. Places'
  BY EmptyList DEF Places, Off, Types
<1>3. Unheard'
  BY DEF Unheard, InEngine, Free
<1>4. NoTokenLost'
  BY DEF NoTokenLost
<1>5. Pursued'
  <2>1. ~HasWork => \A r \in Reqs : ~InEngine(r)
    BY EmptyList DEF HasWork, InEngine
  <2>2. CASE StartStep
    BY <2>2 DEF Types, Pursued, Returned, InEngine, Free, Applying
  <2>3. CASE IdlePass
    BY <2>1, <2>3 DEF Types, Pursued, Returned, InEngine, Free, Applying
  <2>4. CASE StepReturns
    BY <2>4 DEF Types, Pursued, Returned, InEngine, Free, Applying, Off
  <2> QED BY <2>2, <2>3, <2>4
<1> QED BY <1>1, <1>2, <1>3, <1>4, <1>5

(* The steps of the step thread that move neither a request nor a token. *)
LEMMA StepPcInv ==
  ASSUME Inv, \/ TakeCancels \/ ScanWaiting \/ Scanned \/ CancelsDone \/ AdmitEnd \/ Decode
              \/ AcceptEos \/ Accepted
  PROVE  Inv'
<1> USE DEF Inv, TakeCancels, ScanWaiting, Scanned, CancelsDone, AdmitEnd, Decode, AcceptEos,
            Accepted, core, loopSide
<1>1. Types'
  <2>1. CASE TakeCancels
    BY <2>1 DEF Types, StepPcs
  <2>2. CASE ScanWaiting \/ Scanned \/ AdmitEnd \/ AcceptEos
    <3>1. PICK p \in StepPcs : st' = [st EXCEPT !.pc = p]
      BY <2>2 DEF StepPcs
    <3>2. UNCHANGED <<core, cancels, emitted, el, loopSide, made>>
      BY <2>2
    <3> QED BY <3>1, <3>2, ZenonT(40) DEF Types
  <2>3. CASE CancelsDone
    BY <2>3 DEF Types, StepPcs
  <2>4. CASE Decode
    BY <2>4 DEF Types, StepPcs, List
  <2>5. CASE Accepted
    BY <2>5 DEF Types, StepPcs
  <2> QED BY <2>1, <2>2, <2>3, <2>4, <2>5
<1>2. Places'
  BY EmptyList, ZenonT(40) DEF Places, Types
<1>3. Unheard'
  BY DEF Unheard, InEngine
<1>4. NoTokenLost'
  BY DEF NoTokenLost
<1>5. Pursued'
  <2>1. CASE TakeCancels
    BY <2>1 DEF Types, Pursued, Returned, InEngine, Applying
  <2>2. CASE ScanWaiting \/ Scanned
    BY <2>2 DEF Types, Pursued, Returned, InEngine, Applying
  <2>3. CASE CancelsDone
    <3>1. \A r \in st.wanted : ~InEngine(r)
      BY <2>3 DEF Pursued, InEngine
    <3> QED BY <2>3, <3>1 DEF Types, Pursued, Returned, InEngine, Applying
  <2>4. CASE AdmitEnd \/ Decode \/ AcceptEos \/ Accepted
    BY <2>4 DEF Types, Pursued, Returned, InEngine, Applying
  <2> QED BY <2>1, <2>2, <2>3, <2>4
<1> QED BY <1>1, <1>2, <1>3, <1>4, <1>5

(* A request leaves the batch with an outcome. *)
LEMMA CancelRunningInv ==
  ASSUME Inv, NEW r \in Reqs, CancelRunning(r)
  PROVE  Inv'
<1> USE DEF Inv, CancelRunning, core, loopSide
<1>1. List(running') /\ ToSet(running') = ToSet(running) \ {r}
  BY WithoutList DEF Types
<1>2. Types'
  BY <1>1 DEF Types
<1>3. Places'
  BY <1>1 DEF Places
<1>4. Unheard'
  BY <1>1 DEF Unheard, InEngine
<1>5. NoTokenLost'
  BY DEF NoTokenLost
<1>6. Pursued'
  BY <1>1 DEF Pursued, Returned, InEngine, Types
<1> QED BY <1>2, <1>3, <1>4, <1>5, <1>6

LEMMA DisturbsTypes ==
  ASSUME Types, Disturbs
  PROVE  /\ el' \in [at : {"free", "scan", "emit", "done"},
                     task : {"submit", "cancel", "kill", "loop"}, who : Reqs \cup {NoReq},
                     moved : BOOLEAN]
         /\ el'.at = el.at /\ el'.task = el.task /\ el'.who = el.who
BY DEF Types, Disturbs

LEMMA CancelWaitingInv ==
  ASSUME Inv, NEW r \in Reqs, CancelWaiting(r)
  PROVE  Inv'
<1> USE DEF Inv, CancelWaiting, core, loopSide
<1>1. List(waiting') /\ ToSet(waiting') = ToSet(waiting) \ {r}
  BY WithoutList DEF Types
<1>2. /\ el' \in [at : {"free", "scan", "emit", "done"},
                  task : {"submit", "cancel", "kill", "loop"}, who : Reqs \cup {NoReq},
                  moved : BOOLEAN]
      /\ el'.at = el.at /\ el'.task = el.task /\ el'.who = el.who
  BY DisturbsTypes
<1>3. Types'
  BY <1>1, <1>2 DEF Types
<1>4. Places'
  BY <1>1 DEF Places
<1>5. Unheard'
  BY <1>1, <1>2 DEF Unheard, InEngine
<1>6. NoTokenLost'
  BY DEF NoTokenLost
<1>7. Pursued'
  BY <1>1, <1>2 DEF Pursued, Returned, InEngine, Types
<1> QED BY <1>3, <1>4, <1>5, <1>6, <1>7

LEMMA AdmitPopInv ==
  ASSUME Inv, AdmitPop
  PROVE  Inv'
<1> USE DEF Inv, AdmitPop, core, loopSide
<1>1. PICK h : h = Head(waiting)
  OBVIOUS
<1>2. /\ List(waiting') /\ h \in ToSet(waiting) /\ h \in Reqs
      /\ ToSet(waiting') = ToSet(waiting) \ {h}
  BY <1>1, TailList DEF Types
<1>3. h \notin ToSet(running)
  BY <1>2 DEF Places
<1>4. List(running') /\ ToSet(running') = ToSet(running) \cup {h} /\ running' # <<>>
  BY <1>1, <1>2, <1>3, AppendList DEF Types
<1>5. List(<<h>>) /\ ToSet(<<h>>) = {h}
  <2>1. List(Append(<<>>, h)) /\ ToSet(Append(<<>>, h)) = ToSet(<<>>) \cup {h}
    BY <1>2, EmptyList, AppendList
  <2>2. Append(<<>>, h) = <<h>>
    OBVIOUS
  <2> QED BY <2>1, <2>2, EmptyList
<1>6. /\ st' \in [pc : StepPcs, to : {"admit", "end"}, batch : Seq(Reqs), wanted : SUBSET Reqs,
                  moved : BOOLEAN]
      /\ st'.pc = "accept" /\ st'.batch = <<h>> /\ st'.wanted = st.wanted
  BY <1>1, <1>5 DEF Types, StepPcs, List
<1>7. /\ el' \in [at : {"free", "scan", "emit", "done"},
                  task : {"submit", "cancel", "kill", "loop"}, who : Reqs \cup {NoReq},
                  moved : BOOLEAN]
      /\ el'.at = el.at /\ el'.task = el.task /\ el'.who = el.who
  BY DisturbsTypes
<1>8. \A r \in Reqs : InEngine(r)' <=> InEngine(r)
  BY <1>2, <1>4 DEF InEngine
<1>9. Types'
  BY <1>2, <1>4, <1>5, <1>6, <1>7 DEF Types
<1>10. Places'
  BY <1>2, <1>3, <1>4, <1>5, <1>6 DEF Places
<1>11. Unheard'
  <2>1. el.at = "scan" => el.who \in Reqs
    BY DEF Unheard, Types
  <2> QED BY <1>7, <1>8, <2>1 DEF Unheard
<1>12. NoTokenLost'
  BY DEF NoTokenLost
<1>13. Pursued'
  BY <1>6, <1>7, <1>8 DEF Pursued, Returned, Applying
<1> QED BY <1>9, <1>10, <1>11, <1>12, <1>13

LEMMA PreemptInv ==
  ASSUME Inv, Preempt
  PROVE  Inv'
<1> USE DEF Inv, Preempt, core, loopSide
<1>1. PICK v : v = Last(running)
  OBVIOUS
<1>2. running # <<>>
  BY DEF Places
<1>3. /\ List(running') /\ v \in ToSet(running) /\ v \in Reqs
      /\ ToSet(running') = ToSet(running) \ {v}
  BY <1>1, <1>2, LastList DEF Types
<1>4. List(<<v>>) /\ ToSet(<<v>>) = {v}
  <2>1. List(Append(<<>>, v)) /\ ToSet(Append(<<>>, v)) = ToSet(<<>>) \cup {v}
    BY <1>3, EmptyList, AppendList
  <2>2. Append(<<>>, v) = <<v>>
    OBVIOUS
  <2> QED BY <2>1, <2>2, EmptyList
<1>5. List(waiting') /\ ToSet(waiting') = {v} \cup ToSet(waiting)
  <2>1. ToSet(<<v>>) \cap ToSet(waiting) = {}
    BY <1>3, <1>4 DEF Places
  <2>2. waiting' = <<v>> \o waiting
    BY <1>1
  <2>3. PICK u, w : u = <<v>> /\ w = waiting
    OBVIOUS
  <2>4. List(u) /\ List(w) /\ ToSet(u) \cap ToSet(w) = {}
    BY <1>4, <2>1, <2>3 DEF Types
  <2>5. List(u \o w) /\ ToSet(u \o w) = ToSet(u) \cup ToSet(w)
    BY <2>4, ConcatList
  <2> QED BY <1>4, <2>2, <2>3, <2>5
<1>6. /\ st' \in [pc : StepPcs, to : {"admit", "end"}, batch : Seq(Reqs), wanted : SUBSET Reqs,
                  moved : BOOLEAN]
      /\ st'.pc = "end" /\ st'.batch = st.batch /\ st'.wanted = st.wanted
  BY DEF Types, StepPcs
<1>7. /\ el' \in [at : {"free", "scan", "emit", "done"},
                  task : {"submit", "cancel", "kill", "loop"}, who : Reqs \cup {NoReq},
                  moved : BOOLEAN]
      /\ el'.at = el.at /\ el'.task = el.task /\ el'.who = el.who
  BY DisturbsTypes
<1>8. \A r \in Reqs : InEngine(r)' <=> InEngine(r)
  BY <1>3, <1>5 DEF InEngine
<1>9. Types'
  <2>1. output' \in [Reqs -> Nat]
    BY DEF Types
  <2> QED BY <1>3, <1>5, <1>6, <1>7, <2>1 DEF Types
<1>10. Places'
  BY <1>3, <1>5, <1>6 DEF Places
<1>11. Unheard'
  <2>1. el.at = "scan" => el.who \in Reqs
    BY DEF Unheard, Types
  <2> QED BY <1>7, <1>8, <2>1 DEF Unheard
<1>12. NoTokenLost'
  BY DEF NoTokenLost
<1>13. Pursued'
  BY <1>6, <1>7, <1>8 DEF Pursued, Returned, Applying
<1> QED BY <1>9, <1>10, <1>11, <1>12, <1>13

(* A token appended to what is buffered is appended to the whole. *)
LEMMA AppendLast ==
  ASSUME NEW g \in Seq(Nat), NEW e \in Seq(Nat), NEW k \in Nat
  PROVE  g \o Append(e, k) = Append(g \o e, k)
<1>1. <<k>> \in Seq(Nat) /\ g \o e \in Seq(Nat)
  BY ConcatProperties
<1>2. Append(e, k) = e \o <<k>> /\ Append(g \o e, k) = (g \o e) \o <<k>>
  BY <1>1, AppendIsConcat
<1>3. (g \o e) \o <<k>> = g \o (e \o <<k>>)
  BY <1>1, ConcatAssociative
<1> QED BY <1>2, <1>3

LEMMA AcceptTokenInv ==
  ASSUME Inv, AcceptToken
  PROVE  Inv'
<1> USE DEF Inv
<1>0. /\ st.pc = "accept" /\ st.batch # <<>>
      /\ waiting' = waiting /\ running' = running /\ cancels' = cancels /\ el' = el
      /\ streams' = streams /\ queue' = queue /\ conn' = conn /\ got' = got
  BY DEF AcceptToken, loopSide
<1>1. PICK r, k : r = Head(st.batch) /\ k = output[r] + 1
  OBVIOUS
<1>2. /\ List(Tail(st.batch)) /\ r \in ToSet(st.batch) /\ r \in Reqs
      /\ ToSet(Tail(st.batch)) = ToSet(st.batch) \ {r}
  BY <1>0, <1>1, TailList DEF Types
<1>3. r \in ToSet(running) /\ k \in Nat
  <2>1. ToSet(st.batch) \subseteq ToSet(running)
    BY <1>0 DEF Places
  <2>2. output[r] \in Nat
    BY <1>2 DEF Types
  <2> QED BY <1>1, <1>2, <2>1, <2>2
<1>4. /\ output' = [output EXCEPT ![r] = k]
      /\ emitted' = [emitted EXCEPT ![r] = Append(@, k)]
      /\ made' = [made EXCEPT ![r] = Append(@, k)]
  BY <1>1 DEF AcceptToken
<1>5. emitted[r] \in Seq(Nat) /\ made[r] \in Seq(Nat) /\ got[r] \in Seq(Nat) /\ queue[r] \in Seq(Nat)
  BY <1>2 DEF Types
<1>6. Append(emitted[r], k) \in Seq(Nat) /\ Append(made[r], k) \in Seq(Nat)
  BY <1>3, <1>5, AppendProperties
<1>7. st' = [st EXCEPT !.pc = "retire"] \/ st' = [st EXCEPT !.batch = Tail(@)]
  BY <1>1 DEF AcceptToken
<1>8. /\ st' \in [pc : StepPcs, to : {"admit", "end"}, batch : Seq(Reqs), wanted : SUBSET Reqs,
                  moved : BOOLEAN]
      /\ st'.pc \in {"accept", "retire"} /\ st'.wanted = st.wanted
      /\ List(st'.batch) /\ ToSet(st'.batch) \subseteq ToSet(st.batch)
      /\ st'.pc = "retire" => st'.batch # <<>>
  <2>1. CASE st' = [st EXCEPT !.pc = "retire"]
    BY <1>0, <2>1 DEF Types, StepPcs
  <2>2. CASE st' = [st EXCEPT !.batch = Tail(@)]
    BY <1>0, <1>2, <2>2 DEF Types, StepPcs, List
  <2> QED BY <1>7, <2>1, <2>2
<1>9. Types'
  <2>1. output \in [Reqs -> Nat] /\ emitted \in [Reqs -> Seq(Nat)] /\ made \in [Reqs -> Seq(Nat)]
    BY DEF Types
  <2>2. output' \in [Reqs -> Nat] /\ emitted' \in [Reqs -> Seq(Nat)] /\ made' \in [Reqs -> Seq(Nat)]
    BY <1>3, <1>4, <1>6, <2>1
  <2> QED BY <1>0, <1>8, <2>2 DEF Types
<1>10. Places'
  BY <1>0, <1>8 DEF Places
<1>11. conn[r] # "new"
  BY <1>2, <1>3 DEF Unheard, InEngine
<1>12. Unheard'
  <2>1. ASSUME NEW c \in Reqs, conn[c] = "new"
        PROVE  emitted'[c] = emitted[c] /\ made'[c] = made[c]
    BY <1>4, <1>11, <2>1 DEF Types
  <2> QED BY <1>0, <2>1 DEF Unheard, InEngine
<1>13. NoTokenLost'
  <2>1. \A c \in Reqs \ {r} : emitted'[c] = emitted[c] /\ made'[c] = made[c]
    BY <1>4 DEF Types
  <2>2. emitted'[r] = Append(emitted[r], k) /\ made'[r] = Append(made[r], k)
    BY <1>2, <1>4 DEF Types
  <2>3. ASSUME r \in streams PROVE got[r] \o queue[r] \o emitted'[r] = made'[r]
    <3>1. PICK g, e : g = got[r] \o queue[r] /\ e = emitted[r]
      OBVIOUS
    <3>2. g \in Seq(Nat) /\ e \in Seq(Nat)
      BY <1>5, <3>1, ConcatProperties
    <3>3. g \o Append(e, k) = Append(g \o e, k)
      BY <1>3, <3>2, AppendLast
    <3>4. g \o e = made[r]
      BY <2>3, <3>1 DEF NoTokenLost
    <3> QED BY <2>2, <3>1, <3>3, <3>4
  <2>4. ASSUME NEW c \in streams PROVE got[c] \o queue[c] \o emitted'[c] = made'[c]
    <3>1. CASE c = r
      BY <2>3, <3>1
    <3>2. CASE c # r
      BY <2>1, <3>2 DEF NoTokenLost, Types
    <3> QED BY <3>1, <3>2
  <2> QED BY <1>0, <2>4 DEF NoTokenLost
<1>14. Pursued'
  BY <1>0, <1>8 DEF Pursued, Returned, InEngine, Applying
<1> QED BY <1>9, <1>10, <1>12, <1>13, <1>14

LEMMA RetireInv ==
  ASSUME Inv, Retire
  PROVE  Inv'
<1> USE DEF Inv, Retire, core, loopSide
<1>1. PICK r : r = Head(st.batch)
  OBVIOUS
<1>2. st.batch # <<>>
  BY DEF Places
<1>3. /\ List(Tail(st.batch)) /\ r \in ToSet(st.batch) /\ r \in Reqs
      /\ ToSet(Tail(st.batch)) = ToSet(st.batch) \ {r}
  BY <1>1, <1>2, TailList DEF Types
<1>4. r \in ToSet(running)
  BY <1>3 DEF Places
<1>5. List(running') /\ ToSet(running') = ToSet(running) \ {r}
  BY <1>1, <1>4, WithoutList DEF Types
<1>6. /\ st' \in [pc : StepPcs, to : {"admit", "end"}, batch : Seq(Reqs), wanted : SUBSET Reqs,
                  moved : BOOLEAN]
      /\ st'.pc = "accept" /\ st'.wanted = st.wanted /\ st'.batch = Tail(st.batch)
  BY <1>3 DEF Types, StepPcs, List
<1>7. Types'
  BY <1>3, <1>5, <1>6 DEF Types
<1>8. Places'
  BY <1>3, <1>5, <1>6 DEF Places
<1>9. Unheard'
  BY <1>5 DEF Unheard, InEngine
<1>10. NoTokenLost'
  BY DEF NoTokenLost
<1>11. Pursued'
  BY <1>5, <1>6 DEF Pursued, Returned, InEngine, Applying
<1> QED BY <1>7, <1>8, <1>9, <1>10, <1>11

LEMMA NextInv ==
  ASSUME Inv, [Next]_vars
  PROVE  Inv'
<1>1. CASE StepThread
  BY <1>1, StepPcInv, CancelRunningInv, CancelWaitingInv, AdmitPopInv, PreemptInv,
     AcceptTokenInv, RetireInv DEF StepThread
<1>2. CASE Loop
  BY <1>2, LoopInv
<1>3. CASE SectionStep
  BY <1>3, ScanRaisesInv, AddedInv, FanEmitInv, FanDoneInv DEF SectionStep
<1>4. ASSUME NEW r \in Reqs,
             Connection(r) \/ Submit(r) \/ Kill(r) \/ KillReturns(r) \/ Disconnect(r)
      PROVE  Inv'
  BY <1>4, TakeTokenInv, StreamEndsInv, CancelReturnsInv, SubmitInv, KillInv DEF Connection
<1>5. CASE UNCHANGED vars
  <2> USE <1>5 DEF vars, core, loopSide, Inv
  <2>1. Types'
    BY DEF Types
  <2>2. Places' /\ Unheard'
    BY DEF Places, Unheard, InEngine
  <2>3. NoTokenLost' /\ Pursued'
    BY DEF NoTokenLost, Pursued, Returned, InEngine
  <2> QED BY <2>1, <2>2, <2>3
<1> QED BY <1>1, <1>2, <1>3, <1>4, <1>5 DEF Next

LEMMA Invariance == Spec => []Inv
<1>1. Init => Inv
  BY InitInv
<1>2. Inv /\ [Next]_vars => Inv'
  BY NextInv
<1> QED BY <1>1, <1>2, PTL DEF Spec

(* Between _accept_token on the step thread and _token_stream on the event
   loop no token is lost, doubled or reordered: what a registered stream was
   sent, holds, and has coming is what the engine emitted for it. *)
THEOREM TokensDelivered == Spec => []NoTokenLost
<1>1. Inv => NoTokenLost
  BY DEF Inv
<1> QED BY <1>1, Invariance, PTL

(* A request whose connection is closed is out of the engine, or a step has
   taken its id over (and drops it, or died with it), unless its cancel()
   timed out. *)
THEOREM AbandonedLeaves == Spec => []AbandonedIsGone
<1>1. Inv => AbandonedIsGone
  BY DEF Inv, Pursued, AbandonedIsGone, Returned
<1> QED BY <1>1, Invariance, PTL
=============================================================================
