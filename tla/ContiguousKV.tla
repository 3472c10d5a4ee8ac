---------------------------- MODULE ContiguousKV ----------------------------
(***************************************************************************)
(* What the model's attention is promised by a KV cache: update appends    *)
(* the entries of the new tokens and returns the whole sequence, in order. *)
(* Sequences never see each other's entries.  There are no blocks here.    *)
(*                                                                         *)
(* The entry of a token depends on every token before it, so an entry is   *)
(* represented by its context: the tokens up to and including its own.     *)
(***************************************************************************)
EXTENDS Naturals, Sequences

CONSTANTS Caches,      \* the cache objects
          Tokens,      \* the vocabulary
          MaxTokens    \* bound on the tokens of a sequence

VARIABLE view          \* cache -> what a gather returns

Texts == UNION {[1 .. n -> Tokens] : n \in 0 .. MaxTokens}

Context(v) == IF v = <<>> THEN <<>> ELSE v[Len(v)]

Entries(context, new) ==
    [i \in 1 .. Len(new) |-> context \o SubSeq(new, 1, i)]

Init == view = [c \in Caches |-> <<>>]

AppendNew(c, new) ==
    view' = [view EXCEPT ![c] = @ \o Entries(Context(@), new)]

Copy(p, c) ==
    /\ view[c] = <<>>
    /\ view' = [view EXCEPT ![c] = view[p]]

Drop(c) == view' = [view EXCEPT ![c] = <<>>]

Next ==
    \E c \in Caches :
        \/ \E new \in Texts : AppendNew(c, new)
        \/ \E p \in Caches : Copy(p, c)
        \/ Drop(c)

Spec == Init /\ [][Next]_view
=============================================================================
