--------------------------- MODULE MCPrefixCache ---------------------------
(* PrefixCache for TLC. *)
EXTENDS PrefixCache, TLC

CONSTANTS x, y

(* Prompts that share one block or two, end on a boundary, or begin with the
   tokens of another one's second block. *)
SomePrompts == {<<x, x, y, y>>, <<x, x, y, y, x>>, <<y, y, x>>}

Symmetry == Permutations(Blocks) \cup Permutations(Caches)
=============================================================================
