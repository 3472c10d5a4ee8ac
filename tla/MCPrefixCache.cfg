\* Four blocks of two slots, three sequences, prompts that share prefixes: reuse,
\* eviction under pressure, forks of a half-full tail, copies of it beside cached
\* blocks, and a pool that runs dry in mid-update.
CONSTANTS
    Blocks = {b1, b2, b3, b4}
    Caches = {c1, c2, c3}
    x = x
    y = y
    Tokens = {x, y}
    AnyBlock = TRUE
    BlockSize = 2
    MaxTokens = 5
    Prompts <- SomePrompts
    Enabled = TRUE
SYMMETRY Symmetry
SPECIFICATION CacheSpec
INVARIANTS
    AllRefsOwned
    CachedContextTrue
PROPERTIES
    PromptsBecomeCached
    NoSharedWrite
    ImplementsContiguous
