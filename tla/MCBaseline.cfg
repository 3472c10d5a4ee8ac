\* Two slots of four tokens, two layers, four requests in every order.
CONSTANTS
    fits = fits
    grows = grows
    huge = huge
    small = small
    Reqs = {fits, grows, huge, small}
    PromptLen <- Prompts
    MaxNew <- Budgets
    NumSlots = 2
    MaxSeqLen = 4
    NumLayers = 2
SPECIFICATION Spec
CHECK_DEADLOCK FALSE
INVARIANTS
    SlotsReturned
    ReadsOwnSlot
