\* One core calls get_rand_*; the compiler emits the high word's load first.
\* The heap is grown and trimmed by malloc, without the optimistic break.
CONSTANTS
    Callers = {core0}
    TimeBits = 4
    EscapeReset = 2
    EscapeValid = 5
    MaxTicks = 1
    ReadOrders = {"hi_first"}
    Null = 0
    End = 2
    StackLimit = 5
    Incrs <- MCIncrs
    Optimistic = FALSE
SPECIFICATION Spec
INVARIANT TypeOK
PROPERTY ReturnsFresh EscapeNotEarly CallEnds GrantedFits
