\* One helper call from every start state.  After it returns the model has
\* nothing more to do, so the end state has no successor.
CONSTANTS
    PioStates <- MCPioStates
    PinValues <- MCPinValues
    PinMasks <- MCPinMasks
    GpioBases = {0, 16}
    PinArgs <- MCPinArgs
    PinCounts <- MCPinCounts
    Build = "arm"
    UsedMasks <- MCUsedMasks
    MaskProgs <- MCMaskProgs
    MaskOffsets <- MCMaskOffsets
    GuardTargets = {"rp2040", "arm", "riscv"}
    StackBottoms <- MCStackBottoms
    MpuStarts <- MCMpuStarts
    RomTable <- MCRomTable
    Callers = {"riscv", "arm_sec", "arm_nonsec"}
    CodeTables <- MCCodeTables
    WrapperCodes <- MCWrapperCodes
    ActivityMasks = {{}, {25}, {3, 25}}
    InterfaceMasks = {0, 2}
    ROM_FUNC_REBOOT <- RB
    ROM_FUNC_SET_NS_API_PERMISSION <- NP
    StoredVectorTable = TRUE
    VTABLE_FIRST_IRQ = 16
    NUM_IRQS = 52
    FlashVector <- MCFlashVector
    UNHANDLED = 8192
    RamGarbage <- MCRamGarbage
    PadsIeAtReset = {0, 25, 26, 29}
    MutexArrays <- MCMutexArrays
    Layouts <- MCLayouts
SPECIFICATION HelpersSpec
INVARIANT SetPinsExact MaskedSetExact ConsecutivePindirsExact AddPlacesFree GuardExact FuncsLookupExact MutexesInitialised VectorTableComplete
CHECK_DEADLOCK FALSE
