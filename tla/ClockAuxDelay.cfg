\* Boot and application calls by the careful callers of the passing run:
\* does the busy-wait of clock_configure lines 84-89, computed from the
\* frequency cache, outlast the ENABLE clear on its way to the output?
CONSTANTS
    Clocks <- MCClocks
    Glitchless <- MCGlitchless
    clk_ref = "clk_ref"
    clk_sys = "clk_sys"
    GlitchlessInput <- MCGlitchlessInput
    AuxInputs <- MCAuxInputs
    SysAuxZero = "pll_sys"
    OscFreq <- MCOscFreq
    Stoppable <- MCStoppable
    MaxFailures = 1
    FracBits = 16
    BootCalls <- MCBootCalls
    Calls <- AllCalls
    StopCalls = {}
    Plls <- MCPlls
    InitCtrl <- MCInitCtrl
    Periphs <- MCPeriphs
    PeriphClock <- MCPeriphClock
    NotReset <- MCNotReset
    LateUnreset <- MCLateUnreset
    CallerMay <- CarefulResusCaller
SPECIFICATION Spec
PROPERTY OutputStoppedAuxSafe
