\* The application may move clk_sys while resus is armed; the resus handler
\* then preempts its clock_configure(clk_sys).
CONSTANTS
    Clocks <- MCClocks
    Glitchless <- MCGlitchless
    clk_ref = "clk_ref"
    clk_sys = "clk_sys"
    GlitchlessInput <- MCGlitchlessInput
    AuxInputs <- MCAuxInputs
    SysAuxZero = "pll_sys"
    OscFreq <- MCOscFreq
    Stoppable <- MCStoppable
    MaxFailures = 1
    FracBits = 16
    BootCalls <- MCBootCalls
    Calls <- AllCalls
    StopCalls = {}
    Plls <- MCPlls
    InitCtrl <- MCInitCtrl
    Periphs <- MCPeriphs
    PeriphClock <- MCPeriphClock
    NotReset <- MCNotReset
    LateUnreset <- MCLateUnreset
    CallerMay <- SysMovingCaller
SPECIFICATION Spec
PROPERTY ConfigureTerminates
