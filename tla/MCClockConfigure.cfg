\* Boot, application calls and resus, for callers that respect the
\* assumption of line 71, keep the aux source of a glitchless clock they
\* move to a non-aux input, and leave clk_sys and clk_ref to the resus
\* handler once it is armed.
CONSTANTS
    Clocks <- MCClocks
    Glitchless <- MCGlitchless
    clk_ref = "clk_ref"
    clk_sys = "clk_sys"
    GlitchlessInput <- MCGlitchlessInput
    AuxInputs <- MCAuxInputs
    SysAuxZero = "pll_sys"
    OscFreq <- MCOscFreq
    Stoppable <- MCStoppable
    MaxFailures = 1
    FracBits = 16
    BootCalls <- MCBootCalls
    Calls <- AllCalls
    StopCalls = {}
    Plls <- MCPlls
    InitCtrl <- MCInitCtrl
    Periphs <- MCPeriphs
    PeriphClock <- MCPeriphClock
    NotReset <- MCNotReset
    LateUnreset <- MCLateUnreset
    CallerMay <- CarefulResusCaller
SPECIFICATION Spec
INVARIANT TypeOK NoOverspeed
PROPERTY ReleasedKeepClock GlitchlessAuxSafe ConfigureTerminates PllInitSafe TicksFromRef ResusRestores
