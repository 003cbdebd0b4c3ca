CONSTANTS
    Pios <- MCPios
    Cores = {core0, core1}
    NoCore = NoCore
    InstrCount <- MCInstrCount
    Programs <- MCPrograms
    Prog <- MCProg
    GpioBases = {0, 8, 16}
    PICO_PIO_VERSION = 1
    ParamAssertions = FALSE
    AssertsEnabled = TRUE
    AtOffsetInputs <- InRangeOffsets

SPECIFICATION Spec

INVARIANT TypeOK
INVARIANT ProgramsIntact
INVARIANT GpioCompatible

\* pio_set_gpio_base with programs loaded leaves the claim lock held, after
\* which no core can take it again: the code really stops there.
CHECK_DEADLOCK FALSE
