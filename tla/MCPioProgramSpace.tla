------------------------- MODULE MCPioProgramSpace -------------------------
(***************************************************************************)
(* PioProgramSpace instantiated for TLC: one PIO of 8 slots (the 32 of the *)
(* chip scaled down; the address field of a JMP shrinks with it), two      *)
(* cores, and three programs that between them exercise auto placement, a *)
(* fixed origin, JMP relocation and both GPIO windows.                     *)
(***************************************************************************)
EXTENDS PioProgramSpace

MCPios == {0}
MCInstrCount == 8

\* a JMP with condition cond to address addr, and a non-JMP (SET) word
JMP(cond, addr) == cond * MCInstrCount + addr
SET(x) == 57344 + x

MCPrograms == {"ws2812", "uart_tx", "fixed"}
MCProg ==
    [n \in MCPrograms |->
        CASE n = "ws2812"  -> [instrs |-> <<SET(1), JMP(2, 0), SET(0)>>,
                               origin |-> -1, used_gpio_ranges |-> 1,
                               pio_version |-> 0]
          [] n = "uart_tx" -> [instrs |-> <<JMP(5, 1), SET(3)>>,
                               origin |-> -1, used_gpio_ranges |-> 2,
                               pio_version |-> 0]
          [] n = "fixed"   -> [instrs |-> <<SET(7), JMP(0, 0)>>,
                               origin |-> 0, used_gpio_ranges |-> 4,
                               pio_version |-> 1]]

\* callers that respect the documented range of pio_add_program_at_offset
InRangeOffsets(n) == 0..(MCInstrCount - Len(MCProg[n].instrs))
\* callers that pass any offset below PIO_INSTRUCTION_COUNT
AnyOffsets(n) == 0..(MCInstrCount - 1)

\* offsets handed back to pio_remove_program: any program at any offset
AnyHandle == [pio : MCPios, prog : MCPrograms, offset : 0..(MCInstrCount - 1)]
StaleRemoveNext == NextWith(AnyHandle)
StaleRemoveSpec == Init /\ [][StaleRemoveNext]_vars
=============================================================================
