---------------------------- MODULE MCWordHelpers ----------------------------
(* The helpers that work on whole 32-bit register or bitmap words: the PIO *)
(* pin helpers on two start states, with values that cross every 5-bit    *)
(* chunk boundary of pio_sm_set_pins and reach pins 30 and 31; the PIO    *)
(* allocator's mask arithmetic; the stack guard's MPU and PMP encodings.  *)
(* rom_funcs_lookup and the boot ROM wrappers.  One call of one of them   *)
(* from every start state.                                                  *)
EXTENDS PioPins, PioInstrMask, StackGuard, BootRom, RuntimeInit

(* All pins low and inputs, PINCTRL with SET_COUNT 5, OUT_COUNT 3 and     *)
(* SET_BASE 7, EXECCTRL with OUT_STICKY; all pins high and outputs, both  *)
(* registers zero.                                                        *)
MCPioStates ==
    {[pins |-> {}, pindirs |-> {}, pinctrl |-> 5 * 2^26 + 3 * 2^20 + 7 * 2^5 + 2,
      execctrl |-> 2^17 + 2^12],
     [pins |-> 0..31, pindirs |-> 0..31, pinctrl |-> 0, execctrl |-> 0]}

MCPinValues == {{}, 0..31, {0, 4, 5, 9, 31}, {3, 30}}

MCPinMasks == {{}, {0}, {31}, {4, 5, 30, 31}}

(* a pin below, at, inside and past the window of each base               *)
MCPinArgs == {0, 14, 16, 30, 47, 48}

(* none, one, a full SET, one over, a wrap past pin 31, more than 32      *)
MCPinCounts == {0, 1, 5, 6, 11, 33}

(* An empty PIO, one with only the top or the bottom slot taken, one with  *)
(* only slot 0 free, one with the low half taken, one with two scattered   *)
(* slots.                                                                  *)
MCUsedMasks == {{}, {31}, {0}, 1..31, 0..15, {2, 29}}

(* Relocatable programs of 1, 3 and 32 instructions; fixed origins at the  *)
(* top that fits, one past it, and 0 for a full-length program.           *)
MCMaskProgs ==
    {[length |-> 1, origin |-> -1], [length |-> 3, origin |-> -1],
     [length |-> 32, origin |-> -1], [length |-> 3, origin |-> 29],
     [length |-> 3, origin |-> 30], [length |-> 32, origin |-> 0]}

MCMaskOffsets == {0, 16, 29, 31}

(* SRAM_BASE, aligned (subregion 0), one byte over (rounds up to the next  *)
(* granule), 33 bytes over (two granules up), and the last subregion of a *)
(* 256-byte block.                                                         *)
SRAM_BASE == 536870912
MCStackBottoms == {SRAM_BASE, SRAM_BASE + 1, SRAM_BASE + 33, SRAM_BASE + 224}

(* Protection off (the reset state), and already set up by someone else.  *)
MCMpuStarts ==
    {[ctrl |-> 0, rnr |-> 0, rbar |-> 0, rlar |-> 0, rasr |-> 0,
      pmpaddr0 |-> 0, pmpcfg0 |-> 0, pmpcfg1 |-> 0, pmpcfgm0 |-> 0],
     [ctrl |-> 5, rnr |-> 0, rbar |-> 0, rlar |-> 0, rasr |-> 0,
      pmpaddr0 |-> 3, pmpcfg0 |-> 24, pmpcfg1 |-> 0, pmpcfgm0 |-> 1]}

(* Two-character codes as rom_table_code builds them, c1 | c2 << 8: the   *)
(* reboot and get_sys_info functions, which every caller may use, the     *)
(* secure-only explicit_buy and set_ns_api_permission, and a code the ROM  *)
(* does not have.                                                          *)
RB == 82 + 66 * 256
GS == 71 + 83 * 256
EB == 69 + 66 * 256
NP == 78 + 80 * 256
XX == 88 + 88 * 256
MCRomTable ==
    [f \in {"func_arm_sec", "func_arm_nonsec", "func_riscv"} |->
        [c \in {RB, GS, EB, NP, XX} |->
            CASE c = XX -> 0
              [] f = "func_arm_nonsec" /\ c \in {EB, NP} -> 0
              [] f = "func_riscv" /\ c = NP -> 0
              [] OTHER -> 4096 + c]]

MCCodeTables == {<<RB, GS>>, <<XX, RB, EB>>}

MCWrapperCodes == {GS, EB, NP}

(* runtime_init: the stored vector table of a default build, 16 system     *)
(* vectors and the RP2350's 52 IRQs; each entry of the flash table is an   *)
(* address of its own, and RAM before the copy holds no handler (-1).      *)
(* __mutex_array empty, or with both kinds; owner ids of int8_t (both      *)
(* objects 8 bytes) or int32_t (recursive_mutex_t 12 bytes).               *)
MCFlashVector == [i \in 0..16 + 52 - 1 |-> 4096 + 4 * i]
MCMutexArrays == {<<>>, <<"mutex", "recursive", "mutex">>, <<"recursive", "recursive", "mutex">>}
MCLayouts == {[mutex |-> 8, recursive |-> 8], [mutex |-> 8, recursive |-> 12]}
MCRamGarbage == {-1}

helpervars == <<pinvars, maskvars, guardvars, romvars, initvars>>

HelpersInit == PinsInit /\ MaskInit /\ GuardInit /\ RomInit /\ InitInit

NoneCalled ==
    /\ call.op = "none" /\ wcall.op = "none" /\ gcall.op = "none" /\ rcall.op = "none"
    /\ icall.op = "none"

HelpersNext ==
    /\ NoneCalled
    /\ \/ PinsNext /\ UNCHANGED <<maskvars, guardvars, romvars, initvars>>
       \/ MaskNext /\ UNCHANGED <<pinvars, guardvars, romvars, initvars>>
       \/ runtime_install_stack_guard /\ UNCHANGED <<pinvars, maskvars, romvars, initvars>>
       \/ RomNext /\ UNCHANGED <<pinvars, maskvars, guardvars, initvars>>
       \/ runtime_init /\ UNCHANGED <<pinvars, maskvars, guardvars, romvars>>

HelpersSpec == HelpersInit /\ [][HelpersNext]_helpervars
=============================================================================
