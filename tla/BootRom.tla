------------------------------ MODULE BootRom ------------------------------
(***************************************************************************)
(* The boot ROM lookups of pico_bootrom (bootrom.c, and the inline         *)
(* wrappers of include/pico/bootrom.h).  The ROM's own rom_table_lookup is *)
(* the constant RomTable: for each lookup flag, the address the ROM gives  *)
(* for each two-character code, 0 where it has none.  The flag depends on  *)
(* what the caller runs as: RISC-V, or Arm in the secure or the non-secure *)
(* state (pico_processor_state_is_nonsecure).                              *)
(***************************************************************************)
EXTENDS Integers, Sequences, FiniteSets, FiniteSetsExt

CONSTANTS
    RomTable,      \* RomTable[flag][code]: the ROM's answer, 0 if none
    Callers,       \* subset of {"riscv", "arm_sec", "arm_nonsec"}
    CodeTables,    \* tables of codes handed to rom_funcs_lookup
    WrapperCodes,  \* codes the inline wrappers look up and call
    ActivityMasks, \* usb_activity_gpio_pin_mask arguments, as sets of bits
    InterfaceMasks, \* disable_interface_mask arguments
    ROM_FUNC_REBOOT,                \* the codes of bootrom_constants.h
    ROM_FUNC_SET_NS_API_PERMISSION

(* rom_func_lookup_inline, bootrom.h lines 209-232: the flag for the       *)
(* caller, then the ROM's table lookup.                                    *)
FuncFlag(caller) ==
    CASE caller = "riscv"      -> "func_riscv"
      [] caller = "arm_nonsec" -> "func_arm_nonsec"
      [] caller = "arm_sec"    -> "func_arm_sec"

rom_func_lookup(caller, code) == RomTable[FuncFlag(caller)][code]

(* ok = ok && table[i] != 0, accumulated over the loop                     *)
OkAfter_Last(ok, addr) == addr # 0              \* mutant: only the last entry
OkAfter(ok, addr) == ok /\ addr # 0

(* rom_funcs_lookup, bootrom.c lines 31-38: each of the first count codes  *)
(* is replaced by its address, in place; the result says whether all were  *)
(* found.                                                                  *)
RECURSIVE FuncsLoop(_, _, _, _, _)
FuncsLoop(caller, table, i, count, ok) ==
    IF i > count THEN [table |-> table, ok |-> ok]
    ELSE LET addr == rom_func_lookup(caller, table[i])
         IN  FuncsLoop(caller, [table EXCEPT ![i] = addr], i + 1, count,
                       OkAfter(ok, addr))

rom_funcs_lookup(caller, table, count) == FuncsLoop(caller, table, 1, count, TRUE)

-----------------------------------------------------------------------------
VARIABLES
    table,    \* the caller's table, codes in and addresses out
    rcall,    \* the last call and its result, or [op |-> "none"]
    rom       \* what the ROM was asked to run: <<>> or <<[fn, args]>>

romvars == <<table, rcall, rom>>

RomInit ==
    /\ table \in CodeTables
    /\ rcall = [op |-> "none"]
    /\ rom = <<>>

FuncsLookup ==
    /\ rcall.op = "none"
    /\ \E caller \in Callers, count \in 0..Len(table) :
          LET r == rom_funcs_lookup(caller, table, count) IN
          /\ table' = r.table
          /\ rcall' = [op |-> "funcs", caller |-> caller, count |-> count,
                       codes |-> table, ok |-> r.ok]
    /\ UNCHANGED rom

(* boot_random, rom_explicit_buy, rom_set_ns_api_permission (Arm only),    *)
(* rom_validate_ns_buffer and rom_set_rom_callback, bootrom.h lines        *)
(* 263-290: look the function up and call it, with no test of the result;  *)
(* a call through 0 faults.                                                *)
RomWrapperCall ==
    /\ rcall.op = "none"
    /\ \E caller \in Callers, code \in WrapperCodes :
          /\ code = ROM_FUNC_SET_NS_API_PERMISSION => caller # "riscv"
          /\ LET fn == rom_func_lookup(caller, code) IN
             /\ rom' = <<[fn |-> fn, code |-> code]>>
             /\ rcall' = [op |-> "wrapper", caller |-> caller, code |-> code,
                          fn |-> fn]
    /\ UNCHANGED table

(* reset_usb_boot, bootrom.c lines 43-54: the reboot function's address,  *)
(* the flags with BOOTSEL_FLAG_GPIO_PIN_SPECIFIED when a pin mask is      *)
(* given and the pin number taken as its lowest set bit, then a call that *)
(* does not return.                                                        *)
reset_usb_boot ==
    /\ rcall.op = "none"
    /\ \E caller \in Callers, mask \in ActivityMasks,
          disable \in InterfaceMasks :
          LET fn    == rom_func_lookup(caller, ROM_FUNC_REBOOT)
              flags == [disable |-> disable, gpio_pin_specified |-> mask # {}]
              pin   == IF mask # {} THEN Min(mask) ELSE 0
          IN  /\ rom' = <<[fn |-> fn, code |-> ROM_FUNC_REBOOT, type |-> "BOOTSEL",
                           no_return |-> TRUE, delay_ms |-> 10, p0 |-> flags, p1 |-> pin]>>
              /\ rcall' = [op |-> "reboot", caller |-> caller, mask |-> mask, fn |-> fn]
    /\ UNCHANGED table

RomNext == FuncsLookup \/ RomWrapperCall \/ reset_usb_boot

-----------------------------------------------------------------------------
(* rom_funcs_lookup leaves each of the first count entries at the address  *)
(* the ROM gives the caller for its code, leaves the rest alone, and       *)
(* returns true exactly when every one of the count codes was found; a     *)
(* flag that forgets an earlier miss hands the caller a table with a null  *)
(* entry it believes usable.                                               *)
FuncsLookupExact ==
    rcall.op = "funcs" =>
        /\ \A i \in 1..Len(table) :
              table[i] = IF i <= rcall.count
                         THEN RomTable[FuncFlag(rcall.caller)][rcall.codes[i]]
                         ELSE rcall.codes[i]
        /\ rcall.ok = \A i \in 1..rcall.count : table[i] # 0
=============================================================================
