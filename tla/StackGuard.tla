----------------------------- MODULE StackGuard -----------------------------
(***************************************************************************)
(* runtime_install_stack_guard (pico_runtime/runtime.c lines 60-122): the  *)
(* 32 bytes at the first 32-byte boundary at or above stack_bottom are     *)
(* made inaccessible, with the memory protection of the core the SDK is    *)
(* built for:                                                              *)
(*   "rp2040": the Armv6-M MPU, one 256-byte region with all but one of    *)
(*             its eight subregions disabled;                              *)
(*   "arm":    the Armv8-M MPU of the RP2350's Cortex-M33, region 0 from   *)
(*             RBAR.BASE to RLAR.LIMIT, read-only and privileged-only;     *)
(*   "riscv":  the PMP of the RP2350's Hazard3, region 0 in NAPOT form,    *)
(*             applied to M-mode through PMPCFGM0.                         *)
(* Registers are integers; addresses are SRAM addresses, below 2^31.       *)
(***************************************************************************)
EXTENDS Integers, FiniteSets, Bitwise, TLC

CONSTANTS
    GuardTargets,   \* subset of {"rp2040", "arm", "riscv"}
    StackBottoms,   \* stack_bottom arguments (&__StackBottom and core 1 stacks)
    MpuStarts       \* register files as the caller left them

(* addr = (addr + 31u) & ~31u                                             *)
GuardAddr_Down(bottom) == (bottom \div 32) * 32   \* mutant: rounded down
GuardAddr(bottom) == ((bottom + 31) \div 32) * 32

(* The registers each build writes, as a record of the words written;     *)
(* every register file has all the fields, each build uses its own.       *)
(* Armv6-M: CTRL 5, RBAR base | VALID (bit 4) | region 0, RASR ENABLE,    *)
(* SIZE 7 (256 bytes), SRD with the one subregion cleared, XN (bit 28),   *)
(* AP 0 (no access).                                                       *)
Rp2040Writes(addr) ==
    LET subregion_select == 255 ^^ (2^((addr \div 32) % 8)) IN
    [ctrl |-> 5,
     rbar |-> ((addr \div 256) * 256) | 16,
     rasr |-> 1 + 7 * 2 + subregion_select * 2^8 + 2^28]

(* Armv8-M: RNR 0; RBAR addr | AP 2 (bits 2:1) | XN (bit 0); RLAR addr |  *)
(* EN; CTRL PRIVDEFENA | ENABLE.                                           *)
ArmWrites(addr) ==
    [rnr |-> 0, rbar |-> addr | (2 * 2) | 1, rlar |-> addr | 1, ctrl |-> 4 + 1]

(* pmpaddr0 = (addr | 0x0f) >> 2; PMPCFGM0 = 1; pmpcfg0 = NAPOT (3) in   *)
(* A (bits 4:3), R, W and X clear.                                         *)
RiscvWrites(addr) ==
    [pmpaddr0 |-> shiftR(addr | 15, 2), pmpcfgm0 |-> 1, pmpcfg0 |-> 3 * 2^3]

(* The "make sure no one is using it yet" tests of lines 71, 92-95, 110.  *)
InUse(target, r) ==
    CASE target = "rp2040" -> r.ctrl # 0
      [] target = "arm"    -> r.ctrl # 0
      [] target = "riscv"  -> r.pmpcfg0 # 0 \/ r.pmpcfg1 # 0 \/ r.pmpcfgm0 # 0

Writes(target, addr) ==
    CASE target = "rp2040" -> Rp2040Writes(addr)
      [] target = "arm"    -> ArmWrites(addr)
      [] target = "riscv"  -> RiscvWrites(addr)

-----------------------------------------------------------------------------
VARIABLES
    regs,    \* regs[target]: the protection registers of each build
    gcall    \* the call, its target and stack_bottom, and how it ended

guardvars == <<regs, gcall>>

GuardInit ==
    /\ regs \in [GuardTargets -> MpuStarts]
    /\ gcall = [op |-> "none"]

(* The words the build writes, over the registers as they were.          *)
Install(target, addr, r) == Writes(target, addr) @@ r

(* With the protection already in use the code executes __breakpoint():   *)
(* without a debugger the core faults and stops; a debugger may resume it, *)
(* and the writes follow.                                                  *)
runtime_install_stack_guard ==
    /\ gcall.op = "none"
    /\ \E target \in GuardTargets, bottom \in StackBottoms, resumed \in BOOLEAN :
          LET addr == GuardAddr(bottom)
              busy == InUse(target, regs[target])
          IN  /\ resumed => busy
              /\ regs' = IF busy /\ ~resumed THEN regs
                         ELSE [regs EXCEPT ![target] = Install(target, addr, @)]
              /\ gcall' = [op |-> "guard", target |-> target, bottom |-> bottom,
                           rc |-> CASE ~busy   -> "installed"
                                    [] resumed -> "resumed"
                                    [] OTHER   -> "breakpoint"]

-----------------------------------------------------------------------------
(* What the hardware makes of the registers: the addresses a store from    *)
(* privileged (M-mode) code faults on, through region 0.                   *)
RECURSIVE TrailingOnes(_)
TrailingOnes(x) == IF x % 2 = 1 THEN 1 + TrailingOnes(x \div 2) ELSE 0

Bit(x, k) == (x \div 2^k) % 2

(* Armv6-M: SIZE in RASR bits 5:1 gives 2^(SIZE+1) bytes; a set SRD bit   *)
(* (15:8) disables its eighth; AP (26:24) 0 is no access.                  *)
Rp2040Denied(r) ==
    LET size == 2^(((r.rasr \div 2) % 32) + 1)
        base == (r.rbar \div size) * size
        sub  == size \div 8
    IN  IF Bit(r.ctrl, 0) = 1 /\ Bit(r.rasr, 0) = 1 /\ (r.rasr \div 2^24) % 8 = 0
        THEN UNION {base + k * sub .. base + k * sub + sub - 1 :
                       k \in {j \in 0..7 : Bit(r.rasr, 8 + j) = 0}}
        ELSE {}

(* Armv8-M: BASE and LIMIT are bits 31:5 of RBAR and RLAR; AP 2 or 3 is   *)
(* read-only.                                                              *)
ArmDenied(r) ==
    IF Bit(r.ctrl, 0) = 1 /\ Bit(r.rlar, 0) = 1 /\ (r.rbar \div 2) % 4 >= 2
    THEN (r.rbar \div 32) * 32 .. (r.rlar \div 32) * 32 + 31
    ELSE {}

(* NAPOT: t trailing ones of pmpaddr give 2^(t+3) bytes from the address   *)
(* with those ones cleared, times four; W (bit 1) clear denies stores.    *)
RiscvDenied(r) ==
    LET t    == TrailingOnes(r.pmpaddr0)
        base == (r.pmpaddr0 - (2^t - 1)) * 4
    IN  IF (r.pmpcfg0 \div 8) % 4 = 3 /\ Bit(r.pmpcfg0, 1) = 0 /\ Bit(r.pmpcfgm0, 0) = 1
        THEN base .. base + 2^(t + 3) - 1
        ELSE {}

WriteFaults(target, r) ==
    CASE target = "rp2040" -> Rp2040Denied(r)
      [] target = "arm"    -> ArmDenied(r)
      [] target = "riscv"  -> RiscvDenied(r)

(* Once the guard is installed, a store faults on exactly the 32 bytes     *)
(* starting at the first 32-byte boundary at or above stack_bottom, on     *)
(* every build: an encoding that is off by a subregion, a granule or a     *)
(* rounding lets a stack overflow write past the guard, or faults on       *)
(* memory below the stack.                                                 *)
GuardExact ==
    gcall.op = "guard" /\ gcall.rc # "breakpoint" =>
        LET a == CHOOSE x \in gcall.bottom .. gcall.bottom + 31 : x % 32 = 0
        IN  WriteFaults(gcall.target, regs[gcall.target]) = a .. a + 31
=============================================================================
