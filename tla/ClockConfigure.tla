-------------------------- MODULE ClockConfigure --------------------------
(***************************************************************************)
(* The clock configurator of hardware_clocks/clocks.c against the          *)
(* clock-generator hardware: clocks_init at boot, clock_configure and      *)
(* clock_stop called by the application, and the resus interrupt handler, *)
(* which calls clock_configure itself and so can preempt a call of the     *)
(* thread in the middle.                                                   *)
(*                                                                         *)
(* Each clock slice has an auxiliary (glitchy) mux ctrl_aux, a divider div *)
(* and, for clk_ref and clk_sys only, a glitchless mux ctrl_src whose      *)
(* switch completes later in hardware and is reported in selected.  The    *)
(* other slices have an ENABLE bit whose effect reaches the output after a *)
(* synchroniser: running is whether the output is actually toggling.      *)
(* clock_configure is a sequence of register writes and busy-waits; pc[x]  *)
(* says which of them context x (the thread, or the clocks interrupt)      *)
(* executes next, so the hardware steps interleave with it as they do on   *)
(* the chip.  configured_freq is the software cache read by clock_get_hz.  *)
(* runtime_init (pico_runtime/runtime.c) holds peripheral blocks in reset *)
(* around clocks_init; in_reset is the set of blocks held.                 *)
(*                                                                         *)
(* Frequencies are integers (MHz); a divider is fixed point with FracBits  *)
(* fractional bits (CLOCKS_CLK_GPOUT0_DIV_INT_LSB).                        *)
(***************************************************************************)
EXTENDS Integers, Sequences, FiniteSets, FiniteSetsExt, Bitwise

CONSTANTS
    Clocks,          \* clock slices (enum clock_index)
    Glitchless,      \* clocks with a glitchless mux: clk_ref and clk_sys
    clk_ref,         \* the reference clock: source of the ticks and of resus
    clk_sys,         \* the system clock: the cores run on it
    GlitchlessInput, \* GlitchlessInput[c][i]: what input i of c's glitchless mux is
    AuxInputs,       \* AuxInputs[c]: the sources c's aux mux can select
    SysAuxZero,      \* CLK_SYS_CTRL_AUXSRC value 0, passed by the resus handler
    OscFreq,         \* OscFreq[s]: frequency of an oscillator, PLL or GPIN s
    Stoppable,       \* sources that can stop under a running clk_sys
    MaxFailures,     \* bound on source failures in one behaviour
    FracBits,        \* CLOCKS_CLK_GPOUT0_DIV_INT_LSB
    BootCalls,       \* the clock_configure calls of clocks_init, in order
    Calls,           \* application clock_configure calls: [clk, src, auxsrc, freq]
    StopCalls,       \* clocks callers pass to clock_stop
    Plls,            \* PLL_SYS and PLL_USB, reprogrammed by pll_init
    InitCtrl,        \* register state the previous software left
    CallerMay(_),    \* CallerMay(a): the application may start call a now
    Periphs,         \* peripheral blocks of the RESETS register
    PeriphClock,     \* PeriphClock[b]: the clock block b runs from
    NotReset,        \* blocks runtime_init's reset_block leaves alone
    LateUnreset      \* blocks its first unreset_block_wait leaves in reset

ASSUME Glitchless \subseteq Clocks /\ {clk_ref, clk_sys} \subseteq Glitchless

(* CLOCKS_CLK_SYS_CTRL_SRC_VALUE_CLKSRC_CLK_SYS_AUX, also the aux input of  *)
(* clk_ref's glitchless mux.                                               *)
AUX == 1

One == 2^FracBits

Contexts == {"thread", "irq"}

VARIABLES
    ctrl_src,         \* CTRL.SRC of the glitchless clocks
    selected,         \* SELECTED: the glitchless input the hardware has switched to
    ctrl_aux,         \* CTRL.AUXSRC
    enable,           \* CTRL.ENABLE (clocks without a glitchless mux)
    running,          \* the output is toggling (ENABLE after its synchroniser)
    div,              \* DIV register
    configured_freq,  \* the software cache of each clock's frequency
    pc,               \* pc[x]: next step of context x in clock_configure, or "idle"
    call,             \* call[x]: the arguments and locals of x's call in progress
    boot,             \* the thread's place in clocks_init, "done" after it
    bi,               \* index of the next clock_configure call of clocks_init
    tick_cycles,      \* TICKS cycles register (-1 while the ticks are stopped)
    resus_ctrl,       \* CLK_SYS_RESUS_CTRL.ENABLE
    irq_en,           \* CLOCKS_IRQ enabled with clocks_irq_handler installed
    resussed,         \* CLK_SYS_RESUS_STATUS.RESUSSED: clk_sys forced onto clk_ref
    dead,             \* sources that have stopped
    in_reset          \* blocks held in reset (RESETS.RESET)

vars == <<ctrl_src, selected, ctrl_aux, enable, running, div,
          configured_freq, pc, call, boot, bi, tick_cycles,
          resus_ctrl, irq_en, resussed, dead, in_reset>>
regs == <<ctrl_src, selected, ctrl_aux, enable, running, div>>
bootvars == <<boot, bi, tick_cycles, in_reset>>
resusvars == <<resus_ctrl, irq_en, resussed, dead>>

has_glitchless_mux(c) == c \in Glitchless

(***************************************************************************)
(* The frequency each clock output delivers now.  A source is either an    *)
(* oscillator/PLL/GPIN with a fixed frequency (0 once it has stopped) or   *)
(* another clock's output.  While resussed the hardware drives clk_sys     *)
(* from clk_ref whatever its muxes say.                                    *)
(***************************************************************************)
RECURSIVE OutFreq(_)
SourceFreq(s) ==
    IF s \in Clocks THEN OutFreq(s) ELSE IF s \in dead THEN 0 ELSE OscFreq[s]

InputOf(c) ==
    IF c = clk_sys /\ resussed THEN clk_ref
    ELSE IF has_glitchless_mux(c) /\ selected[c] # AUX
    THEN GlitchlessInput[c][selected[c]]
    ELSE ctrl_aux[c]

OutFreq(c) ==
    IF running[c] THEN (SourceFreq(InputOf(c)) * One) \div div[c] ELSE 0

(* What the output delivers, or is about to once a pending ENABLE change  *)
(* has passed the synchroniser.                                            *)
SettledFreq(c) ==
    Max({OutFreq(c),
         IF enable[c] THEN (SourceFreq(InputOf(c)) * One) \div div[c] ELSE 0})

(* Whether a clock runs, directly or through other clocks, from source s.  *)
RECURSIVE DrivenBy(_, _)
DrivenBy(c, s) ==
    running[c] /\ (InputOf(c) = s \/ (InputOf(c) \in Clocks /\ DrivenBy(InputOf(c), s)))

(* The src_freq argument an application caller passes: the nominal        *)
(* frequency of the selected input, clock_get_hz for an input that is      *)
(* itself a clock.                                                         *)
NominalFreq(s) == IF s \in Clocks THEN configured_freq[s] ELSE OscFreq[s]
CallSrcFreq(a) ==
    IF has_glitchless_mux(a.clk) /\ a.src # AUX
    THEN NominalFreq(GlitchlessInput[a.clk][a.src])
    ELSE NominalFreq(a.auxsrc)

(* The clocks interrupt is raised and not yet taken.                      *)
IrqPending == irq_en /\ resussed /\ pc["irq"] = "idle"

(* A context executes only while it is the innermost one (the handler runs *)
(* to its end before the thread resumes, and the NVIC takes a pending     *)
(* interrupt before the thread's next instruction) and while clk_sys is    *)
(* toggling.                                                               *)
Executing(x) ==
    /\ IF pc["irq"] # "idle" THEN x = "irq" ELSE x = "thread" /\ ~IrqPending
    /\ OutFreq(clk_sys) > 0

At(x, l) == Executing(x) /\ pc[x] = l
Goto(x, l) == pc' = [pc EXCEPT ![x] = l]

-----------------------------------------------------------------------------
(***************************************************************************)
(* clock_configure, lines 51-120, run by context x with return label ret. *)
(* The first step computes the divider, refuses freq > src_freq, and       *)
(* raises DIV early when the new divider is larger.                        *)
(***************************************************************************)
NewCall(x, a, src_freq, ret) ==
    [clk |-> a.clk, src |-> a.src, auxsrc |-> a.auxsrc, freq |-> a.freq,
     src_freq |-> src_freq, div |-> (src_freq * One) \div a.freq,
     before |-> SettledFreq(a.clk), ret |-> ret]

FirstStep(a) ==
    IF has_glitchless_mux(a.clk) /\ a.src = AUX THEN "switch_away" ELSE "disable"

(* Mutants: DIV written only at the end; no switch away from aux first.   *)
ConfigureStartLateDiv(x, a, src_freq, ret) ==
    /\ pc[x] = "idle"
    /\ a.freq <= src_freq
    /\ call' = [call EXCEPT ![x] = NewCall(x, a, src_freq, ret)]
    /\ Goto(x, FirstStep(a))
    /\ UNCHANGED <<ctrl_src, selected, ctrl_aux, enable, running, div, configured_freq>>

ConfigureStartNoSwitchAway(x, a, src_freq, ret) ==
    LET newdiv == (src_freq * One) \div a.freq IN
    /\ pc[x] = "idle"
    /\ a.freq <= src_freq
    /\ div' = IF newdiv > div[a.clk] THEN [div EXCEPT ![a.clk] = newdiv] ELSE div
    /\ call' = [call EXCEPT ![x] = NewCall(x, a, src_freq, ret)]
    /\ Goto(x, "disable")
    /\ UNCHANGED <<ctrl_src, selected, ctrl_aux, enable, running, configured_freq>>

ConfigureStart(x, a, src_freq, ret) ==
    LET newdiv == (src_freq * One) \div a.freq IN
    /\ pc[x] = "idle"
    /\ a.freq <= src_freq
    /\ div' = IF newdiv > div[a.clk] THEN [div EXCEPT ![a.clk] = newdiv] ELSE div
    /\ call' = [call EXCEPT ![x] = NewCall(x, a, src_freq, ret)]
    /\ Goto(x, FirstStep(a))
    /\ UNCHANGED <<ctrl_src, selected, ctrl_aux, enable, running, configured_freq>>

(* Glitchless clock going to its aux input: leave aux first (input 0).     *)
SwitchAway(x) ==
    /\ At(x, "switch_away")
    /\ ctrl_src' = [ctrl_src EXCEPT ![call[x].clk] = 0]
    /\ Goto(x, "wait_away")
    /\ UNCHANGED <<selected, ctrl_aux, enable, running, div, configured_freq, call>>

(* while (!(clock->selected & 1u)) tight_loop_contents(): the core spins,  *)
(* a step that changes nothing, until the hardware reports input 0.        *)
WaitAway(x) ==
    /\ At(x, "wait_away")
    /\ Goto(x, IF selected[call[x].clk] = 0 THEN "set_aux" ELSE "wait_away")
    /\ UNCHANGED <<regs, configured_freq, call>>

(* Otherwise clear ENABLE (no such bit on clk_ref and clk_sys) and, if the *)
(* clock was known to run, wait three of its cycles for the clear to      *)
(* reach the output.                                                       *)
Disable(x) ==
    /\ At(x, "disable")
    /\ enable' = IF has_glitchless_mux(call[x].clk) THEN enable
                 ELSE [enable EXCEPT ![call[x].clk] = FALSE]
    /\ Goto(x, IF configured_freq[call[x].clk] > 0 THEN "delay" ELSE "set_aux")
    /\ UNCHANGED <<ctrl_src, selected, ctrl_aux, running, div, configured_freq, call>>

(* busy_wait_at_least_cycles(delay_cyc * 3) with delay_cyc =             *)
(* configured_freq[clk_sys] / configured_freq[c] + 1 (uint): 3 * delay_cyc *)
(* cycles of the actual clk_sys.  The ENABLE clear reaches the output      *)
(* after three cycles of the clock itself (the comment of line 85); the    *)
(* wait is sure to cover them when delay_cyc * f_c >= f_sys at the actual  *)
(* frequencies.  A shorter wait may end before the synchroniser.           *)
DelayCycles(c) == configured_freq[clk_sys] \div configured_freq[c] + 1
WaitCovers(c) == DelayCycles(c) * OutFreq(c) >= OutFreq(clk_sys)

Delay(x) ==
    /\ At(x, "delay")
    /\ ~has_glitchless_mux(call[x].clk) /\ WaitCovers(call[x].clk)
           => ~running[call[x].clk]
    /\ Goto(x, "set_aux")
    /\ UNCHANGED <<regs, configured_freq, call>>

SetAux(x) ==
    /\ At(x, "set_aux")
    /\ ctrl_aux' = [ctrl_aux EXCEPT ![call[x].clk] = call[x].auxsrc]
    /\ Goto(x, IF has_glitchless_mux(call[x].clk) THEN "set_src" ELSE "enable")
    /\ UNCHANGED <<ctrl_src, selected, enable, running, div, configured_freq, call>>

(* Mutant: hw_set_bits in place of hw_write_masked, ORing src into CTRL.  *)
SetSrcOred(x) ==
    /\ At(x, "set_src")
    /\ ctrl_src' = [ctrl_src EXCEPT ![call[x].clk] = @ | call[x].src]
    /\ Goto(x, "wait_src")
    /\ UNCHANGED <<selected, ctrl_aux, enable, running, div, configured_freq, call>>

SetSrc(x) ==
    /\ At(x, "set_src")
    /\ ctrl_src' = [ctrl_src EXCEPT ![call[x].clk] = call[x].src]
    /\ Goto(x, "wait_src")
    /\ UNCHANGED <<selected, ctrl_aux, enable, running, div, configured_freq, call>>

(* Mutant: the one-hot SELECTED register compared with the index.        *)
WaitSrcIndexCompare(x) ==
    /\ At(x, "wait_src")
    /\ Goto(x, IF selected[call[x].clk] = 2^call[x].src THEN "enable" ELSE "wait_src")
    /\ UNCHANGED <<regs, configured_freq, call>>

(* while (!(clock->selected & (1u << src))) tight_loop_contents()          *)
WaitSrc(x) ==
    /\ At(x, "wait_src")
    /\ Goto(x, IF selected[call[x].clk] = call[x].src THEN "enable" ELSE "wait_src")
    /\ UNCHANGED <<regs, configured_freq, call>>

Enable(x) ==
    /\ At(x, "enable")
    /\ enable' = IF has_glitchless_mux(call[x].clk) THEN enable
                 ELSE [enable EXCEPT ![call[x].clk] = TRUE]
    /\ Goto(x, "final_div")
    /\ UNCHANGED <<ctrl_src, selected, ctrl_aux, running, div, configured_freq, call>>

(* The final divider, then the cache: (src_freq << FracBits) / div; the    *)
(* call returns to ret.                                                    *)
FinalDiv(x) ==
    /\ At(x, "final_div")
    /\ div' = [div EXCEPT ![call[x].clk] = call[x].div]
    /\ configured_freq' = [configured_freq EXCEPT ![call[x].clk] =
                              (call[x].src_freq * One) \div call[x].div]
    /\ Goto(x, call[x].ret)
    /\ UNCHANGED <<ctrl_src, selected, ctrl_aux, enable, running, call>>

(* A step of clock_configure leaves clocks_init and resus state alone.    *)
ConfigureStep(x) ==
    /\ \/ SwitchAway(x) \/ WaitAway(x) \/ Disable(x) \/ Delay(x) \/ SetAux(x)
       \/ SetSrc(x) \/ WaitSrc(x) \/ Enable(x) \/ FinalDiv(x)
    /\ UNCHANGED <<bootvars, resusvars>>

(* clock_stop, lines 44-48.                                                *)
clock_stop(c) ==
    /\ At("thread", "idle") /\ boot = "done"
    /\ enable' = IF has_glitchless_mux(c) THEN enable
                 ELSE [enable EXCEPT ![c] = FALSE]
    /\ configured_freq' = [configured_freq EXCEPT ![c] = 0]
    /\ UNCHANGED <<ctrl_src, selected, ctrl_aux, running, div, pc, call,
                   bootvars, resusvars>>

(* The application starts clock_configure with src_freq from clock_get_hz *)
(* or the nominal oscillator frequency.                                    *)
AppConfigure(a) ==
    /\ At("thread", "idle") /\ boot = "done"
    /\ CallerMay(a)
    /\ ConfigureStart("thread", a, CallSrcFreq(a), "idle")
    /\ UNCHANGED <<bootvars, resusvars>>

-----------------------------------------------------------------------------
(***************************************************************************)
(* clocks_init, lines 139-243, on real hardware: resus off, clk_sys then   *)
(* clk_ref switched off their aux inputs (input 0) with a wait for each,   *)
(* pll_init of both PLLs, the clock_configure calls in dependency order,   *)
(* then the ticks from clk_ref.  xosc_init is not in this repository; the *)
(* XOSC runs from the start.                                               *)
(***************************************************************************)
BootAt(l) == At("thread", "idle") /\ boot = l

ResusOff ==
    /\ BootAt("resus_off")
    /\ resus_ctrl' = FALSE
    /\ boot' = "sys_away"
    /\ UNCHANGED <<regs, configured_freq, pc, call, bi, tick_cycles, in_reset,
                   irq_en, resussed, dead>>

(* hw_clear_bits of CTRL.SRC: the glitchless mux to input 0.               *)
Detach(c, l, nxt) ==
    /\ BootAt(l)
    /\ ctrl_src' = [ctrl_src EXCEPT ![c] = 0]
    /\ boot' = nxt
    /\ UNCHANGED <<selected, ctrl_aux, enable, running, div, configured_freq,
                   pc, call, bi, tick_cycles, in_reset, resusvars>>

(* while (clocks_hw->clk[c].selected != 0x1) tight_loop_contents()         *)
(* Mutant: pll_init without waiting for the switch to complete.          *)
WaitDetachedSkipped(c, l, nxt) ==
    /\ BootAt(l)
    /\ boot' = nxt
    /\ UNCHANGED <<regs, configured_freq, pc, call, bi, tick_cycles, in_reset, resusvars>>

WaitDetached(c, l, nxt) ==
    /\ BootAt(l)
    /\ boot' = IF selected[c] = 0 THEN nxt ELSE l
    /\ UNCHANGED <<regs, configured_freq, pc, call, bi, tick_cycles, in_reset, resusvars>>

(* pll_init(pll_sys, ...); pll_init(pll_usb, ...): both PLLs reprogrammed *)
(* to the frequencies OscFreq gives them.                                  *)
PllInit ==
    /\ BootAt("pll_init")
    /\ boot' = "configure"
    /\ UNCHANGED <<regs, configured_freq, pc, call, bi, tick_cycles, in_reset, resusvars>>

BootConfigure ==
    /\ BootAt("configure")
    /\ bi <= Len(BootCalls)
    /\ ConfigureStart("thread", BootCalls[bi], BootCalls[bi].src_freq, "idle")
    /\ bi' = bi + 1
    /\ UNCHANGED <<boot, tick_cycles, in_reset, resusvars>>

(* start_all_ticks, lines 123-137: cycles = clock_get_hz(clk_ref) / MHZ.  *)
(* Mutant: the ticks started before the clock_configure calls.           *)
start_all_ticks_Early ==
    /\ BootAt("configure")
    /\ tick_cycles' = configured_freq[clk_ref]
    /\ boot' = "unreset_all"
    /\ UNCHANGED <<regs, configured_freq, pc, call, bi, in_reset, resusvars>>

start_all_ticks ==
    /\ BootAt("configure")
    /\ bi > Len(BootCalls)
    /\ tick_cycles' = configured_freq[clk_ref]
    /\ boot' = "unreset_all"
    /\ UNCHANGED <<regs, configured_freq, pc, call, bi, in_reset, resusvars>>

(***************************************************************************)
(* runtime_init, runtime.c lines 124-189, around clocks_init: every block  *)
(* but QSPI, the PLLs, USBCTRL and SYSCFG into reset; those clocked only  *)
(* by clk_sys and clk_ref out again; clocks_init; then every block out.    *)
(* unreset_block_wait (hardware_resets, not in this repository) clears the *)
(* reset bits and spins until RESET_DONE, which a block reports once the   *)
(* clock it runs from is running.                                          *)
(***************************************************************************)
ResetMask == Periphs \ NotReset

(* Mutant: the first unreset takes every block out of reset.               *)
EarlyUnresetMask_All == Periphs

EarlyUnresetMask == Periphs \ LateUnreset

reset_block ==
    /\ BootAt("reset")
    /\ in_reset' = in_reset \cup ResetMask
    /\ boot' = "unreset_early"
    /\ UNCHANGED <<regs, configured_freq, pc, call, bi, tick_cycles, resusvars>>

unreset_block(mask, l, nxt) ==
    /\ BootAt(l)
    /\ in_reset' = in_reset \ mask
    /\ boot' = nxt
    /\ UNCHANGED <<regs, configured_freq, pc, call, bi, tick_cycles, resusvars>>

WaitResetDone(mask, l, nxt) ==
    /\ BootAt(l)
    /\ boot' = IF \A b \in mask : OutFreq(PeriphClock[b]) > 0 THEN nxt ELSE l
    /\ UNCHANGED <<regs, configured_freq, pc, call, bi, tick_cycles, in_reset, resusvars>>

BootStep ==
    \/ reset_block
    \/ unreset_block(EarlyUnresetMask, "unreset_early", "wait_early")
    \/ WaitResetDone(EarlyUnresetMask, "wait_early", "resus_off")
    \/ unreset_block(Periphs, "unreset_all", "wait_all")
    \/ WaitResetDone(Periphs, "wait_all", "done")
    \/ ResusOff
    \/ Detach(clk_sys, "sys_away", "wait_sys")
    \/ WaitDetached(clk_sys, "wait_sys", "ref_away")
    \/ Detach(clk_ref, "ref_away", "wait_ref")
    \/ WaitDetached(clk_ref, "wait_ref", "pll_init")
    \/ PllInit \/ BootConfigure \/ start_all_ticks

-----------------------------------------------------------------------------
(***************************************************************************)
(* Resus.  clocks_enable_resus (lines 331-353) installs the handler,       *)
(* enables the interrupt and arms the detector.  A source clk_sys runs     *)
(* from may then stop (a PLL losing lock, a GPIN removed); the detector    *)
(* sees clk_sys stopped, forces it onto clk_ref and raises the interrupt.  *)
(* clocks_handle_resus (lines 286-312) calls clock_configure(clk_sys,      *)
(* CLK_REF, 0, f_ref, f_ref) with f_ref = clock_get_hz(clk_ref), then      *)
(* clears RESUSSED (the two asserts hold on every path of the model; no   *)
(* callback is installed).                                                 *)
(***************************************************************************)
clocks_enable_resus ==
    /\ BootAt("done") /\ ~irq_en
    /\ irq_en' = TRUE
    /\ resus_ctrl' = TRUE
    /\ UNCHANGED <<regs, configured_freq, pc, call, bootvars, resussed, dead>>

(* A source under clk_ref is left running: with clk_ref stopped resus has  *)
(* nothing to switch to, the documented unrecoverable case.                *)
SourceStops(s) ==
    /\ resus_ctrl /\ Cardinality(dead) < MaxFailures
    /\ s \in Stoppable /\ DrivenBy(clk_sys, s) /\ ~DrivenBy(clk_ref, s)
    /\ dead' = dead \cup {s}
    /\ UNCHANGED <<regs, configured_freq, pc, call, bootvars, resus_ctrl, irq_en, resussed>>

ResusDetect ==
    /\ resus_ctrl /\ ~resussed /\ OutFreq(clk_sys) = 0
    /\ resussed' = TRUE
    /\ UNCHANGED <<regs, configured_freq, pc, call, bootvars, resus_ctrl, irq_en, dead>>

ResusCall ==
    [clk |-> clk_sys, src |-> 0, auxsrc |-> SysAuxZero, freq |-> configured_freq[clk_ref]]

(* Mutant: the handler puts clk_sys back on its aux input.                 *)
clocks_irq_handler_Aux ==
    /\ IrqPending /\ OutFreq(clk_sys) > 0
    /\ ConfigureStart("irq", [ResusCall EXCEPT !.src = AUX],
                      configured_freq[clk_ref], "resus_clear")
    /\ UNCHANGED <<bootvars, resusvars>>

clocks_irq_handler ==
    /\ IrqPending /\ OutFreq(clk_sys) > 0
    /\ ConfigureStart("irq", ResusCall, configured_freq[clk_ref], "resus_clear")
    /\ UNCHANGED <<bootvars, resusvars>>

ResusClear ==
    /\ At("irq", "resus_clear")
    /\ resussed' = FALSE
    /\ Goto("irq", "idle")
    /\ UNCHANGED <<regs, configured_freq, call, bootvars, resus_ctrl, irq_en, dead>>

-----------------------------------------------------------------------------
(* Hardware: the glitchless mux completes a switch; ENABLE reaches the     *)
(* output through its synchroniser.                                        *)
HwSelect(c) ==
    /\ has_glitchless_mux(c)
    /\ selected[c] # ctrl_src[c]
    /\ selected' = [selected EXCEPT ![c] = ctrl_src[c]]
    /\ UNCHANGED <<ctrl_src, ctrl_aux, enable, running, div, configured_freq,
                   pc, call, bootvars, resusvars>>

HwEnableSync(c) ==
    /\ ~has_glitchless_mux(c)
    /\ running[c] # enable[c]
    /\ running' = [running EXCEPT ![c] = enable[c]]
    /\ UNCHANGED <<ctrl_src, selected, ctrl_aux, enable, div, configured_freq,
                   pc, call, bootvars, resusvars>>

NoCall == [clk |-> clk_sys, src |-> 0, auxsrc |-> SysAuxZero, freq |-> 0,
           src_freq |-> 0, div |-> One, before |-> 0, ret |-> "idle"]

(* The registers as the previous software left them, a zeroed cache (the  *)
(* static array), ticks and the clocks interrupt off.                      *)
Init ==
    /\ ctrl_src = [c \in Clocks |-> InitCtrl[c].src]
    /\ selected = ctrl_src
    /\ ctrl_aux = [c \in Clocks |-> InitCtrl[c].auxsrc]
    /\ enable = [c \in Clocks |-> TRUE]
    /\ running = enable
    /\ div = [c \in Clocks |-> InitCtrl[c].div]
    /\ configured_freq = [c \in Clocks |-> 0]
    /\ pc = [x \in Contexts |-> "idle"]
    /\ call = [x \in Contexts |-> NoCall]
    /\ boot = "reset"
    /\ in_reset = {}
    /\ bi = 1
    /\ tick_cycles = -1
    /\ resus_ctrl = FALSE
    /\ irq_en = FALSE
    /\ resussed = FALSE
    /\ dead = {}

Next ==
    \/ \E x \in Contexts : ConfigureStep(x)
    \/ BootStep
    \/ \E a \in Calls : AppConfigure(a)
    \/ \E c \in StopCalls : clock_stop(c)
    \/ clocks_enable_resus
    \/ \E s \in Stoppable : SourceStops(s)
    \/ ResusDetect \/ clocks_irq_handler \/ ResusClear
    \/ \E c \in Clocks : HwSelect(c) \/ HwEnableSync(c)

(* A started clock_configure, clocks_init and a taken interrupt run on    *)
(* (the cores only spin); the NVIC takes a pending enabled interrupt; the  *)
(* hardware completes a mux switch, an ENABLE change and resus detection.  *)
Fairness ==
    /\ \A x \in Contexts : WF_vars(ConfigureStep(x))
    /\ WF_vars(BootStep)
    /\ WF_vars(clocks_irq_handler) /\ WF_vars(ResusClear) /\ WF_vars(ResusDetect)
    /\ \A c \in Clocks : WF_vars(HwSelect(c)) /\ WF_vars(HwEnableSync(c))

Spec == Init /\ [][Next]_vars /\ Fairness

-----------------------------------------------------------------------------
ConfigurePcs == {"switch_away", "wait_away", "disable", "delay", "set_aux",
                 "set_src", "wait_src", "enable", "final_div"}
BootPcs == {"reset", "unreset_early", "wait_early", "unreset_all", "wait_all", "resus_off", "sys_away", "wait_sys", "ref_away", "wait_ref",
            "pll_init", "configure", "done"}

TypeOK ==
    /\ ctrl_src \in [Clocks -> 0..3]
    /\ selected \in [Clocks -> 0..3]
    /\ \A c \in Glitchless :
          {ctrl_src[c], selected[c]} \subseteq DOMAIN GlitchlessInput[c] \cup {AUX}
    /\ ctrl_aux \in [Clocks -> UNION {AuxInputs[c] : c \in Clocks}]
    /\ enable \in [Clocks -> BOOLEAN]
    /\ running \in [Clocks -> BOOLEAN]
    /\ div \in [Clocks -> Nat \ {0}]
    /\ configured_freq \in [Clocks -> Nat]
    /\ pc \in [Contexts -> ConfigurePcs \cup {"idle", "resus_clear"}]
    /\ boot \in BootPcs /\ bi \in 1..Len(BootCalls) + 1
    /\ tick_cycles \in Nat \cup {-1}
    /\ resus_ctrl \in BOOLEAN /\ irq_en \in BOOLEAN /\ resussed \in BOOLEAN
    /\ dead \subseteq Stoppable
    /\ in_reset \subseteq Periphs

(***************************************************************************)
(* Divider before source (clocks.c lines 63-67): while a clock_configure   *)
(* call of either context runs, the clock being reconfigured never         *)
(* delivers more than the larger of the frequency it had when the call     *)
(* began and the one requested.                                            *)
(***************************************************************************)
NoOverspeed ==
    \A x \in Contexts :
        pc[x] \in ConfigurePcs =>
            OutFreq(call[x].clk) <=
                Max({call[x].before, (call[x].src_freq * One) \div call[x].div})

(***************************************************************************)
(* The aux mux of clk_ref or clk_sys only changes while the glitchless mux *)
(* is away from the aux input, both as written and as the hardware has    *)
(* switched it, or while resus forces clk_sys onto clk_ref, so the glitch *)
(* of the aux mux never reaches the output.                               *)
(***************************************************************************)
GlitchlessAuxSafe ==
    [][\A c \in Glitchless :
         ctrl_aux'[c] # ctrl_aux[c] =>
             \/ c = clk_sys /\ resussed
             \/ ctrl_src[c] # AUX /\ selected[c] # AUX]_vars

(***************************************************************************)
(* The aux mux of any other clock only changes while the clock's output   *)
(* is not toggling: ENABLE cleared and its clear through the synchroniser *)
(* before the busy-wait of lines 84-90, computed from the frequency cache, *)
(* has ended, whatever the application did to clk_sys or the clock's       *)
(* source since the cache was written.                                     *)
(***************************************************************************)
OutputStoppedAuxSafe ==
    [][\A c \in Clocks \ Glitchless :
         ctrl_aux'[c] # ctrl_aux[c] => OutFreq(c) = 0]_vars

(* Every clock_configure call of the thread and of the resus handler       *)
(* returns: its busy-waits all end.                                        *)
ConfigureTerminates == \A x \in Contexts : (pc[x] # "idle") ~> (pc[x] = "idle")

(***************************************************************************)
(* clocks_init (line 158) reprograms the PLLs only once neither clk_sys nor *)
(* clk_ref runs from one of them, through any chain of clocks, as the      *)
(* hardware has switched the muxes, not only as they are written.          *)
(***************************************************************************)
PllInitSafe ==
    [][boot = "pll_init" /\ boot' # "pll_init" =>
         \A c \in Glitchless, p \in Plls : ~DrivenBy(c, p)]_vars

(* start_all_ticks (line 242) programs the tick generators with the       *)
(* frequency clk_ref actually delivers when they start.                    *)
TicksFromRef ==
    [][tick_cycles' # tick_cycles => tick_cycles' = OutFreq(clk_ref)]_vars

(***************************************************************************)
(* When clocks_handle_resus clears RESUSSED (line 302), the hardware stops *)
(* forcing clk_sys, and what clk_sys then delivers from its own muxes is   *)
(* the frequency the cache says: software's view matches the clock.        *)
(***************************************************************************)
ResusRestores ==
    [][pc["irq"] = "resus_clear" /\ pc'["irq"] = "idle" =>
         configured_freq'[clk_sys] = (OutFreq(clk_sys))']_vars

(***************************************************************************)
(* Until runtime_init returns, clocks_init never stops the clock of a      *)
(* block runtime_init has already taken out of reset: the blocks on clocks *)
(* that clocks_init stops and restarts stay in reset until it is done.     *)
(***************************************************************************)
ReleasedKeepClock ==
    [][boot # "done" =>
         \A b \in ResetMask \ in_reset :
            OutFreq(PeriphClock[b]) > 0 => (OutFreq(PeriphClock[b]))' > 0]_vars
====
