------------------------- MODULE MCClockConfigure --------------------------
(***************************************************************************)
(* Clock tree of the RP2350 reduced to clk_ref, clk_sys, clk_peri and      *)
(* clk_usb, as clocks_init leaves it: clk_ref on XOSC, clk_sys on PLL_SYS  *)
(* through its aux mux, clk_peri on clk_sys and clk_usb on PLL_USB.        *)
(* Frequencies in MHz.                                                     *)
(***************************************************************************)
EXTENDS ClockConfigure, TLC

MCClocks == {"clk_ref", "clk_sys", "clk_peri", "clk_usb"}
MCGlitchless == {"clk_ref", "clk_sys"}

(* CLOCKS_CLK_REF_CTRL_SRC: 0 ROSC, 1 aux, 2 XOSC; CLK_SYS_CTRL_SRC: 0 clk_ref, 1 aux *)
MCGlitchlessInput ==
    [c \in MCGlitchless |->
        IF c = "clk_ref" THEN (0 :> "rosc" @@ 2 :> "xosc") ELSE (0 :> "clk_ref")]

MCAuxInputs ==
    "clk_ref" :> {"pll_usb", "gpin0"} @@
    "clk_sys" :> {"pll_sys", "pll_usb", "gpin0"} @@
    "clk_peri" :> {"clk_sys", "pll_usb"} @@
    "clk_usb" :> {"pll_usb", "pll_sys"}

MCOscFreq ==
    "rosc" :> 11 @@ "xosc" :> 12 @@ "pll_sys" :> 150 @@ "pll_usb" :> 48 @@
    "gpin0" :> 10

MCStoppable == {"pll_sys", "pll_usb", "gpin0"}
MCPlls == {"pll_sys", "pll_usb"}

(* The previous software ran the same clocks_init, so its register state  *)
(* is the one clocks_init sets up.                                         *)
MCInitCtrl ==
    "clk_ref" :> [src |-> 2, auxsrc |-> "pll_usb", div |-> One] @@
    "clk_sys" :> [src |-> 1, auxsrc |-> "pll_sys", div |-> One] @@
    "clk_peri" :> [src |-> 0, auxsrc |-> "clk_sys", div |-> One] @@
    "clk_usb" :> [src |-> 0, auxsrc |-> "pll_usb", div |-> One]

(* clocks_init lines 185-228 (clk_adc and clk_hstx are like clk_usb and    *)
(* clk_peri): clk_ref on XOSC, clk_sys on PLL_SYS through aux, clk_usb on  *)
(* PLL_USB, clk_peri on clk_sys, each with the literal src_freq.           *)
MCBootCalls ==
    << [clk |-> "clk_ref", src |-> 2, auxsrc |-> "pll_usb", freq |-> 12, src_freq |-> 12],
       [clk |-> "clk_sys", src |-> 1, auxsrc |-> "pll_sys", freq |-> 150, src_freq |-> 150],
       [clk |-> "clk_usb", src |-> 0, auxsrc |-> "pll_usb", freq |-> 48, src_freq |-> 48],
       [clk |-> "clk_peri", src |-> 0, auxsrc |-> "clk_sys", freq |-> 150, src_freq |-> 150] >>

(* Three blocks of runtime_init's masks: PWM, on clk_sys, which the first *)
(* unreset releases; UART0, on clk_peri, which waits for the last; USBCTRL, *)
(* on clk_usb, which runtime_init never resets.                            *)
MCPeriphs == {"pwm", "uart0", "usbctrl"}
MCPeriphClock == "pwm" :> "clk_sys" @@ "uart0" :> "clk_peri" @@ "usbctrl" :> "clk_usb"
MCNotReset == {"usbctrl"}
MCLateUnreset == {"uart0", "usbctrl"}

C(clk, src, auxsrc, freq) == [clk |-> clk, src |-> src, auxsrc |-> auxsrc, freq |-> freq]

(* Calls of the kind the SDK and the core make: PLL changes of clk_sys,   *)
(* clk_sys on clk_ref, divided peripheral clocks.                          *)
TypicalCalls ==
    { C("clk_ref", 2, "pll_usb", 12), C("clk_ref", 1, "pll_usb", 24),
      C("clk_sys", 1, "pll_sys", 150), C("clk_sys", 1, "pll_sys", 48),
      C("clk_sys", 1, "pll_usb", 48),
      C("clk_sys", 0, "pll_sys", 12), C("clk_sys", 0, "pll_usb", 12),
      C("clk_peri", 0, "clk_sys", 48), C("clk_peri", 0, "pll_usb", 48),
      C("clk_usb", 0, "pll_usb", 48), C("clk_usb", 0, "pll_sys", 48) }

(* A glitchless clock put on its aux input from a GPIN slower than its    *)
(* glitchless input 0 (clk_sys on GPIN0 at 10 MHz, clk_ref at 11 MHz).     *)
GpinCalls == { C("clk_sys", 1, "gpin0", 10), C("clk_ref", 1, "gpin0", 10) }

(***************************************************************************)
(* The caller obligations of the passing runs.  The first is the one the   *)
(* comment of clocks.c line 71 states: glitchless source 0 is no faster    *)
(* than the aux source.  The second is what a caller must do so that the   *)
(* aux mux is not written while selected: keep the aux source when moving  *)
(* a glitchless clock to a non-aux input.                                  *)
(***************************************************************************)
SlowInputZero(a) ==
    has_glitchless_mux(a.clk) /\ a.src = AUX =>
        NominalFreq(GlitchlessInput[a.clk][0]) <= NominalFreq(a.auxsrc)
KeepsAux(a) ==
    has_glitchless_mux(a.clk) /\ a.src # AUX => a.auxsrc = ctrl_aux[a.clk]
CarefulCaller(a) == SlowInputZero(a) /\ KeepsAux(a)

(* No clock_configure of clk_sys or clk_ref by the application once resus *)
(* is armed: the handler configures clk_sys itself.                        *)
ResusQuiet(a) == resus_ctrl => a.clk \notin Glitchless
CarefulResusCaller(a) == CarefulCaller(a) /\ ResusQuiet(a)

(* Only clk_ref left alone once resus is armed: clk_sys may still move.   *)
RefQuiet(a) == resus_ctrl => a.clk # clk_ref
SysMovingCaller(a) == CarefulCaller(a) /\ RefQuiet(a)

AllCalls == TypicalCalls \cup GpinCalls
=============================================================================
