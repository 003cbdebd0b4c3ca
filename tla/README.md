# TLA+ models of the RP2350 SDK subset and the WebServer library

This directory holds TLA+ specifications of parts of `src/`, the TLC
configurations that check them, and `PROJECT.json`. `PROJECT.json` lists every
component, run, mutant, source mapping, finding and hazard.

## The system and its parts

The repository is a vendor hardware-abstraction layer for the RP2350 (pico-sdk
sources) plus a small HTTP server library. `spec.md` names the clock
configurator and the PIO allocator as the parts with design content.

* **Clock configurator** (`hardware_clocks/clocks.c`). `clock_configure` moves a
  clock slice to a new source and divider as an ordered series of register
  writes and busy-waits:
  1. raise the divider early;
  2. for clk_ref/clk_sys going to aux, switch the glitchless mux away and wait
     for SELECTED; for every other call, clear ENABLE and wait three cycles;
  3. write the aux mux;
  4. write the glitchless mux and wait;
  5. set ENABLE;
  6. write the final divider;
  7. cache the frequency in `configured_freq`.

  `clock_stop` clears ENABLE and zeroes the cache. `runtime_init`
  (`runtime.c` lines 124-189) puts every block except QSPI, the PLLs, USBCTRL
  and SYSCFG into reset, releases those clocked only by clk_sys and clk_ref and
  waits for RESET_DONE, calls `clocks_init`, and then releases every block.
  `clocks_init` runs at that point:
  1. turn resus off;
  2. switch clk_sys and clk_ref off their aux inputs and wait;
  3. `pll_init` both PLLs;
  4. configure clk_ref, clk_sys, clk_usb, clk_adc, clk_peri and clk_hstx in that
     order;
  5. start the ticks from the clk_ref cache.

  `clocks_enable_resus` arms the resus detector. If clk_sys stops, the hardware
  forces it onto clk_ref and raises the clocks interrupt. The handler then calls
  `clock_configure(clk_sys, clk_ref, ...)` itself and clears RESUSSED. So two
  contexts, the application and the interrupt, run `clock_configure`, and
  neither takes a lock. The hardware completes a mux switch or an ENABLE change
  some cycles after the write, so the cores' steps interleave with hardware
  steps.
* **PIO instruction-memory allocator** (`hardware_pio/pio.c` lines 61-183). It
  keeps a 32-bit occupancy mask per PIO:
  * `pio_add_program` places a program top-down, and `pio_add_program_at_offset`
    at a given offset. Both check the version, GPIO window, origin and overlap,
    copy the instructions (relocating JMPs), and set the mask;
  * `pio_remove_program` clears the mask bits;
  * `pio_clear_instruction_memory` empties everything;
  * `pio_set_gpio_base` moves the GPIO window of an empty PIO.

  All of these run inside the global claim spin lock (`hw_claim_lock`). The lock
  disables interrupts and so serialises the two cores.
* **PIO state-machine claims** (`pio.c` lines 20-59 over `claim.c`). A claim
  bitmap under the same lock. `pio_claim_sm_mask` takes the lock once per bit.
* **Power-manager timer** (`hardware_powman/powman.c` lines 32-71, 171-181,
  205-210):
  * `powman_timer_set` writes the 64-bit count as four 16-bit SET_TIME parts
    around a stop and restart;
  * `powman_get_time_msec` reads two 32-bit halves until two reads agree;
  * `powman_set_alarm` clears ALARM_ENAB, writes ALARM_TIME in four parts and
    sets ALARM_ENAB again; `powman_clear_wakeups` clears ALARM_ENAB. The
    hardware latches the alarm whenever it is enabled and the count equals
    ALARM_TIME.
* **HTTP server** (`libraries/WebServer/src/HTTPServer.cpp`):
  * a singly linked list of request handlers: `on`, `removeHandler`,
    `removeRoute`, `_addRequestHandler`, `_removeRequestHandler`;
  * one request at a time: `_handleRequest` picks the first handler that
    `canHandle` it, and the handler answers through the `send*` family;
  * a response is framed by `_prepareHeader`, `sendContent` and the chunked
    encoding, and `_handleRequest` ends it (404 page, final empty chunk);
  * a handler calls `authenticate(username, password)` on the request's
    Authorization header and, on failure, `requestAuthentication`, which
    stores a realm and, for Digest, a random nonce and opaque value in the
    server, and sends the WWW-Authenticate challenge with a 401.
* **TRNG** (`pico_rand/rand_hardware.c`): `get_rand_32/64/128` run
  `trng_generate_entropy` and then load EHR words. `trng_sw_reset` clears
  RNG_ICR, starts the self-clearing reset and writes SAMPLE_CNT1 until it
  reads back, escaping after 10 us. `trng_generate_entropy` enables the
  source and polls RNG_ISR until EHR_VALID alone is set, an error bit is set,
  or 5000 us have passed; the last two end in `hard_assert`, which panics
  (`runtime.c` `hard_assertion_failure`). Loading `ehr_data[5]` clears the
  EHR and EHR_VALID.
* **Stack guard** (`runtime.c` `runtime_install_stack_guard`). The guard is
  the 32 bytes at `(stack_bottom + 31) & ~31`. It stops if the MPU or PMP is
  already in use (`__breakpoint()`). Otherwise it programs region 0 of the
  Armv6-M MPU (RP2040), the Armv8-M MPU (RP2350 Arm) or the Hazard3 PMP
  (RP2350 RISC-V).
* **Heap break** (`runtime.c` `_sbrk`): the first call sets `heap_end` to
  `&end`; a request past `__StackLimit` fails, or, with
  `PICO_USE_OPTIMISTIC_SBRK`, is clamped to it.
* **PIO pin helpers** (`hardware_pio/pio.c` lines 185-267). Each helper saves
  the victim state machine's PINCTRL and EXECCTRL and clears OUT_STICKY. It
  then rewrites PINCTRL.SET_BASE/SET_COUNT and forces a SET instruction of at
  most five data bits, as often as needed, and restores both registers.
  `pio_sm_set_pins` covers the 32 pins in chunks of 5 (the last of 2).
  The two `_with_mask` helpers set one pin per set bit of the mask.
  `pio_sm_set_consecutive_pindirs` subtracts the PIO's GPIO base from `pin`,
  refuses a pin outside the 32-pin window, and wraps with `& 0x1f`.
* **Boot ROM lookup** (`pico_bootrom/bootrom.c`, `include/pico/bootrom.h`).
  `rom_func_lookup` picks a lookup flag from what the caller runs as: RISC-V,
  Arm secure or Arm non-secure. It then asks the ROM's table.
  `rom_funcs_lookup` replaces each of the first `count` codes of a table by
  its address, in place, and returns whether all were found. The inline
  wrappers (`rom_explicit_buy`, `rom_set_ns_api_permission`, ...) look a
  function up and call it without testing the result. `reset_usb_boot` calls
  the reboot function with BOOTSEL flags and the activity pin, taken as the
  lowest set bit of the mask.
* **Runtime start-up after the clocks** (`runtime.c` lines 191-264). With
  every block out of reset, `runtime_init` clears the input enable of pads
  26-29. It walks `__mutex_array`, where each object starts with a spin-lock
  word: 0 marks a `mutex_t` and 1 a `recursive_mutex_t`. Each object is
  initialised and the walk steps on by that object's size. The code then
  copies the vector table VTOR points at into the RAM table (without a
  stored table, only the first `MIN(VTABLE_FIRST_IRQ, sizeof)` bytes, and
  the IRQ entries are set to `__unhandled_user_irq`), moves VTOR to it, and
  stops at a breakpoint if it runs inside an exception.
* The rest of **runtime start-up**,
  **register and platform headers**. See `PROJECT.json` for each and its status.

The parts share nothing at run time except the convention of register access.
The clock configurator and the resus handler share the clock registers and
`configured_freq`.

## Modules

| module | models | state | actions |
|---|---|---|---|
| `ClockConfigure` | `clocks.c` lines 30-353 | mux, divider and ENABLE registers; `selected` (the glitchless mux as switched); `running` (ENABLE after its synchroniser); `configured_freq`; per context `pc` and `call` (next step of `clock_configure` and its locals); `boot`/`bi` (place in `runtime_init` and `clocks_init`); `in_reset` (blocks held in reset); `tick_cycles`; resus `resus_ctrl`, `irq_en`, `resussed`; `dead` (sources that stopped) | `ConfigureStart` and the steps `SwitchAway` … `FinalDiv` for each context; `clock_stop`; `AppConfigure`; boot steps `reset_block`, `unreset_block`, `WaitResetDone` (`runtime.c`), `ResusOff`, `Detach`, `WaitDetached`, `PllInit`, `BootConfigure`, `start_all_ticks`; `clocks_enable_resus`, `clocks_irq_handler`, `ResusClear`; environment `SourceStops`, `ResusDetect`, `HwSelect`, `HwEnableSync` |
| `MCClockConfigure` | instance for TLC | clk_ref, clk_sys, clk_peri, clk_usb; ROSC 11, XOSC 12, PLL_SYS 150, PLL_USB 48, GPIN0 10 MHz; the caller disciplines of the runs | |
| `PioProgramSpace` | `pio.c` lines 61-183 | `used` (the mask as a set of slots), `instr_mem`, `gpiobase`, `lock`, `clobbered`, `panicked`, `handles` (offsets callers hold) | the five allocator operations, each one atomic step of a core while the lock is free |
| `MCPioProgramSpace` | instance for TLC | one PIO of 8 slots, two cores, three programs (`ws2812`, `uart_tx`, `fixed` with origin 0, PIO version 1 and the upper GPIO window) | |
| `PioSmClaim` | `pio.c` lines 20-59 | `claimed` (the claim bits), `mask_pc` (per core, the bits a mask claim still has to take), `held` (what each core believes it owns), `panicked` | `pio_sm_claim`, `pio_sm_unclaim`, `pio_claim_sm_mask` and `ClaimMaskBit` (one bit per lock section), `pio_claim_unused_sm` |
| `MCPioSmClaim` | instance for the mask-claim race run | two cores, two PIOs of two state machines, the mask of both | |
| `PioPins` | `pio.c` lines 185-267 | `pio` (`pins`, `pindirs` as sets of pin numbers; `pinctrl`, `execctrl` as integers), `before` (the state the call began in), `call` (the call and its return value) | `SetPins`, `SetMasked` (pins or pindirs), `SetConsecutivePindirs`; each applies the helper, an operator with a `RECURSIVE` loop for the code's `while`, in one step |
| `PioInstrMask` | `pio.c` lines 61-80, 109-165 | `used` (the 32-bit `_used_instruction_space` word as its set of bits), `wbefore`, `wcall` (the call and its result) | `AddProgram` (`pio_add_program`: the downward scan `FindDown`, the check, the mask update), `AddProgramAtOffset` |
| `PicoError` | `pico/error.h` | the return codes the PIO helpers use | |
| `StackGuard` | `runtime.c` lines 60-122 | `regs` (per build, the MPU or PMP registers), `gcall` (the call, its build, `stack_bottom` and how it ended) | `runtime_install_stack_guard` for the RP2040 (Armv6-M MPU), RP2350 Arm (Armv8-M MPU) and RP2350 RISC-V (Hazard3 PMP) builds; the hardware's reading of the registers (`WriteFaults`) is the reference |
| `BootRom` | `bootrom.c` lines 11-54, `bootrom.h` lines 209-290 | `table` (the caller's table of codes, then addresses), `rcall` (the call and its result), `rom` (what the ROM was asked to run) | `FuncsLookup` (`rom_funcs_lookup`, a `RECURSIVE` loop), `RomWrapperCall` (the inline wrappers), `reset_usb_boot`; the ROM's own table is the constant `RomTable` |
| `RuntimeInit` | `runtime.c` lines 191-264 | `pads_ie`, `mutexes` (the object sizes, the kinds in link order and the words of `__mutex_array`), `vectors` (`ram_vector_table`), `vtor`, `icall` (the init calls made and how the call ended) | `runtime_init`; the walk is the recursive operator `MutexWalk`, and `Offset` (a fold of the object sizes) is its reference |
| `MCWordHelpers` | composition of `PioPins`, `PioInstrMask`, `StackGuard`, `BootRom` and `RuntimeInit` for TLC | pin helpers: two start states (all pins low with a configured PINCTRL and sticky OUT, all pins high with zero registers); pin values and masks with bits 0, 4, 5, 30, 31; GPIO bases 0 and 16; pins 0, 14, 16, 30, 47, 48; counts 0, 1, 5, 6, 11, 33; allocator: words with the top, the bottom, all but slot 0, the low half or two scattered slots taken; programs of 1, 3 and 32 instructions, fixed origins 29, 30 and 0; the Arm build; stack guard: stack bottoms at an SRAM boundary, 1 and 33 bytes past it and in the last 32-byte subregion of a 256-byte block; protection off, or already in use; boot ROM: three callers (RISC-V, Arm secure and non-secure), a ROM table where one code is unknown, two are missing for non-secure callers and one for RISC-V; tables of two and three codes; activity masks with no pin, pin 25 and pins 3 and 25; `pio_can_add_program` queries with and without an offset; runtime start-up: a stored vector table of 16 system and 52 IRQ entries over RAM garbage; mutex arrays that are empty, mutex-recursive-mutex and recursive-recursive-mutex; 8-byte mutexes with 8- or 12-byte recursive mutexes; called in thread mode or in an exception | |
| `PowmanTimer` | `powman.c` lines 32-71, 171-181, 205-210 | `time`, `running`; setter `spc`, `setval`; reader `rpc`, `raw` halves, `ticks`; `alarm`, `alarm_enab`, `fired`; alarm setter `apc`, `alarmval`; ghosts `set_old`, `seen`, `armed` | `Tick`, `powman_timer_start/stop`, `SetStart`, `SetWrite` (one per part), `SetStop`, `SetRestart`, `GetTimeStart`, `ReadHalf`, `ReadLastHalf`; `AlarmStart`, `AlarmWrite`, `AlarmEnable`, `powman_clear_wakeups`; every step latches the alarm (`AlarmLatch`); `AlarmAck` is the application's interrupt handler |
| `MCClaimsTimer` | `PioSmClaim` and `PowmanTimer` side by side for TLC: `mode`, chosen at the start, says which of them a behaviour exercises, so the states add up instead of multiplying | claims: two cores (symmetric), two PIOs of two state machines, the mask of both; timer: 1-bit parts (a 4-bit count), set values 6 and 9, alarm times 5 and 6 | |
| `HandlerRegistry` | the promise of the handler list | `routes`, a sequence | `Add` at the end, `Drop(i)` |
| `HTTPServer` | `HTTPServer.cpp` lines 44-633 | the list (`live`, `route`, `next`, `first`, `last`); the `removeRoute` loop `rr`; request `phase`, `cur`, `req`, `handled`; response `contentLength`, `chunked`, `wire` (segments sent); caller ghosts `how`, `rerouted`, `ncalls`, `touched` | `Request`, `ResponseCall` (the `send*` family and `setContentLength`), `RouteCall` (`on`, `removeHandler`, `removeRoute`), `RemoveRouteStep`, `pathArg`, `HandlerReturn`, `_handleRequest` |
| `MCHTTPServer` | instance for TLC | three handlers (symmetric), one URI, GET/POST, body sizes 0 and 1, three calls per handler | |
| `HttpAuth` | `HTTPServer.cpp` lines 78-208 | `srealm`, `snonce`, `sopaque`; `issued` (random values drawn); `challenges` (Digest challenges sent); `sent` (the client's requests); `last` (the last `authenticate` call and its result) | `requestAuthentication`, `ClientRequest`, `ForgedRequest` (each a request whose handler calls `authenticate`) |
| `MCHttpAuth` | instance for TLC | four nonce values (symmetric), one realm and the default, GET, POST and PATCH, two URIs, a 6-byte credential | |
| `Trng` | `rand_hardware.c` lines 21-106 | `now` (time_us_32, `TimeBits` wide); TRNG `resetting`, `source`, `isr`, `ehr`; per caller `pc`, `words` (EHR loads still to do), `esc`; ghosts `waited`, `fresh`; `ticks` (a caller's tick budget) | `GetRand`, `ClearIcr`, `TakeEscape`, `SwReset`, `SampleCnt`, `ResetEscape`, `EnableSource`, `PollIsr`, `ValidEscape`, `DisableSource`, `ReadWord`; hardware `ResetDone`, `Fill`, `RaiseError`, `Tick` |
| `Sbrk` | `runtime.c` lines 278-303 | `heap_end` (`Null` before the first call), `last` (the last call and its result) | `_sbrk(incr)` for each increment the caller discipline `MallocMay` allows |
| `RuntimeServices` | the two above, interleaved | both | `TrngNext` or `SbrkNext` |
| `MCRuntimeServices` | instance for TLC | one caller; a 4-bit timer with escapes 2 and 5; `end` = 2, `__StackLimit` = 5, increments -1, 1, 2 | |

Correspondence and abstractions:

* **Busy-waits.** Each busy-wait is a step that stutters until the hardware has
  switched. This covers the SELECTED waits in `clock_configure` and in
  `clocks_init`.
* **ENABLE delay.** Lines 84-90 wait `3 * (configured_freq[clk_sys] /
  configured_freq[c] + 1)` cycles of the actual clk_sys (`DelayCycles`). The
  ENABLE clear reaches the output after three cycles of the clock itself,
  as the comment of line 85 says. When `DelayCycles(c) * f_c >= f_sys` at the
  frequencies the hardware really delivers (`WaitCovers`), the wait ends
  only after the synchroniser has passed the clear. A shorter wait may end
  before it. With a zero cache the wait is skipped, as in the code.
* **Interrupt.** The handler runs to its end before the application resumes.
  The NVIC takes a pending interrupt before the application's next step.
  Nothing runs while clk_sys delivers nothing.
* **Resus trigger.** A source that clk_sys runs from may stop once resus is
  armed. `MaxFailures` = 1 bounds the failures. The source must not be under
  clk_ref: with clk_ref stopped the handler hangs by design (spec 4.1).
* **Outside the repository.** `xosc_init` and `pll_init` are single steps.
* **Frequencies.** Frequencies are integers in MHz. The divider keeps the 16
  fractional bits of the RP2350.
* **JMP relocation.** JMP relocation adds the offset to the whole 16-bit word,
  as line 142 does. The model has 8 slots instead of 32, and the JMP address
  field narrows to match.
* **Powman timer.** A SET_TIME part has 1 bit instead of 16, so the count has 4
  bits. The locals of a call are reset when it returns: they are dead. A carry between the two halves of a read happens within a few ticks.
* **HTTP data.** The handler bodies, URIs and header text are abstracted:
  * a response is a sequence of segments (header, chunk-size line, data of n
    bytes, CRLF);
  * `canHandle` is an exact URI and method match, with `HTTP_ANY`;
  * a deleted handler's fields are reset, so freed memory holds no state.
* **Authentication data.** MD5 is taken to have no collisions: a hash is the
  tuple it is computed from. A Basic header is the base64 encoding of a byte
  string, written as that string's length and whether it is a prefix of
  `username:password`. A Digest header is a record of its parameters, so the
  order of the parameters in the text is not modelled. `_getRandomHexString`
  returns a value not drawn before. The eavesdropper sees every challenge and
  request. It knows the username, and it may know all but the last byte of
  the credential. It does not know the password.
* **Caller obligations.** The operator constant `CallerMay` states what callers
  respect. The clock model's disciplines:
  * `SlowInputZero` is the assumption commented at clocks.c line 71 (a slow
    GPIN on clk_sys breaks `NoOverspeed` while parked on input 0);
  * `KeepsAux` means a glitchless clock moved to a non-aux input keeps its aux
    source (without it `GlitchlessAuxSafe` fails on the aux write of line 93);
  * `ResusQuiet` leaves clk_sys and clk_ref to the resus handler once resus is
    armed.

  `DocumentedCaller` is the HTTP handler discipline of the library's examples.
* **Refinement.** `HTTPServer` instantiates `HandlerRegistry` with
  `routes <- [i \in 1..Len(Chain) |-> route[Chain[i]]]`. The linked list,
  walked from `first`, must implement an append-at-end list with removal.

## Runs

| run | cfg | expect | what it shows |
|---|---|---|---|
| pio_allocator | `MCPioProgramSpace.cfg` | pass (170,921 states) | `ProgramsIntact`: through any interleaving of the two cores, every program a caller still holds keeps its slots, relocated JMPs and words. `GpioCompatible`: the GPIO window never moves under a loaded program. |
| word_helpers | `MCWordHelpers.cfg` | pass (321,984 states) | `SetPinsExact`, `MaskedSetExact`, `ConsecutivePindirsExact`: each pin helper leaves exactly the pins, masked pins or directions asked for. Every other pin and both registers are as before. A pin outside the PIO's window is refused with `PICO_ERROR_INVALID_ARG` and no change. `AddPlacesFree`: on the full 32-slot word, an add places a program only on free slots inside the word and marks exactly them, and `pio_add_program` finds the highest free offset, as spec section 3 describes; `pio_can_add_program` answers true exactly when that add would succeed, and changes nothing. `GuardExact`: once `runtime_install_stack_guard` has written its registers, a store faults on exactly the 32 bytes at the first 32-byte boundary at or above the stack bottom, on all three builds. `FuncsLookupExact`: `rom_funcs_lookup` turns exactly the first `count` codes into the ROM's addresses for the caller, and returns true exactly when none of them is 0. `MutexesInitialised`: `runtime_init` initialises every object of `__mutex_array` once, as its own kind, at its own address, in link order, whether the two object sizes are equal or not. `VectorTableComplete`: once VTOR points at the RAM table, every entry of it is a vector: the system vectors copied from the old table, and each IRQ entry the stored one or `__unhandled_user_irq`. |
| claims_and_timer | `MCClaimsTimer.cfg` | pass (45,713 states) | `ClaimsAgree`: the claim bits are exactly the state machines the cores hold, and no two cores hold the same one, through explicit, mask and unused claims on both cores. `TimeReadConsistent`: a powman timer read returns a count the timer really held during the read, despite carries between the halves. `SetExact`: a set leaves exactly its value. `AlarmAtArmed`: the alarm goes off only at the time the last completed `powman_set_alarm` asked for, never at a half-written ALARM_TIME. |
| pio_mask_claim_race | `PioMaskClaimRace.cfg` | violation | `MaskClaimAtomic`: core0's `pio_claim_sm_mask` of a mask that was all free claims state machine 0. Core1's `pio_claim_unused_sm` then takes state machine 1, and core0 panics on bit 1 with state machine 0 claimed. A mask claim made in one critical section would not panic in either order. |
| clock_configure_safety | `MCClockConfigure.cfg` | pass (76,616 states) | See the paragraph below the table. |
| clock_resus_preempt | `ClockResusPreempt.cfg` | violation | Resus is armed and the application moves clk_sys to PLL_SYS. The PLL stops after the switch and before the poll. The handler puts clk_sys on clk_ref, and the application's wait for SELECTED never ends. |
| clock_aux_delay | `ClockAuxDelay.cfg` | violation | `OutputStoppedAuxSafe`: `clock_configure(clk_usb, 0, pll_sys, 48)` raises the divider at line 66, then waits 12 cycles of the 150 MHz clk_sys, computed from the old cache of 48 MHz. Three cycles of clk_usb, now at 15.36 MHz, take longer, and the aux mux is written while the output still toggles. |
| http_server | `MCHTTPServer.cfg` | pass (314,646 states) | `ListIntact`, `RegistryRefined` and `RemoveRouteComplete`: the list stays well formed, refines `HandlerRegistry`, and `removeRoute` removes every match. `NoUseAfterFree`: no freed handler is used. `ResponseFramed`: every finished response is well framed. |
| http_send_p_chunked | `HttpSendPChunked.cfg` | violation | `send_P` with a length, for an unknown content length, writes the header as a chunk. |
| http_auth | `MCHttpAuth.cfg` | pass (21,744 states) | `AcceptsOnlyClient`: whatever the eavesdropper builds from challenges, captured requests and what it knows of the credential, `authenticate` accepts only headers the client sent. `ClientAccepted`: the client's Basic credential, and its Digest answer to the challenge in force for GET, POST, PUT or DELETE, are accepted. |
| http_digest_replay | `HttpDigestReplay.cfg` | violation | A Digest header captured from a GET of one URI is accepted with a GET of another: `authenticate` never compares the `uri` parameter with the request. |
| runtime_services | `MCRuntimeServices.cfg` | pass (329,856 states) | `ReturnsFresh`: every word `get_rand_*` returns was loaded from a filled EHR. `EscapeNotEarly`: a TRNG escape panics only once its timeout has really passed, across timer wraps. `CallEnds`: every call returns or panics, even when the TRNG never fills. `GrantedFits`: `_sbrk` never grants memory past `__StackLimit`. |

`clock_configure_safety` runs `clocks_init` from the registers the previous
image left, then application calls, `clocks_enable_resus`, a source failure and
the resus handler. It checks these properties:

* `NoOverspeed`: no overspeed in either context;
* `ReleasedKeepClock`: until `runtime_init` returns, no block it has taken out
  of reset has its clock stopped (three blocks: PWM on clk_sys, UART0 on
  clk_peri, USBCTRL on clk_usb, which is never reset);
* `GlitchlessAuxSafe`: the aux mux of clk_ref and clk_sys is never written
  while selected;
* `ConfigureTerminates`: every call ends;
* `PllInitSafe`: the PLLs are reprogrammed only once clk_sys and clk_ref no
  longer run from them;
* `TicksFromRef`: the ticks start at the real clk_ref rate;
* `ResusRestores`: after the handler, the cache of clk_sys equals what it
  delivers.

The findings behind the violation runs are in `PROJECT.json`. Every property of
a passing run has a mutant there: the same definition with a plausible bug. TLC
must find the mutant's violation. Examples:

* a dropped overlap check;
* the divider written late;
* no switch-away;
* a skipped delay or SELECTED wait;
* ticks started first;
* a handler that returns clk_sys to aux;
* an unmasked SET_TIME part;
* a list insert at the front;
* a stale `_lastHandler`.

**Bounds.**

* **Allocator.** 8 slots and programs of 2-3 instructions are enough for both
  placement modes, collisions, a full PIO and relocated JMPs. Two cores are enough for every interleaving of two
  atomic sections.
* **PIO pin helpers.** The values put a 1 and a 0 at both ends of a five-bit
  chunk (bits 4, 5) and in the last, two-bit chunk (30, 31). The masks
  include the lowest and the highest pin. With GPIO base 16, pin 14 lies below
  the base and 48 just past the window, and 47 with count 6 or more wraps
  past pin 31. Counts 5 and 6 sit on either side of the loop bound, and
  33 wraps the whole window.
* **Allocator word.** 32 slots, as on the chip, so the top of the scan
  (`32 - length`), a fixed origin one past the top, and a full-length
  program are all reached. The start words make the best offset the top,
  one below it, slot 0 alone, or none.
* **Stack guard.** The four stack bottoms reach an aligned bottom, both
  roundings up, and Armv6-M subregions 0, 1, 2 and 7. The register file
  already in use reaches the `__breakpoint()` path of every build. A
  debugger may resume after the breakpoint, and the model lets the writes
  follow.
* **Boot ROM.** A table of three codes whose first is a miss, and
  counts from 0 to the whole table separate "all found" from "the last one
  found". Each caller meets a code it has no entry for, so each lookup flag
  is told apart.
* **Runtime start-up.** The real table size, 16 system and 52 IRQ
  entries, so a copy by entry count (68 bytes) rather than by byte count
  stops mid-table. Recursive mutexes of 8 and of 12 bytes: with equal
  sizes a step by the wrong kind goes unseen, and with unequal sizes it
  lands inside an object. The arrays start with either kind and put two
  objects of one kind together. The empty array makes the walk end at once.
* **Clock model.** Four clocks cover both glitchless clocks (clk_sys fed by
  clk_ref), a clock derived from clk_sys (clk_peri) and an independent one
  (clk_usb). The frequencies make every divider kind appear: raise-first,
  lower-later, and the fractional 150/48. One source failure is enough for a
  resus during any step of an application call.
* **Powman timer.** 4-bit counts with two set values give carries across both
  part and half boundaries. Alarm time 5 lies on the path of a set from 4 to
  9, and 6 is also a set value.
* **Runtime services.** A 4-bit timer with escapes 2 and 5 wraps within one
  call, so both signed compares see the wrap; escape 5 with `MaxTicks` 1 lets
  the EHR fill before or after the escape. `__StackLimit` 3 above `end`, with
  increments -1, 1 and 2, reaches an exact fit, an overflow and a shrink.
* **HTTP server.** Three handlers give a list with a first, a middle and a last
  element, which every removal case needs. Sizes 0 and 1 separate an empty
  body, whose chunk ends the stream, from a non-empty one.
* **Authentication.** Four nonce values allow two Digest challenges, so an
  answer can go stale. Two URIs and a method outside GET, POST, PUT and
  DELETE are enough for a replay to another resource or method. One client
  request is enough for the eavesdropper to replay it. The 6-byte credential
  does not wrap the `char` length at line 110. With `UserLen` 100 and
  `PassLen` 156 the same model finds `AcceptsOnlyClient` violated by the Basic
  header of the first byte (hazard at line 110).

**Fairness.**

* **Clock busy-waits.** In `clock_configure` and `clocks_init` the core only
  spins. Weak fairness of the core's steps therefore says that a started call
  keeps running.
* **Clock interrupt and hardware.** Weak fairness of the handler entry is the
  NVIC taking a pending interrupt. Weak fairness of `HwSelect`, `HwEnableSync`
  and `ResusDetect` is the datasheet guarantee that a mux with running inputs,
  the ENABLE synchroniser and the resus detector complete.
* **Callers and failures.** No fairness is assumed for callers or for source
  failures.
* **TRNG.** `Tick` is weakly fair: the timer always counts. `ResetDone` is
  weakly fair: the reset self-clears in four cycles. A busy caller's steps are
  weakly fair: the core executes. `Fill` and `RaiseError` are not fair, so
  the TRNG may wedge, which is what the escapes are for. `MaxTicks` = 1 lets
  the timer advance once between two steps of a caller, so every caller step
  can see every timer value.
* **Other models.** No liveness is checked in them.

**Deadlock.**

* `MCPioProgramSpace.cfg` disables the deadlock check. A leaked claim lock (the
  hazard at `pio.c:87`) really stops every core, and that state is reachable in
  the passing run.
* `MCClaimsTimer.cfg` disables it too. A panic halts a core, and a state where
  both cores have panicked has no successor. The timer always has a `Tick`.
* `MCWordHelpers.cfg` disables it: the model is one helper call, and once
  it has returned there is nothing more to do.
* The other runs check deadlock.

## Not modelled, and the plan

* **Clocks.**
  * `clock_configure_gpin`, `clock_gpio_init` and `frequency_count_khz`;
  * the 32-bit Hz-level divider arithmetic (a planned module of operators,
    checked against the round-trip bound of spec 8.3);
  * a RESUSSED latched by the previous image;
  * `clock_stop` in the checked runs (`StopCalls = {}`). After a stop the
    zero cache makes the next `clock_configure` skip the ENABLE delay
    altogether; the hazard at `clocks.c:88` names it. With a stoppable clock
    the clock run takes more than four minutes, and the short delay it
    shares a cause with is already shown by `clock_aux_delay`.
* **Powman.**
  * `powman_set_power_state` and the power-up request;
  * the timer read racing a set on the other core: with `Concurrent` TRUE,
    `TimeReadConsistent` fails, but that case is not a run;
  * an alarm that fires during `powman_timer_set` at a part-written count
    (count 4, alarm 5, set to 9). It depends on hardware behaviour outside
    the repository; see the hazard at `powman.c:47` in `PROJECT.json`.
* **TRNG.** The debug bypass for simulation and FPGA (lines 54-57). Two
  concurrent callers: the code says it is not thread-safe (line 11), and with
  `Callers = {core0, core1}` TLC's simulation mode finds `ReturnsFresh`
  violated. The order in which the compiler loads the two halves of a
  64-bit word: the run assumes the high word first, and `ReadOrders =
  {"lo_first"}` violates `ReturnsFresh`.
* **Runtime.** The floating-point enable, the preinit and init arrays (user
  constructors), `spin_locks_reset`, `irq_init_priorities` and
  `alarm_pool_init_default` (outside this component), and
  `gettimeofday`/`settimeofday`/`_times` (64-bit arithmetic on the AON
  timer, with no interaction). A release build compiles out the assert of
  `runtime.c:211` and treats any nonzero spin-lock word as a recursive
  mutex; the model follows the debug build. The build without a stored
  vector table (`PICO_NO_STORED_VECTOR_TABLE`) copies 16 bytes, four
  entries, where sixteen are needed (`runtime.c:227`): entries 4-15 of the
  RAM table keep what RAM held when VTOR moves to it. With
  `StoredVectorTable = FALSE` in `MCWordHelpers.cfg`, TLC violates
  `VectorTableComplete` in one step; the run checks the stored-table build. The optimistic `_sbrk` mode returns less than was asked for
  (`Optimistic = TRUE` violates `GrantedFits`); the run checks the default. `unreset_block_wait` is in `hardware_resets`, outside the
  repository: the model takes RESET_DONE to follow the block's clock.
* **HTTP server.** URI parsing and `urlDecode`, the order of Digest
  parameters in the header text, and the network client. Its data handling is text formatting that the properties do not
  distinguish.
* **PIO.** `pio_sm_init` and `pio_sm_drain_tx_fifo`: their effect lies in
  `pio_sm_set_config`, `pio_sm_clear_fifos`, `pio_sm_restart` and the FIFO
  hardware, all outside `src/`. A victim state machine that is running
  during a pin helper (the comment at line 186 asks for one that is not).
  A stale offset passed to `pio_remove_program` (the hazard at `pio.c:171`):
  `StaleRemoveSpec` in `MCPioProgramSpace` lets a caller pass any loaded
  offset, and with it TLC violates `ProgramsIntact` in a few steps. The
  assert at line 171 checks only that the mask bits are set.
  The RISC-V build of the allocator. `(1u << length) - 1` is undefined for a
  32-instruction program. On Hazard3, `sll` shifts by the amount modulo 32,
  so the mask is 0. With `Build = "riscv"` in `MCWordHelpers.cfg`, TLC violates
  `AddPlacesFree` in one step: a 32-instruction program is placed at offset 0
  over a loaded program, and no slot is marked used. The run checks the Arm
  build. The twelve-run limit of the project leaves no room for a second run.
* **Boot ROM.** The ROM's own table lookup, which is ROM code, is a constant
  table. The RISC-V adjustment for a 64k development ROM is not modelled.
  The wrappers call the looked-up address without a NULL test. In
  `word_helpers`, a non-secure caller of a secure-only code such as
  `rom_set_ns_api_permission` calls through 0, which `RomWrapperCall` records
  in `rom`. No run states that this never happens: the header promises
  nothing about it, and the twelve-run limit leaves no slot.
* **Declarations only.** The register headers have no behaviour to check.
