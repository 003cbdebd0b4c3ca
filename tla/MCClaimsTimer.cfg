\* State-machine claims by two cores; powman_timer_set and
\* powman_get_time_msec called from one core, so their calls do not
\* overlap, nor do they overlap powman_set_alarm, and the timer ticks
\* between any two register accesses.  A panicking core halts, so a claims
\* state with both cores halted has no successor: that stop is real.
CONSTANTS
    Cores = {core0, core1}
    NUM_PIOS = 2
    NUM_PIO_STATE_MACHINES = 2
    SmMasks <- MCSmMasks
    PartBits = 1
    SetValues <- MCSetValues
    MaxTicksPerRead = 1
    AlarmValues <- MCAlarmValues
    Concurrent = FALSE
SPECIFICATION Spec
INVARIANT TypeOK ClaimsAgree
PROPERTY TimeReadConsistent SetExact AlarmAtArmed
CHECK_DEADLOCK FALSE
SYMMETRY CoreSymmetry
