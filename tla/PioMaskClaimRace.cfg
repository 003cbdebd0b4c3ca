\* pio_claim_sm_mask on one core racing pio_claim_unused_sm on the other.
\* Halted cores stop the system, as in the passing run.
CONSTANTS
    Cores = {core0, core1}
    NUM_PIOS = 2
    NUM_PIO_STATE_MACHINES = 2
    SmMasks <- MCSmMasks
SPECIFICATION Spec
PROPERTY MaskClaimAtomic
CHECK_DEADLOCK FALSE
