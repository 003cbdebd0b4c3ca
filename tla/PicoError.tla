------------------------------ MODULE PicoError ------------------------------
(* The return codes of pico/error.h that the PIO helpers use.             *)
EXTENDS Integers
PICO_OK == 0
PICO_ERROR_INVALID_ARG == -5
PICO_ERROR_INSUFFICIENT_RESOURCES == -9
PICO_ERROR_BAD_ALIGNMENT == -11
=============================================================================
