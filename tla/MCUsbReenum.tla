------------------------------ MODULE MCUsbReenum ------------------------------
(* Small instances of UsbReenum for TLC: a tick stands for 150 ms, so that *)
(* the limits keep their order (GAP < ARM < QUIET < BOOT_HOLD).            *)
EXTENDS UsbReenum, TLC
===============================================================================
