------------------------------ MODULE MCHwcdc ------------------------------
(* A writer and a debugger, a ring buffer that is larger than a packet; bounds in the cfg. *)
EXTENDS Hwcdc

CONSTANTS t1, t2

MCWriters == {t1}
MCOthers == {t2}
=============================================================================
