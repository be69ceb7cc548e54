------------------------------- MODULE MCSta -------------------------------
(* Every reason for a lost link. *)
EXTENDS Sta

MCReasons == AllReasons \ {"ASSOC_LEAVE"}
=============================================================================
