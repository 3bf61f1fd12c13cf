------------------------------ MODULE MCIntake ------------------------------
(* TLC instance of Intake.                                                 *)
EXTENDS Intake

CONSTANTS Receipt, DeviceLog

MCOrder == <<Receipt, DeviceLog>>

=============================================================================
