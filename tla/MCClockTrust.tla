---------------------------- MODULE MCClockTrust ----------------------------
(* The instance of ClockTrust that TLC checks; the constants keep the code's *)
(* proportions (24 h, 48 h, 3 readings) with 24 h as the unit.              *)
EXTENDS ClockTrust
=============================================================================
