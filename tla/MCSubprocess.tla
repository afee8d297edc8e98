---------------------------- MODULE MCSubprocess ----------------------------
(* Constants of Subprocess for TLC.                                         *)
EXTENDS Subprocess

\* Two reads empty a full pipe, and one read leaves something behind.
MCCapacity == 3
MCReadMax == 2
MCDeadline == 2

WellBehaved == {"fail", "signal", "helper"}
Daemon == {"daemon"}
=============================================================================
