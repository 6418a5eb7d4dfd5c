---------------------------- MODULE MCDeathReports ----------------------------
(* DeathReports for TLC: an event gap of one second, a death gap and a memory    *)
(* of events of two, and four seconds, so that two reports of a key fit.         *)
EXTENDS DeathReports
=============================================================================
