---------------------------- MODULE MCCIMonitor ----------------------------
(* Two cycles: one of two jobs, and one job that needs the second of them.    *)
EXTENDS CIMonitor

ThreeJobs == 1..3
TwoCycles(j) == IF j <= 2 THEN 1 ELSE 2
Chain(j) == IF j = 1 THEN {} ELSE {1}
=============================================================================
