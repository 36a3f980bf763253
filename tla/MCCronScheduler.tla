-------------------------- MODULE MCCronScheduler --------------------------
(* Two schedulers, one of which may have two runs of the job alive, and a  *)
(* change of the date.                                                     *)
EXTENDS CronScheduler

CONSTANTS p1, p2, i1, i2, i3

MCHomeOf == [i \in Invocations |-> IF i = i3 THEN p2 ELSE p1]
=============================================================================
