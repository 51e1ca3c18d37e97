----------------------------- MODULE MCJobQueue -----------------------------
(***************************************************************************)
(* The queue on small instances.  One cron job asks for the first timeframe *)
(* only, as the hourly job asks for NOW_TIMEFRAMES only; a new keyword     *)
(* monitors every timeframe of the instance.                               *)
(***************************************************************************)
EXTENDS JobQueueService, TLC

CONSTANTS t1

MCCronTimeframes == [c \in Cron |-> {t1}]

Symmetry == Permutations(Workers) \cup Permutations(Web) \cup Permutations(Keywords)
=============================================================================
