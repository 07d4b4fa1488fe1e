----------------------- MODULE MCRosProfileRecovery -----------------------
(***************************************************************************)
(* Two proofs at once (the code's localConcurrency), a queue that does not *)
(* retry, one mishap of any kind, and a profile that is new, or that an    *)
(* earlier release left withheld or with a replay in the queue. A mishap   *)
(* is a crash, a job expired too soon or lost, a lost answer, a failed     *)
(* proof, an unreadable corpus or an imported artifact.                    *)
(***************************************************************************)
EXTENDS RosProfileRecovery
=============================================================================
