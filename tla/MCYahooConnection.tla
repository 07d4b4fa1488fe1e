------------------------- MODULE MCYahooConnection -------------------------
(***************************************************************************)
(* A league-sync job and the member's own discovery over one connection,   *)
(* with two mishaps, two refresh tokens and a circuit of two failures: a   *)
(* lost rotation, a refusal, a revocation and a new sign-in all fit, in    *)
(* every order, with the row held by either worker.                        *)
(***************************************************************************)
EXTENDS YahooConnection
=============================================================================
