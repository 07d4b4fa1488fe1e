----------------------------- MODULE DraftLedger -----------------------------
(***************************************************************************)
(* What a draft room promises to whoever reads it: the table draft_events  *)
(* holds one append-only stream per draft, every state of the stream       *)
(* reduces (reduceDraft does not throw, so getSession never answers        *)
(* DRAFT_STREAM_CORRUPT), and what was recorded is never rewritten:        *)
(* undoing is recording a revert.                                          *)
(*                                                                         *)
(* The writers (commissioners, the ESPN observer, the ESPN poller) are the *)
(* modules that implement this one.                                        *)
(***************************************************************************)
EXTENDS SequencesExt

CONSTANT Legal(_)  \* the logs reduceDraft accepts

VARIABLE log

Init == log = <<>>

\* One transaction appends a batch; readers see all of it or nothing.
AppendBatch ==
  /\ log' # log
  /\ IsPrefix(log, log')
  /\ Legal(log')

Spec == Init /\ [][AppendBatch]_log
=============================================================================
