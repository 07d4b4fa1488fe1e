--------------------------- MODULE RefreshPromise ---------------------------
(***************************************************************************)
(* What a member who asks for fresh ESPN data is promised, apart from how  *)
(* the request travels: an intent names the artifact families it needs and *)
(* the moment it was made; it is fulfilled only by captures no older than  *)
(* that moment; once fulfilled it stays fulfilled, and an intent that was  *)
(* given up is never silently opened again.                                *)
(***************************************************************************)
EXTENDS Naturals, Sequences

CONSTANTS Families   \* the artifact families an intent may need

VARIABLES captured,  \* when each family was last captured, 0 if never
          intents    \* the intents in the order they were made

promiseVars == <<captured, intents>>

GivenUp == {"failed", "expired"}

\* Every family the intent needs was captured at or after it was made.
Satisfied(intent, when) == \A f \in intent.needs : when[f] >= intent.since

Init == /\ captured = [f \in Families |-> 0]
        /\ intents = <<>>

\* An intent may turn to any outcome it has not been promised away from.
MayBecome(intent, next) ==
  /\ next.since = intent.since /\ next.needs = intent.needs
  /\ \/ next.outcome = intent.outcome
     \/ intent.outcome # "fulfilled" /\ next.outcome \in GivenUp
     \/ next.outcome = "fulfilled" /\ Satisfied(intent, captured')

\* Captures arrive, intents end, and at most one new intent is made, open.
Next == /\ \A f \in Families : captured'[f] >= captured[f]
        /\ Len(intents') \in {Len(intents), Len(intents) + 1}
        /\ \A i \in DOMAIN intents : MayBecome(intents[i], intents'[i])
        /\ \A i \in DOMAIN intents' \ DOMAIN intents : intents'[i].outcome = "open"

Spec == Init /\ [][Next]_promiseVars
=============================================================================
