-------------------------- MODULE YahooConnection --------------------------
(***************************************************************************)
(* One member's stored Yahoo authorization, and everything that races over *)
(* it: league-sync jobs of the worker, the member's own discovery in the   *)
(* web application, the exchange of the refresh token (which Yahoo may     *)
(* rotate), the circuit breaker, a reconnection and a disconnection.       *)
(* Yahoo is external: `accepted` is what it would take, `lost` the tokens  *)
(* it stopped taking for a reason the application could not store.         *)
(***************************************************************************)
EXTENDS Naturals, FiniteSets

CONSTANTS
    None,        \* no row, no holder of its lock
    Jobs,        \* league-sync jobs that read with this connection
    Pages,       \* discoveries the member starts from the settings page
    Threshold,   \* CONNECTION_CIRCUIT_FAILURE_THRESHOLD (5 in the code)
    MaxTokens,   \* bound: refresh tokens Yahoo issues
    MaxVersion,  \* bound: versions up to which access tokens still run out
    MaxFaults    \* bound: outages, throttles, crashes and lost answers

Healths == {"healthy", "degraded", "reauthorize"}

\* The columns of a connection that decide anything.
Rows == [token : 1 .. MaxTokens, version : Nat, health : Healths,
         failures : 0 .. Threshold, cooling : BOOLEAN]

ASSUME ConnectionAssumption ==
    /\ Jobs \cap Pages = {} /\ None \notin Jobs \cup Pages \cup Rows
    /\ Threshold \in Nat \ {0}
    /\ MaxTokens \in Nat \ {0} /\ MaxVersion \in Nat /\ MaxFaults \in Nat

Workers == Jobs \cup Pages

VARIABLES
    row,       \* the provider_connections row, or None once disconnected
    lock,      \* the worker whose transaction holds the row FOR UPDATE
    work,      \* what each worker is at, and the version and token it holds
    grant,     \* a token of a finished sign-in, not yet stored
    accepted,  \* the refresh tokens Yahoo accepts
    issued,    \* how many it has issued
    lost,      \* tokens given up outside a committed exchange (history)
    faults,    \* mishaps so far (bound)
    chosen     \* whether the sweep chooses this connection though it is degraded

vars == <<row, lock, work, grant, accepted, issued, lost, faults, chosen>>
yahoo == <<accepted, issued, lost>>

Fresh(token) == [token |-> token, version |-> 1, health |-> "healthy",
                 failures |-> 0, cooling |-> FALSE]

Resting == [at |-> "idle", forced |-> FALSE, seen |-> 0, token |-> 0]

Init ==
    /\ row = Fresh(1) /\ lock = None /\ grant = 0
    /\ work = [w \in Workers |-> Resting]
    /\ accepted = {1} /\ issued = 1 /\ lost = {} /\ faults = 0
    /\ chosen \in BOOLEAN

At(w, place) == work[w].at = place

Go(w, place) == work' = [work EXCEPT ![w].at = place]

Rest(w) == work' = [work EXCEPT ![w] = Resting]

Mishap == faults < MaxFaults /\ faults' = faults + 1

NoMishap == UNCHANGED faults

\* An UPDATE of the row waits for the transaction that holds it.
Unlocked == lock = None

\* An update of a row that is gone changes nothing.
Write(new) == row' = IF row = None THEN None ELSE new

-----------------------------------------------------------------------------
(* A sync begins, and asks for an access token.                             *)

\* Faulty: a connection that is not healthy is not swept.
EligibleHealthyOnly == row # None /\ ~row.cooling /\ row.health = "healthy"

\* What the sweep admits to the ranking of a league's connections.
Eligible == row # None /\ ~row.cooling /\ row.health \in {"healthy", "degraded"}

\* runLeagueSync refuses a connection that must sign in again; the circuit and
\* the throttle share the one cooldown that syncLeague reads.
MayStart(w) ==
    row # None /\ ~row.cooling /\ (w \in Jobs => row.health # "reauthorize")

\* A job is queued by the sweep, by a member's request or by its own retry. One
\* whose league was removed meanwhile counts as a failure, unread.
Start(w) ==
    /\ At(w, "idle") /\ MayStart(w)
    /\ \/ Go(w, "token") /\ NoMishap
       \/ w \in Jobs /\ Go(w, "count") /\ Mishap
    /\ UNCHANGED <<row, lock, grant, yahoo, chosen>>

\* The next sweep queues this connection, and the queue runs the job. Of a
\* league in season and due the sweep queues one connection, a healthy one before
\* a degraded one: one that is chosen though degraded is chosen when healthy too.
SweptStart(w) == Eligible /\ chosen /\ Start(w)

\* The access token has run out, or Yahoo has just refused it.
MustRefresh(w) == work[w].forced

MayHaveRunOut == row.version < MaxVersion

Authorized == row # None /\ row.health # "reauthorize"

GetAccessToken(w) ==
    /\ At(w, "token")
    /\ \/ ~Authorized /\ Go(w, "failed")
       \/ Authorized /\ ~MustRefresh(w) /\ Go(w, "reading")
       \/ /\ Authorized
          /\ MustRefresh(w) \/ MayHaveRunOut
          /\ work' = [work EXCEPT ![w].at = "refresh", ![w].seen = row.version]
    /\ NoMishap /\ UNCHANGED <<row, lock, grant, yahoo>>

-----------------------------------------------------------------------------
(* The exchange, inside a transaction that locks the row.                   *)

\* Faulty: the row is read without FOR UPDATE.
LockNothing(w) ==
    /\ At(w, "refresh") /\ Unlocked /\ row # None /\ row.version = work[w].seen
    /\ work' = [work EXCEPT ![w].at = "exchange", ![w].token = row.token]
    /\ NoMishap /\ UNCHANGED <<row, lock, grant, yahoo>>

Lock(w) ==
    /\ At(w, "refresh") /\ Unlocked /\ row # None /\ row.version = work[w].seen
    /\ lock' = w
    /\ work' = [work EXCEPT ![w].at = "exchange", ![w].token = row.token]
    /\ NoMishap /\ UNCHANGED <<row, grant, yahoo>>

\* Another caller refreshed while this one waited: its access token is reused.
Reuse(w) ==
    /\ At(w, "refresh") /\ Unlocked
    /\ ~(row # None /\ row.version = work[w].seen)
    /\ Go(w, IF row = None THEN "failed" ELSE "reading")
    /\ NoMishap /\ UNCHANGED <<row, lock, grant, yahoo>>

\* Yahoo takes the token and may answer with another in its place.
Rotate(w, next) ==
    /\ work[w].token \in accepted
    /\ next = work[w].token \/ (next = issued + 1 /\ next <= MaxTokens)
    /\ accepted' = (accepted \ {work[w].token}) \cup {next}
    /\ issued' = IF next > issued THEN next ELSE issued

Exchange(w) ==
    /\ At(w, "exchange")
    /\ \E next \in 1 .. MaxTokens :
         /\ Rotate(w, next)
         /\ work' = [work EXCEPT ![w].at = "commit", ![w].token = next]
    /\ NoMishap /\ UNCHANGED <<row, lock, grant, lost>>

\* The answer never arrives; Yahoo may have rotated the token all the same.
ExchangeLost(w) ==
    /\ At(w, "exchange") /\ Mishap
    /\ \/ UNCHANGED yahoo
       \/ \E next \in 1 .. MaxTokens :
            /\ next # work[w].token /\ Rotate(w, next)
            /\ lost' = lost \cup {work[w].token}
    /\ lock' = None /\ Go(w, "failed")
    /\ UNCHANGED <<row, grant>>

\* Faulty: the transaction is not rolled back.
ExchangeRefusedOpen(w) ==
    /\ At(w, "exchange") /\ work[w].token \notin accepted
    /\ Go(w, "refused")
    /\ NoMishap /\ UNCHANGED <<row, lock, grant, yahoo>>

\* invalid_grant rolls the transaction back.
ExchangeRefused(w) ==
    /\ At(w, "exchange") /\ work[w].token \notin accepted
    /\ lock' = None /\ Go(w, "refused")
    /\ NoMishap /\ UNCHANGED <<row, grant, yahoo>>

\* Faulty: the new version is stored and the new refresh token is not.
CommitVersionOnly(w) ==
    /\ At(w, "commit")
    /\ Write([row EXCEPT !.version = @ + 1, !.health = "healthy"])
    /\ lock' = None /\ Go(w, "reading")
    /\ NoMishap /\ UNCHANGED <<grant, yahoo>>

Commit(w) ==
    /\ At(w, "commit")
    /\ Write([row EXCEPT !.token = work[w].token, !.version = @ + 1, !.health = "healthy"])
    /\ lock' = None /\ Go(w, "reading")
    /\ NoMishap /\ UNCHANGED <<grant, yahoo>>

\* What becomes of the stored token when a rotation is not stored.
Superseded(w) ==
    IF At(w, "commit") /\ row # None THEN {row.token} \ {work[w].token} ELSE {}

\* The commit fails, or the refreshed account is not the stored one.
CommitFails(w) ==
    /\ At(w, "commit") /\ Mishap
    /\ lost' = lost \cup Superseded(w)
    /\ lock' = None /\ Go(w, "failed")
    /\ UNCHANGED <<row, grant, accepted, issued>>

\* The mark is an update of its own, after the transaction and by id alone.
Condemn(w) ==
    /\ At(w, "refused") /\ Unlocked
    /\ Write([row EXCEPT !.health = "reauthorize"])
    /\ Go(w, "failed")
    /\ NoMishap /\ UNCHANGED <<lock, grant, yahoo>>

-----------------------------------------------------------------------------
(* The reads, and what is written about how they ended.                     *)

\* A roster that Yahoo reports incomplete fails its league, not the connection.
Read(w) ==
    /\ At(w, "reading")
    /\ \/ Go(w, "persist") /\ NoMishap
       \/ w \in Pages /\ Go(w, "persisted") /\ NoMishap   \* no league to store
       \/ w \in Jobs /\ Rest(w) /\ Mishap                \* an incomplete roster
       \/ /\ ~work[w].forced /\ row # None /\ MayHaveRunOut
          /\ work' = [work EXCEPT ![w].at = "token", ![w].forced = TRUE]
          /\ NoMishap
       \/ Go(w, "throttled") /\ Mishap
       \/ Go(w, "failed") /\ Mishap
    /\ UNCHANGED <<row, lock, grant, yahoo>>

\* persistBundle locks the row and marks the connection healthy.
Persist(w) ==
    /\ At(w, "persist") /\ Unlocked
    /\ Write([row EXCEPT !.health = "healthy"])
    /\ Go(w, IF row = None THEN "failed" ELSE "persisted")
    /\ NoMishap /\ UNCHANGED <<lock, grant, yahoo>>

\* An older capture, or a database that does not answer.
PersistFails(w) ==
    /\ At(w, "persist") /\ Mishap
    /\ Go(w, "failed")
    /\ UNCHANGED <<row, lock, grant, yahoo>>

RecordSuccess(w) ==
    /\ w \in Jobs /\ At(w, "persisted") /\ Unlocked
    /\ Write([row EXCEPT !.failures = 0, !.cooling = FALSE,
                 !.health = IF @ = "reauthorize" THEN @ ELSE "healthy"])
    /\ Rest(w)
    /\ NoMishap /\ UNCHANGED <<lock, grant, yahoo>>

MarkDiscoverySuccess(w) ==
    /\ w \in Pages /\ At(w, "persisted") /\ Unlocked
    /\ Write([row EXCEPT !.failures = 0, !.cooling = FALSE, !.health = "healthy"])
    /\ Rest(w)
    /\ NoMishap /\ UNCHANGED <<lock, grant, yahoo>>

\* A throttle is the connection's own cooldown and not a failure of it.
MarkThrottle(w) ==
    /\ At(w, "throttled") /\ Unlocked
    /\ Write([row EXCEPT !.cooling = TRUE,
                 !.health = IF @ = "reauthorize" THEN @ ELSE "healthy"])
    /\ Rest(w)
    /\ NoMishap /\ UNCHANGED <<lock, grant, yahoo>>

MarkFailure(w) ==
    /\ At(w, "failed") /\ Unlocked
    /\ Write([row EXCEPT !.health = IF @ = "reauthorize" THEN @ ELSE "degraded"])
    /\ IF w \in Jobs THEN Go(w, "count") ELSE Rest(w)
    /\ NoMishap /\ UNCHANGED <<lock, grant, yahoo>>

\* Only whether the count has reached the threshold matters, so it stops there.
OneMore(n) == IF n < Threshold THEN n + 1 ELSE n

RecordFailure(w) ==
    /\ At(w, "count") /\ Unlocked
    /\ Write([row EXCEPT !.failures = OneMore(@), !.health = "degraded"])
    /\ IF row # None /\ OneMore(row.failures) = Threshold THEN Go(w, "open") ELSE Rest(w)
    /\ NoMishap /\ UNCHANGED <<lock, grant, yahoo>>

\* The cooldown is a second statement.
OpenCircuit(w) ==
    /\ At(w, "open") /\ Unlocked
    /\ Write([row EXCEPT !.cooling = TRUE])
    /\ Rest(w)
    /\ NoMishap /\ UNCHANGED <<lock, grant, yahoo>>

\* A process stops: its transaction rolls back and its queue job runs again.
Crash(w) ==
    /\ ~At(w, "idle") /\ Mishap
    /\ Rest(w)
    /\ lost' = lost \cup Superseded(w)
    /\ lock' = IF lock = w THEN None ELSE lock
    /\ UNCHANGED <<row, grant, accepted, issued, chosen>>

-----------------------------------------------------------------------------
(* The member, and the clock.                                               *)

\* A sign-in at Yahoo: the earlier authorization may end with it.
SignIn ==
    /\ grant = 0 /\ issued < MaxTokens
    /\ grant' = issued + 1 /\ issued' = issued + 1
    /\ \/ accepted' = accepted \cup {issued + 1} /\ UNCHANGED lost
       \/ accepted' = {issued + 1} /\ lost' = lost \cup accepted
    /\ NoMishap /\ UNCHANGED <<row, lock, work, chosen>>

\* The member ends the authorization at Yahoo.
Revoke ==
    /\ accepted # {} /\ Mishap
    /\ accepted' = {} /\ lost' = lost \cup accepted
    /\ UNCHANGED <<row, lock, work, grant, issued, chosen>>

\* The upsert of complete: versions start again, the circuit is left alone.
Complete ==
    /\ grant # 0 /\ Unlocked
    /\ row' = IF row = None THEN Fresh(grant)
              ELSE [row EXCEPT !.token = grant, !.version = 1, !.health = "healthy"]
    /\ grant' = 0
    /\ NoMishap /\ UNCHANGED <<lock, work, yahoo, chosen>>

Disconnect ==
    /\ row # None /\ Unlocked
    /\ row' = None
    /\ NoMishap /\ UNCHANGED <<lock, work, grant, yahoo, chosen>>

CooldownEnds ==
    /\ row # None /\ row.cooling
    /\ row' = [row EXCEPT !.cooling = FALSE]
    /\ NoMishap /\ UNCHANGED <<lock, work, grant, yahoo, chosen>>

\* Seasons begin and end, leagues fall due, other accounts are linked to them
\* and heal or fail.
RankChanges ==
    /\ chosen' = ~chosen
    /\ UNCHANGED <<row, lock, work, grant, yahoo, faults>>

\* What a worker does of itself, without a crash.
Step(w) ==
    /\ \/ GetAccessToken(w) \/ Lock(w) \/ Reuse(w)
       \/ Exchange(w) \/ ExchangeLost(w) \/ ExchangeRefused(w)
       \/ Commit(w) \/ CommitFails(w) \/ Condemn(w)
       \/ Read(w) \/ Persist(w) \/ PersistFails(w)
       \/ RecordSuccess(w) \/ MarkDiscoverySuccess(w)
       \/ MarkThrottle(w) \/ MarkFailure(w) \/ RecordFailure(w) \/ OpenCircuit(w)
    /\ UNCHANGED chosen

Next ==
    \/ \E w \in Workers : Start(w) \/ Step(w) \/ Crash(w)
    \/ SignIn \/ Revoke \/ Complete \/ Disconnect
    \/ CooldownEnds \/ RankChanges

Spec == Init /\ [][Next]_vars

\* A row lock is granted in the order it was asked for; the sweep keeps running,
\* so a connection it goes on choosing is queued and its job started; time passes.
Fairness ==
    /\ \A w \in Workers : SF_vars(Step(w))
    /\ \A w \in Jobs : WF_vars(SweptStart(w))
    /\ WF_vars(CooldownEnds)

FairSpec == Spec /\ Fairness

-----------------------------------------------------------------------------
Places == {"idle", "token", "refresh", "exchange", "commit", "refused", "reading",
           "persist", "persisted", "throttled", "failed", "count", "open"}

TypeOK ==
    /\ row \in {None} \cup Rows
    /\ lock \in {None} \cup Workers
    /\ work \in [Workers -> [at : Places, forced : BOOLEAN, seen : Nat, token : 0 .. MaxTokens]]
    /\ grant \in 0 .. MaxTokens
    /\ accepted \subseteq 1 .. MaxTokens /\ issued \in 1 .. MaxTokens
    /\ lost \subseteq 1 .. MaxTokens /\ faults \in 0 .. MaxFaults /\ chosen \in BOOLEAN
    /\ lock # None => row # None /\ work[lock].at \in {"exchange", "commit"}

\* "Only one process can spend the current refresh token for this connection":
\* a token Yahoo refuses was never refused because another worker spent it,
\* only because an answer was lost or the member signed in anew.
NeverSpentTwice ==
    \A w \in Workers : At(w, "refused") => work[w].token \in lost

\* Whenever no exchange is under way, what is stored is what Yahoo accepts,
\* unless the rotation could not be stored or the member signed in anew.
StoredTokenIsCurrent ==
    row # None /\ lock = None => row.token \in accepted \cup lost

\* The rotation of the refresh token is safe from other workers and from the
\* steps of its own: nobody spends a token twice, nobody stores a spent one.
TokenIsSafe == NeverSpentTwice /\ StoredTokenIsCurrent

\* "A transient read failure must not permanently strand an account merely
\* because its health is degraded": once the mishaps are over, a degraded
\* connection that the sweep would queue leaves that state, or loses its place
\* to another account of its league. Its own cooldown is no way out.
DegradedIsNotForever ==
    row # None /\ row.health = "degraded" /\ chosen
        ~> row = None \/ row.health # "degraded" \/ ~chosen

\* "Accounts requiring reauthorization remain excluded", "stop retries": only a
\* new sign-in ends the demand for one. It does not hold: the job that was
\* refused goes on to count its failure, which marks the account degraded.
OnlyASignInEndsReauthorization ==
    [][row # None /\ row.health = "reauthorize" /\ row' # None /\ row'.health # "reauthorize"
         => row'.token # row.token]_vars
=============================================================================
