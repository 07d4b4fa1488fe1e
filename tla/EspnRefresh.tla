---------------------------- MODULE EspnRefresh ----------------------------
(***************************************************************************)
(* The refresh requests of one ESPN league season: a member's page asks,   *)
(* the API creates or reuses one live request, and a background read with  *)
(* the member's ESPN session, an anonymous background read, or any paired  *)
(* device may fulfil it by storing captures.  Requests expire.             *)
(*                                                                         *)
(* A handler that reads a request and writes it later without a lock is    *)
(* two actions (...Scope or ...Found, then ...Write), since the database   *)
(* runs other transactions in between.  One unit of time is the refresh    *)
(* interval; the clock stops at MaxTime.  Columns that are only displayed  *)
(* (the fulfilment mode, the start and finish times) are left out, and so  *)
(* are the attempt rows, which only decide when a device is offered a      *)
(* request again: here a device may take up a live request at any time.    *)
(***************************************************************************)
EXTENDS Naturals, Sequences, FiniteSets

CONSTANTS Users,         \* members of the league
          Devices,       \* their paired ESPN sync devices
          ServerPaths,   \* the background reads this deployment runs
          StaleAfter,    \* age at which a family is stale
          Lifetime,      \* how long a request lives
          MaxTime,       \* bound on the clock
          MaxRequests,   \* bound on the requests created
          MaxDelay,      \* bound on the age of a capture when it is stored
          MaxTries,      \* further runs of a queue job that threw
          MaxJobs        \* bound on the jobs waiting in the queue

ASSUME RefreshAssumption ==
  /\ ServerPaths \subseteq {"server-direct", "server-session"}
  /\ {StaleAfter, Lifetime, MaxTime} \subseteq Nat \ {0}
  /\ {MaxRequests, MaxDelay, MaxTries, MaxJobs} \subseteq Nat

VARIABLES now,        \* the clock
          freshness,  \* espn_league_sync_states.artifact_freshness, 0 when missing
          requests,   \* refresh_requests in the order of creation
          asking,     \* per member: the inspected target a request is to be made from
          waiting,    \* the league's jobs in the league-sync queue
          running,    \* the one job of the league being worked on, and its step
          reports     \* per device: the started request whose report is not yet written, or 0

vars == <<now, freshness, requests, asking, waiting, running, reports>>

Families == {"core", "available-players"}
Components == {"core", "available-free-agents", "available-waivers"}

\* What is captured on its own, per family.
PartsOf == [f \in Families |-> IF f = "core" THEN {"core"} ELSE Components \ {"core"}]

None == [none |-> TRUE]
Indexes == DOMAIN requests

-----------------------------------------------------------------------------
(* Freshness *)

Later(a, b) == IF a < b THEN b ELSE a
Earlier(a, b) == IF a < b THEN a ELSE b

\* Faulty: the available-player family takes the newer of its two components.
AdvanceNewest(fresh, part, at) ==
  LET moved == [fresh EXCEPT ![part] = Later(@, at)]
      newer == Later(moved["available-free-agents"], moved["available-waivers"])
  IN  IF part = "core" THEN moved
      ELSE [moved EXCEPT !["available-players"] = Later(@, newer)]

\* advanceEspnArtifactFreshness: a component only moves forward, and the
\* available-player family is as old as the older of its two components.
Advance(fresh, part, at) ==
  LET moved == [fresh EXCEPT ![part] = Later(@, at)]
      agents == moved["available-free-agents"]
      waivers == moved["available-waivers"]
  IN  IF part = "core" \/ agents = 0 \/ waivers = 0 THEN moved
      ELSE [moved EXCEPT !["available-players"] = Later(@, Earlier(agents, waivers))]

\* evaluateEspnRefresh: the families that are missing or too old.
StaleFamilies(fresh, at) ==
  {f \in Families : fresh[f] = 0 \/ fresh[f] + StaleAfter <= at}

-----------------------------------------------------------------------------
(* Requests *)

Live(r) == r.state \in {"queued", "processing"}

\* Faulty: only requests nobody has started are retired.
RetireQueued(all, at) ==
  [i \in DOMAIN all |->
     IF all[i].state = "queued" /\ all[i].expires <= at
     THEN [all[i] EXCEPT !.state = "cancelled", !.error = "EXPIRED"] ELSE all[i]]

\* Faulty: the cancelled state is given a name the column does not have.
RetireRenamed(all, at) ==
  [i \in DOMAIN all |->
     IF Live(all[i]) /\ all[i].expires <= at
     THEN [all[i] EXCEPT !.state = "expired", !.error = "EXPIRED"] ELSE all[i]]

\* The update that cancels every live request past its expiry.
Retire(all, at) ==
  [i \in DOMAIN all |->
     IF Live(all[i]) /\ all[i].expires <= at
     THEN [all[i] EXCEPT !.state = "cancelled", !.error = "EXPIRED"] ELSE all[i]]

\* Every required family was captured at or after the server-owned minimum.
Ready(r, fresh) == \A f \in r.required : fresh[f] >= r.minimumCapture

\* The partial unique index: at most one live request per league season.
LiveElsewhere(i) == \E j \in Indexes \ {i} : Live(requests[j])

\* The update of a started attempt: by id alone, whatever the state is by now.
Started(i) == [requests EXCEPT ![i].state = "processing"]

-----------------------------------------------------------------------------
Init == /\ now = 1
        /\ freshness = [c \in Components \union Families |-> 0]
        /\ requests = <<>>
        /\ asking = [u \in Users |-> None]
        /\ waiting = {}
        /\ running = None
        /\ reports = [d \in Devices |-> 0]

\* A page's request is answered within an interval of the refresh.
Tick == /\ now < MaxTime
        /\ \A u \in Users : asking[u] # None => asking[u].at = now
        /\ now' = now + 1
        /\ UNCHANGED <<freshness, requests, asking, waiting, running, reports>>

(* requestRefresh, first part: inspectMemberTarget retires what has expired
   and reads the freshness; when something is stale the member's request
   carries on with what it read and the time it read it. *)
Ask(u) ==
  /\ asking[u] = None
  /\ requests' = Retire(requests, now)
  /\ LET stale == StaleFamilies(freshness, now)
     IN  /\ stale # {}
         /\ asking' = [asking EXCEPT ![u] = [at |-> now, stale |-> stale]]
  /\ UNCHANGED <<now, freshness, waiting, running, reports>>

(* The dispatch that follows: a session read, or a direct read when the core
   was stale, or none; the queue drops one that follows another too closely. *)
Dispatched(ask, i) ==
  LET paths == {p \in ServerPaths : p = "server-direct" => "core" \in ask.stale}
      added == {waiting \union {[path |-> p, request |-> i, tries |-> 0]} : p \in paths}
  IN  {waiting} \union {w \in added : Cardinality(w) <= MaxJobs}

\* Faulty: the create no longer retires an expired request first.
RetireNothing(all, at) == all

\* The create's own retirement, under the lock the creates share.
RetireFirst(all, at) == Retire(all, at)

\* The live, unexpired request a create finds once it has retired the others.
Existing(ask) ==
  LET retired == RetireFirst(requests, ask.at)
  IN  {i \in Indexes : Live(retired[i]) /\ retired[i].expires > ask.at}

\* The partial unique index over live requests would refuse the insert.
RefusedByLive(ask) ==
  Existing(ask) = {} /\ \E i \in Indexes : Live(RetireFirst(requests, ask.at)[i])

\* The unique index over a member's idempotency keys would: the key is the
\* interval of the request, one unit of time.
RefusedByKey(u, ask) ==
  Existing(ask) = {} /\ \E i \in Indexes : requests[i].by = u /\ requests[i].minimumCapture = ask.at

(* createOrGetRequest, under the league's advisory lock, and the dispatch: a
   live request is reused, or one is created, or an index rolls all back. *)
Create(u) ==
  /\ asking[u] # None
  /\ LET ask == asking[u]
         retired == RetireFirst(requests, ask.at)
     IN  \/ /\ Existing(ask) # {}
            /\ requests' = retired
            /\ \E i \in Existing(ask) : waiting' \in Dispatched(ask, i)
         \/ /\ RefusedByLive(ask) \/ RefusedByKey(u, ask)
            /\ UNCHANGED <<requests, waiting>>
         \/ /\ Existing(ask) = {} /\ ~RefusedByLive(ask) /\ ~RefusedByKey(u, ask)
            /\ Len(requests) < MaxRequests
            /\ requests' = Append(retired,
                 [by |-> u, state |-> "queued", required |-> ask.stale,
                  minimumCapture |-> ask.at, expires |-> ask.at + Lifetime,
                  result |-> FALSE, error |-> "none"])
            /\ waiting' \in Dispatched(ask, Len(requests) + 1)
  /\ asking' = [asking EXCEPT ![u] = None]
  /\ UNCHANGED <<now, freshness, running, reports>>

(* The five-minute provider sweep, and a page that only inspects the league. *)
Sweep == /\ Retire(requests, now) # requests
         /\ requests' = Retire(requests, now)
         /\ UNCHANGED <<now, freshness, asking, waiting, running, reports>>

-----------------------------------------------------------------------------
(* Devices *)

(* reportAgentAttempt("started") for a request a poll offered: the request's
   scope is read without locking it ... *)
ReportScope(d) ==
  /\ reports[d] = 0
  /\ \E i \in Indexes : /\ Live(requests[i]) /\ requests[i].expires > now
                        /\ reports' = [reports EXCEPT ![d] = i]
  /\ UNCHANGED <<now, freshness, requests, asking, waiting, running>>

(* ... and the request is set to processing.  The live index rolls that back
   when another request has taken its place. *)
ReportWrite(d) ==
  /\ reports[d] # 0
  /\ requests' = IF LiveElsewhere(reports[d]) THEN requests ELSE Started(reports[d])
  /\ reports' = [reports EXCEPT ![d] = 0]
  /\ UNCHANGED <<now, freshness, asking, waiting, running>>

-----------------------------------------------------------------------------
(* Captures *)

\* The request as a capture leaves it: recordAcceptedArtifact's update.
Served(r, fresh) ==
  IF Live(r) /\ r.expires > now /\ Ready(r, fresh)
  THEN [r EXCEPT !.state = "succeeded", !.result = TRUE, !.error = "none"]
  ELSE r

(* persist and persistSupplemental with recordAcceptedArtifact: a capture
   taken at most MaxDelay before is admitted unless a newer one is stored,
   and the live request succeeds once all it requires is there. *)
Store(part, at) ==
  /\ at <= now /\ now <= at + MaxDelay
  /\ at >= freshness[part]
  /\ freshness' = Advance(freshness, part, at)
  /\ requests' = [i \in Indexes |-> Served(requests[i], freshness')]

Upload(d) ==
  \E part \in Components, at \in 1 .. now :
    /\ Store(part, at)
    /\ UNCHANGED <<now, asking, waiting, running, reports>>

-----------------------------------------------------------------------------
(* Server reads: the queue works on one job of a league at a time *)

At(step) == running # None /\ running.step = step
Move(step) == [running EXCEPT !.step = step]
Job == running.job

(* recordAttempt("started") and recordStarted: the request is read ... *)
StartFound ==
  /\ running = None
  /\ \E job \in waiting :
       /\ waiting' = waiting \ {job}
       /\ running' = [job |-> job,
                      step |-> IF Live(requests[job.request]) THEN "starting" ELSE "reading"]
  /\ UNCHANGED <<now, freshness, requests, asking, reports>>

\* A job that threw is put back, MaxTries times at most.
Thrown ==
  /\ waiting' = IF Job.tries < MaxTries
                THEN waiting \union {[Job EXCEPT !.tries = @ + 1]} ELSE waiting
  /\ running' = None

(* ... and set to processing by its id.  When the live index refuses that, a
   direct read throws; a session read goes on without it. *)
StartWrite ==
  /\ At("starting")
  /\ \/ /\ ~LiveElsewhere(Job.request)
        /\ requests' = Started(Job.request)
        /\ running' = Move("reading") /\ UNCHANGED waiting
     \/ /\ LiveElsewhere(Job.request)
        /\ IF Job.path = "server-direct" THEN Thrown
           ELSE running' = Move("reading") /\ UNCHANGED waiting
        /\ UNCHANGED requests
  /\ UNCHANGED <<now, freshness, asking, reports>>

(* What the server read is stored: the core alone by a direct read. *)
ServerStore ==
  /\ At("reading")
  /\ \E part \in (IF Job.path = "server-direct" THEN {"core"} ELSE Components), at \in 1 .. now :
       Store(part, at)
  /\ running' = IF Job.path = "server-direct" THEN None ELSE running
  /\ UNCHANGED <<now, asking, waiting, reports>>

\* A session read that stored all it asked for is acknowledged.
SessionDone ==
  /\ At("reading") /\ Job.path = "server-session"
  /\ running' = None
  /\ UNCHANGED <<now, freshness, requests, asking, waiting, reports>>

(* The read failed and may be retried: the request stays as it is. *)
ReadThrew ==
  /\ At("reading")
  /\ Thrown
  /\ UNCHANGED <<now, freshness, requests, asking, reports>>

(* The read failed for good, or a session's supplemental part did: a session
   failure is to fail the request if that is live when it is read ... *)
FailFound ==
  /\ At("reading")
  /\ running' = IF Job.path = "server-session" /\ Live(requests[Job.request])
                THEN Move("failing") ELSE None
  /\ UNCHANGED <<now, freshness, requests, asking, waiting, reports>>

(* ... and fails it by its id alone. *)
FailWrite ==
  /\ At("failing")
  /\ requests' = [requests EXCEPT ![Job.request].state = "failed",
                                  ![Job.request].error = "READ_FAILED"]
  /\ running' = None
  /\ UNCHANGED <<now, freshness, asking, waiting, reports>>

-----------------------------------------------------------------------------
Next == \/ Tick
        \/ Sweep
        \/ \E u \in Users : Ask(u) \/ Create(u)
        \/ \E d \in Devices : ReportScope(d) \/ ReportWrite(d) \/ Upload(d)
        \/ StartFound \/ StartWrite \/ ServerStore \/ SessionDone
        \/ ReadThrew \/ FailFound \/ FailWrite

Spec == Init /\ [][Next]_vars

(* Time passes, the sweep is scheduled every five minutes, a transaction that
   has read its rows writes them, and the queue runs the jobs it holds, whose
   reads are bounded in time.  Nothing is assumed of members or devices. *)
Fairness == /\ WF_vars(Tick)
            /\ WF_vars(Sweep)
            /\ \A d \in Devices : WF_vars(ReportWrite(d))
            /\ WF_vars(StartFound \/ StartWrite \/ SessionDone \/ ReadThrew \/ FailFound \/ FailWrite)

FairSpec == Spec /\ Fairness

-----------------------------------------------------------------------------
(* Properties *)

Times == 0 .. MaxTime

Rows == [by : Users, required : SUBSET Families,
         state : {"queued", "processing", "succeeded", "failed", "cancelled"},
         minimumCapture : Times, expires : 0 .. MaxTime + Lifetime,
         result : BOOLEAN, error : {"none", "EXPIRED", "READ_FAILED"}]

Jobs == [path : ServerPaths, request : Indexes, tries : 0 .. MaxTries]

\* Shape of every variable: what is in the queue, running or to be reported is
\* a request that was created.
TypeOK ==
  /\ now \in Times /\ freshness \in [Components \union Families -> Times]
  /\ requests \in Seq(Rows)
  /\ asking \in [Users -> {None} \union [at : Times, stale : SUBSET Families]]
  /\ reports \in [Devices -> 0 .. Len(requests)]
  /\ waiting \subseteq Jobs
  /\ running \in {None} \union [job : Jobs, step : {"starting", "reading", "failing"}]

(* createOrGetRequest's comment: a request that expires between sweeps must
   not turn a stale-on-view refresh into a unique-constraint failure of the
   one-live-request index. *)
NeverRefusedForALiveRequest ==
  \A u \in Users : asking[u] # None => ~RefusedByLive(asking[u])

\* How an intent ended, as its row's result and error tell.
OutcomeOf(r) == IF r.result THEN "fulfilled"
                ELSE IF r.error = "EXPIRED" THEN "expired"
                ELSE IF r.error = "READ_FAILED" THEN "failed" ELSE "open"

\* A family is as old as the oldest of its parts.
Captured(f) == CHOOSE at \in {freshness[part] : part \in PartsOf[f]} :
                 \A part \in PartsOf[f] : at <= freshness[part]

Promise == INSTANCE RefreshPromise WITH
  Families <- Families,
  captured <- [f \in Families |-> Captured(f)],
  intents <- [i \in Indexes |-> [since |-> requests[i].minimumCapture,
                                 needs |-> requests[i].required,
                                 outcome |-> OutcomeOf(requests[i])]]

(* The row behind a request keeps the promise made to the member through
   every race of reads, reports, captures and expiry, although the displayed
   state may go back to processing: above all it never holds a result before
   every part of every required family was captured in time. *)
KeepsThePromise == Promise!Spec

(* A request whose expiry the clock reaches ends and stays ended: no late
   report or background read keeps a finished request live for good. *)
EveryRequestSettles ==
  <>[](\A i \in Indexes : requests[i].expires <= MaxTime => ~Live(requests[i]))
=============================================================================
