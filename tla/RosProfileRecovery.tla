------------------------ MODULE RosProfileRecovery ------------------------
(***************************************************************************)
(* The validation of one exact scoring profile: its ledger row, the queue  *)
(* that runs the proof, weekly discovery, and the sweeps that replay a     *)
(* profile whose proof failed, or was withheld for want of data, once the  *)
(* shared football corpus is ready. pg-boss is external: it keeps at most  *)
(* one job per singleton key, retries one that threw or was lost, and may  *)
(* give a job that is still being run to a second worker.                  *)
(***************************************************************************)
EXTENDS Naturals, Sequences, FiniteSets

CONSTANTS
    None,         \* no marker, no reservation, no dispatched job, no corpus
    MaxRuns,      \* localConcurrency of the validation queue (2 in the code)
    RetryLimit,   \* retryLimit of the queue (2 in the code)
    MaxFaults     \* bound: crashes, lost answers, failed runs, imported artifacts

\* The calls of recover(): the timer's, one at a time, and the one after a bootstrap.
Sweeps == {"timer", "bootstrap"}

\* The identity of the corpus an earlier release asked for, and of this release's.
Corpora == {"earlier", "current"}

\* What a job is for: a first proof, or a replay pinned to a corpus. The queue's
\* singleton key is made of exactly this.
Cycle(corpus, attempt) == [corpus |-> corpus, attempt |-> attempt]

Unrestricted == Cycle(None, 0)

Cycles == [corpus : Corpora \cup {None}, attempt : Nat]

\* The marker a sweep leaves in the row: the cycle, and how far its dispatch got.
Markers ==
    [corpus : Corpora, attempt : Nat \ {0}, state : {"pending-dispatch", "attempted"},
     reservation : Sweeps \cup {None}, dispatched : Cycles \cup {None}]

ASSUME RecoveryAssumption ==
    /\ MaxRuns \in Nat \ {0} /\ RetryLimit \in Nat /\ MaxFaults \in Nat
    /\ None \notin Sweeps /\ None \notin Markers

VARIABLES
    row,        \* the first_party_ros_profile_validations row
    artifact,   \* whether a champion artifact of this profile is stored
    jobs,       \* the queue: the jobs it still has a record of, by cycle
    runs,       \* the proofs the workers are at, each under a claim of its own
    sweep,      \* what each sweep is at
    discovery,  \* the row weekly discovery has read, or None
    corpus,     \* the corpus that is ready, or None
    verdicts,   \* the verdicts written to the row (history)
    faults      \* mishaps so far (bound)

vars == <<row, artifact, jobs, runs, sweep, discovery, corpus, verdicts, faults>>
Quiet == [at |-> "idle", cycle |-> Unrestricted]

NewProfile ==
    /\ row = [state |-> "pending", blocker |-> "none", marker |-> None, claim |-> 0]
    /\ jobs = [c \in {} |-> Unrestricted] /\ verdicts = <<>>

EarlierCycle == Cycle("earlier", 1)

EarlierMarker(state) ==
    [corpus |-> "earlier", attempt |-> 1, state |-> state,
     reservation |-> None, dispatched |-> EarlierCycle]

\* An earlier release withheld the profile for want of data.
WithheldBefore ==
    /\ row = [state |-> "withheld", blocker |-> "coverage",
              marker |-> EarlierMarker("attempted"), claim |-> 0]
    /\ jobs = [c \in {EarlierCycle} |-> [state |-> "terminal", tries |-> 0]]
    /\ verdicts = <<[cycle |-> EarlierCycle, corpus |-> "earlier", outcome |-> "coverage"]>>

\* An earlier release left a replay in the queue.
QueuedBefore ==
    /\ row = [state |-> "failed", blocker |-> "none",
              marker |-> EarlierMarker("pending-dispatch"), claim |-> 0]
    /\ jobs = [c \in {EarlierCycle} |-> [state |-> "queued", tries |-> 0]]
    /\ verdicts = <<>>

Init ==
    /\ NewProfile \/ WithheldBefore \/ QueuedBefore
    /\ artifact = FALSE /\ runs = {} /\ discovery = None
    /\ sweep = [s \in Sweeps |-> Quiet]
    /\ corpus = None /\ faults = 0

Fault == faults < MaxFaults /\ faults' = faults + 1

NoFault == UNCHANGED faults

-----------------------------------------------------------------------------
(* The queue.                                                               *)

Queued(tries) == [state |-> "queued", tries |-> tries]

With(c, job) == [d \in DOMAIN jobs \cup {c} |-> IF d = c THEN job ELSE jobs[d]]

Without(c) == [d \in DOMAIN jobs \ {c} |-> jobs[d]]

Is(c, state) == c \in DOMAIN jobs /\ jobs[c].state = state

Ended(c) == With(c, [jobs[c] EXCEPT !.state = "terminal"])

Thrown(c) ==
    With(c, IF jobs[c].tries < RetryLimit THEN Queued(jobs[c].tries + 1)
                                          ELSE [jobs[c] EXCEPT !.state = "terminal"])

\* validationJobIsOutstanding asks for any job of the profile, whatever its cycle.
Outstanding == \E c \in DOMAIN jobs : jobs[c].state # "terminal"

RunsOf(c) == {r \in runs : r.cycle = c}

\* The lease of an active job runs out: the worker died, or only lost its heartbeat.
Expire(c) ==
    /\ Is(c, "active") /\ RunsOf(c) = {}
    /\ jobs' = Thrown(c)
    /\ NoFault /\ UNCHANGED <<row, artifact, runs, sweep, discovery, verdicts, corpus>>

ExpireTooSoon(c) ==
    /\ Is(c, "active") /\ RunsOf(c) # {}
    /\ jobs' = Thrown(c)
    /\ Fault /\ UNCHANGED <<row, artifact, runs, sweep, discovery, verdicts, corpus>>

\* A waiting job is cancelled, or it is gone.
Remove(c) ==
    /\ Is(c, "queued")
    /\ jobs' \in {Ended(c), Without(c)}
    /\ Fault /\ UNCHANGED <<row, artifact, runs, sweep, discovery, verdicts, corpus>>

\* The singleton window of a finished first proof passes, after 23 hours, which no run
\* and no sweep lasts. A replay has a key of its own, and the record of its job stays
\* for the seven days in which a sweep looks for it.
WindowPasses ==
    /\ Is(Unrestricted, "terminal") /\ RunsOf(Unrestricted) = {}
    /\ \A s \in Sweeps : sweep[s].at \in {"idle", "due"}
    /\ jobs' = Without(Unrestricted)
    /\ NoFault /\ UNCHANGED <<row, artifact, runs, sweep, discovery, verdicts, corpus>>

-----------------------------------------------------------------------------
(* Sweeps: RosProfileRecoveryService.recover.                               *)

SweepGo(s, place) == sweep' = [sweep EXCEPT ![s].at = place]

SweepRests(s) == sweep' = [sweep EXCEPT ![s] = Quiet]

\* Transient states, and a row that waits for the shared corpus.
Recoverable ==
    \/ row.state = "pending" /\ row.blocker = "preparing"
    \/ row.state = "failed"
    \/ row.state = "withheld" /\ row.blocker = "coverage"

\* The timer's sweep is due at any time; the other has a bootstrap to wait for. The
\* corpus is looked up before the row is locked: it changes only with a release,
\* which ends the sweep, and if it cannot be read any more the replay finds out.
Due(s) == sweep[s].at = (IF s = "timer" THEN "idle" ELSE "due") /\ corpus # None

\* Nothing to do, a delay that has not passed, or an error of another group's.
LeaveAlone ==
    /\ sweep["bootstrap"].at = "due"
    /\ SweepRests("bootstrap")
    /\ NoFault /\ UNCHANGED <<row, artifact, jobs, runs, discovery, verdicts, corpus>>

SameCorpus(c) == row.marker # None /\ row.marker.corpus = c

Attempted(c) == SameCorpus(c) /\ row.marker.state = "attempted"

Dispatching(c) == SameCorpus(c) /\ row.marker.state = "pending-dispatch"

\* Faulty: a verdict on this corpus does not keep the sweep from replaying it.
MayRetryAnything(c) == TRUE

\* "A completed scientific/data rejection cannot improve on identical evidence."
MayRetry(c) == Attempted(c) => row.state = "failed"

\* The attempt a reservation would be for.
NextAttempt(c) ==
    IF SameCorpus(c)
    THEN row.marker.attempt + (IF row.marker.state = "attempted" THEN 1 ELSE 0)
    ELSE 1

\* The delays (the 30 s lease of a reservation, the cooldown of a failed cycle)
\* have passed: until then the sweep finds nothing to do.
Reserve(s) ==
    LET cycle == Cycle(corpus, NextAttempt(corpus))
    IN  /\ Due(s) /\ Recoverable /\ MayRetry(corpus) /\ ~Outstanding
        /\ Dispatching(corpus) => row.marker.dispatched = None /\ ~Is(cycle, "terminal")
        /\ row' = [row EXCEPT !.marker =
                      [corpus |-> corpus, attempt |-> cycle.attempt, state |-> "pending-dispatch",
                       reservation |-> s, dispatched |-> None]]
        /\ sweep' = [sweep EXCEPT ![s] = [at |-> "reserved", cycle |-> cycle]]
        /\ NoFault /\ UNCHANGED <<artifact, jobs, runs, discovery, verdicts, corpus>>

\* Faulty: only the five-minute grace is noticed, not the evidence of the queue.
LostInTheQueueGraceOnly(c) == row.marker.dispatched # None

\* The queue took the job of this cycle and no worker ever claimed it.
LostInTheQueue(c) ==
    Is(Cycle(c, row.marker.attempt), "terminal") \/ row.marker.dispatched # None

DeclareLost(s) ==
    /\ Due(s) /\ Recoverable /\ Dispatching(corpus) /\ ~Outstanding
    /\ LostInTheQueue(corpus)
    /\ row' = [row EXCEPT !.state = "failed", !.blocker = "none", !.marker.state = "attempted"]
    /\ SweepRests(s)
    /\ NoFault /\ UNCHANGED <<artifact, jobs, runs, discovery, verdicts, corpus>>

\* enqueueRosProfileValidation asks first, then sends.
FindNoJob(s) ==
    /\ sweep[s].at = "reserved" /\ ~Outstanding
    /\ SweepGo(s, "looked")
    /\ NoFault /\ UNCHANGED <<row, artifact, jobs, runs, discovery, verdicts, corpus>>

FindJob(s) ==
    /\ sweep[s].at = "reserved" /\ Outstanding
    /\ SweepGo(s, "refused")
    /\ NoFault /\ UNCHANGED <<row, artifact, jobs, runs, discovery, verdicts, corpus>>

\* The singleton refuses a second job of a cycle.
Send(s) ==
    /\ sweep[s].at = "looked"
    /\ \/ /\ sweep[s].cycle \in DOMAIN jobs
          /\ SweepGo(s, "refused") /\ NoFault /\ UNCHANGED jobs
       \/ /\ sweep[s].cycle \notin DOMAIN jobs
          /\ jobs' = With(sweep[s].cycle, Queued(0))
          /\ \/ SweepGo(s, "sent") /\ NoFault
             \/ SweepGo(s, "refused") /\ Fault   \* the answer is lost
    /\ UNCHANGED <<row, artifact, runs, discovery, verdicts, corpus>>

\* Faulty: the update asks only whether a cycle is being dispatched.
HoldsAnyReservation(s) == row.marker # None /\ row.marker.state = "pending-dispatch"

HoldsReservation(s) ==
    /\ row.marker # None /\ row.marker.reservation = s
    /\ row.marker.state = "pending-dispatch"

RecordDispatch(s) ==
    /\ sweep[s].at = "sent"
    /\ row' = IF HoldsReservation(s)
              THEN [row EXCEPT !.marker.dispatched = sweep[s].cycle] ELSE row
    /\ SweepRests(s)
    /\ NoFault /\ UNCHANGED <<artifact, jobs, runs, discovery, verdicts, corpus>>

ReleaseDispatch(s) ==
    /\ sweep[s].at = "refused"
    /\ row' = IF HoldsReservation(s) /\ row.marker.dispatched = None
              THEN [row EXCEPT !.marker.reservation = None] ELSE row
    /\ SweepRests(s)
    /\ NoFault /\ UNCHANGED <<artifact, jobs, runs, discovery, verdicts, corpus>>

StopSweep(s) ==
    /\ sweep[s].at \in {"reserved", "looked", "sent", "refused"}
    /\ SweepRests(s)
    /\ Fault /\ UNCHANGED <<row, artifact, jobs, runs, discovery, verdicts, corpus>>

-----------------------------------------------------------------------------
(* The validation worker: validateProfile.                                  *)

\* A claim is a timestamp later than any before; claims are only compared, so a
\* number that nobody holds stands for a new one.
ClaimsHeld ==
    {r.claim : r \in runs} \cup (IF discovery = None THEN {} ELSE {discovery.claim})

Claims == 0 .. MaxRuns + 1

\* Faulty: a claim that the row holds already is kept.
KeptClaim == row.claim

NewClaim == CHOOSE n \in Claims \ {0} : n \notin ClaimsHeld

\* begin() locks, compares and claims in one UPDATE.
MayBegin(c) ==
    IF c = Unrestricted
    THEN row.marker = None /\ row.state \in {"pending", "failed", "validating"}
    ELSE /\ SameCorpus(c.corpus) /\ row.marker.attempt = c.attempt
         /\ row.state # "admitted"
         /\ row.state \in {"pending", "withheld"} => row.marker.state = "pending-dispatch"

Begun(c) ==
    [row EXCEPT !.state = "validating", !.blocker = "none", !.claim = NewClaim,
                !.marker = IF c = Unrestricted THEN None ELSE [row.marker EXCEPT !.state = "attempted"]]

Begin(c) ==
    /\ Cardinality(runs) < MaxRuns /\ Is(c, "queued") /\ MayBegin(c)
    /\ jobs' = With(c, [jobs[c] EXCEPT !.state = "active"])
    /\ row' = Begun(c)
    /\ runs' = runs \cup {[at |-> "begun", cycle |-> c, claim |-> NewClaim,
                           pinned |-> None, outcome |-> "none"]}
    /\ NoFault /\ UNCHANGED <<artifact, sweep, discovery, verdicts, corpus>>

\* An obsolete cycle, or a verdict that stands: the job is done.
Refuse(c) ==
    /\ Cardinality(runs) < MaxRuns /\ Is(c, "queued") /\ ~MayBegin(c)
    /\ jobs' = Ended(c)
    /\ NoFault /\ UNCHANGED <<row, artifact, runs, sweep, discovery, verdicts, corpus>>

Becomes(r, new) == runs' = (runs \ {r}) \cup {new}

Judged(r, outcome) ==
    Becomes(r, [r EXCEPT !.at = "judged", !.pinned = corpus, !.outcome = outcome])

Verdicts == {"coverage", "science", "admit"}

\* The corpus is looked up; a replay wants the one it is pinned to, a first proof
\* pins the one that is ready. What the statistics say is a free choice.
Judge(r) ==
    LET Pinned == corpus # None /\ (r.cycle = Unrestricted \/ r.cycle.corpus = corpus)
    IN  /\ r.at = "begun"
        /\ \/ Pinned /\ \E v \in Verdicts : Judged(r, v) /\ NoFault
           \/ Pinned /\ \E e \in {"fail", "dependency"} : Judged(r, e) /\ Fault
           \/ r.cycle # Unrestricted /\ ~Pinned /\ Judged(r, "fail") /\ NoFault
           \/ r.cycle = Unrestricted /\ ~Pinned /\ Judged(r, "preparing") /\ NoFault
        /\ UNCHANGED <<row, artifact, jobs, sweep, discovery, verdicts, corpus>>

\* Faulty: whoever finds the row validating completes it.
ClaimsAnything(r) == row.state = "validating"

\* The fence of complete, fail and deferForCorpus.
ClaimHolds(r) == row.state = "validating" /\ row.claim = r.claim

Complete(r, state, blocker) ==
    /\ row' = [row EXCEPT !.state = state, !.blocker = blocker]
    /\ verdicts' = Append(verdicts, [cycle |-> r.cycle, corpus |-> r.pinned, outcome |-> r.outcome])

PutOff(state, blocker) ==
    row' = [row EXCEPT !.state = state, !.blocker = blocker] /\ UNCHANGED verdicts

Conclude(r) ==
    /\ r.at = "judged"
    /\ Becomes(r, [r EXCEPT !.at = "written", !.pinned = None,
                            !.outcome = IF r.outcome = "fail" THEN "fail" ELSE "none"])
    /\ artifact' = (artifact \/ (ClaimHolds(r) /\ r.outcome = "admit"))
    /\ \/ ~ClaimHolds(r) /\ UNCHANGED <<row, verdicts>>
       \/ ClaimHolds(r) /\ r.outcome = "admit" /\ Complete(r, "admitted", "none")
       \/ ClaimHolds(r) /\ r.outcome \in {"coverage", "science"} /\ Complete(r, "withheld", r.outcome)
       \/ ClaimHolds(r) /\ r.outcome = "preparing" /\ PutOff("pending", "preparing")
       \/ ClaimHolds(r) /\ r.outcome \in {"fail", "dependency"} /\ PutOff("failed", "none")
    /\ NoFault /\ UNCHANGED <<jobs, sweep, discovery, corpus>>

\* A failure is thrown again so that the queue retries; the rest ends the job, if
\* the queue still counts it as running.
EndJob(r) ==
    /\ r.at = "written" /\ runs' = runs \ {r}
    /\ jobs' = IF ~Is(r.cycle, "active") THEN jobs
               ELSE IF r.outcome = "fail" THEN Thrown(r.cycle) ELSE Ended(r.cycle)
    /\ NoFault /\ UNCHANGED <<row, artifact, sweep, discovery, verdicts, corpus>>

Crash(r) ==
    /\ runs' = runs \ {r}
    /\ Fault /\ UNCHANGED <<row, artifact, jobs, sweep, discovery, verdicts, corpus>>

-----------------------------------------------------------------------------
(* Weekly discovery: RosProfileDiscoveryService.discover.                   *)

\* Of an admitted row nothing is changed; a failed or a withheld one waits for an
\* artifact.
DiscoverRow ==
    /\ discovery = None /\ row.state \in {"pending", "validating"}
                          \cup (IF artifact THEN {"failed", "withheld"} ELSE {})
    /\ discovery' = [state |-> row.state, claim |-> IF row.state = "validating" THEN row.claim ELSE 0]
    /\ NoFault /\ UNCHANGED <<row, artifact, jobs, runs, sweep, verdicts, corpus>>

\* An artifact is stored: the row is written by its id, whatever it holds by now,
\* with the report that was read before. Nothing reads the marker of an admitted
\* row, so the one that report had is left out.
Adopt ==
    /\ discovery # None /\ artifact
    /\ row' = [row EXCEPT !.state = "admitted", !.blocker = "none", !.marker = None]
    /\ discovery' = None
    /\ NoFault /\ UNCHANGED <<artifact, jobs, runs, sweep, verdicts, corpus>>

EnqueueFirstProof ==
    /\ discovery # None /\ ~artifact /\ discovery.state = "pending"
    /\ jobs' = IF Outstanding \/ Unrestricted \in DOMAIN jobs THEN jobs
               ELSE With(Unrestricted, Queued(0))
    /\ discovery' = None
    /\ NoFault /\ UNCHANGED <<row, artifact, runs, sweep, verdicts, corpus>>

\* A claim over five minutes old of which the queue knows nothing.
FailOrphan ==
    /\ discovery # None /\ ~artifact /\ discovery.state = "validating" /\ ~Outstanding
    /\ row' = IF row.state = "validating" /\ row.claim = discovery.claim
              THEN [row EXCEPT !.state = "failed"] ELSE row
    /\ discovery' = None
    /\ NoFault /\ UNCHANGED <<artifact, jobs, runs, sweep, verdicts, corpus>>

NothingToDiscover ==
    /\ discovery # None /\ ~artifact /\ discovery.state # "pending"
    /\ discovery' = None
    /\ NoFault /\ UNCHANGED <<row, artifact, jobs, runs, sweep, verdicts, corpus>>

-----------------------------------------------------------------------------
(* The world: a corpus is prepared, an artifact is imported.                 *)

\* A bootstrap ends with the corpus ready, and a sweep of its own follows.
Ready ==
    /\ corpus = None /\ corpus' = "current"
    /\ sweep["bootstrap"] = Quiet
    /\ sweep' = [sweep EXCEPT !["bootstrap"].at = "due"]
    /\ NoFault /\ UNCHANGED <<row, artifact, jobs, runs, discovery, verdicts>>

Unreadable ==
    /\ corpus # None /\ corpus' = None
    /\ Fault /\ UNCHANGED <<row, artifact, jobs, runs, sweep, discovery, verdicts>>

Import ==
    /\ ~artifact /\ artifact' = TRUE
    /\ Fault /\ UNCHANGED <<row, jobs, runs, sweep, discovery, verdicts, corpus>>

SweepStep(s) ==
    FindNoJob(s) \/ FindJob(s) \/ Send(s) \/ RecordDispatch(s) \/ ReleaseDispatch(s)

Decide(s) == Reserve(s) \/ DeclareLost(s)

RunStep(r) == Judge(r) \/ Conclude(r) \/ EndJob(r)

QueueStep == \E c \in DOMAIN jobs : Begin(c) \/ Refuse(c) \/ Expire(c)

QueueFault == \E c \in DOMAIN jobs : ExpireTooSoon(c) \/ Remove(c)

Next ==
    \/ LeaveAlone
    \/ \E s \in Sweeps : SweepStep(s) \/ Decide(s) \/ StopSweep(s)
    \/ \E r \in runs : RunStep(r) \/ Crash(r)
    \/ QueueStep \/ WindowPasses \/ QueueFault
    \/ DiscoverRow \/ Adopt \/ EnqueueFirstProof \/ FailOrphan \/ NothingToDiscover
    \/ Ready \/ Unreadable \/ Import

Spec == Init /\ [][Next]_vars

\* The sweep runs every five minutes and every delay it waits for is finite, so a
\* decision that keeps being possible is taken; discovery runs every week; the
\* queue hands out its jobs, expires the lost ones and deletes the finished ones.
Fairness ==
    /\ WF_vars(\E s \in Sweeps : SweepStep(s)) /\ SF_vars(\E s \in Sweeps : Decide(s))
    /\ SF_vars(\E s \in Sweeps : FindNoJob(s))
    /\ WF_vars(\E r \in runs : RunStep(r))
    /\ WF_vars(QueueStep) /\ SF_vars(WindowPasses)
    /\ WF_vars(DiscoverRow) /\ WF_vars(Adopt \/ EnqueueFirstProof) /\ SF_vars(FailOrphan)

FairSpec == Spec /\ Fairness

-----------------------------------------------------------------------------
States == {"pending", "validating", "failed", "withheld", "admitted"}

Rows ==
    [state : States,
     blocker : {"none", "preparing", "coverage", "science"},
     marker : Markers \cup {None}, claim : Claims]

Outcomes == Verdicts \cup {"fail", "dependency", "preparing", "none"}

TypeOK ==
    /\ row \in Rows /\ artifact \in BOOLEAN
    /\ DOMAIN jobs \subseteq Cycles
    /\ \A c \in DOMAIN jobs :
          jobs[c] \in [state : {"queued", "active", "terminal"}, tries : 0 .. RetryLimit]
    /\ runs \subseteq [at : {"begun", "judged", "written"}, cycle : Cycles, claim : Claims,
                      pinned : Corpora \cup {None}, outcome : Outcomes]
    /\ Cardinality(runs) <= MaxRuns
    /\ \A r1, r2 \in runs : r1.claim = r2.claim => r1 = r2
    /\ sweep \in [Sweeps -> [at : {"idle", "due", "reserved", "looked", "sent", "refused"},
                             cycle : Cycles]]
    /\ discovery = None \/ (discovery.state \in States /\ discovery.claim \in Claims)
    /\ corpus \in {None, "current"}
    /\ verdicts \in Seq([cycle : Cycles, corpus : Corpora, outcome : Verdicts])
    /\ faults \in 0 .. MaxFaults
    /\ row.state = "admitted" => artifact

LastVerdict == verdicts[Len(verdicts)]

\* "Jobs from an older cycle cannot claim or complete a newer one": the verdict
\* that withholds a profile is of the cycle its marker names (of a first proof
\* where there is none), for all the zombies of expired jobs and the sweeps that
\* overlap; and the job a marker says was dispatched is one of its own cycle.
CyclesKeptApart ==
    /\ row.state = "withheld" /\ row.marker = None => LastVerdict.cycle = Unrestricted
    /\ row.state = "withheld" /\ row.marker # None /\ row.marker.state = "attempted" =>
          LastVerdict.cycle = Cycle(row.marker.corpus, row.marker.attempt)
    /\ row.marker # None /\ row.marker.dispatched # None =>
          row.marker.dispatched = Cycle(row.marker.corpus, row.marker.attempt)

\* "Statistical rejections and repeated source/component insufficiency on the same
\* corpus remain withheld": a verdict of science or an admission is the last one,
\* and a replay is not judged twice running on the same corpus, however many
\* sweeps, retries and duplicated jobs there are.
JudgedOnce ==
    \A i \in 1 .. Len(verdicts) - 1 :
       /\ verdicts[i].outcome = "coverage"
       /\ verdicts[i].cycle # Unrestricted => verdicts[i + 1].corpus # verdicts[i].corpus

\* The verdict stands for the corpus that is ready: an admission, a rejection by
\* the statistics, or a second look at the data that found it wanting again.
Settled ==
    \/ row.state = "admitted"
    \/ row.state = "withheld" /\ row.blocker = "science"
    \/ row.state = "withheld" /\ Attempted(corpus)

\* Once a corpus stays ready and the mishaps are over, every profile is settled:
\* no order of lost jobs, abandoned reservations, refused sends and orphaned
\* claims leaves one behind with nobody to pick it up.
EveryProfileSettles == <>[](corpus # None) => <>[]Settled
=============================================================================
