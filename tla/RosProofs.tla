------------------------------ MODULE RosProofs ------------------------------
(***************************************************************************)
(* The rest-of-season workers, with any number of them, of retries and of  *)
(* mishaps.  The recovery of a scoring profile keeps its cycles apart, and *)
(* gives a verdict on the same evidence once.  The live cache has one      *)
(* builder and no record that cannot be read, and keeps the pins it handed *)
(* out.  The two are specifications of their own that share no variable.   *)
(***************************************************************************)
EXTENDS RosLiveCache, RosProfileRecovery, FiniteSetTheorems, SequenceTheorems, TLAPS

-----------------------------------------------------------------------------
(* The recovery of a profile.                                               *)

JobKinds == [state : {"queued", "active", "terminal"}, tries : 0 .. RetryLimit]

QueueOK(queue) ==
    DOMAIN queue \subseteq Cycles /\ \A c \in DOMAIN queue : queue[c] \in JobKinds

RunKinds ==
    [at : {"begun", "judged", "written"}, cycle : Cycles, claim : Claims,
     pinned : Corpora \cup {None}, outcome : Outcomes]

ClaimsDiffer == \A r1, r2 \in runs : r1.claim = r2.claim => r1 = r2

RunsOK ==
    /\ runs \subseteq RunKinds /\ IsFiniteSet(runs) /\ Cardinality(runs) <= MaxRuns
    /\ ClaimsDiffer

\* The type invariant, with what it leaves unsaid: a set of runs is finite.
RecoveryTypes == TypeOK /\ RunsOK

(***************************************************************************)
(* Who writes what.                                                        *)
(***************************************************************************)

\* The row is written by sweeps, by proofs and by discovery.
LEMMA RowWriters ==
  ASSUME [Next]_vars
  PROVE  \/ UNCHANGED row
         \/ \E s \in Sweeps :
              Reserve(s) \/ DeclareLost(s) \/ RecordDispatch(s) \/ ReleaseDispatch(s)
         \/ \E c \in DOMAIN jobs : Begin(c)
         \/ \E r \in runs : Conclude(r)
         \/ Adopt \/ FailOrphan
BY SMTT(30) DEF Next, vars, LeaveAlone, SweepStep, Decide, StopSweep, FindNoJob, FindJob, Send,
   RunStep, Judge, EndJob, Crash, QueueStep, QueueFault, Refuse, Expire, ExpireTooSoon,
   Remove, WindowPasses, DiscoverRow, EnqueueFirstProof, NothingToDiscover,
   Ready, Unreadable, Import

\* The queue is written by its own steps, by sweeps, by proofs and by discovery.
LEMMA QueueWriters ==
  ASSUME [Next]_vars
  PROVE  \/ UNCHANGED jobs
         \/ \E s \in Sweeps : Send(s)
         \/ \E c \in DOMAIN jobs :
              Begin(c) \/ Refuse(c) \/ Expire(c) \/ ExpireTooSoon(c) \/ Remove(c)
         \/ \E r \in runs : EndJob(r)
         \/ WindowPasses \/ EnqueueFirstProof
BY DEF Next, vars, LeaveAlone, SweepStep, Decide, StopSweep, FindNoJob, FindJob,
   Reserve, DeclareLost, RecordDispatch, ReleaseDispatch, RunStep, Judge, Conclude, Crash,
   QueueStep, QueueFault, DiscoverRow, Adopt, FailOrphan, NothingToDiscover,
   Ready, Unreadable, Import

\* The runs change as they begin, proceed, end and crash.
LEMMA RunWriters ==
  ASSUME [Next]_vars
  PROVE  \/ UNCHANGED runs
         \/ \E c \in DOMAIN jobs : Begin(c)
         \/ \E r \in runs : Judge(r) \/ Conclude(r) \/ EndJob(r) \/ Crash(r)
BY DEF Next, vars, LeaveAlone, SweepStep, Decide, StopSweep, FindNoJob, FindJob, Send,
   Reserve, DeclareLost, RecordDispatch, ReleaseDispatch, RunStep,
   QueueStep, QueueFault, Refuse, Expire, ExpireTooSoon, Remove, WindowPasses,
   DiscoverRow, Adopt, EnqueueFirstProof, FailOrphan, NothingToDiscover,
   Ready, Unreadable, Import

\* The sweeps change by their own steps; a bootstrap makes one due.
LEMMA SweepWriters ==
  ASSUME [Next]_vars
  PROVE  \/ UNCHANGED sweep
         \/ \E s \in Sweeps : SweepStep(s) \/ Decide(s) \/ StopSweep(s)
         \/ LeaveAlone \/ Ready
BY DEF Next, vars, RunStep, Judge, Conclude, EndJob, Crash,
   QueueStep, QueueFault, Begin, Refuse, Expire, ExpireTooSoon, Remove, WindowPasses,
   DiscoverRow, Adopt, EnqueueFirstProof, FailOrphan, NothingToDiscover,
   Unreadable, Import

\* Verdicts are written, and artifacts stored, by a proof that concludes; an
\* artifact may be imported.
LEMMA VerdictWriters ==
  ASSUME [Next]_vars
  PROVE  /\ UNCHANGED verdicts \/ \E r \in runs : Conclude(r)
         /\ UNCHANGED artifact \/ Import \/ \E r \in runs : Conclude(r)
BY DEF Next, vars, LeaveAlone, SweepStep, Decide, StopSweep, FindNoJob, FindJob, Send,
   Reserve, DeclareLost, RecordDispatch, ReleaseDispatch, RunStep, Judge, EndJob, Crash,
   QueueStep, QueueFault, Begin, Refuse, Expire, ExpireTooSoon, Remove, WindowPasses,
   DiscoverRow, Adopt, EnqueueFirstProof, FailOrphan, NothingToDiscover,
   Ready, Unreadable, Import

\* The rest of the state: discovery, the corpus and the bound.
LEMMA OtherWriters ==
  ASSUME [Next]_vars
  PROVE  /\ UNCHANGED discovery \/ DiscoverRow \/ discovery' = None
         /\ UNCHANGED corpus \/ corpus' \in {None, "current"}
         /\ UNCHANGED faults \/ (faults < MaxFaults /\ faults' = faults + 1)
<1>1. UNCHANGED discovery \/ DiscoverRow \/ discovery' = None
  BY DEF Next, vars, LeaveAlone, SweepStep, Decide, StopSweep, FindNoJob, FindJob, Send,
     Reserve, DeclareLost, RecordDispatch, ReleaseDispatch, RunStep, Judge, Conclude, EndJob,
     Crash, QueueStep, QueueFault, Begin, Refuse, Expire, ExpireTooSoon, Remove, WindowPasses,
     Adopt, EnqueueFirstProof, FailOrphan, NothingToDiscover, Ready, Unreadable, Import
<1>2. UNCHANGED corpus \/ corpus' \in {None, "current"}
  BY DEF Next, vars, LeaveAlone, SweepStep, Decide, StopSweep, FindNoJob, FindJob, Send,
     Reserve, DeclareLost, RecordDispatch, ReleaseDispatch, RunStep, Judge, Conclude, EndJob,
     Crash, QueueStep, QueueFault, Begin, Refuse, Expire, ExpireTooSoon, Remove, WindowPasses,
     DiscoverRow, Adopt, EnqueueFirstProof, FailOrphan, NothingToDiscover,
     Ready, Unreadable, Import
<1>3. NoFault \/ Fault \/ UNCHANGED vars
  BY DEF Next, LeaveAlone, SweepStep, Decide, StopSweep, FindNoJob, FindJob, Send,
     Reserve, DeclareLost, RecordDispatch, ReleaseDispatch, RunStep, Judge, Conclude, EndJob,
     Crash, QueueStep, QueueFault, Begin, Refuse, Expire, ExpireTooSoon, Remove, WindowPasses,
     DiscoverRow, Adopt, EnqueueFirstProof, FailOrphan, NothingToDiscover,
     Ready, Unreadable, Import
<1>4. UNCHANGED faults \/ (faults < MaxFaults /\ faults' = faults + 1)
  BY <1>3 DEF NoFault, Fault, vars
<1>5. QED
  BY <1>1, <1>2, <1>4

-----------------------------------------------------------------------------
(***************************************************************************)
(* The types.                                                              *)
(***************************************************************************)

\* The queue keeps its type whatever is done to a job of it.
LEMMA QueueWrites ==
  ASSUME QueueOK(jobs), NEW c \in Cycles
  PROVE  /\ \A job \in JobKinds : QueueOK(With(c, job))
         /\ QueueOK(Without(c))
         /\ c \in DOMAIN jobs => /\ QueueOK(Ended(c)) /\ QueueOK(Thrown(c))
                                /\ QueueOK(With(c, [jobs[c] EXCEPT !.state = "active"]))
         /\ Queued(0) \in JobKinds
<1> USE RecoveryAssumption
<1>1. ASSUME NEW job \in JobKinds PROVE QueueOK(With(c, job))
  BY DEF QueueOK, With
<1>2. QueueOK(Without(c))
  BY DEF QueueOK, Without
<1>3. Queued(0) \in JobKinds
  BY DEF Queued, JobKinds
<1>4. ASSUME c \in DOMAIN jobs
      PROVE  /\ QueueOK(Ended(c)) /\ QueueOK(Thrown(c))
             /\ QueueOK(With(c, [jobs[c] EXCEPT !.state = "active"]))
  <2>1. jobs[c] \in JobKinds
    BY <1>4 DEF QueueOK
  <2>2. /\ [jobs[c] EXCEPT !.state = "terminal"] \in JobKinds
        /\ [jobs[c] EXCEPT !.state = "active"] \in JobKinds
        /\ jobs[c].tries < RetryLimit => Queued(jobs[c].tries + 1) \in JobKinds
    BY <2>1 DEF JobKinds, Queued
  <2>3. QED
    BY <1>1, <2>2 DEF Ended, Thrown
<1>5. QED
  BY <1>1, <1>2, <1>3, <1>4

\* Every step keeps the type of the queue.
LEMMA QueueTyped ==
  ASSUME RecoveryTypes, [Next]_vars
  PROVE  QueueOK(jobs')
<1>1. QueueOK(jobs)
  BY DEF RecoveryTypes, TypeOK, QueueOK, JobKinds
<1>2. Unrestricted \in Cycles
  BY DEF Unrestricted, Cycle, Cycles
<1>3. ASSUME NEW s \in Sweeps, Send(s) PROVE QueueOK(jobs')
  <2>1. sweep[s].cycle \in Cycles
    BY DEF RecoveryTypes, TypeOK
  <2>2. QED
    BY <1>1, <1>3, <2>1, QueueWrites DEF Send
<1>4. ASSUME NEW c \in DOMAIN jobs,
             Begin(c) \/ Refuse(c) \/ Expire(c) \/ ExpireTooSoon(c) \/ Remove(c)
      PROVE  QueueOK(jobs')
  <2>1. c \in Cycles
    BY <1>1 DEF QueueOK
  <2>2. QED
    BY <1>1, <1>4, <2>1, QueueWrites DEF Begin, Refuse, Expire, ExpireTooSoon, Remove
<1>5. ASSUME NEW r \in runs, EndJob(r) PROVE QueueOK(jobs')
  <2>1. r.cycle \in Cycles
    BY DEF RecoveryTypes, RunsOK, RunKinds
  <2>2. Is(r.cycle, "active") => r.cycle \in DOMAIN jobs
    BY DEF Is
  <2>3. QED
    BY <1>1, <1>5, <2>1, <2>2, QueueWrites DEF EndJob
<1>6. CASE WindowPasses \/ EnqueueFirstProof
  BY <1>1, <1>2, <1>6, QueueWrites DEF WindowPasses, EnqueueFirstProof
<1>7. QED
  BY <1>1, <1>3, <1>4, <1>5, <1>6, QueueWriters

\* There is always a claim that nobody holds for a run that begins.
LEMMA ClaimsSuffice ==
  ASSUME RecoveryTypes, Cardinality(runs) < MaxRuns
  PROVE  NewClaim \in Claims \ {0} /\ NewClaim \notin ClaimsHeld
<1> DEFINE held == {r.claim : r \in runs}
           other == IF discovery = None THEN {} ELSE {discovery.claim}
           claim == [r \in runs |-> r.claim]
<1>1. IsFiniteSet(runs) /\ MaxRuns \in Nat /\ Cardinality(runs) \in Nat
  BY RecoveryAssumption, FS_CardinalityType DEF RecoveryTypes, RunsOK
<1>2. IsFiniteSet(held) /\ Cardinality(held) <= Cardinality(runs)
  <2>1. claim \in Surjection(runs, held)
    BY DEF Surjection
  <2> HIDE DEF claim, held
  <2>2. QED
    BY <1>1, <2>1, FS_Surjection
<1>3. IsFiniteSet(other) /\ Cardinality(other) <= 1
  <2>1. CASE discovery = None
    <3>1. other = {} /\ Cardinality({}) = 0 /\ IsFiniteSet({})
      BY <2>1, FS_EmptySet
    <3>2. QED
      BY <3>1
  <2>2. CASE discovery # None
    <3>1. other = {discovery.claim}
      BY <2>2
    <3>2. IsFiniteSet({discovery.claim}) /\ Cardinality({discovery.claim}) = 1
      BY FS_Singleton
    <3>3. QED
      BY <3>1, <3>2
  <2>3. QED
    BY <2>1, <2>2
<1>4. IsFiniteSet(ClaimsHeld) /\ Cardinality(ClaimsHeld) <= MaxRuns
  <2> HIDE DEF held, other
  <2>1. /\ IsFiniteSet(held \cup other)
        /\ Cardinality(held \cup other)
              = Cardinality(held) + Cardinality(other) - Cardinality(held \cap other)
    BY <1>2, <1>3, FS_Union
  <2>2. IsFiniteSet(held \cap other)
    <3>1. held \cap other \in SUBSET held
      OBVIOUS
    <3>2. QED
      BY <1>2, <3>1, FS_Subset
  <2>3. /\ Cardinality(held) \in Nat /\ Cardinality(other) \in Nat
        /\ Cardinality(held \cap other) \in Nat
    BY <1>2, <1>3, <2>2, FS_CardinalityType
  <2>4. Cardinality(held \cup other) <= MaxRuns
    BY <1>1, <1>2, <1>3, <2>1, <2>3
  <2>5. ClaimsHeld = held \cup other
    BY DEF ClaimsHeld, held, other
  <2>6. QED
    BY <2>1, <2>4, <2>5
<1>5. \E n \in Claims \ {0} : n \notin ClaimsHeld
  <2> SUFFICES ASSUME Claims \ {0} \subseteq ClaimsHeld PROVE FALSE
    OBVIOUS
  <2>1. Claims \ {0} = 1 .. MaxRuns + 1
    BY <1>1 DEF Claims
  <2>2. Cardinality(1 .. MaxRuns + 1) = MaxRuns + 1
    BY <1>1, FS_Interval
  <2>3. Claims \ {0} \in SUBSET ClaimsHeld
    OBVIOUS
  <2>4. Cardinality(1 .. MaxRuns + 1) <= Cardinality(ClaimsHeld)
    BY <1>4, <2>1, <2>3, FS_Subset
  <2>5. Cardinality(ClaimsHeld) \in Nat
    BY <1>4, FS_CardinalityType
  <2>6. QED
    BY <1>1, <1>4, <2>2, <2>4, <2>5
<1>6. QED
  BY <1>5 DEF NewClaim

\* Every step keeps the type of the row.
LEMMA RowTyped ==
  ASSUME RecoveryTypes, [Next]_vars
  PROVE  row' \in Rows
<1> USE DEF Rows
<1>1. row \in Rows /\ corpus \in {None, "current"}
  BY DEF RecoveryTypes, TypeOK
<1>2. ASSUME NEW s \in Sweeps, Reserve(s) PROVE row' \in Rows
  <2> DEFINE marker == [corpus |-> corpus, attempt |-> NextAttempt(corpus),
                        state |-> "pending-dispatch", reservation |-> s, dispatched |-> None]
  <2>1. corpus \in Corpora
    BY <1>1, <1>2 DEF Reserve, Due, Corpora
  <2>2. NextAttempt(corpus) \in Nat \ {0}
    BY <1>1 DEF NextAttempt, SameCorpus, Markers
  <2>3. marker \in Markers
    BY <2>1, <2>2 DEF Markers
  <2>4. row' = [row EXCEPT !.marker = marker]
    BY <1>2 DEF Reserve, Cycle
  <2> HIDE DEF marker
  <2>5. QED
    BY <1>1, <2>3, <2>4
<1>3. ASSUME NEW s \in Sweeps, DeclareLost(s) PROVE row' \in Rows
  <2>1. row.marker \in Markers
    BY <1>1, <1>3 DEF DeclareLost, Dispatching, SameCorpus
  <2>2. [row.marker EXCEPT !.state = "attempted"] \in Markers
    BY <2>1 DEF Markers
  <2>3. QED
    BY <1>1, <1>3, <2>2 DEF DeclareLost, States
<1>4. ASSUME NEW s \in Sweeps, RecordDispatch(s) PROVE row' \in Rows
  <2>1. sweep[s].cycle \in Cycles
    BY DEF RecoveryTypes, TypeOK
  <2>2. HoldsReservation(s) => [row.marker EXCEPT !.dispatched = sweep[s].cycle] \in Markers
    BY <1>1, <2>1 DEF HoldsReservation, Markers
  <2>3. QED
    BY <1>1, <1>4, <2>2 DEF RecordDispatch
<1>5. ASSUME NEW s \in Sweeps, ReleaseDispatch(s) PROVE row' \in Rows
  <2>1. HoldsReservation(s) => [row.marker EXCEPT !.reservation = None] \in Markers
    BY <1>1 DEF HoldsReservation, Markers
  <2>2. QED
    BY <1>1, <1>5, <2>1 DEF ReleaseDispatch
<1>6. ASSUME NEW c \in DOMAIN jobs, Begin(c) PROVE row' \in Rows
  <2>1. NewClaim \in Claims
    BY <1>6, ClaimsSuffice DEF Begin
  <2>2. c # Unrestricted => [row.marker EXCEPT !.state = "attempted"] \in Markers
    BY <1>1, <1>6 DEF Begin, MayBegin, SameCorpus, Markers
  <2>3. QED
    BY <1>1, <1>6, <2>1, <2>2 DEF Begin, Begun, States
<1>7. ASSUME NEW r \in runs, Conclude(r) PROVE row' \in Rows
  BY <1>1, <1>7 DEF Conclude, Complete, PutOff, States
<1>8. CASE Adopt \/ FailOrphan
  BY <1>1, <1>8 DEF Adopt, FailOrphan, States
<1>9. QED
  BY <1>1, <1>2, <1>3, <1>4, <1>5, <1>6, <1>7, <1>8, RowWriters

\* A run that replaces another, under the same claim, leaves the runs in order.
LEMMA RunReplaced ==
  ASSUME RunsOK, NEW r \in runs, NEW new \in RunKinds, new.claim = r.claim,
         runs' = (runs \ {r}) \cup {new}
  PROVE  RunsOK'
<1> DEFINE rest == runs \ {r}
<1>1. /\ IsFiniteSet(rest) /\ Cardinality(rest) = Cardinality(runs) - 1
      /\ Cardinality(runs) \in Nat
  BY FS_RemoveElement, FS_CardinalityType DEF RunsOK
<1>2. /\ IsFiniteSet(rest \cup {new})
      /\ Cardinality(rest \cup {new}) <= Cardinality(runs)
  <2> HIDE DEF rest
  <2>1. /\ IsFiniteSet(rest \cup {new})
        /\ Cardinality(rest \cup {new}) \in {Cardinality(rest), Cardinality(rest) + 1}
    BY <1>1, FS_AddElement
  <2>2. QED
    BY <1>1, <2>1
<1>3. IsFiniteSet(runs') /\ Cardinality(runs') <= MaxRuns
  <2>1. Cardinality(runs') \in Nat /\ MaxRuns \in Nat /\ Cardinality(runs) <= MaxRuns
    BY <1>2, FS_CardinalityType, RecoveryAssumption DEF RunsOK
  <2>2. Cardinality(runs') <= Cardinality(runs)
    BY <1>2
  <2>3. QED
    BY <1>1, <1>2, <2>1, <2>2
<1>4. runs' \subseteq RunKinds /\ ClaimsDiffer'
  BY DEF RunsOK, ClaimsDiffer
<1>5. QED
  BY <1>3, <1>4 DEF RunsOK

\* Every step keeps the runs in order: no two of them hold the same claim.
LEMMA RunsTyped ==
  ASSUME RecoveryTypes, [Next]_vars
  PROVE  RunsOK'
<1>1. /\ RunsOK /\ runs \subseteq RunKinds /\ IsFiniteSet(runs)
      /\ Cardinality(runs) \in Nat /\ MaxRuns \in Nat
  BY RecoveryAssumption, FS_CardinalityType DEF RecoveryTypes, RunsOK
<1>2. corpus \in Corpora \cup {None}
  BY DEF RecoveryTypes, TypeOK, Corpora
<1>3. ASSUME NEW c \in DOMAIN jobs, Begin(c) PROVE RunsOK'
  <2> DEFINE run == [at |-> "begun", cycle |-> c, claim |-> NewClaim,
                     pinned |-> None, outcome |-> "none"]
  <2>1. /\ runs' = runs \cup {run} /\ Cardinality(runs) < MaxRuns
    BY <1>3 DEF Begin
  <2>2. NewClaim \in Claims \ {0} /\ NewClaim \notin ClaimsHeld
    BY <2>1, ClaimsSuffice
  <2>3. c \in Cycles
    BY DEF RecoveryTypes, TypeOK
  <2>4. run \in RunKinds /\ run.claim = NewClaim
    BY <2>2, <2>3 DEF RunKinds, Outcomes
  <2>5. \A r \in runs : r.claim # NewClaim
    BY <2>2 DEF ClaimsHeld
  <2> HIDE DEF run
  <2>6. IsFiniteSet(runs') /\ Cardinality(runs') <= MaxRuns
    <3>1. /\ IsFiniteSet(runs \cup {run})
          /\ Cardinality(runs \cup {run}) \in {Cardinality(runs), Cardinality(runs) + 1}
      BY <1>1, FS_AddElement
    <3>2. QED
      BY <1>1, <2>1, <3>1
  <2>7. runs' \subseteq RunKinds /\ ClaimsDiffer'
    BY <1>1, <2>1, <2>4, <2>5 DEF RunsOK, ClaimsDiffer
  <2>8. QED
    BY <2>6, <2>7 DEF RunsOK
<1>4. ASSUME NEW r \in runs, Judge(r) PROVE RunsOK'
  <2>1. PICK outcome \in Outcomes : Judged(r, outcome)
    BY <1>4 DEF Judge, Outcomes, Verdicts
  <2> DEFINE new == [r EXCEPT !.at = "judged", !.pinned = corpus, !.outcome = outcome]
  <2>2. new \in RunKinds /\ new.claim = r.claim
    BY <1>1, <1>2 DEF RunKinds
  <2>3. runs' = (runs \ {r}) \cup {new}
    BY <2>1 DEF Judged, Becomes
  <2> HIDE DEF new
  <2>4. QED
    BY <1>1, <2>2, <2>3, RunReplaced
<1>5. ASSUME NEW r \in runs, Conclude(r) PROVE RunsOK'
  <2> DEFINE new == [r EXCEPT !.at = "written", !.pinned = None,
                              !.outcome = IF r.outcome = "fail" THEN "fail" ELSE "none"]
  <2>1. new \in RunKinds /\ new.claim = r.claim
    BY <1>1 DEF RunKinds, Outcomes
  <2>2. runs' = (runs \ {r}) \cup {new}
    BY <1>5 DEF Conclude, Becomes
  <2> HIDE DEF new
  <2>3. QED
    BY <1>1, <2>1, <2>2, RunReplaced
<1>6. ASSUME NEW r \in runs, EndJob(r) \/ Crash(r) PROVE RunsOK'
  <2>1. runs' = runs \ {r}
    BY <1>6 DEF EndJob, Crash
  <2>2. IsFiniteSet(runs') /\ Cardinality(runs') <= MaxRuns
    <3>1. IsFiniteSet(runs \ {r}) /\ Cardinality(runs \ {r}) = Cardinality(runs) - 1
      BY <1>1, FS_RemoveElement
    <3>2. Cardinality(runs) <= MaxRuns
      BY DEF RecoveryTypes, RunsOK
    <3>3. QED
      BY <1>1, <2>1, <3>1, <3>2
  <2>3. QED
    BY <1>1, <2>1, <2>2 DEF RunsOK, ClaimsDiffer
<1>7. CASE UNCHANGED runs
  BY <1>1, <1>7 DEF RunsOK, ClaimsDiffer
<1>8. QED
  BY <1>3, <1>4, <1>5, <1>6, <1>7, RunWriters

\* Every step keeps the rest of the types.
LEMMA SweepTyped ==
  ASSUME RecoveryTypes, [Next]_vars
  PROVE  sweep' \in [Sweeps -> [at : {"idle", "due", "reserved", "looked", "sent", "refused"},
                                cycle : Cycles]]
<1> DEFINE Stages == {"idle", "due", "reserved", "looked", "sent", "refused"}
           Kinds == [at : Stages, cycle : Cycles]
<1>1. sweep \in [Sweeps -> Kinds]
  BY DEF RecoveryTypes, TypeOK
<1>2. Quiet \in Kinds
  BY DEF Quiet, Unrestricted, Cycle, Cycles
<1>3. ASSUME NEW s \in Sweeps, NEW place \in Stages, SweepGo(s, place)
      PROVE  sweep' \in [Sweeps -> Kinds]
  BY <1>1, <1>3 DEF SweepGo
<1>4. ASSUME NEW s \in Sweeps, SweepRests(s) PROVE sweep' \in [Sweeps -> Kinds]
  <2> HIDE DEF Kinds
  <2>1. QED
    BY <1>1, <1>2, <1>4 DEF SweepRests
<1>5. ASSUME NEW s \in Sweeps, Reserve(s) PROVE sweep' \in [Sweeps -> Kinds]
  <2> DEFINE cycle == Cycle(corpus, NextAttempt(corpus))
  <2>1. corpus \in Corpora
    BY <1>5 DEF Reserve, Due, RecoveryTypes, TypeOK, Corpora
  <2>2. NextAttempt(corpus) \in Nat
    BY DEF NextAttempt, SameCorpus, RecoveryTypes, TypeOK, Rows, Markers
  <2>3. [at |-> "reserved", cycle |-> cycle] \in Kinds
    BY <2>1, <2>2 DEF Cycle, Cycles
  <2>4. sweep' = [sweep EXCEPT ![s] = [at |-> "reserved", cycle |-> cycle]]
    BY <1>5 DEF Reserve
  <2> HIDE DEF cycle, Kinds
  <2>5. QED
    BY <1>1, <2>3, <2>4
<1>6. ASSUME NEW s \in Sweeps, SweepStep(s) \/ Decide(s) \/ StopSweep(s)
      PROVE  sweep' \in [Sweeps -> Kinds]
  <2>1. \/ \E place \in Stages : SweepGo(s, place)
        \/ SweepRests(s) \/ Reserve(s)
    BY <1>6 DEF SweepStep, Decide, StopSweep, FindNoJob, FindJob, Send, RecordDispatch,
       ReleaseDispatch, DeclareLost
  <2>2. QED
    BY <2>1, <1>3, <1>4, <1>5
<1>7. CASE LeaveAlone
  BY <1>4, <1>7 DEF LeaveAlone, Sweeps
<1>8. CASE Ready
  BY <1>1, <1>8 DEF Ready, Sweeps
<1>9. QED
  BY <1>1, <1>6, <1>7, <1>8, SweepWriters

\* A conclusion that the claim upholds is the verdict of the proof, or puts it off.
LEMMA Conclusions ==
  ASSUME RecoveryTypes, NEW r \in runs, Conclude(r)
  PROVE  \/ UNCHANGED <<row, verdicts>> /\ artifact' = artifact
         \/ /\ ClaimHolds(r) /\ row.state = "validating" /\ r.at = "judged"
            /\ r.outcome \in Verdicts
            /\ row' = [row EXCEPT !.state = IF r.outcome = "admit" THEN "admitted" ELSE "withheld",
                                  !.blocker = IF r.outcome = "admit" THEN "none" ELSE r.outcome]
            /\ verdicts' = Append(verdicts,
                 [cycle |-> r.cycle, corpus |-> r.pinned, outcome |-> r.outcome])
            /\ r.outcome = "admit" => artifact'
         \/ /\ ClaimHolds(r) /\ row.state = "validating" /\ artifact' = artifact
            /\ \/ row' = [row EXCEPT !.state = "pending", !.blocker = "preparing"]
               \/ row' = [row EXCEPT !.state = "failed", !.blocker = "none"]
            /\ UNCHANGED verdicts
<1>1. artifact' = (artifact \/ (ClaimHolds(r) /\ r.outcome = "admit")) /\ artifact \in BOOLEAN
  BY DEF Conclude, RecoveryTypes, TypeOK
<1>2. CASE ~ClaimHolds(r)
  BY <1>1, <1>2 DEF Conclude
<1>3. CASE ClaimHolds(r) /\ r.outcome = "admit"
  BY <1>1, <1>3 DEF Conclude, Complete, ClaimHolds, Verdicts
<1>4. CASE ClaimHolds(r) /\ r.outcome \in {"coverage", "science"}
  BY <1>1, <1>4 DEF Conclude, Complete, ClaimHolds, Verdicts
<1>5. CASE ClaimHolds(r) /\ r.outcome \notin Verdicts
  BY <1>1, <1>5 DEF Conclude, PutOff, ClaimHolds, Verdicts
<1>6. QED
  BY <1>2, <1>3, <1>4, <1>5 DEF Verdicts

(***************************************************************************)
(* What a proof judged, it judged on the corpus its job is pinned to.      *)
(***************************************************************************)
JudgementsPinned ==
    \A r \in runs : r.at = "judged" /\ r.outcome \in Verdicts =>
       r.pinned = "current" /\ (r.cycle = Unrestricted \/ r.cycle.corpus = r.pinned)

\* Every step keeps the judgements pinned.
LEMMA JudgementStep ==
  ASSUME RecoveryTypes, JudgementsPinned, [Next]_vars
  PROVE  JudgementsPinned'
<1>1. ASSUME NEW c \in DOMAIN jobs, Begin(c) PROVE JudgementsPinned'
  BY <1>1 DEF JudgementsPinned, Begin
<1>2. ASSUME NEW r \in runs, Judge(r) PROVE JudgementsPinned'
  <2>1. PICK outcome :
          /\ Judged(r, outcome)
          /\ outcome \in Verdicts =>
               corpus # None /\ (r.cycle = Unrestricted \/ r.cycle.corpus = corpus)
    BY <1>2 DEF Judge, Verdicts
  <2> DEFINE new == [r EXCEPT !.at = "judged", !.pinned = corpus, !.outcome = outcome]
  <2>2. runs' = (runs \ {r}) \cup {new} /\ corpus \in {None, "current"}
    BY <2>1 DEF Judged, Becomes, RecoveryTypes, TypeOK
  <2>3. r \in RunKinds
    BY DEF RecoveryTypes, RunsOK
  <2>4. new.pinned = corpus /\ new.outcome = outcome /\ new.cycle = r.cycle
    BY <2>3 DEF RunKinds
  <2> HIDE DEF new
  <2>5. QED
    BY <2>1, <2>2, <2>4 DEF JudgementsPinned
<1>3. ASSUME NEW r \in runs, Conclude(r) PROVE JudgementsPinned'
  <2> DEFINE new == [r EXCEPT !.at = "written", !.pinned = None,
                              !.outcome = IF r.outcome = "fail" THEN "fail" ELSE "none"]
  <2>1. runs' = (runs \ {r}) \cup {new}
    BY <1>3 DEF Conclude, Becomes
  <2>2. new.at = "written"
    BY DEF RecoveryTypes, RunsOK, RunKinds
  <2> HIDE DEF new
  <2>3. QED
    BY <2>1, <2>2 DEF JudgementsPinned
<1>4. ASSUME NEW r \in runs, EndJob(r) \/ Crash(r) PROVE JudgementsPinned'
  BY <1>4 DEF JudgementsPinned, EndJob, Crash
<1>5. CASE UNCHANGED runs
  BY <1>5 DEF JudgementsPinned
<1>6. QED
  BY <1>1, <1>2, <1>3, <1>4, <1>5, RunWriters

\* Every step keeps the types; in particular an admitted profile has its artifact.
LEMMA TypeStep ==
  ASSUME RecoveryTypes, JudgementsPinned, [Next]_vars
  PROVE  RecoveryTypes'
<1> DEFINE Entries == [cycle : Cycles, corpus : Corpora, outcome : Verdicts]
<1>1. /\ row' \in Rows /\ QueueOK(jobs') /\ RunsOK'
      /\ sweep' \in [Sweeps -> [at : {"idle", "due", "reserved", "looked", "sent", "refused"},
                                cycle : Cycles]]
  BY RowTyped, QueueTyped, RunsTyped, SweepTyped
<1>2. verdicts' \in Seq(Entries)
  <2>1. verdicts \in Seq(Entries)
    BY DEF RecoveryTypes, TypeOK
  <2>2. ASSUME NEW r \in runs, Conclude(r) PROVE verdicts' \in Seq(Entries)
    <3> DEFINE entry == [cycle |-> r.cycle, corpus |-> r.pinned, outcome |-> r.outcome]
    <3>1. \/ UNCHANGED verdicts
          \/ /\ r.at = "judged" /\ r.outcome \in Verdicts
             /\ verdicts' = Append(verdicts, entry)
      BY <2>2, Conclusions
    <3>2. r.at = "judged" /\ r.outcome \in Verdicts => entry \in Entries
      BY DEF JudgementsPinned, RecoveryTypes, RunsOK, RunKinds, Corpora
    <3> HIDE DEF entry, Entries
    <3>3. QED
      BY <2>1, <3>1, <3>2
  <2>3. QED
    BY <2>1, <2>2, VerdictWriters
<1>3. artifact' \in BOOLEAN /\ (artifact => artifact')
  <2>1. ASSUME NEW r \in runs, Conclude(r) PROVE artifact' \in BOOLEAN /\ (artifact => artifact')
    BY <2>1 DEF Conclude, RecoveryTypes, TypeOK
  <2>2. QED
    BY <2>1, VerdictWriters DEF Import, RecoveryTypes, TypeOK
<1>4. row'.state = "admitted" => artifact'
  <2>1. row \in Rows /\ (row.state = "admitted" => artifact)
    BY DEF RecoveryTypes, TypeOK
  <2>2. ASSUME NEW r \in runs, Conclude(r) PROVE row'.state = "admitted" => artifact'
    <3>1. \/ UNCHANGED row /\ artifact' = artifact
          \/ /\ row'.state = IF r.outcome = "admit" THEN "admitted" ELSE "withheld"
             /\ r.outcome = "admit" => artifact'
          \/ row'.state \in {"pending", "failed"}
      <4> USE <2>1 DEF Rows
      <4>1. QED
        BY <2>2, Conclusions
    <3>2. QED
      BY <2>1, <3>1
  <2>3. ASSUME NEW s \in Sweeps,
               Reserve(s) \/ DeclareLost(s) \/ RecordDispatch(s) \/ ReleaseDispatch(s)
        PROVE  row'.state \in {row.state, "failed"}
    BY <2>1, <2>3 DEF Rows, Reserve, DeclareLost, RecordDispatch, ReleaseDispatch
  <2>4. ASSUME NEW c \in DOMAIN jobs, Begin(c) PROVE row'.state = "validating"
    BY <2>1, <2>4 DEF Rows, Begin, Begun
  <2>5. CASE Adopt
    BY <2>5 DEF Adopt
  <2>6. CASE FailOrphan
    BY <2>1, <2>6, <1>3 DEF Rows, FailOrphan
  <2>7. QED
    BY <1>3, <2>1, <2>2, <2>3, <2>4, <2>5, <2>6, RowWriters
<1>5. /\ discovery' = None \/ (discovery'.state \in States /\ discovery'.claim \in Claims)
      /\ corpus' \in {None, "current"} /\ faults' \in 0 .. MaxFaults
  <2>1. DiscoverRow => discovery'.state \in States /\ discovery'.claim \in Claims
    BY RecoveryAssumption DEF DiscoverRow, RecoveryTypes, TypeOK, Rows, Claims
  <2>2. QED
    BY <2>1, OtherWriters, RecoveryAssumption DEF RecoveryTypes, TypeOK
<1>6. QED
  <2> HIDE DEF Entries
  <2>1. verdicts' \in Seq([cycle : Cycles, corpus : Corpora, outcome : Verdicts])
    BY <1>2 DEF Entries
  <2>2. TypeOK'
    BY <1>1, <1>3, <1>4, <1>5, <2>1 DEF TypeOK, QueueOK, JobKinds, RunsOK, RunKinds, ClaimsDiffer
  <2>3. QED
    BY <1>1, <2>2 DEF RecoveryTypes

-----------------------------------------------------------------------------
(***************************************************************************)
(* The cycles.                                                             *)
(***************************************************************************)

MarkedCycle == Cycle(row.marker.corpus, row.marker.attempt)

MarkerIs(state) == row.marker # None /\ row.marker.state = state

\* The marker, or its absence, says that this cycle has been attempted.
Matches(cycle) ==
    \/ cycle = Unrestricted /\ row.marker = None
    \/ MarkerIs("attempted") /\ cycle = MarkedCycle

\* Whoever may complete the row is at the cycle the row is validated for.
ClaimsMatch == \A r \in runs : ClaimHolds(r) => Matches(r.cycle)

Sending == {"reserved", "looked", "sent", "refused"}

\* A sweep whose reservation stands is sending the job of the marker's cycle, and
\* what the marker says was dispatched is that job.
ReservationsMatch ==
    /\ row.marker # None /\ row.marker.dispatched # None => row.marker.dispatched = MarkedCycle
    /\ \A s \in Sweeps :
         sweep[s].at \in Sending /\ row.marker # None /\ row.marker.reservation = s =>
           sweep[s].cycle = MarkedCycle

\* What a run is after a step: one that was there, under the same claim, or a new one.
LEMMA RunsDescend ==
  ASSUME RecoveryTypes, [Next]_vars, NEW n \in runs'
  PROVE  \/ \E r \in runs : r.claim = n.claim /\ r.cycle = n.cycle
         \/ \E c \in DOMAIN jobs : Begin(c) /\ n.cycle = c /\ n.claim = NewClaim
<1>1. ASSUME NEW c \in DOMAIN jobs, Begin(c)
      PROVE  n \in runs \/ (n.cycle = c /\ n.claim = NewClaim)
  BY <1>1 DEF Begin
<1>2. ASSUME NEW r \in runs, Judge(r) \/ Conclude(r)
      PROVE  n \in runs \/ (r.claim = n.claim /\ r.cycle = n.cycle)
  <2>1. r \in RunKinds
    BY DEF RecoveryTypes, RunsOK
  <2>2. CASE Judge(r)
    <3>1. PICK outcome : Judged(r, outcome)
      BY <2>2 DEF Judge
    <3>2. QED
      BY <2>1, <3>1 DEF Judged, Becomes, RunKinds
  <2>3. CASE Conclude(r)
    BY <2>1, <2>3 DEF Conclude, Becomes, RunKinds
  <2>4. QED
    BY <1>2, <2>2, <2>3
<1>3. ASSUME NEW r \in runs, EndJob(r) \/ Crash(r) PROVE n \in runs
  BY <1>3 DEF EndJob, Crash
<1>4. QED
  BY <1>1, <1>2, <1>3, RunWriters

\* A sweep that is sending has been sending the same job, or has just reserved one.
LEMMA SweepsDescend ==
  ASSUME RecoveryTypes, [Next]_vars, NEW s \in Sweeps, sweep'[s].at \in Sending
  PROVE  \/ sweep[s].at \in Sending /\ sweep'[s].cycle = sweep[s].cycle
         \/ Reserve(s)
<1> DEFINE Kept == sweep[s].at \in Sending /\ sweep'[s].cycle = sweep[s].cycle
<1>1. sweep \in [Sweeps -> [at : {"idle", "due", "reserved", "looked", "sent", "refused"},
                            cycle : Cycles]]
  BY DEF RecoveryTypes, TypeOK
<1>2. ASSUME NEW t \in Sweeps, NEW place, SweepGo(t, place), sweep[t].at \in Sending
      PROVE  Kept
  BY <1>1, <1>2 DEF SweepGo
<1>3. ASSUME NEW t \in Sweeps, SweepRests(t) PROVE Kept
  BY <1>1, <1>3 DEF SweepRests, Quiet, Sending
<1>4. ASSUME NEW t \in Sweeps, Reserve(t) PROVE Kept \/ Reserve(s)
  BY <1>1, <1>4 DEF Reserve
<1>5. ASSUME NEW t \in Sweeps, SweepStep(t) \/ Decide(t) \/ StopSweep(t)
      PROVE  Kept \/ Reserve(s)
  <2>1. \/ sweep[t].at \in Sending /\ \E place : SweepGo(t, place)
        \/ SweepRests(t) \/ Reserve(t)
    BY <1>5 DEF SweepStep, Decide, StopSweep, FindNoJob, FindJob, Send, RecordDispatch,
       ReleaseDispatch, DeclareLost, Sending
  <2>2. QED
    BY <2>1, <1>2, <1>3, <1>4
<1>6. CASE LeaveAlone
  BY <1>3, <1>6 DEF LeaveAlone, Sweeps
<1>7. CASE Ready
  BY <1>1, <1>7 DEF Ready, Sending, Sweeps
<1>8. QED
  BY <1>1, <1>5, <1>6, <1>7, SweepWriters

\* What a step does to the marker.
LEMMA MarkerWrites ==
  ASSUME RecoveryTypes, [Next]_vars
  PROVE  \/ row'.marker = row.marker
         \/ row'.marker = None
         \/ \E s \in Sweeps : Reserve(s)
         \/ row.marker # None /\ row'.marker = [row.marker EXCEPT !.state = "attempted"]
         \/ row.marker # None /\ row'.marker = [row.marker EXCEPT !.reservation = None]
         \/ \E s \in Sweeps :
              /\ sweep[s].at = "sent" /\ HoldsReservation(s)
              /\ row'.marker = [row.marker EXCEPT !.dispatched = sweep[s].cycle]
<1>1. row \in Rows
  BY DEF RecoveryTypes, TypeOK
<1> USE <1>1 DEF Rows
<1>2. ASSUME NEW s \in Sweeps, DeclareLost(s)
      PROVE  row.marker # None /\ row'.marker = [row.marker EXCEPT !.state = "attempted"]
  BY <1>2 DEF DeclareLost, Dispatching, SameCorpus
<1>3. ASSUME NEW s \in Sweeps, RecordDispatch(s)
      PROVE  \/ row'.marker = row.marker
             \/ /\ sweep[s].at = "sent" /\ HoldsReservation(s)
                /\ row'.marker = [row.marker EXCEPT !.dispatched = sweep[s].cycle]
  BY <1>3 DEF RecordDispatch
<1>4. ASSUME NEW s \in Sweeps, ReleaseDispatch(s)
      PROVE  \/ row'.marker = row.marker
             \/ row.marker # None /\ row'.marker = [row.marker EXCEPT !.reservation = None]
  BY <1>4 DEF ReleaseDispatch, HoldsReservation
<1>5. ASSUME NEW c \in DOMAIN jobs, Begin(c)
      PROVE  \/ row'.marker = None
             \/ row.marker # None /\ row'.marker = [row.marker EXCEPT !.state = "attempted"]
  BY <1>5 DEF Begin, Begun, MayBegin, SameCorpus
<1>6. ASSUME NEW r \in runs, Conclude(r) PROVE row'.marker = row.marker
  BY <1>6, Conclusions
<1>7. CASE Adopt \/ FailOrphan
  BY <1>7 DEF Adopt, FailOrphan
<1>8. QED
  BY <1>2, <1>3, <1>4, <1>5, <1>6, <1>7, RowWriters

\* Every step keeps the claims with their cycles, zombies of expired jobs included.
LEMMA ClaimsStep ==
  ASSUME RecoveryTypes, ClaimsMatch, [Next]_vars
  PROVE  ClaimsMatch'
<1> SUFFICES ASSUME NEW n \in runs', row'.state = "validating", row'.claim = n.claim
             PROVE  Matches(n.cycle)'
  BY DEF ClaimsMatch, ClaimHolds
<1>1. row \in Rows
  BY DEF RecoveryTypes, TypeOK
<1> USE DEF Rows
\* A new run is at the cycle the row has just been claimed for.
<1>2. ASSUME NEW c \in DOMAIN jobs, Begin(c) PROVE Matches(n.cycle)'
  <2>1. /\ row' = Begun(c) /\ MayBegin(c) /\ c \in Cycles
        /\ NewClaim \notin ClaimsHeld /\ row'.claim = NewClaim
    BY <1>1, <1>2, ClaimsSuffice DEF Begin, Begun, RecoveryTypes, TypeOK
  <2>2. n.cycle = c
    BY <1>2, <2>1 DEF Begin, ClaimsHeld
  <2>3. CASE c = Unrestricted
    BY <1>1, <2>1, <2>2, <2>3 DEF Begun, Matches
  <2>4. CASE c # Unrestricted
    <3>1. /\ row.marker \in Markers /\ row.marker # None
          /\ row.marker.corpus = c.corpus /\ row.marker.attempt = c.attempt
      BY <1>1, <2>1, <2>4 DEF MayBegin, SameCorpus
    <3>2. row'.marker = [row.marker EXCEPT !.state = "attempted"]
      BY <1>1, <2>1, <2>4 DEF Begun
    <3>3. /\ row'.marker.corpus = c.corpus /\ row'.marker.attempt = c.attempt
          /\ row'.marker.state = "attempted"
      BY <3>1, <3>2 DEF Markers
    <3>4. row'.marker # None
      <4>1. row'.marker \in Markers
        BY <3>1, <3>2 DEF Markers
      <4>2. QED
        BY <4>1, RecoveryAssumption
    <3>5. c = Cycle(row'.marker.corpus, row'.marker.attempt)
      BY <2>1, <3>3 DEF Cycle, Cycles
    <3>6. QED
      BY <2>2, <3>3, <3>4, <3>5 DEF Matches, MarkerIs, MarkedCycle
  <2>5. QED
    BY <2>3, <2>4
\* An old one holds the claim it held, of a row whose marker has not moved.
<1>3. ASSUME NEW r \in runs, r.claim = n.claim, r.cycle = n.cycle,
             \A c \in DOMAIN jobs : ~Begin(c)
      PROVE  Matches(n.cycle)'
  <2>1. row.state = "validating" /\ row.claim = r.claim => Matches(r.cycle)
    BY DEF ClaimsMatch, ClaimHolds
  <2>2. CASE row' = row
    BY <1>3, <2>1, <2>2 DEF Matches, MarkerIs, MarkedCycle
  <2>3. ASSUME NEW s \in Sweeps, Reserve(s) \/ DeclareLost(s) PROVE FALSE
    BY <1>1, <2>3 DEF Reserve, DeclareLost, Recoverable
  <2>4. ASSUME NEW s \in Sweeps, RecordDispatch(s) \/ ReleaseDispatch(s) PROVE row' = row
    <3>1. CASE HoldsReservation(s)
      <4>1. row.state = "validating" /\ row.claim = r.claim
        BY <1>1, <1>3, <2>4 DEF RecordDispatch, ReleaseDispatch
      <4>2. QED
        BY <2>1, <3>1, <4>1 DEF Matches, MarkerIs, HoldsReservation
    <3>2. CASE ~HoldsReservation(s)
      BY <2>4, <3>2 DEF RecordDispatch, ReleaseDispatch
    <3>3. QED
      BY <3>1, <3>2
  <2>5. ASSUME NEW q \in runs, Conclude(q) PROVE row' = row
    BY <1>1, <2>5, Conclusions
  <2>6. CASE Adopt \/ FailOrphan
    BY <1>1, <2>6, <2>2 DEF Adopt, FailOrphan
  <2>7. QED
    BY <1>3, <2>2, <2>3, <2>4, <2>5, <2>6, RowWriters
<1>4. QED
  BY <1>2, <1>3, RunsDescend

\* Every step keeps the reservations with their cycles.
LEMMA ReservationsStep ==
  ASSUME RecoveryTypes, RecoveryTypes', ReservationsMatch, [Next]_vars
  PROVE  ReservationsMatch'
<1> DEFINE Kept == /\ row.marker # None
                   /\ row'.marker.corpus = row.marker.corpus
                   /\ row'.marker.attempt = row.marker.attempt
                   /\ row'.marker.reservation \in {row.marker.reservation, None}
<1>1. row \in Rows /\ row' \in Rows /\ None \notin Sweeps
  BY RecoveryAssumption DEF RecoveryTypes, TypeOK
<1>2. row.marker # None => row.marker \in Markers
  BY <1>1 DEF Rows
\* A sweep that goes on sends the job it sent, of the cycle it was.
<1>3. ASSUME row'.marker # None, Kept, \A s \in Sweeps : ~Reserve(s),
             row'.marker.dispatched = None \/ row'.marker.dispatched = MarkedCycle
      PROVE  ReservationsMatch'
  <2>1. MarkedCycle' = MarkedCycle
    BY <1>3 DEF MarkedCycle
  <2>2. ASSUME NEW s \in Sweeps, sweep'[s].at \in Sending, row'.marker.reservation = s
        PROVE  sweep'[s].cycle = MarkedCycle
    <3>1. sweep[s].at \in Sending /\ sweep'[s].cycle = sweep[s].cycle
      BY <1>3, <2>2, SweepsDescend
    <3>2. row.marker # None /\ row.marker.reservation = s
      BY <1>1, <1>3, <2>2
    <3>3. QED
      BY <3>1, <3>2 DEF ReservationsMatch
  <2>3. QED
    BY <1>3, <2>1, <2>2 DEF ReservationsMatch
<1>4. CASE row'.marker = None
  BY <1>4 DEF ReservationsMatch
<1>5. ASSUME NEW s \in Sweeps, Reserve(s) PROVE ReservationsMatch'
  <2> DEFINE cycle == Cycle(corpus, NextAttempt(corpus))
             marker == [corpus |-> corpus, attempt |-> NextAttempt(corpus),
                        state |-> "pending-dispatch", reservation |-> s, dispatched |-> None]
  <2>1. /\ row' = [row EXCEPT !.marker = marker]
        /\ sweep' = [sweep EXCEPT ![s] = [at |-> "reserved", cycle |-> cycle]]
    BY <1>5 DEF Reserve, Cycle
  <2>2. /\ row'.marker.dispatched = None /\ row'.marker.reservation = s
        /\ row'.marker.corpus = corpus /\ row'.marker.attempt = NextAttempt(corpus)
    BY <1>1, <2>1 DEF Rows
  <2>3. MarkedCycle' = cycle
    BY <2>2 DEF MarkedCycle
  <2>4. sweep'[s].cycle = cycle
    BY <2>1 DEF RecoveryTypes, TypeOK
  <2>5. QED
    BY <2>2, <2>3, <2>4 DEF ReservationsMatch
<1>6. CASE row'.marker # None /\ \A s \in Sweeps : ~Reserve(s)
  <2>1. CASE row'.marker = row.marker
    BY <1>3, <1>6, <2>1 DEF ReservationsMatch
  <2>2. CASE row.marker # None /\ row'.marker = [row.marker EXCEPT !.state = "attempted"]
    BY <1>2, <1>3, <1>6, <2>2 DEF ReservationsMatch, Markers
  <2>3. CASE row.marker # None /\ row'.marker = [row.marker EXCEPT !.reservation = None]
    BY <1>2, <1>3, <1>6, <2>3 DEF ReservationsMatch, Markers
  <2>4. ASSUME NEW s \in Sweeps, sweep[s].at = "sent", HoldsReservation(s),
               row'.marker = [row.marker EXCEPT !.dispatched = sweep[s].cycle]
        PROVE  ReservationsMatch'
    <3>1. sweep[s].cycle = MarkedCycle /\ row.marker # None
      BY <2>4 DEF ReservationsMatch, HoldsReservation, Sending
    <3>2. Kept /\ row'.marker.dispatched = MarkedCycle
      BY <1>2, <2>4, <3>1 DEF Markers
    <3>3. QED
      BY <1>3, <1>6, <3>2
  <2>5. QED
    BY <1>6, <2>1, <2>2, <2>3, <2>4, MarkerWrites
<1>7. QED
  BY <1>4, <1>5, <1>6

-----------------------------------------------------------------------------
(***************************************************************************)
(* The verdicts.                                                           *)
(***************************************************************************)

\* The row is withheld by a verdict on the very cycle its marker names.
VerdictStands ==
    row.state = "withheld" /\ (row.marker = None \/ MarkerIs("attempted"))

\* The verdict on a replay is given on the corpus the replay is pinned to.
VerdictsPinned ==
    \A i \in DOMAIN verdicts :
       verdicts[i].cycle # Unrestricted => verdicts[i].corpus = verdicts[i].cycle.corpus

WithheldForAReason ==
    row.state = "withheld" => verdicts # <<>> /\ row.blocker = LastVerdict.outcome

StandingVerdictMatches == VerdictStands => Matches(LastVerdict.cycle)

\* A profile that is not admitted, and whose last verdict does not stand any more,
\* was withheld for want of data, and is replayed on another corpus.
NewEvidence ==
    verdicts # <<>> /\ row.state # "admitted" /\ ~VerdictStands =>
       /\ LastVerdict.outcome = "coverage" /\ row.marker # None
       /\ LastVerdict.cycle # Unrestricted => LastVerdict.corpus # row.marker.corpus

\* What an earlier release began, and did not end, has no verdict.
NothingLeftOver ==
    row.marker # None /\ row.marker.corpus # "current"
      /\ row.state # "admitted" /\ ~VerdictStands => verdicts = <<>>

VerdictInv ==
    /\ VerdictsPinned /\ WithheldForAReason /\ StandingVerdictMatches
    /\ NewEvidence /\ NothingLeftOver /\ JudgedOnce

RecoveryInv ==
    RecoveryTypes /\ JudgementsPinned /\ ClaimsMatch /\ ReservationsMatch /\ VerdictInv

\* A step that gives no verdict, and leaves the cycle of the marker and how far
\* it got, disturbs no verdict.
LEMMA VerdictsUndisturbed ==
  ASSUME VerdictInv, UNCHANGED verdicts,
         row'.state = row.state, row'.blocker = row.blocker,
         row'.marker = None <=> row.marker = None,
         row.marker # None => /\ row'.marker.corpus = row.marker.corpus
                              /\ row'.marker.attempt = row.marker.attempt
                              /\ row'.marker.state = row.marker.state
  PROVE  VerdictInv'
<1>1. VerdictStands' <=> VerdictStands
  BY DEF VerdictStands, MarkerIs
<1>2. ASSUME NEW cycle PROVE Matches(cycle)' <=> Matches(cycle)
  BY DEF Matches, MarkerIs, MarkedCycle
<1>3. LastVerdict' = LastVerdict
  BY DEF LastVerdict
<1>4. VerdictsPinned' /\ JudgedOnce'
  BY DEF VerdictInv, VerdictsPinned, JudgedOnce
<1>5. WithheldForAReason' /\ StandingVerdictMatches'
  BY <1>1, <1>2, <1>3 DEF VerdictInv, WithheldForAReason, StandingVerdictMatches
<1>6. NewEvidence' /\ NothingLeftOver'
  BY <1>1, <1>3 DEF VerdictInv, NewEvidence, NothingLeftOver
<1>7. QED
  BY <1>4, <1>5, <1>6 DEF VerdictInv

\* Nor does a step that takes up a profile no verdict stands for, on the same corpus.
LEMMA VerdictsPassed ==
  ASSUME VerdictInv, UNCHANGED verdicts, ~VerdictStands, row.state # "admitted",
         row'.state \notin {"withheld", "admitted"},
         verdicts # <<>> => row'.marker # None /\ row'.marker.corpus = row.marker.corpus
  PROVE  VerdictInv'
<1>1. LastVerdict' = LastVerdict
  BY DEF LastVerdict
<1>2. VerdictsPinned' /\ JudgedOnce'
  BY DEF VerdictInv, VerdictsPinned, JudgedOnce
<1>3. WithheldForAReason' /\ StandingVerdictMatches'
  BY DEF WithheldForAReason, StandingVerdictMatches, VerdictStands
<1>4. NewEvidence' /\ NothingLeftOver'
  BY <1>1 DEF VerdictInv, NewEvidence, NothingLeftOver
<1>5. QED
  BY <1>2, <1>3, <1>4 DEF VerdictInv

\* A sweep reserves a replay on evidence the last verdict has not seen.
LEMMA ReservedOnNewEvidence ==
  ASSUME RecoveryTypes, RecoveryTypes', VerdictInv, NEW s \in Sweeps, Reserve(s)
  PROVE  VerdictInv'
<1>1. /\ corpus = "current" /\ Recoverable /\ MayRetry(corpus) /\ UNCHANGED verdicts
  BY DEF Reserve, Due, RecoveryTypes, TypeOK
<1>2. /\ row'.state = row.state /\ row'.blocker = row.blocker
      /\ row'.marker.corpus = corpus /\ row'.marker.state = "pending-dispatch"
  BY DEF Reserve, RecoveryTypes, TypeOK, Rows
<1>3. row'.marker # None
  <2>1. row'.marker = [corpus |-> corpus, attempt |-> NextAttempt(corpus),
                       state |-> "pending-dispatch", reservation |-> s, dispatched |-> None]
    BY DEF Reserve, Cycle, RecoveryTypes, TypeOK, Rows
  <2>2. NextAttempt(corpus) \in Nat \ {0}
    BY DEF NextAttempt, SameCorpus, RecoveryTypes, TypeOK, Rows, Markers
  <2>3. row'.marker \in Markers
    BY <1>1, <2>1, <2>2 DEF Markers, Corpora
  <2>4. QED
    BY <2>3, RecoveryAssumption
<1>4. ~VerdictStands' /\ row.state # "admitted" /\ LastVerdict' = LastVerdict
  BY <1>1, <1>2, <1>3 DEF VerdictStands, MarkerIs, LastVerdict, Recoverable
<1>5. ASSUME verdicts # <<>>
      PROVE  /\ LastVerdict.outcome = "coverage"
             /\ LastVerdict.cycle # Unrestricted => LastVerdict.corpus # corpus
  <2>1. CASE VerdictStands
    <3>1. row.state = "withheld" /\ row.blocker = "coverage"
      BY <1>1, <2>1 DEF VerdictStands, Recoverable
    <3>2. LastVerdict.outcome = "coverage" /\ Matches(LastVerdict.cycle)
      BY <2>1, <3>1 DEF VerdictInv, WithheldForAReason, StandingVerdictMatches
    <3>3. ASSUME LastVerdict.cycle # Unrestricted PROVE LastVerdict.corpus # corpus
      <4>1. LastVerdict.cycle = MarkedCycle /\ MarkerIs("attempted")
        BY <3>2, <3>3 DEF Matches
      <4>2. row.marker.corpus # corpus
        BY <1>1, <3>1, <4>1 DEF MayRetry, Attempted, SameCorpus, MarkerIs
      <4>3. LastVerdict.corpus = LastVerdict.cycle.corpus
        <5>1. Len(verdicts) \in DOMAIN verdicts
          BY <1>5 DEF RecoveryTypes, TypeOK
        <5>2. QED
          BY <3>3, <5>1 DEF VerdictInv, VerdictsPinned, LastVerdict
      <4>4. QED
        BY <4>1, <4>2, <4>3 DEF MarkedCycle, Cycle
    <3>4. QED
      BY <3>2, <3>3
  <2>2. CASE ~VerdictStands
    BY <1>1, <1>4, <1>5, <2>2 DEF VerdictInv, NewEvidence, NothingLeftOver
  <2>3. QED
    BY <2>1, <2>2
<1>6. VerdictsPinned' /\ JudgedOnce'
  BY <1>1 DEF VerdictInv, VerdictsPinned, JudgedOnce
<1>7. WithheldForAReason' /\ StandingVerdictMatches'
  BY <1>1, <1>2, <1>4 DEF VerdictInv, WithheldForAReason, StandingVerdictMatches
<1>8. NewEvidence' /\ NothingLeftOver'
  BY <1>1, <1>2, <1>3, <1>4, <1>5 DEF NewEvidence, NothingLeftOver
<1>9. QED
  BY <1>6, <1>7, <1>8 DEF VerdictInv

\* A verdict that is given is the first on its evidence, and stands for its cycle.
LEMMA VerdictGiven ==
  ASSUME RecoveryTypes, JudgementsPinned, ClaimsMatch, VerdictInv,
         NEW r \in runs, ClaimHolds(r), r.at = "judged", r.outcome \in Verdicts,
         row' = [row EXCEPT !.state = IF r.outcome = "admit" THEN "admitted" ELSE "withheld",
                            !.blocker = IF r.outcome = "admit" THEN "none" ELSE r.outcome],
         verdicts' = Append(verdicts,
           [cycle |-> r.cycle, corpus |-> r.pinned, outcome |-> r.outcome])
  PROVE  VerdictInv'
<1> DEFINE entry == [cycle |-> r.cycle, corpus |-> r.pinned, outcome |-> r.outcome]
           Entries == [cycle : Cycles, corpus : Corpora, outcome : Verdicts]
           n == Len(verdicts)
<1>1. row \in Rows /\ verdicts \in Seq(Entries) /\ n \in Nat
  BY DEF RecoveryTypes, TypeOK
<1>2. /\ row.state = "validating" /\ Matches(r.cycle) /\ ~VerdictStands
      /\ r.cycle = Unrestricted \/ r.cycle.corpus = r.pinned
  BY DEF ClaimsMatch, ClaimHolds, JudgementsPinned, VerdictStands
<1>3. /\ row'.marker = row.marker
      /\ row'.state = IF r.outcome = "admit" THEN "admitted" ELSE "withheld"
      /\ row'.blocker = IF r.outcome = "admit" THEN "none" ELSE r.outcome
  BY <1>1 DEF Rows
<1>4. /\ verdicts' \in Seq(Entries) /\ Len(verdicts') = n + 1 /\ verdicts'[n + 1] = entry
      /\ \A i \in 1 .. n : verdicts'[i] = verdicts[i]
      /\ DOMAIN verdicts' = 1 .. n + 1 /\ DOMAIN verdicts = 1 .. n
  <2>1. entry \in Entries /\ verdicts' = Append(verdicts, entry)
    BY DEF JudgementsPinned, RecoveryTypes, RunsOK, RunKinds, Corpora
  <2> HIDE DEF entry, Entries
  <2>2. QED
    BY <1>1, <2>1, AppendProperties
<1>5. LastVerdict' = entry /\ verdicts' # <<>>
  BY <1>1, <1>4 DEF LastVerdict
<1>6. Matches(r.cycle)'
  BY <1>2, <1>3 DEF Matches, MarkerIs, MarkedCycle
<1>7. VerdictsPinned'
  BY <1>1, <1>2, <1>4 DEF VerdictInv, VerdictsPinned
<1>8. JudgedOnce'
  <2>1. ASSUME n # 0
        PROVE  /\ verdicts[n].outcome = "coverage"
               /\ verdicts[n].cycle # Unrestricted => r.pinned # verdicts[n].corpus
    <3>1. /\ verdicts[n].outcome = "coverage" /\ row.marker # None
          /\ verdicts[n].cycle # Unrestricted => verdicts[n].corpus # row.marker.corpus
      BY <1>1, <1>2, <2>1 DEF VerdictInv, NewEvidence, LastVerdict
    <3>2. r.cycle = MarkedCycle /\ row.marker \in Markers
      BY <1>1, <1>2, <3>1 DEF Matches, Rows
    <3>3. r.cycle # Unrestricted /\ r.cycle.corpus = row.marker.corpus
      BY <3>2 DEF MarkedCycle, Cycle, Unrestricted, Markers
    <3>4. QED
      BY <1>2, <3>1, <3>3
  <2>2. \A i \in 1 .. n - 1 :
          /\ verdicts[i].outcome = "coverage"
          /\ verdicts[i].cycle # Unrestricted => verdicts[i + 1].corpus # verdicts[i].corpus
    BY DEF VerdictInv, JudgedOnce
  <2> HIDE DEF n
  <2>3. ASSUME NEW i \in 1 .. n
        PROVE  /\ verdicts'[i].outcome = "coverage"
               /\ verdicts'[i].cycle # Unrestricted => verdicts'[i + 1].corpus # verdicts'[i].corpus
    <3>1. CASE i = n
      BY <1>1, <1>4, <2>1, <3>1
    <3>2. CASE i # n
      <4>1. i \in 1 .. n - 1 /\ i + 1 \in 1 .. n
        BY <1>1, <3>2
      <4>2. verdicts'[i] = verdicts[i] /\ verdicts'[i + 1] = verdicts[i + 1]
        BY <1>4, <4>1
      <4>3. QED
        BY <2>2, <4>1, <4>2
    <3>3. QED
      BY <3>1, <3>2
  <2>4. Len(verdicts') - 1 = n
    BY <1>1, <1>4
  <2>5. QED
    BY <2>3, <2>4 DEF JudgedOnce
<1>9. WithheldForAReason' /\ StandingVerdictMatches'
  BY <1>3, <1>5, <1>6 DEF WithheldForAReason, StandingVerdictMatches
<1>10. row'.state = "admitted" \/ VerdictStands'
  BY <1>3, <1>6 DEF VerdictStands, Matches
<1>11. QED
  BY <1>7, <1>8, <1>9, <1>10 DEF VerdictInv, NewEvidence, NothingLeftOver

\* Every step keeps the verdicts sound, however sweeps, retries and duplicated jobs meet.
LEMMA VerdictsStep ==
  ASSUME RecoveryTypes, RecoveryTypes', JudgementsPinned, ClaimsMatch, VerdictInv, [Next]_vars
  PROVE  VerdictInv'
<1>1. row \in Rows
  BY DEF RecoveryTypes, TypeOK
<1> USE DEF Rows
<1>2. ASSUME NEW r \in runs, Conclude(r) PROVE VerdictInv'
  <2>1. CASE UNCHANGED <<row, verdicts>>
    BY <2>1, VerdictsUndisturbed
  <2>2. CASE /\ ClaimHolds(r) /\ r.at = "judged" /\ r.outcome \in Verdicts
             /\ row' = [row EXCEPT !.state = IF r.outcome = "admit" THEN "admitted" ELSE "withheld",
                                   !.blocker = IF r.outcome = "admit" THEN "none" ELSE r.outcome]
             /\ verdicts' = Append(verdicts,
                  [cycle |-> r.cycle, corpus |-> r.pinned, outcome |-> r.outcome])
    BY <2>2, VerdictGiven
  <2>3. CASE /\ row.state = "validating" /\ UNCHANGED verdicts
             /\ \/ row' = [row EXCEPT !.state = "pending", !.blocker = "preparing"]
                \/ row' = [row EXCEPT !.state = "failed", !.blocker = "none"]
    <3>1. row'.marker = row.marker /\ row'.state \in {"pending", "failed"}
      BY <1>1, <2>3
    <3>2. ~VerdictStands /\ (verdicts # <<>> => row.marker # None)
      BY <2>3 DEF VerdictStands, VerdictInv, NewEvidence
    <3>3. QED
      BY <2>3, <3>1, <3>2, VerdictsPassed
  <2>4. QED
    BY <1>2, <2>1, <2>2, <2>3, Conclusions
<1>3. CASE UNCHANGED row /\ \A r \in runs : ~Conclude(r)
  BY <1>3, VerdictWriters, VerdictsUndisturbed
<1>4. ASSUME NEW s \in Sweeps, DeclareLost(s) PROVE VerdictInv'
  <2>1. /\ row.marker # None /\ row.marker.state = "pending-dispatch" /\ row.state # "admitted"
        /\ UNCHANGED verdicts /\ row'.state = "failed"
        /\ row'.marker = [row.marker EXCEPT !.state = "attempted"]
    BY <1>1, <1>4 DEF DeclareLost, Dispatching, SameCorpus, Recoverable
  <2>2. row.marker \in Markers /\ row'.marker # None
    <3>1. row.marker \in Markers
      BY <1>1, <2>1
    <3>2. row'.marker \in Markers
      BY <2>1, <3>1 DEF Markers
    <3>3. QED
      BY <3>1, <3>2, RecoveryAssumption
  <2>3. ~VerdictStands
    BY <2>1 DEF VerdictStands, MarkerIs
  <2>4. row'.marker.corpus = row.marker.corpus
    BY <2>1, <2>2 DEF Markers
  <2>5. QED
    BY <2>1, <2>2, <2>3, <2>4, VerdictsPassed
<1>5. ASSUME NEW s \in Sweeps, RecordDispatch(s) \/ ReleaseDispatch(s) PROVE VerdictInv'
  <2>1. UNCHANGED verdicts /\ row'.state = row.state /\ row'.blocker = row.blocker
    BY <1>1, <1>5 DEF RecordDispatch, ReleaseDispatch
  <2>2. CASE ~HoldsReservation(s)
    BY <1>5, <2>1, <2>2, VerdictsUndisturbed DEF RecordDispatch, ReleaseDispatch
  <2>3. CASE HoldsReservation(s)
    <3>1. row.marker # None /\ row.marker \in Markers
      BY <1>1, <2>3 DEF HoldsReservation
    <3>2. \/ row'.marker = row.marker
          \/ row'.marker = [row.marker EXCEPT !.dispatched = sweep[s].cycle]
          \/ row'.marker = [row.marker EXCEPT !.reservation = None]
      BY <1>1, <1>5 DEF RecordDispatch, ReleaseDispatch
    <3>3. /\ row'.marker.corpus = row.marker.corpus
          /\ row'.marker.attempt = row.marker.attempt
          /\ row'.marker.state = row.marker.state
      BY <3>1, <3>2 DEF Markers
    <3>4. row'.marker # None
      <4>1. sweep[s].cycle \in Cycles
        BY DEF RecoveryTypes, TypeOK
      <4>2. row'.marker \in Markers
        BY <3>1, <3>2, <4>1 DEF Markers
      <4>3. QED
        BY <4>2, RecoveryAssumption
    <3>5. QED
      BY <2>1, <3>1, <3>3, <3>4, VerdictsUndisturbed
  <2>4. QED
    BY <2>2, <2>3
<1>6. ASSUME NEW c \in DOMAIN jobs, Begin(c) PROVE VerdictInv'
  <2>1. /\ UNCHANGED verdicts /\ row' = Begun(c) /\ MayBegin(c)
        /\ row'.state = "validating"
    BY <1>1, <1>6 DEF Begin, Begun
  <2>2. CASE c = Unrestricted
    <3>1. row.marker = None /\ row.state \in {"pending", "failed", "validating"}
      BY <2>1, <2>2 DEF MayBegin
    <3>2. ~VerdictStands /\ verdicts = <<>>
      BY <3>1 DEF VerdictStands, VerdictInv, NewEvidence
    <3>3. QED
      BY <2>1, <3>1, <3>2, VerdictsPassed
  <2>3. CASE c # Unrestricted
    <3>1. /\ row.marker # None /\ row.marker \in Markers /\ row.state # "admitted"
          /\ row.state = "withheld" => row.marker.state = "pending-dispatch"
      BY <1>1, <2>1, <2>3 DEF MayBegin, SameCorpus
    <3>2. row'.marker = [row.marker EXCEPT !.state = "attempted"]
      BY <1>1, <2>1, <2>3 DEF Begun
    <3>3. row'.marker \in Markers /\ row'.marker.corpus = row.marker.corpus
      BY <3>1, <3>2 DEF Markers
    <3>4. ~VerdictStands
      BY <3>1 DEF VerdictStands, MarkerIs
    <3>5. QED
      BY <2>1, <3>1, <3>3, <3>4, VerdictsPassed, RecoveryAssumption
  <2>4. QED
    BY <2>2, <2>3
<1>7. CASE Adopt
  <2>1. row'.state = "admitted" /\ UNCHANGED verdicts
    BY <1>1, <1>7 DEF Adopt
  <2>2. VerdictsPinned' /\ JudgedOnce'
    BY <2>1 DEF VerdictInv, VerdictsPinned, JudgedOnce
  <2>3. QED
    BY <2>1, <2>2 DEF VerdictInv, WithheldForAReason, StandingVerdictMatches, VerdictStands,
       NewEvidence, NothingLeftOver
<1>8. CASE FailOrphan
  <2>1. UNCHANGED verdicts
    BY <1>8 DEF FailOrphan
  <2>2. CASE row' = row
    BY <2>1, <2>2, VerdictsUndisturbed
  <2>3. CASE row.state = "validating" /\ row' = [row EXCEPT !.state = "failed"]
    <3>1. row'.marker = row.marker /\ row'.state = "failed"
      BY <1>1, <2>3
    <3>2. ~VerdictStands /\ (verdicts # <<>> => row.marker # None)
      BY <2>3 DEF VerdictStands, VerdictInv, NewEvidence
    <3>3. QED
      BY <2>1, <2>3, <3>1, <3>2, VerdictsPassed
  <2>4. QED
    BY <1>8, <2>2, <2>3 DEF FailOrphan
<1>9. QED
  BY <1>2, <1>3, <1>4, <1>5, <1>6, <1>7, <1>8, ReservedOnNewEvidence, RowWriters

-----------------------------------------------------------------------------
\* A profile that is new, or that an earlier release left behind, satisfies the invariant.
LEMMA RecoveryInvInit == Init => RecoveryInv
<1> SUFFICES ASSUME Init PROVE RecoveryInv
  OBVIOUS
<1> USE RecoveryAssumption
<1>1. /\ Unrestricted \in Cycles /\ EarlierCycle \in Cycles /\ EarlierCycle # Unrestricted
      /\ \A state \in {"pending-dispatch", "attempted"} : EarlierMarker(state) \in Markers
      /\ 0 \in Claims /\ Quiet.at = "idle" /\ Quiet.cycle = Unrestricted
  BY DEF Unrestricted, EarlierCycle, Cycle, Cycles, EarlierMarker, Markers, Corpora, Claims, Quiet
<1>2. /\ row \in Rows /\ row.state # "admitted" /\ QueueOK(jobs)
      /\ verdicts \in Seq([cycle : Cycles, corpus : Corpora, outcome : Verdicts])
  <2>1. CASE NewProfile
    BY <1>1, <2>1 DEF NewProfile, Rows, States, QueueOK
  <2>2. CASE WithheldBefore
    BY <1>1, <2>2 DEF WithheldBefore, Rows, States, QueueOK, JobKinds, Corpora, Verdicts
  <2>3. CASE QueuedBefore
    BY <1>1, <2>3 DEF QueuedBefore, Rows, States, QueueOK, JobKinds
  <2>4. QED
    BY <2>1, <2>2, <2>3 DEF Init
<1>3. RunsOK
  BY FS_EmptySet DEF Init, RunsOK, ClaimsDiffer
<1>4. sweep \in [Sweeps -> [at : {"idle", "due", "reserved", "looked", "sent", "refused"},
                            cycle : Cycles]]
  BY <1>1 DEF Init, Quiet
<1>5. TypeOK
  <2>1. /\ artifact = FALSE /\ discovery = None /\ corpus = None /\ faults \in 0 .. MaxFaults
    BY DEF Init
  <2>2. QED
    BY <1>2, <1>3, <1>4, <2>1 DEF TypeOK, QueueOK, JobKinds, RunsOK, RunKinds, ClaimsDiffer
<1>6. JudgementsPinned /\ ClaimsMatch
  BY DEF Init, JudgementsPinned, ClaimsMatch
<1>7. ReservationsMatch
  <2>1. \A s \in Sweeps : sweep[s].at \notin Sending
    BY <1>1 DEF Init, Sending
  <2>2. row.marker # None => row.marker.dispatched = MarkedCycle
    BY DEF Init, NewProfile, WithheldBefore, QueuedBefore, EarlierMarker, EarlierCycle,
       MarkedCycle
  <2>3. QED
    BY <2>1, <2>2 DEF ReservationsMatch
<1>8. VerdictInv
  <2>1. CASE NewProfile \/ QueuedBefore
    <3>1. verdicts = <<>> /\ row.state # "withheld"
      BY <2>1 DEF NewProfile, QueuedBefore
    <3>2. QED
      BY <3>1 DEF VerdictInv, VerdictsPinned, WithheldForAReason, StandingVerdictMatches,
         VerdictStands, NewEvidence, NothingLeftOver, JudgedOnce
  <2>2. CASE WithheldBefore
    <3>1. /\ verdicts = <<[cycle |-> EarlierCycle, corpus |-> "earlier", outcome |-> "coverage"]>>
          /\ row.state = "withheld" /\ row.blocker = "coverage"
          /\ row.marker = EarlierMarker("attempted")
      BY <2>2 DEF WithheldBefore
    <3>2. /\ LastVerdict.cycle = EarlierCycle /\ LastVerdict.outcome = "coverage"
          /\ verdicts # <<>> /\ Len(verdicts) = 1
          /\ \A i \in DOMAIN verdicts : verdicts[i].cycle = EarlierCycle /\ verdicts[i].corpus = "earlier"
      BY <3>1 DEF LastVerdict
    <3>3. /\ row.marker # None /\ row.marker.state = "attempted"
          /\ MarkedCycle = EarlierCycle /\ EarlierCycle.corpus = "earlier"
      BY <1>1, <3>1 DEF EarlierMarker, MarkedCycle, EarlierCycle, Cycle
    <3>4. VerdictStands /\ Matches(EarlierCycle)
      BY <3>1, <3>3 DEF VerdictStands, MarkerIs, Matches
    <3>5. QED
      BY <3>1, <3>2, <3>3, <3>4 DEF VerdictInv, VerdictsPinned, WithheldForAReason,
         StandingVerdictMatches, NewEvidence, NothingLeftOver, JudgedOnce
  <2>3. QED
    BY <2>1, <2>2 DEF Init
<1>9. QED
  BY <1>3, <1>5, <1>6, <1>7, <1>8 DEF RecoveryInv, RecoveryTypes

\* The invariant holds in every state of a recovery.
THEOREM RecoveryInvariant == Spec => []RecoveryInv
<1>1. RecoveryInv /\ [Next]_vars => RecoveryInv'
  <2> SUFFICES ASSUME RecoveryInv, [Next]_vars PROVE RecoveryInv'
    OBVIOUS
  <2>1. RecoveryTypes'
    BY TypeStep DEF RecoveryInv
  <2>2. JudgementsPinned' /\ ClaimsMatch'
    BY JudgementStep, ClaimsStep DEF RecoveryInv
  <2>3. ReservationsMatch' /\ VerdictInv'
    BY <2>1, ReservationsStep, VerdictsStep DEF RecoveryInv
  <2>4. QED
    BY <2>1, <2>2, <2>3 DEF RecoveryInv
<1>2. QED
  BY <1>1, RecoveryInvInit, PTL DEF Spec

\* Every variable keeps its type; no two proofs hold the same claim, there are
\* never more of them than the queue allows, and an admitted profile has its artifact.
THEOREM RecoveryTypeCorrect == Spec => []TypeOK
<1>1. RecoveryInv => TypeOK
  BY DEF RecoveryInv, RecoveryTypes
<1>2. QED
  BY <1>1, RecoveryInvariant, PTL

\* A job of an older cycle neither claims nor completes a newer one, for any number
\* of workers, retries, expired jobs and overlapping sweeps.
THEOREM CyclesAlwaysApart == Spec => []CyclesKeptApart
<1>1. RecoveryInv => CyclesKeptApart
  BY DEF RecoveryInv, ReservationsMatch, VerdictInv, StandingVerdictMatches, VerdictStands,
     Matches, MarkerIs, MarkedCycle, CyclesKeptApart
<1>2. QED
  BY <1>1, RecoveryInvariant, PTL

\* An admission or a rejection by the statistics is the last verdict, and no replay
\* is judged twice running on the same corpus.
THEOREM AlwaysJudgedOnce == Spec => []JudgedOnce
<1>1. RecoveryInv => JudgedOnce
  BY DEF RecoveryInv, VerdictInv
<1>2. QED
  BY <1>1, RecoveryInvariant, PTL

-----------------------------------------------------------------------------
(* The live cache.                                                          *)

(***************************************************************************)
(* The lock.  Who is in the cache holds the kernel lock, and no child of   *)
(* its own is about to give it back: a child that took the lock is still   *)
(* there only while nobody relies on it.                                   *)
(***************************************************************************)
ChildHoldsWhatItTook == \A b \in Builders : helper[b] = "took" => holder = b

NoChildInTheCache ==
    \A b \in Builders : At(b, "waiting") \/ InCache(b) => helper[b] = "none"

CacheIsLocked == \A b \in Builders : InCache(b) => holder = b

LockInv == ChildHoldsWhatItTook /\ NoChildInTheCache /\ CacheIsLocked

(***************************************************************************)
(* The store.  Every record was synchronized before it had a name, in      *)
(* memory and on the disk; what a builder was told of, or is about to be   *)
(* told of, is on the disk as it is in memory.                             *)
(***************************************************************************)
Whole(file) == file = Absent \/ (file.synced /\ ~file.torn)

RecordsWhole == \A g \in Generations : Whole(disk[g]) /\ Whole(durable[g])

PromisesDurable ==
    \A g \in promised : disk[g] # Absent /\ durable[g] = disk[g]

LookedUpDurable ==
    \A b \in Builders : At(b, "back") => durable[Mine(b)] = disk[Mine(b)]

StoreInv == RecordsWhole /\ PromisesDurable /\ LookedUpDurable

CacheInv == CacheTypeOK /\ LockInv /\ StoreInv

\* In the cache a builder has a refresh, and with it a generation and an instant.
LEMMA BuildersHaveARefresh ==
  ASSUME CacheTypeOK, NEW b \in Builders, ~At(b, "off")
  PROVE  /\ refresh[b] \in [generation : Generations, asOf : Instants]
         /\ Mine(b) \in Generations /\ refresh[b].asOf \in Instants
BY CacheAssumption DEF CacheTypeOK, Mine

\* The lock has one holder.
LEMMA LockedCacheHasOneBuilder == LockInv => OneBuilderInTheCache
BY DEF LockInv, CacheIsLocked, OneBuilderInTheCache

\* An empty cache satisfies the invariant.
LEMMA CacheInvInit == CacheInit => CacheInv
<1> SUFFICES ASSUME CacheInit PROVE CacheInv
  OBVIOUS
<1>1. CacheTypeOK
  BY CacheAssumption DEF CacheInit, CacheTypeOK, Places, Files, At
<1>2. LockInv
  BY DEF CacheInit, LockInv, ChildHoldsWhatItTook, NoChildInTheCache, CacheIsLocked, At, InCache
<1>3. StoreInv
  BY DEF CacheInit, StoreInv, RecordsWhole, Whole, PromisesDurable, LookedUpDurable, At
<1>4. QED
  BY <1>1, <1>2, <1>3 DEF CacheInv

-----------------------------------------------------------------------------
\* What the steps of one builder are.
LEMMA StepsOfABuilder ==
  ASSUME CacheNext
  PROVE  \/ \E b \in Builders :
              \/ StartWorker(b) \/ LoseSession(b) \/ DeadlinePasses(b)
              \/ Terminate(b) \/ End(b) \/ Ask(b) \/ GiveUp(b)
              \/ PruneOthers(b) \/ Look(b) \/ Link(b)
              \/ SyncDirectory(b) \/ ReadBack(b) \/ Leave(b)
              \/ Flock(b) \/ HelperExits(b) \/ HelperKilled(b)
         \/ Writeback \/ MachineCrash
BY DEF CacheNext, Step, Child

\* Every step of a builder, a pruning or a crash keeps the types.
LEMMA CacheTypeStep == CacheTypeOK /\ [CacheNext]_cacheVars => CacheTypeOK'
<1> SUFFICES ASSUME CacheTypeOK, [CacheNext]_cacheVars PROVE CacheTypeOK'
  OBVIOUS
<1> USE CacheAssumption DEF CacheTypeOK, At, Go, Places, owner, lock, store
<1>1. ASSUME NEW b \in Builders, StartWorker(b) PROVE CacheTypeOK'
  BY <1>1 DEF StartWorker
<1>2. ASSUME NEW b \in Builders, LoseSession(b) PROVE CacheTypeOK'
  BY <1>2 DEF LoseSession, CacheFault
<1>3. ASSUME NEW b \in Builders, DeadlinePasses(b) PROVE CacheTypeOK'
  BY <1>3 DEF DeadlinePasses
<1>4. ASSUME NEW b \in Builders, Terminate(b) \/ GiveUp(b) \/ Leave(b) PROVE CacheTypeOK'
  BY <1>4 DEF Terminate, GiveUp, Leave, InCache, Close, Closed
<1>5. ASSUME NEW b \in Builders, End(b) PROVE CacheTypeOK'
  BY <1>5 DEF End
<1>6. ASSUME NEW b \in Builders, Ask(b) PROVE CacheTypeOK'
  BY <1>6 DEF Ask
<1>7. ASSUME NEW b \in Builders, Flock(b) PROVE CacheTypeOK'
  BY <1>7 DEF Flock
<1>8. ASSUME NEW b \in Builders, HelperExits(b) \/ HelperKilled(b) PROVE CacheTypeOK'
  BY <1>8 DEF HelperExits, HelperKilled, Close, Closed
<1>9. ASSUME NEW b \in Builders, PruneOthers(b) PROVE CacheTypeOK'
  BY <1>9 DEF PruneOthers, Files
<1>10. ASSUME NEW b \in Builders, Look(b) PROVE CacheTypeOK'
  BY <1>10 DEF Look
<1>11. ASSUME NEW b \in Builders, Link(b) PROVE CacheTypeOK'
  <2>1. Record(b) \in Files
    BY <1>11, BuildersHaveARefresh DEF Link, Record, Files
  <2>2. QED
    BY <1>11, <2>1 DEF Link
<1>12. ASSUME NEW b \in Builders, SyncDirectory(b) PROVE CacheTypeOK'
  <2>1. disk[Mine(b)] \in Files
    BY <1>12, BuildersHaveARefresh DEF SyncDirectory
  <2>2. QED
    BY <1>12, <2>1 DEF SyncDirectory
<1>13. ASSUME NEW b \in Builders, ReadBack(b) PROVE CacheTypeOK'
  <2>1. Mine(b) \in Generations
    BY <1>13, BuildersHaveARefresh DEF ReadBack
  <2>2. QED
    BY <1>13, <2>1 DEF ReadBack
<1>14. CASE Writeback
  BY <1>14 DEF Writeback
<1>15. CASE MachineCrash
  <2>1. durable' \in [Generations -> Files]
    BY <1>15, ZenonT(40) DEF MachineCrash, Files
  <2>2. QED
    BY <1>15, <2>1 DEF MachineCrash, CacheFault
<1>16. CASE UNCHANGED cacheVars
  BY <1>16 DEF cacheVars
<1>17. QED
  BY <1>1, <1>2, <1>3, <1>4, <1>5, <1>6, <1>7, <1>8, <1>9, <1>10, <1>11, <1>12, <1>13,
     <1>14, <1>15, <1>16, StepsOfABuilder

\* A step of the lock keeps it with whoever relies on it.
LEMMA LockStep == CacheTypeOK /\ LockInv /\ [CacheNext]_cacheVars => LockInv'
<1> SUFFICES ASSUME CacheTypeOK, LockInv, [CacheNext]_cacheVars PROVE LockInv'
  OBVIOUS
<1> USE CacheAssumption DEF CacheTypeOK, LockInv, ChildHoldsWhatItTook, NoChildInTheCache,
        CacheIsLocked, InCache, At, Go, owner, lock, store
<1>1. ASSUME NEW b \in Builders, StartWorker(b) PROVE LockInv'
  BY <1>1 DEF StartWorker
<1>2. ASSUME NEW b \in Builders,
             LoseSession(b) \/ DeadlinePasses(b) \/ End(b)
      PROVE  LockInv'
  BY <1>2 DEF LoseSession, DeadlinePasses, End
<1>3. ASSUME NEW b \in Builders, Terminate(b) \/ GiveUp(b) \/ Leave(b) PROVE LockInv'
  \* b is out of the cache; the lock is freed only when no child of b has it.
  BY <1>3 DEF Terminate, GiveUp, Leave, Close, Closed
<1>4. ASSUME NEW b \in Builders, Ask(b) PROVE LockInv'
  BY <1>4 DEF Ask
<1>5. ASSUME NEW b \in Builders, Flock(b) PROVE LockInv'
  \* The lock is taken only when nobody has it.
  BY <1>5 DEF Flock
<1>6. ASSUME NEW b \in Builders, HelperExits(b) \/ HelperKilled(b) PROVE LockInv'
  BY <1>6 DEF HelperExits, HelperKilled, Close, Closed
<1>7. ASSUME NEW b \in Builders,
             \/ PruneOthers(b) \/ Look(b) \/ Link(b)
             \/ SyncDirectory(b) \/ ReadBack(b)
      PROVE  LockInv'
  <2>1. InCache(b) /\ UNCHANGED lock
    BY <1>7 DEF PruneOthers, Look, Link, SyncDirectory, ReadBack
  <2>2. \A c \in Builders : c # b => at'[c] = at[c]
    BY <1>7 DEF PruneOthers, Look, Link, SyncDirectory, ReadBack
  <2>3. QED
    BY <2>1, <2>2
<1>8. CASE Writeback
  BY <1>8 DEF Writeback
<1>9. CASE MachineCrash
  BY <1>9 DEF MachineCrash
<1>10. CASE UNCHANGED cacheVars
  BY <1>10 DEF cacheVars
<1>11. QED
  BY <1>1, <1>2, <1>3, <1>4, <1>5, <1>6, <1>7, <1>8, <1>9, <1>10, StepsOfABuilder

\* A step that is not at the files leaves the store as it is, and brings nobody
\* to where a record is read back.
LEMMA StoreUntouched ==
  ASSUME CacheTypeOK, StoreInv, UNCHANGED store,
         \A b \in Builders : At(b, "back")' => At(b, "back") /\ refresh'[b] = refresh[b]
  PROVE  StoreInv'
BY DEF StoreInv, RecordsWhole, Whole, PromisesDurable, LookedUpDurable, Mine, store

\* Whoever works at the files is the only one, so what it looked up stays so.
LEMMA StoreStep == CacheInv /\ [CacheNext]_cacheVars => StoreInv'
<1> SUFFICES ASSUME CacheTypeOK, LockInv, StoreInv, [CacheNext]_cacheVars PROVE StoreInv'
  BY DEF CacheInv
<1>1. OneBuilderInTheCache
  BY LockedCacheHasOneBuilder
<1> DEFINE OnlyAt(b) == \A c \in Builders : At(c, "back") => c = b
<1>2. ASSUME NEW b \in Builders, InCache(b) PROVE OnlyAt(b)
  BY <1>1, <1>2 DEF OneBuilderInTheCache, InCache, At
<1>3. ASSUME NEW b \in Builders,
             \/ StartWorker(b) \/ LoseSession(b) \/ DeadlinePasses(b)
             \/ Terminate(b) \/ End(b) \/ Ask(b) \/ GiveUp(b) \/ Leave(b)
             \/ Flock(b) \/ HelperExits(b) \/ HelperKilled(b) \/ Look(b)
      PROVE  StoreInv'
  <2>1. UNCHANGED store
    BY <1>3 DEF StartWorker, LoseSession, DeadlinePasses, Terminate, End, Ask, GiveUp, Leave,
                Flock, HelperExits, HelperKilled, Look, lock, store
  <2>2. ASSUME NEW c \in Builders, At(c, "back")'
        PROVE  At(c, "back") /\ refresh'[c] = refresh[c]
    BY <1>3, <2>2 DEF StartWorker, LoseSession, DeadlinePasses, Terminate, End, Ask, GiveUp,
                Leave, Flock, HelperExits, HelperKilled, Look, Close, At, Go, owner, CacheTypeOK
  <2>3. QED
    BY <2>1, <2>2, StoreUntouched
<1> USE DEF StoreInv, RecordsWhole, PromisesDurable, LookedUpDurable
<1>4. ASSUME NEW b \in Builders, PruneOthers(b) PROVE StoreInv'
  <2>1. OnlyAt(b) /\ ~At(b, "back") /\ UNCHANGED <<durable, refresh>>
    BY <1>2, <1>4 DEF PruneOthers, InCache, At, owner
  <2>2. \A c \in Builders : ~At(c, "back")'
    BY <1>4, <2>1 DEF PruneOthers, Go, At, CacheTypeOK
  <2>3. \A g \in Generations : disk'[g] = IF g = Mine(b) THEN disk[g] ELSE Absent
    BY <1>4 DEF PruneOthers
  <2>4. promised' = promised \cap {Mine(b)} /\ promised \subseteq Generations
    BY <1>4 DEF PruneOthers, CacheTypeOK
  <2>5. QED
    BY <2>1, <2>2, <2>3, <2>4 DEF Whole
<1>5. ASSUME NEW b \in Builders, Link(b) PROVE StoreInv'
  <2>1. OnlyAt(b) /\ ~At(b, "back") /\ UNCHANGED <<durable, refresh, promised>>
    BY <1>2, <1>5 DEF Link, InCache, At, owner
  <2>2. \A c \in Builders : ~At(c, "back")'
    BY <1>5, <2>1 DEF Link, Go, At, CacheTypeOK
  <2>3. Whole(Record(b))
    BY DEF Whole, Record
  <2>4. \A g \in Generations :
          disk'[g] = IF g = Mine(b) /\ disk[g] = Absent THEN Record(b) ELSE disk[g]
    BY <1>5 DEF Link, CacheTypeOK
  <2>5. promised \subseteq Generations
    BY DEF CacheTypeOK
  <2>6. QED
    BY <2>1, <2>2, <2>3, <2>4, <2>5 DEF Whole
<1>6. ASSUME NEW b \in Builders, SyncDirectory(b) PROVE StoreInv'
  <2>1. OnlyAt(b) /\ UNCHANGED <<disk, refresh, promised>>
    BY <1>2, <1>6 DEF SyncDirectory, InCache, At, owner
  <2>2. \A c \in Builders : At(c, "back")' => c = b
    BY <1>6, <2>1 DEF SyncDirectory, Go, At, CacheTypeOK
  <2>3. Mine(b) \in Generations /\ Mine(b)' = Mine(b)
    BY <1>6, <2>1, BuildersHaveARefresh DEF SyncDirectory, At, Mine
  <2>4. \A g \in Generations : durable'[g] = IF g = Mine(b) THEN disk[g] ELSE durable[g]
    BY <1>6 DEF SyncDirectory, CacheTypeOK
  <2>5. promised \subseteq Generations
    BY DEF CacheTypeOK
  <2>6. QED
    BY <2>1, <2>2, <2>3, <2>4, <2>5 DEF Whole
<1>7. ASSUME NEW b \in Builders, ReadBack(b) PROVE StoreInv'
  <2>1. /\ At(b, "back") /\ Readable(Mine(b))
        /\ promised' = promised \cup {Mine(b)}
        /\ UNCHANGED <<disk, durable, refresh>>
    BY <1>7 DEF ReadBack, owner
  <2>2. \A c \in Builders : At(c, "back")' => At(c, "back") /\ Mine(c)' = Mine(c)
    BY <1>7, <2>1 DEF ReadBack, Go, At, Mine, CacheTypeOK
  <2>3. QED
    BY <2>1, <2>2 DEF Readable, Whole
<1>8. CASE Writeback
  <2>1. durable' = disk /\ UNCHANGED <<disk, promised, at, refresh>>
    BY <1>8 DEF Writeback, owner
  <2>2. QED
    BY <2>1 DEF Whole, At, Mine, CacheTypeOK
<1>9. CASE MachineCrash
  \* What is on the disk is whole, so the crash tears nothing.
  <2>1. \A c \in Builders : ~At(c, "back")'
    BY <1>9 DEF MachineCrash, At
  <2>2. ASSUME NEW g \in Generations PROVE durable'[g] = durable[g]
    <3>1. durable[g] = Absent \/ durable[g] \in [asOf : Instants, synced : BOOLEAN, torn : BOOLEAN]
      BY DEF CacheTypeOK, Files
    <3>2. CASE durable[g] = Absent
      BY <1>9, <3>2 DEF MachineCrash
    <3>3. CASE durable[g] # Absent
      <4>1. durable[g].synced = TRUE /\ durable[g].torn = FALSE
        BY <3>1, <3>3 DEF Whole
      <4>2. durable'[g] = [durable[g] EXCEPT !.torn = @ \/ ~durable[g].synced]
        BY <1>9, <3>3 DEF MachineCrash
      <4>3. (durable[g].torn \/ ~durable[g].synced) = FALSE
        BY <4>1
      <4>4. QED
        BY <3>1, <3>3, <4>1, <4>2, <4>3
    <3>4. QED
      BY <3>2, <3>3
  <2>3. disk' = durable' /\ promised' = promised /\ promised \subseteq Generations
    BY <1>9 DEF MachineCrash, CacheTypeOK
  <2>4. QED
    BY <2>1, <2>2, <2>3
<1>10. CASE UNCHANGED cacheVars
  BY <1>10 DEF cacheVars, At, Mine
<1>11. QED
  BY <1>3, <1>4, <1>5, <1>6, <1>7, <1>8, <1>9, <1>10, StepsOfABuilder

\* The invariant holds in every state of the cache.
THEOREM CacheInvariant == CacheSpec => []CacheInv
<1>1. CacheInv /\ [CacheNext]_cacheVars => CacheInv'
  BY CacheTypeStep, LockStep, StoreStep DEF CacheInv
<1>2. QED
  BY CacheInvInit, <1>1, PTL DEF CacheSpec

\* The variables of builders, children and files keep their types.
THEOREM CacheTypeCorrect == CacheSpec => []CacheTypeOK
<1>1. CacheInv => CacheTypeOK
  BY DEF CacheInv
<1>2. QED
  BY <1>1, CacheInvariant, PTL

\* Through lost sessions, killed workers and crashes of the machine: one builder is
\* in the cache, and it never finds a record that cannot be read.
THEOREM CacheAlwaysSound == CacheSpec => []CacheIsSound
<1>1. CacheInv => CacheIsSound
  <2>1. CacheInv => NoTornRecord
    BY DEF CacheInv, StoreInv, RecordsWhole, Whole, NoTornRecord, Readable
  <2>2. QED
    BY <2>1, LockedCacheHasOneBuilder DEF CacheInv, CacheIsSound
<1>2. QED
  BY <1>1, CacheInvariant, PTL
-----------------------------------------------------------------------------
(***************************************************************************)
(* The promise.  A link is Pin, an answer Tell, a departure Stop, pruning  *)
(* Prune and a crash Crash; every other step is a stutter.                 *)
(***************************************************************************)
Pins == [g \in Generations |-> PinFile(g)]

Uses == [b \in Builders |-> IF At(b, "using") THEN {Mine(b)} ELSE {}]

\* Steps that touch neither the files nor who uses them are invisible.
LEMMA InvisibleSteps ==
  ASSUME CacheInv, NEW b \in Builders,
         \/ StartWorker(b) \/ LoseSession(b) \/ DeadlinePasses(b) \/ End(b) \/ Ask(b)
         \/ GiveUp(b) \/ Look(b) \/ SyncDirectory(b)
         \/ Flock(b) \/ HelperExits(b) \/ HelperKilled(b)
  PROVE  UNCHANGED <<Pins, Uses, promised>>
<1> USE DEF CacheInv, CacheTypeOK
<1>1. UNCHANGED <<disk, promised>>
  BY DEF StartWorker, LoseSession, DeadlinePasses, End, Ask, GiveUp, Look, SyncDirectory,
         Flock, HelperExits, HelperKilled, lock, store
<1>2. ASSUME NEW c \in Builders
      PROVE  /\ At(c, "using")' <=> At(c, "using")
             /\ At(c, "using") => refresh'[c] = refresh[c]
  BY DEF StartWorker, LoseSession, DeadlinePasses, End, Ask, GiveUp, Look, SyncDirectory,
         Flock, HelperExits, HelperKilled, Close, At, Go, owner
<1>3. UNCHANGED Pins
  BY <1>1 DEF Pins, PinFile
<1>4. UNCHANGED Uses
  BY <1>2 DEF Uses, Mine
<1>5. QED
  BY <1>1, <1>3, <1>4

\* A worker that goes, from the files or from anywhere, stops using its pin.
LEMMA DeparturesStop ==
  ASSUME CacheInv, NEW b \in Builders, Terminate(b) \/ Leave(b)
  PROVE  UNCHANGED <<Pins, promised>> /\ Uses' = [Uses EXCEPT ![b] = {}]
<1> USE DEF CacheInv, CacheTypeOK
<1>1. UNCHANGED <<disk, promised, refresh>> /\ at' = [at EXCEPT ![b] = "ended"]
  BY DEF Terminate, Leave, Close, Go, store, owner
<1>2. UNCHANGED Pins
  BY <1>1 DEF Pins, PinFile
<1>3. Uses' = [Uses EXCEPT ![b] = {}]
  BY <1>1 DEF Uses, At, Mine
<1>4. QED
  BY <1>1, <1>2, <1>3

\* A pruning of other generations is a pruning of the promise.
LEMMA PruningPrunes ==
  ASSUME CacheInv, NEW b \in Builders, PruneOthers(b)
  PROVE  Promise!Prune
<1> USE DEF CacheInv, CacheTypeOK
<1>1. \A c \in Builders : ~At(c, "using")
  BY LockedCacheHasOneBuilder DEF OneBuilderInTheCache, PruneOthers, InCache, At
<1>2. Promise!InUse = {}
  BY <1>1 DEF Promise!InUse
<1>3. Mine(b) \in Generations
  BY BuildersHaveARefresh DEF PruneOthers, At
<1>4. UNCHANGED Uses
  <2>1. \A c \in Builders : ~At(c, "using")'
    BY <1>1 DEF PruneOthers, Go, At
  <2>2. QED
    BY <1>1, <2>1 DEF Uses
<1>5. Pins' = [g \in Generations |-> IF g \in {Mine(b)} THEN Pins[g] ELSE Absent]
  BY DEF PruneOthers, Pins, PinFile
<1>6. promised' = promised \cap {Mine(b)}
  BY DEF PruneOthers
<1>7. {Mine(b)} \in SUBSET Generations /\ Promise!InUse \subseteq {Mine(b)}
  BY <1>2, <1>3
<1> HIDE DEF CacheInv, CacheTypeOK
<1>8. QED
  BY <1>4, <1>5, <1>6, <1>7 DEF Promise!Prune, Pins, Uses

\* A link is the promise's pin, or repeats one that stands.
LEMMA LinksPin ==
  ASSUME CacheInv, NEW b \in Builders, Link(b)
  PROVE  UNCHANGED <<Pins, Uses, promised>> \/ Promise!Pin
<1> USE DEF CacheInv, CacheTypeOK
<1>1. /\ Mine(b) \in Generations /\ refresh[b].asOf \in Instants
      /\ At(b, "link") /\ UNCHANGED <<promised, refresh>>
  BY BuildersHaveARefresh DEF Link, At, owner
<1>2. UNCHANGED Uses
  BY <1>1 DEF Link, Uses, Go, At, Mine
<1>3. CASE disk[Mine(b)] = Absent
  <2>1. Pins[Mine(b)] = Absent
    BY <1>1, <1>3 DEF Pins, PinFile
  <2>2. disk' = [disk EXCEPT ![Mine(b)] = Record(b)]
    BY <1>3 DEF Link
  <2>3. CASE Record(b) = Absent
    BY <1>1, <1>2, <1>3, <2>2, <2>3 DEF Pins, PinFile
  <2>4. CASE Record(b) # Absent
    <3>1. Pins' = [Pins EXCEPT ![Mine(b)] = refresh[b].asOf]
      BY <1>1, <2>2, <2>4 DEF Pins, PinFile, Record
    <3>2. QED
      BY <1>1, <1>2, <2>1, <3>1 DEF Promise!Pin, Pins, Uses
  <2>5. QED
    BY <2>3, <2>4
<1>4. CASE disk[Mine(b)] # Absent
  BY <1>1, <1>2, <1>4 DEF Link, Pins, PinFile
<1>5. QED
  BY <1>3, <1>4

\* A builder that reads its pin back tells what stands.
LEMMA AnswersTell ==
  ASSUME CacheInv, NEW b \in Builders, ReadBack(b)
  PROVE  Promise!Tell(b)
<1> USE DEF CacheInv, CacheTypeOK
<1>1. /\ At(b, "back") /\ Readable(Mine(b)) /\ Mine(b) \in Generations
      /\ UNCHANGED <<disk, refresh>> /\ promised' = promised \cup {Mine(b)}
  BY BuildersHaveARefresh DEF ReadBack, At, owner
<1>2. Pins[Mine(b)] # Absent
  <2>1. disk[Mine(b)] # Absent /\ disk[Mine(b)] \in Files
    BY <1>1 DEF Readable
  <2>2. QED
    BY <1>1, <2>1, CacheAssumption DEF Pins, PinFile, Files
<1>3. Uses[b] = {}
  BY <1>1 DEF Uses, At
<1>4. Uses' = [Uses EXCEPT ![b] = {Mine(b)}]
  BY <1>1 DEF ReadBack, Uses, Go, At, Mine
<1>5. UNCHANGED Pins
  BY <1>1 DEF Pins, PinFile
<1>6. QED
  BY <1>1, <1>2, <1>3, <1>4, <1>5 DEF Promise!Tell, Pins, Uses

\* A crash of the machine is a crash of the promise.
LEMMA CrashesCrash ==
  ASSUME CacheInv, MachineCrash
  PROVE  Promise!Crash
<1> USE DEF CacheInv, CacheTypeOK
<1>1. Uses' = [b \in Builders |-> {}]
  BY DEF MachineCrash, Uses, At
<1>2. ASSUME NEW g \in Generations
      PROVE  /\ Pins'[g] \in Instants \cup {Absent}
             /\ g \in promised => Pins'[g] = Pins[g]
  <2>1. disk'[g] = durable[g]
    <3>1. durable[g] = Absent \/ durable[g] \in [asOf : Instants, synced : BOOLEAN, torn : BOOLEAN]
      BY DEF Files
    <3>2. CASE durable[g] = Absent
      BY <3>2 DEF MachineCrash
    <3>3. CASE durable[g] # Absent
      <4>1. durable[g].synced = TRUE /\ durable[g].torn = FALSE
        BY <3>1, <3>3 DEF StoreInv, RecordsWhole, Whole
      <4>2. disk'[g] = [durable[g] EXCEPT !.torn = @ \/ ~durable[g].synced]
        BY <3>3 DEF MachineCrash
      <4>3. (durable[g].torn \/ ~durable[g].synced) = FALSE
        BY <4>1
      <4>4. QED
        BY <3>1, <3>3, <4>1, <4>2, <4>3
    <3>4. QED
      BY <3>2, <3>3
  <2>2. Pins'[g] = IF durable[g] = Absent THEN Absent ELSE durable[g].asOf
    BY <2>1 DEF Pins, PinFile
  <2>3. Pins'[g] \in Instants \cup {Absent}
    BY <2>2 DEF Files
  <2>4. g \in promised => durable[g] = disk[g]
    BY DEF StoreInv, PromisesDurable
  <2>5. QED
    BY <2>2, <2>3, <2>4 DEF Pins, PinFile
<1>3. Pins' \in [Generations -> Instants \cup {Absent}]
  BY <1>2 DEF Pins
<1>4. UNCHANGED promised
  BY DEF MachineCrash
<1>5. QED
  BY <1>1, <1>2, <1>3, <1>4 DEF Promise!Crash, Pins, Uses

\* "An immutable generation pin retains the original asOfAt": the cache implements
\* the promise, whatever is lost, killed or crashes, and in whatever order.
THEOREM CacheKeepsThePin == CacheSpec => KeepsThePin
<1>1. CacheInit => Promise!Init
  BY DEF CacheInit, Promise!Init, PinFile, At
<1>2. CacheInv /\ [CacheNext]_cacheVars => [Promise!Next]_(Promise!pinVars)
  <2> SUFFICES ASSUME CacheInv, [CacheNext]_cacheVars
               PROVE  UNCHANGED <<Pins, Uses, promised>> \/ Promise!Next
    BY DEF Promise!pinVars, Pins, Uses
  <2>1. ASSUME NEW b \in Builders,
               \/ StartWorker(b) \/ LoseSession(b) \/ DeadlinePasses(b) \/ End(b) \/ Ask(b)
               \/ GiveUp(b) \/ Look(b) \/ SyncDirectory(b)
               \/ Flock(b) \/ HelperExits(b) \/ HelperKilled(b)
        PROVE  UNCHANGED <<Pins, Uses, promised>>
    BY <2>1, InvisibleSteps
  <2>2. ASSUME NEW b \in Builders, Terminate(b) \/ Leave(b) PROVE Promise!Next
    BY <2>2, DeparturesStop DEF Promise!Next, Promise!Stop, Pins, Uses
  <2>3. ASSUME NEW b \in Builders, PruneOthers(b) PROVE Promise!Next
    BY <2>3, PruningPrunes DEF Promise!Next
  <2>4. ASSUME NEW b \in Builders, Link(b)
        PROVE  UNCHANGED <<Pins, Uses, promised>> \/ Promise!Next
    BY <2>4, LinksPin DEF Promise!Next
  <2>5. ASSUME NEW b \in Builders, ReadBack(b) PROVE Promise!Next
    BY <2>5, AnswersTell DEF Promise!Next
  <2>6. CASE Writeback
    BY <2>6 DEF Writeback, owner, Pins, PinFile, Uses, At, Mine
  <2>7. CASE MachineCrash
    BY <2>7, CrashesCrash DEF Promise!Next
  <2>8. CASE UNCHANGED cacheVars
    BY <2>8 DEF cacheVars, Pins, PinFile, Uses, At, Mine
  <2>9. QED
    BY <2>1, <2>2, <2>3, <2>4, <2>5, <2>6, <2>7, <2>8, StepsOfABuilder
<1>3. QED
  BY <1>1, <1>2, CacheInvariant, PTL DEF CacheSpec, KeepsThePin, Promise!Spec
=============================================================================
