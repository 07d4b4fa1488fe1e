---------------------------- MODULE RosLiveCache ----------------------------
(***************************************************************************)
(* The live rest-of-season cache: builders in several worker processes     *)
(* share one volume.  A PostgreSQL session lock admits one at a time but   *)
(* can be lost with its session; a kernel lock on one permanent file, held *)
(* by a descriptor of the artifact worker, covers the time until that      *)
(* worker is really gone.  Under both, a builder prunes the generations it *)
(* does not need and pins its own in the generation store.                 *)
(* The kernel, the file system and PostgreSQL are external: a descriptor's *)
(* lock lasts as long as somebody has the descriptor open, a link is       *)
(* atomic, and what was not synchronized may be gone after a crash.        *)
(***************************************************************************)
EXTENDS Naturals

CONSTANTS
    Absent,
    Builders,
    Generations,  \* physical identities of the football inputs
    Instants,     \* the instants a refresh may ask for
    Refreshes,    \* the refreshes that may be asked for
    MaxCacheFaults  \* bound: sessions lost and crashes of the machine

ASSUME CacheAssumption ==
    /\ Instants \subseteq Nat /\ Absent \notin Builders \cup Instants
    /\ Refreshes \subseteq [generation : Generations, asOf : Instants]
    /\ MaxCacheFaults \in Nat

VARIABLES
    lease,     \* the builder whose database session holds the advisory lock
    at,        \* what its artifact worker is at, "off" when there is none
    late,      \* whether its wait for the file lock has passed its deadline
    stopping,  \* whether its owner has been told to stop, or lost the session
    refresh,   \* the generation and instant it was started for, Absent when off
    helper,    \* its flock child process, which has the descriptor open too
    holder,    \* the builder whose descriptor holds the kernel lock
    disk,      \* the pin file of each generation, as processes see it
    durable,   \* the same as a crash of the machine would leave it
    promised,  \* generations a builder was told of since they were pruned
    cacheFaults

cacheVars == <<lease, at, late, stopping, refresh, helper, holder, disk, durable, promised, cacheFaults>>
owner == <<lease, late, stopping, refresh>>
lock == <<helper, holder>>
store == <<disk, durable, promised>>

Mine(b) == refresh[b].generation

CacheFault == cacheFaults < MaxCacheFaults /\ cacheFaults' = cacheFaults + 1

At(b, place) == at[b] = place

Go(b, place) == at' = [at EXCEPT ![b] = place]

CacheInit ==
    /\ lease = Absent /\ holder = Absent /\ promised = {} /\ cacheFaults = 0
    /\ at = [b \in Builders |-> "off"]
    /\ late = [b \in Builders |-> FALSE] /\ stopping = [b \in Builders |-> FALSE]
    /\ refresh = [b \in Builders |-> Absent]
    /\ helper = [b \in Builders |-> "none"]
    /\ disk = [g \in Generations |-> Absent] /\ durable = disk

-----------------------------------------------------------------------------
(* The owner: the database lock around the whole life of the worker.        *)

\* The lock is taken by polling, and the worker starts.
StartWorker(b) ==
    /\ At(b, "off") /\ ~stopping[b] /\ lease = Absent /\ helper[b] = "none"
    /\ lease' = b
    /\ \E r \in Refreshes : refresh' = [refresh EXCEPT ![b] = r]
    /\ Go(b, "waiting")
    /\ UNCHANGED <<late, stopping, lock, store, cacheFaults>>

\* The database drops the session: the lock is free before the owner knows,
\* and the worker is stopped.  (A cancelled job stops its worker as well, with
\* the lock held until the worker is gone: nobody comes in, and it is left out.)
LoseSession(b) ==
    /\ lease = b /\ ~At(b, "off")
    /\ CacheFault
    /\ lease' = Absent /\ stopping' = [stopping EXCEPT ![b] = TRUE]
    /\ UNCHANGED <<at, late, refresh, lock, store>>

\* The kernel frees the lock when the last descriptor of it is closed.
Closed(b, child) == IF holder = b /\ child = "none" THEN Absent ELSE holder

\* The descriptor is closed on every way out: the run is over.
Close(b, child) == Go(b, "ended") /\ holder' = Closed(b, child)

\* Faulty: the run is settled as soon as the worker is told to stop.
TerminateAtOnce(b) ==
    /\ stopping[b] /\ ~At(b, "off") /\ ~At(b, "ended")
    /\ Go(b, "off") /\ lease' = IF lease = b THEN Absent ELSE lease
    /\ UNCHANGED <<late, stopping, refresh, lock, store, cacheFaults>>

\* worker.terminate closes the worker's descriptors; its child lives on.
Terminate(b) ==
    /\ stopping[b] /\ ~At(b, "off") /\ ~At(b, "ended")
    /\ Close(b, helper[b])
    /\ UNCHANGED <<owner, helper, store, cacheFaults>>

\* The run settles when the lock's callback has settled or the thread is gone.
End(b) ==
    /\ At(b, "ended")
    /\ lease' = IF lease = b THEN Absent ELSE lease
    /\ stopping' = [stopping EXCEPT ![b] = FALSE]
    /\ late' = [late EXCEPT ![b] = FALSE]
    /\ refresh' = [refresh EXCEPT ![b] = Absent]
    /\ Go(b, "off")
    /\ UNCHANGED <<lock, store, cacheFaults>>

-----------------------------------------------------------------------------
(* withRosLiveFilesystemLock.                                               *)

\* Faulty: with the database lock held the file lock is taken for granted.
AskNobody(b) ==
    /\ At(b, "waiting") /\ ~late[b]
    /\ Go(b, "locked")
    /\ UNCHANGED <<owner, lock, store, cacheFaults>>

Ask(b) ==
    /\ At(b, "waiting") /\ ~late[b]
    /\ helper' = [helper EXCEPT ![b] = "trying"] /\ Go(b, "asking")
    /\ UNCHANGED <<owner, holder, store, cacheFaults>>

\* flock -x -n on the shared open-file description.
Flock(b) ==
    /\ helper[b] = "trying"
    /\ helper' = [helper EXCEPT ![b] = IF holder = Absent THEN "took" ELSE "busy"]
    /\ holder' = IF holder = Absent THEN b ELSE holder
    /\ UNCHANGED <<owner, at, store, cacheFaults>>

\* Its exit code decides, unless the worker is no longer there to read it.
HelperExits(b) ==
    /\ helper[b] \in {"took", "busy"}
    /\ helper' = [helper EXCEPT ![b] = "none"]
    /\ \/ ~At(b, "asking") /\ UNCHANGED at /\ holder' = Closed(b, "none")
       \/ At(b, "asking") /\ late[b] /\ Close(b, "none")
       \/ /\ At(b, "asking") /\ ~late[b] /\ UNCHANGED holder
          /\ Go(b, IF helper[b] = "took" THEN "locked" ELSE "waiting")
    /\ UNCHANGED <<owner, store, cacheFaults>>

\* The child outlives its own timer and is killed, with the lock or without.
HelperKilled(b) ==
    /\ At(b, "asking") /\ helper[b] # "none"
    /\ helper' = [helper EXCEPT ![b] = "none"]
    /\ Close(b, "none")
    /\ UNCHANGED <<owner, store, cacheFaults>>

DeadlinePasses(b) ==
    /\ at[b] \in {"waiting", "asking"} /\ ~late[b]
    /\ late' = [late EXCEPT ![b] = TRUE]
    /\ UNCHANGED <<lease, stopping, refresh, at, lock, store, cacheFaults>>

GiveUp(b) ==
    /\ At(b, "waiting") /\ late[b]
    /\ Close(b, helper[b])
    /\ UNCHANGED <<owner, helper, store, cacheFaults>>

-----------------------------------------------------------------------------
(* Under the locks: prepareRosLiveOutcomeCache, then getOrCreateGeneration. *)

InCache(b) == at[b] \in {"locked", "look", "link", "settle", "back", "using"}

\* Older generations go, the current one stays.
PruneOthers(b) ==
    /\ At(b, "locked")
    /\ disk' = [g \in Generations |-> IF g = Mine(b) THEN disk[g] ELSE Absent]
    /\ promised' = promised \cap {Mine(b)}
    /\ Go(b, "look")
    /\ UNCHANGED <<owner, lock, durable, cacheFaults>>

Readable(g) == disk[g] # Absent /\ ~disk[g].torn

\* Faulty: an existing record is answered without synchronizing its directory.
LookOnly(b) ==
    /\ At(b, "look") /\ (disk[Mine(b)] = Absent \/ Readable(Mine(b)))
    /\ Go(b, IF disk[Mine(b)] = Absent THEN "link" ELSE "back")
    /\ UNCHANGED <<owner, lock, store, cacheFaults>>

\* An unreadable record is refused: then there is nothing but to leave.
Look(b) ==
    /\ At(b, "look") /\ (disk[Mine(b)] = Absent \/ Readable(Mine(b)))
    /\ Go(b, IF disk[Mine(b)] = Absent THEN "link" ELSE "settle")
    /\ UNCHANGED <<owner, lock, store, cacheFaults>>

\* Faulty: the file is linked before its bytes are synchronized.
RecordUnsynced(b) == [asOf |-> refresh[b].asOf, synced |-> FALSE, torn |-> FALSE]

Record(b) == [asOf |-> refresh[b].asOf, synced |-> TRUE, torn |-> FALSE]

\* The bytes went to a partial file of another name, which nobody reads and a
\* crash may leave.  link refuses an existing name: the first record stays.
Link(b) ==
    /\ At(b, "link")
    /\ disk' = IF disk[Mine(b)] = Absent THEN [disk EXCEPT ![Mine(b)] = Record(b)] ELSE disk
    /\ Go(b, "settle")
    /\ UNCHANGED <<owner, lock, durable, promised, cacheFaults>>

SyncDirectory(b) ==
    /\ At(b, "settle")
    /\ durable' = [durable EXCEPT ![Mine(b)] = disk[Mine(b)]]
    /\ Go(b, "back")
    /\ UNCHANGED <<owner, lock, disk, promised, cacheFaults>>

\* A pin later than the instant asked for is a conflict, and refused.
ReadBack(b) ==
    /\ At(b, "back") /\ Readable(Mine(b)) /\ disk[Mine(b)].asOf <= refresh[b].asOf
    /\ Go(b, "using") /\ promised' = promised \cup {Mine(b)}
    /\ UNCHANGED <<owner, lock, disk, durable, cacheFaults>>

\* Faulty: the descriptor is left to a callback that throws.
LeaveOpen(b) ==
    /\ InCache(b)
    /\ Go(b, "ended")
    /\ UNCHANGED <<owner, lock, store, cacheFaults>>

\* The targets are built, or anything under the lock throws.
Leave(b) ==
    /\ InCache(b)
    /\ Close(b, helper[b])
    /\ UNCHANGED <<owner, helper, store, cacheFaults>>

\* The file system commits its journal when it likes.
Writeback ==
    /\ durable # disk /\ durable' = disk
    /\ UNCHANGED <<owner, at, lock, disk, promised, cacheFaults>>

MachineCrash ==
    /\ CacheFault
    /\ lease' = Absent /\ holder' = Absent
    /\ at' = [b \in Builders |-> "off"]
    /\ stopping' = [b \in Builders |-> FALSE]
    /\ helper' = [b \in Builders |-> "none"]
    /\ late' = [b \in Builders |-> FALSE]
    /\ refresh' = [b \in Builders |-> Absent]
    /\ durable' = [g \in Generations |->
                     IF durable[g] = Absent THEN Absent
                     ELSE [durable[g] EXCEPT !.torn = @ \/ ~durable[g].synced]]
    /\ disk' = durable'
    /\ UNCHANGED promised

\* What a worker, its child and its owner do of themselves.
Step(b) ==
    \/ Terminate(b) \/ End(b)
    \/ Ask(b) \/ GiveUp(b)
    \/ PruneOthers(b) \/ Look(b) \/ Link(b)
    \/ SyncDirectory(b) \/ ReadBack(b) \/ Leave(b)

Child(b) == Flock(b) \/ HelperExits(b) \/ HelperKilled(b)

CacheNext ==
    \/ \E b \in Builders :
         StartWorker(b) \/ LoseSession(b) \/ DeadlinePasses(b) \/ Step(b) \/ Child(b)
    \/ Writeback \/ MachineCrash

CacheSpec == CacheInit /\ [][CacheNext]_cacheVars

\* Processes run and time passes; nobody has to start a refresh or to stop one.
CacheFairness ==
    \A b \in Builders :
        WF_cacheVars(Step(b)) /\ WF_cacheVars(Child(b)) /\ WF_cacheVars(DeadlinePasses(b))

FairCacheSpec == CacheSpec /\ CacheFairness

-----------------------------------------------------------------------------
Places == {"off", "waiting", "asking", "locked", "look", "link", "settle",
           "back", "using", "ended"}

Files == {Absent} \cup [asOf : Instants, synced : BOOLEAN, torn : BOOLEAN]

CacheTypeOK ==
    /\ lease \in Builders \cup {Absent} /\ holder \in Builders \cup {Absent}
    /\ at \in [Builders -> Places]
    /\ late \in [Builders -> BOOLEAN] /\ stopping \in [Builders -> BOOLEAN]
    /\ refresh \in [Builders -> Refreshes \cup {Absent}]
    /\ \A b \in Builders : IF At(b, "off") THEN refresh[b] = Absent ELSE refresh[b] \in Refreshes
    /\ helper \in [Builders -> {"none", "trying", "took", "busy"}]
    /\ disk \in [Generations -> Files] /\ durable \in [Generations -> Files]
    /\ promised \subseteq Generations /\ cacheFaults \in 0 .. MaxCacheFaults

\* "Losing that remote session cannot free this local filesystem lock before the
\* old worker stops using the shared volume": one builder uses the cache.
OneBuilderInTheCache ==
    \A a, b \in Builders : InCache(a) /\ InCache(b) => a = b

\* The bytes of a record are on disk before its name is: no crash leaves a
\* record that every later builder would refuse as corrupt.
NoTornRecord == \A g \in Generations : Readable(g) \/ disk[g] = Absent

\* Whatever dies, and in whatever order, the cache has one builder and no record
\* that cannot be read.
CacheIsSound == OneBuilderInTheCache /\ NoTornRecord

\* "An immutable generation pin retains the original asOfAt": the cache
\* implements the promise, through lost sessions, killed workers and crashes.
PinFile(g) == IF disk[g] = Absent THEN Absent ELSE disk[g].asOf

Promise == INSTANCE GenerationPin WITH
    pins <- [g \in Generations |-> PinFile(g)],
    uses <- [b \in Builders |-> IF At(b, "using") THEN {Mine(b)} ELSE {}],
    Unpinned <- Absent

KeepsThePin == Promise!Spec

\* A worker that waits for the lock, or has it, is done in the end: the wait is
\* bounded and no way out leaves the lock with a descriptor nobody closes.
EveryBuildEnds ==
    \A b \in Builders :
        ~At(b, "off") \/ holder = b ~> At(b, "off") /\ holder # b
=============================================================================
