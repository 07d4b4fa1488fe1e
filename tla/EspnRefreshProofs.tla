-------------------------- MODULE EspnRefreshProofs --------------------------
(***************************************************************************)
(* The refresh requests of a league season keep the promise made to their  *)
(* members, for any number of members and devices, any set of background   *)
(* reads, any lifetimes and any order of reads, reports, captures,         *)
(* expiries and retries.                                                   *)
(***************************************************************************)
EXTENDS EspnRefresh, SequenceTheorems, TLAPS

(***************************************************************************)
(* Freshness.  A family is never said to be fresher than any of its parts: *)
(* what makes a request's result, which is read off the family, true of    *)
(* every part of it.                                                       *)
(***************************************************************************)
FamiliesFollowTheirParts ==
  \A f \in Families : \A part \in PartsOf[f] : freshness[f] <= freshness[part]

\* The live index admits one request at a time.
OneLiveRequest ==
  \A i, j \in Indexes : Live(requests[i]) /\ Live(requests[j]) => i = j

RefreshInv == TypeOK /\ FamiliesFollowTheirParts /\ OneLiveRequest

\* A family and its parts are columns of the freshness, the parts components.
LEMMA Parts ==
  /\ PartsOf["core"] = {"core"}
  /\ PartsOf["available-players"] = {"available-free-agents", "available-waivers"}
  /\ Families = {"core", "available-players"}
  /\ Components = {"core", "available-free-agents", "available-waivers"}
  /\ \A f \in Families : PartsOf[f] \subseteq Components
BY DEF PartsOf, Families, Components

\* A capture moves no column back, and no family past any of its parts.
LEMMA AdvanceForward ==
  ASSUME TypeOK, FamiliesFollowTheirParts, NEW part \in Components, NEW at \in Times,
         NEW fresh, fresh = Advance(freshness, part, at)
  PROVE  /\ fresh \in [Components \union Families -> Times]
         /\ \A c \in Components : freshness[c] <= fresh[c]
         /\ \A f \in Families : \A p \in PartsOf[f] : fresh[f] <= fresh[p]
<1> DEFINE moved == [freshness EXCEPT ![part] = Later(@, at)]
           agents == moved["available-free-agents"]
           waivers == moved["available-waivers"]
<1>1. /\ freshness \in [Components \union Families -> Times] /\ at \in Times
      /\ part \in Components \union Families /\ Times \subseteq Nat
  BY DEF TypeOK, Times
<1>2. \A a, b \in Times : /\ Later(a, b) \in Times /\ a <= Later(a, b) /\ b <= Later(a, b)
                          /\ Later(a, b) \in {a, b}
                          /\ Earlier(a, b) \in Times
                          /\ Earlier(a, b) <= a /\ Earlier(a, b) <= b
  BY <1>1 DEF Later, Earlier
<1>3. /\ moved \in [Components \union Families -> Times]
      /\ \A c \in Components \union Families : freshness[c] <= moved[c]
      /\ \A c \in Components \union Families : c # part => moved[c] = freshness[c]
  <2>1. Later(freshness[part], at) \in Times /\ freshness[part] <= Later(freshness[part], at)
    BY <1>1, <1>2
  <2>2. moved[part] = Later(freshness[part], at)
    BY <1>1
  <2>3. \A c \in Components \union Families : freshness[c] \in Nat
    BY <1>1
  <2>4. moved \in [Components \union Families -> Times]
    BY <1>1, <2>1
  <2>5. \A c \in Components \union Families : c # part => moved[c] = freshness[c]
    BY <1>1
  <2> HIDE DEF moved
  <2>6. \A c \in Components \union Families : freshness[c] <= moved[c]
    BY <2>1, <2>2, <2>3, <2>5
  <2>7. QED
    BY <2>4, <2>5, <2>6
<1>4. fresh = IF part = "core" \/ agents = 0 \/ waivers = 0 THEN moved
              ELSE [moved EXCEPT !["available-players"] = Later(@, Earlier(agents, waivers))]
  BY DEF Advance
<1> HIDE DEF moved
<1>5. /\ agents \in Times /\ waivers \in Times /\ moved["available-players"] \in Times
      /\ "core" \in Components \union Families
      /\ "available-players" \in Components \union Families
      /\ "available-players" \notin Components
  BY <1>3, Parts
<1>6. /\ freshness["available-players"] <= freshness["available-free-agents"]
      /\ freshness["available-players"] <= freshness["available-waivers"]
      /\ moved["available-players"] = freshness["available-players"]
      /\ freshness["available-players"] \in Nat
      /\ freshness["available-free-agents"] \in Nat /\ freshness["available-waivers"] \in Nat
      /\ freshness["available-free-agents"] <= agents
      /\ freshness["available-waivers"] <= waivers
  <2>1. /\ freshness["available-players"] <= freshness["available-free-agents"]
        /\ freshness["available-players"] <= freshness["available-waivers"]
    BY Parts DEF FamiliesFollowTheirParts
  <2>2. moved["available-players"] = freshness["available-players"]
    BY <1>1, <1>3, <1>5
  <2>3. /\ "available-free-agents" \in Components \union Families
        /\ "available-waivers" \in Components \union Families
    BY Parts
  <2>4. /\ freshness["available-players"] \in Nat
        /\ freshness["available-free-agents"] \in Nat /\ freshness["available-waivers"] \in Nat
    BY <1>1, <1>5, <2>3
  <2>5. QED
    BY <1>3, <2>1, <2>2, <2>3, <2>4
<1> HIDE DEF agents, waivers
<1>7. moved["available-players"] <= agents /\ moved["available-players"] <= waivers
  <2>1. agents \in Nat /\ waivers \in Nat
    BY <1>1, <1>5
  <2>2. QED
    BY <1>6, <2>1
<1>8. CASE fresh = moved
  <2>1. moved["core"] \in Nat
    BY <1>1, <1>3, <1>5
  <2>2. \A f \in Families : \A p \in PartsOf[f] : moved[f] <= moved[p]
    BY <1>7, <2>1, Parts DEF agents, waivers
  <2>3. QED
    BY <1>3, <1>8, <2>2
<1>9. CASE fresh = [moved EXCEPT !["available-players"] = Later(@, Earlier(agents, waivers))]
  <2> DEFINE new == Later(moved["available-players"], Earlier(agents, waivers))
  <2>1. new \in Times /\ new <= agents /\ new <= waivers
    <3>1. /\ Earlier(agents, waivers) \in Times
          /\ Earlier(agents, waivers) <= agents /\ Earlier(agents, waivers) <= waivers
      BY <1>2, <1>5
    <3>2. new \in Times /\ new \in {moved["available-players"], Earlier(agents, waivers)}
      BY <1>2, <1>5, <3>1
    <3>3. QED
      BY <1>7, <3>1, <3>2
  <2>2. /\ fresh \in [Components \union Families -> Times] /\ fresh["available-players"] = new
        /\ \A c \in Components \union Families : c # "available-players" => fresh[c] = moved[c]
    BY <1>3, <1>5, <1>9, <2>1
  <2> HIDE DEF new
  <2>3. \A c \in Components : freshness[c] <= fresh[c]
    BY <1>3, <1>5, <2>2
  <2>4. fresh["core"] = fresh["core"] /\ fresh["core"] \in Nat
    BY <1>1, <1>5, <2>2
  <2>5. /\ fresh["available-free-agents"] = agents /\ fresh["available-waivers"] = waivers
    BY <2>2, Parts DEF agents, waivers
  <2>6. QED
    BY <2>1, <2>2, <2>3, <2>4, <2>5, Parts
<1>10. QED
  BY <1>4, <1>8, <1>9

(***************************************************************************)
(* Requests.  Whatever happens to a row, its outcome moves as promised,    *)
(* and no row that had ended comes alive, except by a report that it was   *)
(* started.                                                                *)
(***************************************************************************)
MovesTo(r, s, fresh) ==
  /\ s \in Rows /\ s.minimumCapture = r.minimumCapture /\ s.required = r.required
  /\ \/ OutcomeOf(s) = OutcomeOf(r)
     \/ OutcomeOf(r) # "fulfilled" /\ OutcomeOf(s) \in {"failed", "expired"}
     \/ OutcomeOf(s) = "fulfilled" /\ Ready(r, fresh)

Rewritten(old, new, fresh) ==
  /\ new \in Seq(Rows) /\ Len(new) = Len(old) /\ DOMAIN new = DOMAIN old
  /\ \A i \in DOMAIN old : MovesTo(old[i], new[i], fresh)

\* A table of the same rows, each of them moved, is a table.
LEMMA RewrittenRow ==
  ASSUME NEW old \in Seq(Rows), NEW new, NEW fresh,
         new \in [DOMAIN old -> Rows],
         \A i \in DOMAIN old : MovesTo(old[i], new[i], fresh)
  PROVE  Rewritten(old, new, fresh)
<1>1. Len(old) \in Nat /\ DOMAIN old = 1 .. Len(old)
  BY LenProperties
<1>2. new \in [1 .. Len(old) -> Rows]
  BY <1>1
<1>3. new \in Seq(Rows)
  BY <1>1, <1>2, SeqDef
<1>4. Len(new) = Len(old) /\ DOMAIN new = DOMAIN old
  BY <1>1, <1>2, <1>3, LenProperties
<1>5. QED
  BY <1>3, <1>4 DEF Rewritten

\* A row that is left alone.
LEMMA MovesToItself ==
  ASSUME NEW r \in Rows, NEW fresh PROVE MovesTo(r, r, fresh)
BY DEF MovesTo

\* Retiring expires live rows and leaves the others alone.
LEMMA RetireRewrites ==
  ASSUME NEW all \in Seq(Rows), NEW at, NEW fresh
  PROVE  /\ Rewritten(all, Retire(all, at), fresh)
         /\ \A i \in DOMAIN all :
              Live(Retire(all, at)[i]) => Live(all[i]) /\ Retire(all, at)[i] = all[i]
<1> DEFINE new == Retire(all, at)
<1>1. \A i \in DOMAIN all : all[i] \in Rows
  BY LenProperties
<1>2. DOMAIN new = DOMAIN all
  BY DEF Retire
<1>3. ASSUME NEW i \in DOMAIN all
      PROVE  MovesTo(all[i], new[i], fresh) /\ (Live(new[i]) => new[i] = all[i])
  <2>1. CASE Live(all[i]) /\ all[i].expires <= at
    <3>1. new[i] = [all[i] EXCEPT !.state = "cancelled", !.error = "EXPIRED"]
      BY <2>1 DEF Retire
    <3>2. /\ new[i] \in Rows /\ new[i].state = "cancelled" /\ new[i].error = "EXPIRED"
          /\ new[i].result = all[i].result /\ new[i].required = all[i].required
          /\ new[i].minimumCapture = all[i].minimumCapture
      BY <1>1, <3>1 DEF Rows
    <3> HIDE DEF new
    <3>3. QED
      BY <3>2 DEF MovesTo, OutcomeOf, Live
  <2>2. CASE ~(Live(all[i]) /\ all[i].expires <= at)
    <3>1. new[i] = all[i]
      BY <2>2 DEF Retire
    <3>2. QED
      BY <1>1, <3>1, MovesToItself
  <2>3. QED
    BY <2>1, <2>2
<1>4. new \in [DOMAIN all -> Rows]
  <2>1. new = [i \in DOMAIN all |-> new[i]]
    BY <1>2 DEF Retire
  <2>2. \A i \in DOMAIN all : new[i] \in Rows
    BY <1>3 DEF MovesTo
  <2> HIDE DEF new
  <2>3. QED
    BY <2>1, <2>2
<1> HIDE DEF new
<1>5. Rewritten(all, new, fresh)
  BY <1>3, <1>4, RewrittenRow
<1>6. QED
  BY <1>3, <1>5 DEF new

\* A capture fulfils the live rows that it makes ready and leaves the others alone.
LEMMA ServedRewrites ==
  ASSUME NEW all \in Seq(Rows), NEW new, NEW fresh,
         new = [i \in DOMAIN all |-> Served(all[i], fresh)]
  PROVE  /\ Rewritten(all, new, fresh)
         /\ \A i \in DOMAIN all : Live(new[i]) => Live(all[i])
<1>1. \A i \in DOMAIN all : all[i] \in Rows
  BY LenProperties
<1>2. ASSUME NEW i \in DOMAIN all
      PROVE  MovesTo(all[i], new[i], fresh) /\ (Live(new[i]) => Live(all[i]))
  <2>1. new[i] = Served(all[i], fresh)
    OBVIOUS
  <2>2. CASE Live(all[i]) /\ all[i].expires > now /\ Ready(all[i], fresh)
    <3>1. new[i] = [all[i] EXCEPT !.state = "succeeded", !.result = TRUE, !.error = "none"]
      BY <2>1, <2>2 DEF Served
    <3>2. /\ new[i] \in Rows /\ new[i].state = "succeeded" /\ new[i].result = TRUE
          /\ new[i].required = all[i].required
          /\ new[i].minimumCapture = all[i].minimumCapture
      BY <1>1, <3>1 DEF Rows
    <3>3. QED
      BY <2>2, <3>2 DEF MovesTo, OutcomeOf, Live
  <2>3. CASE ~(Live(all[i]) /\ all[i].expires > now /\ Ready(all[i], fresh))
    <3>1. new[i] = all[i]
      BY <2>1, <2>3 DEF Served
    <3>2. QED
      BY <1>1, <3>1, MovesToItself
  <2>4. QED
    BY <2>2, <2>3
<1>3. new \in [DOMAIN all -> Rows]
  <2>1. \A i \in DOMAIN all : new[i] \in Rows
    BY <1>2 DEF MovesTo
  <2>2. QED
    BY <2>1
<1>4. QED
  BY <1>2, <1>3, RewrittenRow

\* A row whose state, and perhaps error, is set by its id.
LEMMA UpdateRewrites ==
  ASSUME NEW all \in Seq(Rows), NEW k \in DOMAIN all, NEW s, NEW new, NEW fresh,
         MovesTo(all[k], s, fresh), new = [all EXCEPT ![k] = s]
  PROVE  /\ Rewritten(all, new, fresh) /\ new[k] = s
         /\ \A i \in DOMAIN all \ {k} : new[i] = all[i]
<1>1. \A i \in DOMAIN all : all[i] \in Rows
  BY LenProperties
<1>2. s \in Rows
  BY DEF MovesTo
<1>3. all \in [DOMAIN all -> Rows]
  BY LenProperties
<1>4. new \in [DOMAIN all -> Rows] /\ new[k] = s /\ \A i \in DOMAIN all \ {k} : new[i] = all[i]
  BY <1>2, <1>3
<1>5. \A i \in DOMAIN all : MovesTo(all[i], new[i], fresh)
  BY <1>1, <1>4, MovesToItself
<1>6. QED
  BY <1>4, <1>5, RewrittenRow

\* Nothing is done to the rows.
LEMMA NothingRewrites ==
  ASSUME NEW all \in Seq(Rows), NEW fresh PROVE Rewritten(all, all, fresh)
<1>1. all \in [DOMAIN all -> Rows]
  BY LenProperties
<1>2. \A i \in DOMAIN all : MovesTo(all[i], all[i], fresh)
  BY <1>1, MovesToItself
<1>3. QED
  BY <1>1, <1>2, RewrittenRow

\* A started row is processing, whatever it was, and keeps its outcome.
LEMMA StartedRewrites ==
  ASSUME TypeOK, NEW k \in Indexes, NEW fresh
  PROVE  /\ Rewritten(requests, Started(k), fresh)
         /\ \A i \in Indexes \ {k} : Started(k)[i] = requests[i]
<1> DEFINE s == [requests[k] EXCEPT !.state = "processing"]
<1>1. requests \in Seq(Rows) /\ requests[k] \in Rows
  BY ElementOfSeq, LenProperties DEF TypeOK, Indexes
<1>2. /\ s \in Rows /\ s.result = requests[k].result /\ s.error = requests[k].error
      /\ s.minimumCapture = requests[k].minimumCapture /\ s.required = requests[k].required
  BY <1>1 DEF Rows
<1>3. Started(k) = [requests EXCEPT ![k] = s]
  BY DEF Started
<1> HIDE DEF s
<1>4. MovesTo(requests[k], s, fresh)
  BY <1>2 DEF MovesTo, OutcomeOf
<1>5. QED
  BY <1>1, <1>3, <1>4, UpdateRewrites DEF Indexes

\* A failed row is over, and keeps its result if it had one.
LEMMA FailedRewrites ==
  ASSUME TypeOK, NEW k \in Indexes, NEW fresh, NEW new,
         new = [requests EXCEPT ![k].state = "failed", ![k].error = "READ_FAILED"]
  PROVE  /\ Rewritten(requests, new, fresh)
         /\ \A i \in Indexes : Live(new[i]) => Live(requests[i])
<1> DEFINE s == [requests[k] EXCEPT !.state = "failed", !.error = "READ_FAILED"]
<1>1. requests \in Seq(Rows) /\ requests[k] \in Rows
  BY ElementOfSeq, LenProperties DEF TypeOK, Indexes
<1>2. /\ s \in Rows /\ s.state = "failed" /\ s.error = "READ_FAILED"
      /\ s.result = requests[k].result
      /\ s.minimumCapture = requests[k].minimumCapture /\ s.required = requests[k].required
  BY <1>1 DEF Rows
<1>3. new = [requests EXCEPT ![k] = s]
  <2>1. requests \in [Indexes -> Rows]
    BY <1>1, LenProperties DEF Indexes
  <2>2. QED
    BY <1>1, <2>1
<1> HIDE DEF s
<1>4. MovesTo(requests[k], s, fresh)
  BY <1>2 DEF MovesTo, OutcomeOf
<1>5. /\ Rewritten(requests, new, fresh) /\ new[k] = s
      /\ \A i \in Indexes \ {k} : new[i] = requests[i]
  BY <1>1, <1>3, <1>4, UpdateRewrites DEF Indexes
<1>6. ~Live(new[k])
  BY <1>2, <1>5 DEF Live
<1>7. QED
  BY <1>5, <1>6

(***************************************************************************)
(* A step rewrites the rows, or retires some and adds one that is open.    *)
(***************************************************************************)
Created(old, new, fresh) ==
  \E kept \in Seq(Rows), r \in Rows :
    /\ Rewritten(old, kept, fresh) /\ OutcomeOf(r) = "open"
    /\ new = Append(kept, r)

\* If no row comes alive, one request at most is live.
LEMMA OneLiveKept ==
  ASSUME OneLiveRequest, DOMAIN requests' = DOMAIN requests,
         \A i \in DOMAIN requests : Live(requests'[i]) => Live(requests[i])
  PROVE  OneLiveRequest'
BY DEF OneLiveRequest, Indexes, Live

\* If a row comes alive where no other is, one request at most is live.
LEMMA OneLiveStarted ==
  ASSUME DOMAIN requests' = DOMAIN requests, NEW k \in Indexes, ~LiveElsewhere(k),
         \A i \in Indexes \ {k} : requests'[i] = requests[i]
  PROVE  OneLiveRequest'
BY DEF OneLiveRequest, LiveElsewhere, Indexes, Live

\* A create reuses the live request, is rolled back, or adds a row when none is live.
LEMMA CreateRequests ==
  ASSUME RefreshInv, NEW u \in Users, Create(u)
  PROVE  /\ Rewritten(requests, requests', freshness') \/ Created(requests, requests', freshness')
         /\ OneLiveRequest'
<1> DEFINE ask == asking[u]
           retired == Retire(requests, ask.at)
<1>1. requests \in Seq(Rows) /\ ask \in [at : Times, stale : SUBSET Families]
  BY DEF RefreshInv, TypeOK, Create
<1>2. /\ Rewritten(requests, retired, freshness')
      /\ \A i \in DOMAIN requests :
           Live(retired[i]) => Live(requests[i]) /\ retired[i] = requests[i]
  BY <1>1, RetireRewrites
<1>3. RetireFirst(requests, ask.at) = retired
  BY DEF RetireFirst
<1> HIDE DEF retired, ask
<1>4. CASE requests' = retired
  BY <1>2, <1>4, OneLiveKept DEF RefreshInv, Rewritten
<1>5. CASE requests' = requests
  BY <1>1, <1>5, NothingRewrites, OneLiveKept DEF RefreshInv, Rewritten
<1>6. CASE /\ Existing(ask) = {} /\ ~RefusedByLive(ask)
           /\ requests' = Append(retired,
                [by |-> u, state |-> "queued", required |-> ask.stale,
                 minimumCapture |-> ask.at, expires |-> ask.at + Lifetime,
                 result |-> FALSE, error |-> "none"])
  <2> DEFINE r == [by |-> u, state |-> "queued", required |-> ask.stale,
                   minimumCapture |-> ask.at, expires |-> ask.at + Lifetime,
                   result |-> FALSE, error |-> "none"]
  <2>1. ask.at + Lifetime \in 0 .. MaxTime + Lifetime
    BY <1>1, RefreshAssumption DEF Times
  <2>2. r \in Rows /\ OutcomeOf(r) = "open"
    BY <1>1, <2>1 DEF Rows, OutcomeOf
  <2>3. requests' = Append(retired, r)
    BY <1>6
  <2> HIDE DEF r
  <2>4. retired \in Seq(Rows) /\ Len(retired) = Len(requests) /\ DOMAIN retired = DOMAIN requests
    BY <1>2 DEF Rewritten
  <2>5. Created(requests, requests', freshness')
    BY <1>2, <2>2, <2>3, <2>4 DEF Created
  <2>6. \A i \in Indexes : ~Live(retired[i])
    BY <1>3, <1>6 DEF RefusedByLive
  <2>7. /\ DOMAIN requests' = 1 .. Len(retired) + 1
        /\ \A i \in 1 .. Len(retired) : requests'[i] = retired[i]
        /\ Len(retired) \in Nat /\ DOMAIN requests = 1 .. Len(retired)
    BY <1>1, <2>2, <2>3, <2>4, AppendProperties, LenProperties
  <2>8. OneLiveRequest'
    BY <2>6, <2>7 DEF OneLiveRequest, Indexes, Live
  <2>9. QED
    BY <2>5, <2>8
<1>7. QED
  BY <1>3, <1>4, <1>5, <1>6 DEF Create, ask

\* What a step does to the requests.
LEMMA RequestsStep ==
  ASSUME RefreshInv, [Next]_vars
  PROVE  /\ Rewritten(requests, requests', freshness') \/ Created(requests, requests', freshness')
         /\ OneLiveRequest'
<1>1. requests \in Seq(Rows) /\ TypeOK /\ OneLiveRequest
  BY DEF RefreshInv, TypeOK
<1>2. ASSUME requests' = requests
      PROVE  Rewritten(requests, requests', freshness') /\ OneLiveRequest'
  BY <1>1, <1>2, NothingRewrites, OneLiveKept
<1>3. ASSUME requests' = Retire(requests, now)
      PROVE  Rewritten(requests, requests', freshness') /\ OneLiveRequest'
  BY <1>1, <1>3, RetireRewrites, OneLiveKept DEF Rewritten
<1>4. ASSUME NEW k \in Indexes, requests' = Started(k), ~LiveElsewhere(k)
      PROVE  Rewritten(requests, requests', freshness') /\ OneLiveRequest'
  BY <1>1, <1>4, StartedRewrites, OneLiveStarted DEF Rewritten
<1>5. ASSUME requests' = [i \in Indexes |-> Served(requests[i], freshness')]
      PROVE  Rewritten(requests, requests', freshness') /\ OneLiveRequest'
  BY <1>1, <1>5, ServedRewrites, OneLiveKept DEF Rewritten, Indexes
<1>6. CASE Tick \/ StartFound \/ SessionDone \/ ReadThrew \/ FailFound \/ UNCHANGED vars
  BY <1>2, <1>6 DEF Tick, StartFound, SessionDone, ReadThrew, FailFound, vars
<1>7. CASE Sweep
  BY <1>3, <1>7 DEF Sweep
<1>8. ASSUME NEW u \in Users, Ask(u) \/ Create(u)
      PROVE  /\ \/ Rewritten(requests, requests', freshness')
                \/ Created(requests, requests', freshness')
             /\ OneLiveRequest'
  BY <1>3, <1>8, CreateRequests DEF Ask
<1>9. ASSUME NEW d \in Devices, ReportScope(d) \/ ReportWrite(d) \/ Upload(d)
      PROVE  Rewritten(requests, requests', freshness') /\ OneLiveRequest'
  <2>1. CASE ReportScope(d)
    BY <1>2, <2>1 DEF ReportScope
  <2>2. CASE ReportWrite(d)
    <3>1. reports[d] \in Indexes
      BY <1>1, <2>2, LenProperties DEF ReportWrite, TypeOK, Indexes
    <3>2. QED
      BY <1>2, <1>4, <2>2, <3>1 DEF ReportWrite
  <2>3. CASE Upload(d)
    BY <1>5, <2>3 DEF Upload, Store
  <2>4. QED
    BY <1>9, <2>1, <2>2, <2>3
<1>10. CASE StartWrite
  <2>1. Job.request \in Indexes
    BY <1>1, <1>10 DEF StartWrite, At, Job, TypeOK, Jobs
  <2>2. QED
    BY <1>2, <1>4, <1>10, <2>1 DEF StartWrite
<1>11. CASE ServerStore
  BY <1>5, <1>11 DEF ServerStore, Store
<1>12. CASE FailWrite
  <2>1. Job.request \in Indexes
    BY <1>1, <1>12 DEF FailWrite, At, Job, TypeOK, Jobs
  <2>2. requests' = [requests EXCEPT ![Job.request].state = "failed",
                                     ![Job.request].error = "READ_FAILED"]
    BY <1>12 DEF FailWrite
  <2>3. /\ Rewritten(requests, requests', freshness')
        /\ \A i \in Indexes : Live(requests'[i]) => Live(requests[i])
    BY <1>1, <2>1, <2>2, FailedRewrites
  <2>4. QED
    BY <1>1, <2>3, OneLiveKept DEF Rewritten, Indexes
<1>13. QED
  BY <1>6, <1>7, <1>8, <1>9, <1>10, <1>11, <1>12 DEF Next

\* Rows are never deleted.
LEMMA RequestsStay ==
  ASSUME RefreshInv, [Next]_vars
  PROVE  /\ requests' \in Seq(Rows) /\ Len(requests) \in Nat
         /\ Len(requests') \in {Len(requests), Len(requests) + 1}
         /\ Indexes = 1 .. Len(requests) /\ Indexes' = 1 .. Len(requests')
         /\ Indexes \subseteq Indexes'
<1>1. requests \in Seq(Rows)
  BY DEF RefreshInv, TypeOK
<1>2. Len(requests) \in Nat /\ DOMAIN requests = 1 .. Len(requests)
  BY <1>1, LenProperties
<1>3. CASE Rewritten(requests, requests', freshness')
  BY <1>2, <1>3 DEF Rewritten, Indexes
<1>4. CASE Created(requests, requests', freshness')
  <2>1. PICK kept \in Seq(Rows), r \in Rows :
          Rewritten(requests, kept, freshness') /\ requests' = Append(kept, r)
    BY <1>4 DEF Created
  <2>2. Len(kept) = Len(requests)
    BY <2>1 DEF Rewritten
  <2>3. requests' \in Seq(Rows) /\ Len(requests') = Len(requests) + 1
    BY <2>1, <2>2, AppendProperties
  <2>4. DOMAIN requests' = 1 .. Len(requests) + 1
    BY <2>3, LenProperties
  <2>5. QED
    BY <1>2, <2>3, <2>4 DEF Indexes
<1>5. QED
  BY <1>3, <1>4, RequestsStep

\* What a step does to the freshness: a capture advances it.
LEMMA FreshnessStep ==
  ASSUME RefreshInv, [Next]_vars
  PROVE  /\ freshness' \in [Components \union Families -> Times]
         /\ \A c \in Components : freshness[c] <= freshness'[c]
         /\ FamiliesFollowTheirParts'
<1>1. /\ freshness \in [Components \union Families -> Times]
      /\ \A c \in Components : freshness[c] \in Nat
  BY DEF RefreshInv, TypeOK, Times
<1>2. CASE freshness' = freshness
  BY <1>1, <1>2 DEF RefreshInv, FamiliesFollowTheirParts
<1>3. ASSUME NEW part \in Components, NEW at \in 1 .. now, Store(part, at)
      PROVE  /\ freshness' \in [Components \union Families -> Times]
             /\ \A c \in Components : freshness[c] <= freshness'[c]
             /\ FamiliesFollowTheirParts'
  <2>1. at \in Times
    BY RefreshAssumption DEF RefreshInv, TypeOK, Times
  <2>2. freshness' = Advance(freshness, part, at)
    BY <1>3 DEF Store
  <2>3. QED
    BY <2>1, <2>2, AdvanceForward DEF RefreshInv, FamiliesFollowTheirParts
<1>4. ASSUME NEW d \in Devices, Upload(d)
      PROVE  \E part \in Components, at \in 1 .. now : Store(part, at)
  BY <1>4 DEF Upload
<1>5. CASE ServerStore
  <2>1. \E part \in Components, at \in 1 .. now : Store(part, at)
    BY <1>5, Parts DEF ServerStore
  <2>2. QED
    BY <1>3, <2>1
<1>6. CASE ~ServerStore /\ \A d \in Devices : ~Upload(d)
  BY <1>2, <1>6 DEF Next, Tick, Sweep, Ask, Create, ReportScope, ReportWrite, StartFound,
        StartWrite, SessionDone, ReadThrew, FailFound, FailWrite, vars
<1>7. QED
  BY <1>3, <1>4, <1>5, <1>6

\* A dispatch queues jobs of one request.
LEMMA DispatchTyped ==
  ASSUME NEW ask, NEW k, NEW queue \in Dispatched(ask, k), NEW rows, k \in rows,
         waiting \subseteq [path : ServerPaths, request : rows, tries : 0 .. MaxTries]
  PROVE  queue \subseteq [path : ServerPaths, request : rows, tries : 0 .. MaxTries]
<1> DEFINE J == [path : ServerPaths, request : rows, tries : 0 .. MaxTries]
           paths == {p \in ServerPaths : p = "server-direct" => "core" \in ask.stale}
           added == {waiting \union {[path |-> p, request |-> k, tries |-> 0]} : p \in paths}
<1>1. 0 \in 0 .. MaxTries
  BY RefreshAssumption
<1>2. \A p \in ServerPaths : [path |-> p, request |-> k, tries |-> 0] \in J
  BY <1>1
<1>3. ASSUME NEW w \in added PROVE w \subseteq J
  <2>1. PICK p \in paths : w = waiting \union {[path |-> p, request |-> k, tries |-> 0]}
    OBVIOUS
  <2>2. p \in ServerPaths
    OBVIOUS
  <2> HIDE DEF J, paths
  <2>3. QED
    BY <1>2, <2>1, <2>2 DEF J
<1>4. queue = waiting \/ queue \in added
  BY DEF Dispatched
<1> HIDE DEF added
<1>5. QED
  BY <1>3, <1>4

\* What a step does to the queue.
LEMMA QueueStep ==
  ASSUME RefreshInv, [Next]_vars
  PROVE  waiting' \subseteq Jobs'
<1>1. /\ Indexes \subseteq Indexes' /\ Indexes = 1 .. Len(requests) /\ Len(requests) \in Nat
      /\ requests \in Seq(Rows)
  BY RequestsStay DEF RefreshInv, TypeOK
<1>2. Jobs \subseteq Jobs' /\ waiting \subseteq Jobs /\ waiting \subseteq Jobs'
  BY <1>1 DEF Jobs, RefreshInv, TypeOK
<1>3. CASE waiting' \subseteq waiting
  BY <1>2, <1>3
<1>4. ASSUME NEW u \in Users, Create(u) PROVE waiting' \subseteq Jobs'
  <2> DEFINE ask == asking[u]
  <2>1. ASSUME NEW k \in Indexes', waiting' \in Dispatched(ask, k)
        PROVE  waiting' \subseteq Jobs'
    <3>1. waiting \subseteq [path : ServerPaths, request : Indexes', tries : 0 .. MaxTries]
      BY <1>2 DEF Jobs
    <3> HIDE DEF ask
    <3>2. waiting' \subseteq [path : ServerPaths, request : Indexes', tries : 0 .. MaxTries]
      BY <2>1, <3>1, DispatchTyped
    <3>3. QED
      BY <3>2 DEF Jobs
  <2>2. CASE \E i \in Existing(ask) : waiting' \in Dispatched(ask, i)
    <3>1. PICK i \in Existing(ask) : waiting' \in Dispatched(ask, i)
      BY <2>2
    <3>2. i \in Indexes'
      BY <1>1 DEF Existing
    <3>3. QED
      BY <2>1, <3>1, <3>2
  <2>3. CASE waiting' = waiting
    BY <1>3, <2>3
  <2>4. ASSUME NEW r, requests' = Append(RetireFirst(requests, ask.at), r),
               waiting' \in Dispatched(ask, Len(requests) + 1)
        PROVE  waiting' \subseteq Jobs'
    <3>1. RetireFirst(requests, ask.at) \in Seq(Rows)
          /\ Len(RetireFirst(requests, ask.at)) = Len(requests)
      BY <1>1, RetireRewrites DEF RetireFirst, Rewritten
    <3>2. Len(requests') = Len(requests) + 1
      BY <2>4, <3>1
    <3>3. Len(requests) + 1 \in Indexes'
      BY <1>1, <3>2, RequestsStay
    <3>4. QED
      BY <2>1, <2>4, <3>3
  <2>5. \/ \E i \in Existing(ask) : waiting' \in Dispatched(ask, i)
        \/ waiting' = waiting
        \/ \E r : /\ requests' = Append(RetireFirst(requests, ask.at), r)
                  /\ waiting' \in Dispatched(ask, Len(requests) + 1)
    <3> HIDE DEF ask
    <3>1. /\ asking[u] = ask
          /\ Create(u)
      BY <1>4 DEF ask
    <3>2. QED
      BY <3>1 DEF Create
  <2>6. QED
    BY <2>2, <2>3, <2>4, <2>5
<1>5. ASSUME Thrown, running # None PROVE waiting' \subseteq Jobs'
  <2>1. Job \in Jobs
    BY <1>5 DEF RefreshInv, TypeOK, Job
  <2>2. Job.tries < MaxTries => [Job EXCEPT !.tries = @ + 1] \in Jobs
    BY <2>1, RefreshAssumption DEF Jobs
  <2>3. QED
    BY <1>2, <1>5, <2>2 DEF Thrown
<1>6. CASE StartWrite
  BY <1>3, <1>5, <1>6 DEF StartWrite, At
<1>7. CASE ReadThrew
  BY <1>5, <1>7 DEF ReadThrew, At
<1>8. CASE ~StartWrite /\ ~ReadThrew /\ \A u \in Users : ~Create(u)
  BY <1>3, <1>8 DEF Next, Tick, Sweep, Ask, ReportScope, ReportWrite, Upload, StartFound,
        ServerStore, SessionDone, FailFound, FailWrite, vars
<1>9. QED
  BY <1>4, <1>6, <1>7, <1>8

\* What a step does to the job at hand.
LEMMA JobStep ==
  ASSUME RefreshInv, [Next]_vars
  PROVE  running' \in {None} \union [job : Jobs', step : {"starting", "reading", "failing"}]
<1> DEFINE Steps == {"starting", "reading", "failing"}
<1>1. Jobs \subseteq Jobs'
  BY RequestsStay DEF Jobs
<1>2. running \in {None} \union [job : Jobs, step : Steps] /\ waiting \subseteq Jobs
  BY DEF RefreshInv, TypeOK
<1>3. [job : Jobs, step : Steps] \subseteq [job : Jobs', step : Steps]
  BY <1>1
<1>4. CASE running' = running \/ running' = None
  BY <1>2, <1>3, <1>4
<1>5. ASSUME running # None, NEW step \in Steps, running' = Move(step)
      PROVE  running' \in [job : Jobs', step : Steps]
  BY <1>2, <1>3, <1>5 DEF Move
<1>6. CASE StartFound
  <2>1. PICK job \in waiting :
          running' = [job |-> job,
                      step |-> IF Live(requests[job.request]) THEN "starting" ELSE "reading"]
    BY <1>6 DEF StartFound
  <2>2. job \in Jobs'
    BY <1>1, <1>2
  <2>3. QED
    BY <2>1, <2>2
<1>7. CASE StartWrite
  BY <1>4, <1>5, <1>7 DEF StartWrite, Thrown, At
<1>8. CASE FailFound
  BY <1>4, <1>5, <1>8 DEF FailFound, At
<1>9. CASE ~StartFound /\ ~StartWrite /\ ~FailFound
  BY <1>4, <1>9 DEF Next, Tick, Sweep, Ask, Create, ReportScope, ReportWrite, Upload,
        ServerStore, SessionDone, ReadThrew, Thrown, FailWrite, vars
<1>10. QED
  BY <1>4, <1>6, <1>7, <1>8, <1>9

\* What a step does to the clock, the pages and the reports.
LEMMA OtherTypesStep ==
  ASSUME RefreshInv, [Next]_vars
  PROVE  /\ now' \in Times
         /\ asking' \in [Users -> {None} \union [at : Times, stale : SUBSET Families]]
         /\ reports' \in [Devices -> 0 .. Len(requests')]
<1>1. /\ now \in Times /\ reports \in [Devices -> 0 .. Len(requests)]
      /\ asking \in [Users -> {None} \union [at : Times, stale : SUBSET Families]]
  BY DEF RefreshInv, TypeOK
<1>2. now' \in Times
  <2>1. now' = now \/ (now < MaxTime /\ now' = now + 1)
    BY DEF Next, Tick, Sweep, Ask, Create, ReportScope, ReportWrite, Upload, StartFound,
           StartWrite, ServerStore, SessionDone, ReadThrew, FailFound, FailWrite, vars
  <2>2. QED
    BY <1>1, <2>1, RefreshAssumption DEF Times
<1>3. asking' \in [Users -> {None} \union [at : Times, stale : SUBSET Families]]
  <2>1. ASSUME NEW u \in Users, Ask(u)
        PROVE  asking' = [asking EXCEPT ![u] =
                            [at |-> now, stale |-> StaleFamilies(freshness, now)]]
    BY <2>1 DEF Ask
  <2>2. StaleFamilies(freshness, now) \subseteq Families
    BY DEF StaleFamilies
  <2>3. ASSUME NEW u \in Users, Create(u) PROVE asking' = [asking EXCEPT ![u] = None]
    BY <2>3 DEF Create
  <2>4. ASSUME NEW u \in Users, Ask(u) \/ Create(u)
        PROVE  asking' \in [Users -> {None} \union [at : Times, stale : SUBSET Families]]
    BY <1>1, <2>1, <2>2, <2>3, <2>4
  <2>5. CASE \A u \in Users : ~Ask(u) /\ ~Create(u)
    BY <1>1, <2>5 DEF Next, Tick, Sweep, ReportScope, ReportWrite, Upload, StartFound,
           StartWrite, ServerStore, SessionDone, ReadThrew, FailFound, FailWrite, vars
  <2>6. QED
    BY <2>4, <2>5
<1>4. reports' \in [Devices -> 0 .. Len(requests')]
  <2>1. /\ 0 .. Len(requests) \subseteq 0 .. Len(requests') /\ 0 \in 0 .. Len(requests')
        /\ Indexes \subseteq 0 .. Len(requests')
    BY RequestsStay
  <2>2. ASSUME NEW d \in Devices, NEW k \in 0 .. Len(requests'),
               reports' = [reports EXCEPT ![d] = k]
        PROVE  reports' \in [Devices -> 0 .. Len(requests')]
    BY <1>1, <2>1, <2>2
  <2>3. ASSUME NEW d \in Devices, ReportScope(d)
        PROVE  \E k \in 0 .. Len(requests') : reports' = [reports EXCEPT ![d] = k]
    BY <2>1, <2>3 DEF ReportScope
  <2>4. ASSUME NEW d \in Devices, ReportWrite(d)
        PROVE  reports' = [reports EXCEPT ![d] = 0]
    BY <2>4 DEF ReportWrite
  <2>5. CASE \A d \in Devices : ~ReportScope(d) /\ ~ReportWrite(d)
    <3>1. reports' = reports
      BY <2>5 DEF Next, Tick, Sweep, Ask, Create, Upload, StartFound,
           StartWrite, ServerStore, SessionDone, ReadThrew, FailFound, FailWrite, vars
    <3>2. QED
      BY <1>1, <2>1, <3>1
  <2>6. QED
    BY <2>1, <2>2, <2>3, <2>4, <2>5
<1>5. QED
  BY <1>2, <1>3, <1>4

(***************************************************************************)
(* The invariant: the shape of the state, with the two facts above it      *)
(* without which neither the promise nor the live index can be read off.   *)
(***************************************************************************)

\* Nothing is captured, asked or queued at first.
LEMMA RefreshInvInit ==
  ASSUME Init
  PROVE  RefreshInv
<1>1. /\ requests \in Seq(Rows) /\ Len(requests) = 0 /\ Indexes = {}
  BY EmptySeq DEF Init, Indexes
<1>2. /\ now \in Times /\ freshness \in [Components \union Families -> Times]
      /\ asking \in [Users -> {None} \union [at : Times, stale : SUBSET Families]]
  BY RefreshAssumption DEF Init, Times
<1>3. /\ reports \in [Devices -> 0 .. Len(requests)]
      /\ waiting \subseteq Jobs
      /\ running \in {None} \union [job : Jobs, step : {"starting", "reading", "failing"}]
  BY <1>1 DEF Init
<1>4. FamiliesFollowTheirParts
  <2>1. \A c \in Components \union Families : freshness[c] = 0
    BY DEF Init
  <2>2. QED
    BY <2>1, Parts DEF FamiliesFollowTheirParts
<1>5. OneLiveRequest
  BY <1>1 DEF OneLiveRequest
<1>6. QED
  BY <1>1, <1>2, <1>3, <1>4, <1>5 DEF RefreshInv, TypeOK

\* Every step keeps it.
LEMMA RefreshInvStep ==
  ASSUME RefreshInv, [Next]_vars
  PROVE  RefreshInv'
<1>1. TypeOK'
  BY RequestsStay, FreshnessStep, QueueStep, JobStep, OtherTypesStep DEF TypeOK
<1>2. FamiliesFollowTheirParts' /\ OneLiveRequest'
  BY FreshnessStep, RequestsStep
<1>3. QED
  BY <1>1, <1>2 DEF RefreshInv

\* Every reachable state has the shape, the order of freshness and one live
\* request at most.
THEOREM RefreshInvariant == Spec => []RefreshInv
BY RefreshInvInit, RefreshInvStep, PTL DEF Spec

\* Whatever is queued, running or to be reported is a request that was created.
THEOREM RefreshTypeCorrect == Spec => []TypeOK
<1>1. RefreshInv => TypeOK
  BY DEF RefreshInv
<1>2. QED
  BY <1>1, RefreshInvariant, PTL

\* Late reports and background reads that start a request by its id never make
\* two requests of a league season live at once.
THEOREM OneLiveAlways == Spec => []OneLiveRequest
<1>1. RefreshInv => OneLiveRequest
  BY DEF RefreshInv
<1>2. QED
  BY <1>1, RefreshInvariant, PTL

\* A request that a create leaves live once it has retired the expired ones has
\* not expired: the create reuses it, and the live index refuses nothing.
THEOREM NeverRefused == Spec => []NeverRefusedForALiveRequest
<1>1. ASSUME RefreshInv PROVE NeverRefusedForALiveRequest
  <2> SUFFICES ASSUME NEW u \in Users, asking[u] # None, RefusedByLive(asking[u])
               PROVE  FALSE
    BY DEF NeverRefusedForALiveRequest
  <2> DEFINE ask == asking[u]
             retired == Retire(requests, ask.at)
  <2>1. requests \in Seq(Rows) /\ ask.at \in Nat
    BY <1>1 DEF RefreshInv, TypeOK, Times
  <2>2. PICK i \in Indexes : Live(retired[i])
    BY DEF RefusedByLive, RetireFirst
  <2>3. /\ retired[i] = IF Live(requests[i]) /\ requests[i].expires <= ask.at
                        THEN [requests[i] EXCEPT !.state = "cancelled", !.error = "EXPIRED"]
                        ELSE requests[i]
        /\ requests[i] \in Rows
    BY <2>1, ElementOfSeq, LenProperties DEF Retire, Indexes
  <2>4. retired[i] = requests[i] /\ Live(requests[i])
    BY <2>1, <2>2, RetireRewrites DEF Indexes
  <2>5. ~(requests[i].expires <= ask.at)
    <3>1. CASE requests[i].expires <= ask.at
      <4>1. retired[i].state = "cancelled"
        BY <2>3, <2>4, <3>1 DEF Rows
      <4> HIDE DEF retired
      <4>2. QED
        BY <2>2, <4>1 DEF Live
    <3>2. QED
      BY <3>1
  <2>6. requests[i].expires \in Nat
    BY <2>3, RefreshAssumption DEF Rows
  <2>7. requests[i].expires > ask.at
    BY <2>1, <2>5, <2>6
  <2>8. i \in Existing(ask)
    BY <2>2, <2>4, <2>7 DEF Existing, RetireFirst
  <2>9. QED
    BY <2>8 DEF RefusedByLive
<1>2. QED
  BY <1>1, RefreshInvariant, PTL

(***************************************************************************)
(* The promise                                                             *)
(***************************************************************************)

\* The time of the oldest part of a family.
Oldest(fresh, f) == CHOOSE at \in {fresh[part] : part \in PartsOf[f]} :
                      \A part \in PartsOf[f] : at <= fresh[part]

\* It is the time of one of them, and none is older.
LEMMA OldestPart ==
  ASSUME NEW fresh \in [Components \union Families -> Times], NEW f \in Families
  PROVE  /\ Oldest(fresh, f) \in Nat
         /\ \A part \in PartsOf[f] : Oldest(fresh, f) <= fresh[part]
         /\ \E part \in PartsOf[f] : Oldest(fresh, f) = fresh[part]
<1> DEFINE times == {fresh[part] : part \in PartsOf[f]}
<1>1. \A c \in Components : fresh[c] \in Nat
  BY DEF Times
<1>2. PartsOf[f] = {"core"} \/ PartsOf[f] = {"available-free-agents", "available-waivers"}
  BY Parts
<1>3. \E at \in times : \A part \in PartsOf[f] : at <= fresh[part]
  <2>1. CASE PartsOf[f] = {"core"}
    <3>1. fresh["core"] \in Nat
      BY <1>1, Parts
    <3>2. QED
      BY <2>1, <3>1
  <2>2. CASE PartsOf[f] = {"available-free-agents", "available-waivers"}
    <3>1. fresh["available-free-agents"] \in Nat /\ fresh["available-waivers"] \in Nat
      BY <1>1, Parts
    <3>2. \/ fresh["available-free-agents"] <= fresh["available-waivers"]
          \/ fresh["available-waivers"] <= fresh["available-free-agents"]
      BY <3>1
    <3>3. /\ fresh["available-free-agents"] \in times
          /\ fresh["available-waivers"] \in times
      BY <2>2
    <3>4. QED
      BY <2>2, <3>1, <3>2, <3>3
  <2>3. QED
    BY <1>2, <2>1, <2>2
<1>4. Oldest(fresh, f) \in times /\ \A part \in PartsOf[f] : Oldest(fresh, f) <= fresh[part]
  BY <1>3 DEF Oldest
<1>5. QED
  BY <1>1, <1>4, Parts

\* Row by row: old rows move as promised, a new one is open.
LEMMA RowsMove ==
  ASSUME RefreshInv, [Next]_vars
  PROVE  /\ \A i \in Indexes : MovesTo(requests[i], requests'[i], freshness')
         /\ \A i \in Indexes' \ Indexes : OutcomeOf(requests'[i]) = "open"
<1>1. CASE Rewritten(requests, requests', freshness')
  BY <1>1 DEF Rewritten, Indexes
<1>2. CASE Created(requests, requests', freshness')
  <2>1. PICK kept \in Seq(Rows), r \in Rows :
          /\ Rewritten(requests, kept, freshness') /\ OutcomeOf(r) = "open"
          /\ requests' = Append(kept, r)
    BY <1>2, SMTT(30) DEF Created
  <2>2. /\ Len(kept) = Len(requests) /\ Indexes = 1 .. Len(kept) /\ Len(kept) \in Nat
        /\ \A i \in Indexes : MovesTo(requests[i], kept[i], freshness')
    BY <2>1, RequestsStay DEF Rewritten, Indexes
  <2>3. /\ requests' \in Seq(Rows) /\ Len(requests') = Len(kept) + 1
        /\ \A i \in 1 .. Len(kept) : requests'[i] = kept[i]
        /\ requests'[Len(kept) + 1] = r
    BY <2>1, AppendProperties
  <2>4. Indexes' = 1 .. Len(kept) + 1
    BY <2>3, LenProperties DEF Indexes
  <2>5. Indexes' \ Indexes = {Len(kept) + 1}
    BY <2>2, <2>4
  <2>6. QED
    BY <2>1, <2>2, <2>3, <2>5
<1>3. QED
  BY <1>1, <1>2, RequestsStep

\* The intent behind a row, and the intents of the table.
IntentOf(r) == [since |-> r.minimumCapture, needs |-> r.required, outcome |-> OutcomeOf(r)]

LEMMA IntentsOfRows ==
  ASSUME NEW rows \in Seq(Rows), NEW all, all = [i \in DOMAIN rows |-> IntentOf(rows[i])]
  PROVE  Len(all) = Len(rows) /\ DOMAIN all = DOMAIN rows
<1> DEFINE S == {IntentOf(rows[i]) : i \in DOMAIN rows}
<1>1. Len(rows) \in Nat /\ DOMAIN rows = 1 .. Len(rows)
  BY LenProperties
<1>2. all \in [1 .. Len(rows) -> S]
  BY <1>1
<1> HIDE DEF S
<1>3. all \in Seq(S)
  BY <1>1, <1>2, SeqDef
<1>4. QED
  BY <1>1, <1>2, <1>3, LenProperties

\* The row behind a request keeps the promise through every race of reads,
\* reports, captures and expiry: it holds a result only when every part of
\* every family it needs was captured in time, and keeps it.
THEOREM RefreshKeepsThePromise == Spec => KeepsThePromise
<1> DEFINE captured == [f \in Families |-> Captured(f)]
           intents == [i \in Indexes |-> [since |-> requests[i].minimumCapture,
                                          needs |-> requests[i].required,
                                          outcome |-> OutcomeOf(requests[i])]]
<1>1. ASSUME Init PROVE Promise!Init
  <2>1. freshness \in [Components \union Families -> Times] /\ requests = <<>>
    BY <1>1, RefreshInvInit DEF RefreshInv, TypeOK, Init
  <2>2. \A f \in Families : Captured(f) = 0
    <3> SUFFICES ASSUME NEW f \in Families PROVE Captured(f) = 0
      OBVIOUS
    <3>1. Captured(f) = Oldest(freshness, f)
      BY DEF Captured, Oldest
    <3>2. PICK part \in PartsOf[f] : Oldest(freshness, f) = freshness[part]
      BY <2>1, OldestPart
    <3>3. part \in Components
      BY Parts
    <3>4. QED
      BY <1>1, <3>1, <3>2, <3>3 DEF Init
  <2>3. captured = [f \in Families |-> 0]
    BY <2>2
  <2>4. intents = <<>>
    BY <2>1 DEF Indexes
  <2>5. QED
    BY <2>3, <2>4 DEF Promise!Init
<1>2. ASSUME RefreshInv, [Next]_vars PROVE Promise!Next
  <2>1. /\ requests \in Seq(Rows)
        /\ freshness \in [Components \union Families -> Times]
        /\ freshness' \in [Components \union Families -> Times]
        /\ requests' \in Seq(Rows)
    BY <1>2, FreshnessStep, RequestsStay DEF RefreshInv, TypeOK
  <2>2. \A f \in Families : /\ Captured(f) = Oldest(freshness, f)
                            /\ Captured(f)' = Oldest(freshness', f)
    BY DEF Captured, Oldest
  <2>3. \A f \in Families : captured[f] = Oldest(freshness, f) /\ captured'[f] = Oldest(freshness', f)
    BY <2>2
  <2>4. /\ intents = [i \in DOMAIN requests |-> IntentOf(requests[i])]
        /\ intents' = [i \in DOMAIN requests' |-> IntentOf(requests'[i])]
    BY DEF IntentOf, Indexes, OutcomeOf
  <2> HIDE DEF captured, intents
  <2>5. \A f \in Families : captured'[f] >= captured[f]
    <3> SUFFICES ASSUME NEW f \in Families PROVE captured'[f] >= captured[f]
      OBVIOUS
    <3>1. PICK part \in PartsOf[f] : Oldest(freshness', f) = freshness'[part]
      BY <2>1, OldestPart
    <3>2. Oldest(freshness, f) <= freshness[part] /\ Oldest(freshness, f) \in Nat
      BY <2>1, OldestPart
    <3>3. /\ freshness[part] <= freshness'[part]
          /\ freshness[part] \in Nat /\ freshness'[part] \in Nat
      BY <1>2, <2>1, FreshnessStep, Parts DEF Times
    <3>4. QED
      BY <2>3, <3>1, <3>2, <3>3
  <2>6. /\ Len(intents) = Len(requests) /\ DOMAIN intents = Indexes
        /\ Len(intents') = Len(requests') /\ DOMAIN intents' = Indexes'
    BY <2>1, <2>4, IntentsOfRows DEF Indexes
  <2>7. ASSUME NEW i \in Indexes, Ready(requests[i], freshness')
        PROVE  \A f \in requests[i].required : captured'[f] >= requests[i].minimumCapture
    <3> SUFFICES ASSUME NEW f \in requests[i].required
                 PROVE  captured'[f] >= requests[i].minimumCapture
      OBVIOUS
    <3>1. f \in Families /\ requests[i].minimumCapture \in Nat
      <4>1. requests[i] \in Rows
        BY <2>1, LenProperties DEF Indexes
      <4>2. QED
        BY <4>1 DEF Rows, Times
    <3>2. PICK part \in PartsOf[f] : Oldest(freshness', f) = freshness'[part]
      BY <2>1, <3>1, OldestPart
    <3>3. freshness'[f] <= freshness'[part]
      BY <1>2, <3>1, <3>2, FreshnessStep DEF FamiliesFollowTheirParts
    <3>4. freshness'[f] \in Nat /\ freshness'[part] \in Nat
      BY <2>1, <3>1, Parts DEF Times
    <3>5. freshness'[f] >= requests[i].minimumCapture
      BY <2>7 DEF Ready
    <3>6. QED
      BY <2>3, <3>1, <3>2, <3>3, <3>4, <3>5
  <2>8. ASSUME NEW i \in Indexes PROVE Promise!MayBecome(intents[i], intents'[i])
    <3>1. MovesTo(requests[i], requests'[i], freshness') /\ i \in Indexes'
      BY <1>2, RowsMove, RequestsStay
    <3>2. intents[i] = IntentOf(requests[i]) /\ intents'[i] = IntentOf(requests'[i])
      BY <2>4, <3>1 DEF Indexes
    <3>3. /\ intents[i].since = requests[i].minimumCapture
          /\ intents[i].needs = requests[i].required
          /\ intents[i].outcome = OutcomeOf(requests[i])
          /\ intents'[i].since = requests'[i].minimumCapture
          /\ intents'[i].needs = requests'[i].required
          /\ intents'[i].outcome = OutcomeOf(requests'[i])
      BY <3>2 DEF IntentOf
    <3>4. Ready(requests[i], freshness') => Promise!Satisfied(intents[i], captured')
      BY <2>7, <3>3 DEF Promise!Satisfied
    <3>5. QED
      BY <3>1, <3>3, <3>4
      DEF MovesTo, Promise!MayBecome, Promise!GivenUp, captured
  <2>9. ASSUME NEW i \in Indexes' \ Indexes PROVE intents'[i].outcome = "open"
    <3>1. OutcomeOf(requests'[i]) = "open"
      BY <1>2, RowsMove
    <3>2. intents'[i] = IntentOf(requests'[i])
      BY <2>4 DEF Indexes
    <3>3. QED
      BY <3>1, <3>2 DEF IntentOf
  <2>10. Len(intents') \in {Len(intents), Len(intents) + 1}
    BY <1>2, <2>6, RequestsStay
  <2>11. QED
    BY <2>5, <2>6, <2>8, <2>9, <2>10 DEF Promise!Next, captured, intents
<1>3. QED
  BY <1>1, <1>2, RefreshInvariant, PTL DEF Spec, KeepsThePromise, Promise!Spec
=============================================================================
