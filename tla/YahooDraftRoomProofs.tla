------------------------- MODULE YahooDraftRoomProofs -------------------------
(***************************************************************************)
(* A draft room assisted by Yahoo, with any number of polls and            *)
(* commissioners in any order: what the reconciler compares is the draft   *)
(* the engine replays, the ledger stays legal and append-only, what a      *)
(* commissioner took back stays back, and a verified room is Yahoo's.      *)
(***************************************************************************)
EXTENDS YahooDraftRoom, DraftReducerProofs

-----------------------------------------------------------------------------
(***************************************************************************)
(* What the reconciler compares is what the engine replays.                *)
(***************************************************************************)

\* No revert stands on a revert: the reconciler's active events, which ignore who
\* is reverted by whom, are the engine's.
LEMMA StandingIsActive ==
  ASSUME NEW S, NEW events \in Seq(S), WellFormed(events), RevertsStand(events)
  PROVE  Standing(events) = ActiveActions(events)
<1>1. ASSUME NEW i \in DOMAIN events
      PROVE  IsActive(events)[i] <=> events[i].id \notin Reverted(events)
  BY <1>1, ActiveIsNotReverted DEF Reverted
<1>2. QED
  BY <1>1 DEF Standing, ActiveActions

\* The engine, fed with the active events alone as the reconciler feeds it, ends in
\* the room of the whole log.
THEOREM ReconcilerSeesTheRoom ==
  ASSUME NEW S, NEW events \in Seq(S), WellFormed(events), RevertsStand(events)
  PROVE  Reduce(Active(events)) = Reduce(events)
<1> DEFINE P == Standing(events)
<1>1. PICK rooms : FoldsTo(events, rooms)
  BY FoldExists
<1>2. PICK kept : KeptBy(events, P, kept) /\ EventsAt(events, P) = kept[Len(events)]
  BY EventsAtIsLast
<1>3. /\ P = ActiveActions(events) /\ Len(events) \in Nat /\ DOMAIN events = 1 .. Len(events)
      /\ \A i \in P : i \in DOMAIN events /\ ~IsRevert(events[i])
  BY StandingIsActive DEF Standing
<1> HIDE DEF P
<1> DEFINE Agrees(n) == /\ kept[n] \in Seq(S)
                        /\ Reduce(kept[n]) = rooms[n]
           Good == {n \in 0 .. Len(events) : Agrees(n)}
<1>4. 0 \in Good
  <2>1. kept[0] = <<>> /\ rooms[0] = EmptyRoom
    BY <1>1, <1>2, <1>3 DEF KeptBy, FoldsTo
  <2>2. Agrees(0)
    BY <2>1, ReduceOfNothing
  <2> HIDE DEF Agrees
  <2>3. QED
    BY <1>3, <2>2
<1>5. ASSUME NEW n \in 0 .. Len(events) - 1, n \in Good PROVE n + 1 \in Good
  <2>1. /\ n + 1 \in 0 .. Len(events) /\ n + 1 # 0 /\ (n + 1) - 1 = n
        /\ n + 1 \in DOMAIN events /\ events[n + 1] \in S
    BY <1>3, <1>5
  <2>2. kept[n + 1] = IF n + 1 \in P THEN Append(kept[n], events[n + 1]) ELSE kept[n]
    BY <1>2, <2>1 DEF KeptBy
  <2>3. rooms[n + 1] = After(events, rooms[n], n + 1)
    BY <1>1, <2>1 DEF FoldsTo
  <2>4. Agrees(n)
    BY <1>5
  <2>5. Agrees(n + 1)
    <3>1. CASE n + 1 \in P
      <4> DEFINE before == kept[n]
                 e == events[n + 1]
                 batch == <<e>>
      <4>1. before \in Seq(S) /\ e \in S /\ batch \in Seq(S) /\ Reduce(before) = rooms[n]
        BY <2>1, <2>4
      <4>2. ~IsRevert(e) /\ n + 1 \in ActiveActions(events)
        BY <1>3, <3>1
      <4>3. Append(before, e) = before \o batch
        <5> HIDE DEF before, e
        <5>1. QED
          BY <4>1
      <4>4. Len(batch) = 1 /\ DOMAIN batch = {1} /\ batch[1] = e
        OBVIOUS
      <4> HIDE DEF before, e, batch
      <4>5. before \o batch \in Seq(S)
        BY <4>1, ConcatProperties
      <4>6. PICK longer : FoldsTo(before \o batch, longer)
        BY <4>5, FoldExists
      <4>7. \A i \in DOMAIN batch : ~IsRevert(batch[i])
        BY <4>2, <4>4
      <4>8. /\ longer[Len(before)] = Reduce(before)
            /\ Reduce(before \o batch) = longer[Len(before) + 1]
            /\ longer[Len(before) + 1] = Step(longer[Len(before) + 1 - 1], e)
        <5>1. /\ longer[Len(before)] = Reduce(before)
              /\ Reduce(before \o batch) = longer[Len(before) + Len(batch)]
              /\ \A k \in 1 .. Len(batch) :
                   longer[Len(before) + k] = Step(longer[Len(before) + k - 1], batch[k])
          BY <4>1, <4>6, <4>7, FoldOfAppend
        <5>2. 1 \in 1 .. Len(batch)
          BY <4>4
        <5>3. QED
          BY <4>4, <5>1, <5>2
      <4>9. Len(before) + 1 - 1 = Len(before)
        BY <4>1
      <4>10. Reduce(before \o batch) = Step(rooms[n], e)
        BY <4>1, <4>8, <4>9
      <4>11. rooms[n + 1] = Step(rooms[n], e)
        BY <2>3, <4>2 DEF After, e
      <4>12. kept[n + 1] = before \o batch
        BY <2>2, <3>1, <4>3 DEF before, e
      <4>13. QED
        BY <4>5, <4>10, <4>11, <4>12
    <3>2. CASE n + 1 \notin P
      <4>1. kept[n + 1] = kept[n] /\ rooms[n + 1] = rooms[n]
        BY <1>3, <2>2, <2>3, <3>2 DEF After
      <4>2. QED
        BY <2>4, <4>1
    <3>3. QED
      BY <3>1, <3>2
  <2> HIDE DEF Agrees
  <2>6. QED
    BY <2>1, <2>5
<1> HIDE DEF Good
<1>6. 0 .. Len(events) \subseteq Good
  BY <1>3, <1>4, <1>5, InductionOnNat
<1>7. Reduce(kept[Len(events)]) = rooms[Len(events)]
  BY <1>3, <1>6 DEF Good
<1>8. Active(events) = kept[Len(events)]
  BY <1>2 DEF Active, P
<1>9. QED
  BY <1>1, <1>7, <1>8, ReduceIsLastRoom

-----------------------------------------------------------------------------
(***************************************************************************)
(* A plan to append.                                                       *)
(***************************************************************************)

FromYahoo(e) ==
  /\ e \in Event /\ e.source = "yahoo" /\ e.type \in Acquisitions
  /\ e.id \in [pick : Nat, fact : Facts] /\ ~IsRevert(e)

\* What Yahoo reports becomes one acquisition per pick, which says the same.
LEMMA PicksBecomeEvents ==
  ASSUME NEW picks \in Seq(Facts)
  PROVE  /\ PickEvents(picks) \in Seq(Event) /\ Len(PickEvents(picks)) = Len(picks)
         /\ \A n \in 1 .. Len(picks) : /\ FromYahoo(PickEvents(picks)[n])
                                       /\ Fact(PickEvents(picks)[n]) = picks[n]
<1>1. DOMAIN picks = 1 .. Len(picks) /\ Len(picks) \in Nat
  OBVIOUS
<1>2. ASSUME NEW n \in 1 .. Len(picks)
      PROVE  FromYahoo(PickEvents(picks)[n]) /\ Fact(PickEvents(picks)[n]) = picks[n]
  <2> DEFINE e == PickEvents(picks)[n]
             type == IF Mode = "SNAKE" THEN "SNAKE_PLAYER_SELECTED" ELSE "AUCTION_PLAYER_SOLD"
             id == [pick |-> n, fact |-> picks[n]]
  <2>1. picks[n] \in Facts /\ n \in Nat
    BY <1>1, <1>2
  <2>2. e = [id |-> id, type |-> type, team |-> picks[n].team, player |-> picks[n].player,
             number |-> picks[n].number, source |-> "yahoo"]
    BY <1>1, <1>2 DEF PickEvents
  <2>3. id \in [pick : Nat, fact : Facts]
    BY <2>1
  <2>4. type \in Acquisitions /\ type # "DRAFT_EVENT_REVERTED"
    BY DEF Acquisitions
  <2>5. /\ picks[n].team \in Teams /\ picks[n].player \in Players /\ picks[n].number \in Nat
        /\ picks[n] = [team |-> picks[n].team, player |-> picks[n].player,
                       number |-> picks[n].number]
    BY <2>1 DEF Facts
  <2> HIDE DEF e, id, type
  <2>6. e \in Event
    BY <2>2, <2>3, <2>4, <2>5 DEF Event
  <2>7. FromYahoo(e)
    BY <2>2, <2>3, <2>4, <2>6 DEF FromYahoo, IsRevert
  <2>8. Fact(e) = picks[n]
    BY <2>2, <2>5 DEF Fact
  <2>9. QED
    BY <2>7, <2>8 DEF e
<1>3. DOMAIN PickEvents(picks) = 1 .. Len(picks)
  BY <1>1 DEF PickEvents
<1>4. ASSUME NEW n \in 1 .. Len(picks) PROVE PickEvents(picks)[n] \in Event
  BY <1>2, <1>4 DEF FromYahoo
<1>5. PickEvents(picks) = [n \in 1 .. Len(picks) |-> PickEvents(picks)[n]]
  BY <1>3 DEF PickEvents
<1> DEFINE es == PickEvents(picks)
<1> HIDE DEF es
<1>6. es \in Seq(Event) /\ Len(es) = Len(picks)
  <2>1. es = [n \in 1 .. Len(picks) |-> es[n]] /\ \A n \in 1 .. Len(picks) : es[n] \in Event
    BY <1>4, <1>5 DEF es
  <2>2. QED
    BY <1>1, <2>1
<1>7. QED
  BY <1>2, <1>6 DEF es

\* Only acquisitions say who went where.
LEMMA AcquiredIsFact ==
  ASSUME NEW e \in Event, e.type \in Acquisitions \union Keepers
  PROVE  Fact(e) \in Facts
BY DEF Event, Fact, Facts, Acquisitions, Keepers, SnakeTypes, AuctionTypes

Acquired(events) ==
  {i \in Standing(events) : events[i].type \in Acquisitions \union Keepers}

\* What the reconciler compares: the active events as facts, one for one.
LEMMA LedgerActionsTyped ==
  ASSUME NEW events \in Seq(Event)
  PROVE  /\ LedgerActions(events) \in Seq(Facts)
         /\ EventsAt(events, Acquired(events)) \in Seq(Event)
         /\ Len(LedgerActions(events)) = Len(EventsAt(events, Acquired(events)))
         /\ \A n \in 1 .. Len(LedgerActions(events)) :
              LedgerActions(events)[n] = Fact(EventsAt(events, Acquired(events))[n])
<1> DEFINE acquired == EventsAt(events, Acquired(events))
           actions == LedgerActions(events)
<1>1. /\ acquired \in Seq(Event)
      /\ \A n \in DOMAIN acquired : \E i \in Acquired(events) \intersect DOMAIN events :
           acquired[n] = events[i]
  BY EventsAtAreThose
<1>2. actions = [n \in DOMAIN acquired |-> Fact(acquired[n])]
  BY DEF LedgerActions, Acquired
<1> HIDE DEF acquired, actions
<1>3. DOMAIN acquired = 1 .. Len(acquired) /\ Len(acquired) \in Nat
  BY <1>1
<1>4. ASSUME NEW n \in DOMAIN acquired PROVE Fact(acquired[n]) \in Facts
  <2>1. acquired[n] \in Event /\ acquired[n].type \in Acquisitions \union Keepers
    BY <1>1, <1>4 DEF Acquired
  <2>2. QED
    BY <2>1, AcquiredIsFact
<1>5. actions \in Seq(Facts) /\ Len(actions) = Len(acquired)
  BY <1>2, <1>3, <1>4
<1>6. QED
  BY <1>1, <1>2, <1>3, <1>5 DEF acquired, actions

\* What a plan is: held, or the picks the ledger does not have yet, which the
\* engine accepts after the active events.
Wanted(events, board) ==
  SubSeq(PickEvents(board.picks), Len(LedgerActions(events)) + 1, Len(board.picks))

\* A plan is typed; one that appends does so on a ledger that begins Yahoo's
\* picks, holds no take-back, and replays to the end with what is appended.
LEMMA ReconcileKinds ==
  ASSUME NEW events \in Seq(Event), NEW board, board.picks \in Seq(Facts), NEW players,
         NEW plan, plan = Reconcile(events, board, players)
  PROVE  /\ plan \in Plans
         /\ plan.kind = "held" => plan.append = <<>> /\ plan.complete = FALSE
         /\ plan.kind = "append" =>
              /\ plan.append = Wanted(events, board)
              /\ ~HasReverted(events) /\ IsPrefix(LedgerActions(events), board.picks)
              /\ Legal(Active(events) \o plan.append)
<1> DEFINE append == Wanted(events, board)
<1>1. append \in Seq(Event)
  <2> DEFINE es == PickEvents(board.picks)
             m == Len(LedgerActions(events)) + 1
             n == Len(board.picks)
  <2>1. es \in Seq(Event) /\ Len(es) = n /\ n \in Nat /\ m \in Nat /\ m >= 1
    BY PicksBecomeEvents, LedgerActionsTyped
  <2> HIDE DEF es, m, n
  <2>2. \A i \in m .. n : es[i] \in Event
    BY <2>1
  <2>3. SubSeq(es, m, n) \in Seq(Event)
    BY <2>1, <2>2, SubSeqProperties
  <2>4. QED
    BY <2>3 DEF Wanted, es, m, n
<1>2. \/ plan = Held("mismatched") \/ plan = Held("pending")
      \/ /\ plan = PlanToAppend(events, append)
         /\ ~HasReverted(events) /\ IsPrefix(LedgerActions(events), board.picks)
         /\ Legal(Active(events) \o append)
  BY DEF Reconcile, Contradicts, Wanted
<1> HIDE DEF append
<1>3. CASE plan = Held("mismatched") \/ plan = Held("pending")
  <2>1. PICK v \in {"pending", "mismatched"} :
          plan = [kind |-> "held", append |-> <<>>, verification |-> v, complete |-> FALSE]
    BY <1>3 DEF Held
  <2>2. <<>> \in Seq(Event)
    OBVIOUS
  <2>3. plan \in Plans /\ plan.kind = "held" /\ plan.append = <<>> /\ plan.complete = FALSE
    BY <2>1, <2>2 DEF Plans
  <2>4. QED
    BY <2>3
<1>4. CASE /\ plan = PlanToAppend(events, append)
           /\ ~HasReverted(events) /\ IsPrefix(LedgerActions(events), board.picks)
           /\ Legal(Active(events) \o append)
  <2>1. IsComplete(Reduce(Active(events) \o append)) \in BOOLEAN
    BY DEF IsComplete
  <2>2. QED
    BY <1>1, <1>4, <2>1 DEF PlanToAppend, Plans, append
<1>5. QED
  BY <1>2, <1>3, <1>4

\* All that a plan may append is new, comes from Yahoo and undoes nothing.
LEMMA WantedFromYahoo ==
  ASSUME NEW events \in Seq(Event), NEW board, board.picks \in Seq(Facts)
  PROVE  LET m == Len(LedgerActions(events))
             append == Wanted(events, board)
         IN /\ append \in Seq(Event) /\ m \in Nat
            /\ Len(append) = IF m < Len(board.picks) THEN Len(board.picks) - m ELSE 0
            /\ \A k \in 1 .. Len(append) :
                 FromYahoo(append[k]) /\ Fact(append[k]) = board.picks[m + k]
<1> DEFINE es == PickEvents(board.picks)
           m == Len(LedgerActions(events))
           n == Len(board.picks)
           append == Wanted(events, board)
<1>1. /\ es \in Seq(Event) /\ Len(es) = n /\ n \in Nat /\ m \in Nat
      /\ \A i \in 1 .. n : FromYahoo(es[i]) /\ Fact(es[i]) = board.picks[i]
  BY PicksBecomeEvents, LedgerActionsTyped
<1>2. append = SubSeq(es, m + 1, n)
  BY DEF Wanted
<1> HIDE DEF es, m, n, append
<1>3. \A i \in m + 1 .. n : es[i] \in Event
  BY <1>1
<1>4. /\ append \in Seq(Event)
      /\ Len(append) = IF m + 1 <= n THEN n - (m + 1) + 1 ELSE 0
      /\ \A k \in 1 .. n - (m + 1) + 1 : append[k] = es[(m + 1) + k - 1]
  BY <1>1, <1>2, <1>3, SubSeqProperties
<1>5. Len(append) = IF m < n THEN n - m ELSE 0
  BY <1>1, <1>4
<1>6. ASSUME NEW k \in 1 .. Len(append)
      PROVE  FromYahoo(append[k]) /\ Fact(append[k]) = board.picks[m + k]
  <2>1. k \in 1 .. n - (m + 1) + 1 /\ (m + 1) + k - 1 = m + k /\ m + k \in 1 .. n
    BY <1>1, <1>5, <1>6
  <2>2. append[k] = es[m + k]
    BY <1>4, <2>1
  <2>3. QED
    BY <1>1, <2>1, <2>2
<1>7. QED
  BY <1>1, <1>4, <1>5, <1>6 DEF m, n, append

\* The active events are actions of the log.
LEMMA ActiveTyped ==
  ASSUME NEW events \in Seq(Event)
  PROVE  /\ Active(events) \in Seq(Event)
         /\ \A i \in Standing(events) : \E n \in DOMAIN Active(events) :
              Active(events)[n] = events[i]
<1>1. Standing(events) \intersect DOMAIN events = Standing(events)
  BY DEF Standing
<1>2. QED
  BY <1>1, EventsAtAreThose DEF Active

\* What is legal after the active events is legal after the whole log: its ids are
\* new there too, since what was taken back was never Yahoo's.
LEMMA LegalAfterTheLog ==
  ASSUME NEW events \in Seq(Event), Legal(events), RevertsStand(events),
         ~HasReverted(events),
         NEW append \in Seq(Event), \A k \in 1 .. Len(append) : FromYahoo(append[k]),
         Legal(Active(events) \o append)
  PROVE  Legal(events \o append)
<1> DEFINE active == Active(events)
           short == active \o append
           longer == events \o append
<1>1. /\ active \in Seq(Event)
      /\ \A i \in Standing(events) : \E n \in DOMAIN active : active[n] = events[i]
  BY ActiveTyped
<1>2. /\ WellFormed(events) /\ Reduce(active) = Reduce(events)
      /\ WellFormed(short) /\ Reduce(short).legal
  BY ReconcilerSeesTheRoom DEF Legal
<1> HIDE DEF active
<1>3. DOMAIN append = 1 .. Len(append) /\ \A k \in DOMAIN append : ~IsRevert(append[k])
  BY DEF FromYahoo
<1>4. Reduce(short) = Reduce(longer)
  BY <1>1, <1>2, <1>3, SameRoomGoesOnTheSame
<1>5. /\ short \in Seq(Event) /\ Len(short) = Len(active) + Len(append)
      /\ \A i \in 1 .. Len(active) : short[i] = active[i]
      /\ \A k \in 1 .. Len(append) : short[Len(active) + k] = append[k]
  BY <1>1, ConcatProperties
<1>6. /\ longer \in Seq(Event) /\ Len(longer) = Len(events) + Len(append)
      /\ \A i \in 1 .. Len(events) : longer[i] = events[i]
      /\ \A k \in 1 .. Len(append) : longer[Len(events) + k] = append[k]
  BY ConcatProperties
<1>7. /\ Len(events) \in Nat /\ Len(append) \in Nat /\ Len(active) \in Nat
      /\ DOMAIN events = 1 .. Len(events) /\ DOMAIN active = 1 .. Len(active)
      /\ DOMAIN short = 1 .. Len(active) + Len(append)
      /\ DOMAIN longer = 1 .. Len(events) + Len(append)
  BY <1>1, <1>5, <1>6
<1> HIDE DEF short, longer
<1>8. ASSUME NEW k \in 1 .. Len(append), NEW l \in 1 .. Len(append),
             append[k].id = append[l].id
      PROVE  k = l
  <2>1. Len(active) + k \in DOMAIN short /\ Len(active) + l \in DOMAIN short
    BY <1>7
  <2>2. short[Len(active) + k].id = short[Len(active) + l].id
    BY <1>5, <1>8
  <2>3. Len(active) + k = Len(active) + l
    BY <1>2, <2>1, <2>2 DEF WellFormed
  <2>4. QED
    BY <1>7, <2>3
<1>9. ASSUME NEW i \in DOMAIN events, NEW k \in 1 .. Len(append),
             events[i].id = append[k].id
      PROVE  FALSE
  <2>1. events[i] \in Event /\ events[i].id \in [pick : Nat, fact : Facts]
    BY <1>9 DEF FromYahoo
  <2>2. \A id \in [manual : Nat] : id \notin [pick : Nat, fact : Facts]
    <3>1. SUFFICES ASSUME NEW id \in [manual : Nat], id \in [pick : Nat, fact : Facts]
                   PROVE  FALSE
      OBVIOUS
    <3>2. DOMAIN id = {"manual"} /\ DOMAIN id = {"pick", "fact"}
      BY <3>1
    <3>3. QED
      BY <3>2
  <2>3. events[i].source = "yahoo" /\ events[i].type \in Acquisitions
    BY <2>1, <2>2 DEF Event
  <2>4. events[i].id \notin Reverted(events) /\ ~IsRevert(events[i])
    BY <2>3 DEF HasReverted, IsRevert, Acquisitions
  <2>5. PICK n \in DOMAIN active : active[n] = events[i]
    BY <1>1, <2>4 DEF Standing
  <2>6. /\ n \in DOMAIN short /\ Len(active) + k \in DOMAIN short /\ n # Len(active) + k
        /\ short[n] = events[i] /\ short[Len(active) + k] = append[k]
    BY <1>5, <1>7, <2>5
  <2>7. QED
    BY <1>2, <1>9, <2>6 DEF WellFormed
<1>10. ASSUME NEW i \in DOMAIN longer
       PROVE  \/ i \in DOMAIN events /\ longer[i] = events[i]
              \/ \E k \in 1 .. Len(append) : i = Len(events) + k /\ longer[i] = append[k]
  <2>1. CASE i \in DOMAIN events
    BY <1>6, <1>7, <2>1
  <2>2. CASE i \notin DOMAIN events
    <3>1. i - Len(events) \in 1 .. Len(append) /\ i = Len(events) + (i - Len(events))
      BY <1>7, <1>10, <2>2
    <3>2. QED
      BY <1>6, <3>1
  <2>3. QED
    BY <2>1, <2>2
<1>11. WellFormed(longer)
  <2>1. ASSUME NEW i \in DOMAIN longer, NEW j \in DOMAIN longer, longer[i].id = longer[j].id
        PROVE  i = j
    <3>1. CASE i \in DOMAIN events /\ j \in DOMAIN events
      <4>1. longer[i] = events[i] /\ longer[j] = events[j]
        BY <1>6, <1>7, <3>1
      <4>2. QED
        BY <1>2, <2>1, <3>1, <4>1 DEF WellFormed
    <3>2. CASE i \in DOMAIN events /\ j \notin DOMAIN events
      <4>1. longer[i] = events[i]
        BY <1>6, <1>7, <3>2
      <4>2. QED
        BY <1>9, <1>10, <2>1, <3>2, <4>1
    <3>3. CASE i \notin DOMAIN events /\ j \in DOMAIN events
      <4>1. longer[j] = events[j]
        BY <1>6, <1>7, <3>3
      <4>2. QED
        BY <1>9, <1>10, <2>1, <3>3, <4>1
    <3>4. CASE i \notin DOMAIN events /\ j \notin DOMAIN events
      <4>1. PICK k \in 1 .. Len(append) : i = Len(events) + k /\ longer[i] = append[k]
        BY <1>10, <3>4
      <4>2. PICK l \in 1 .. Len(append) : j = Len(events) + l /\ longer[j] = append[l]
        BY <1>10, <3>4
      <4>3. k = l
        BY <1>8, <2>1, <4>1, <4>2
      <4>4. QED
        BY <4>1, <4>2, <4>3
    <3>5. QED
      BY <3>1, <3>2, <3>3, <3>4
  <2>2. ASSUME NEW i \in DOMAIN longer, IsRevert(longer[i])
        PROVE  \E j \in 1 .. i - 1 : longer[j].id = longer[i].target
    <3>1. i \in DOMAIN events /\ longer[i] = events[i]
      BY <1>3, <1>10, <2>2
    <3>2. PICK j \in 1 .. i - 1 : events[j].id = events[i].target
      BY <1>2, <2>2, <3>1 DEF WellFormed
    <3>3. j \in DOMAIN events /\ longer[j] = events[j]
      BY <1>6, <1>7, <3>1
    <3>4. QED
      BY <3>1, <3>2, <3>3
  <2>3. QED
    BY <2>1, <2>2 DEF WellFormed
<1>12. QED
  BY <1>2, <1>4, <1>11 DEF Legal, longer

\* Then the ledger says what Yahoo said, pick for pick.
LEMMA WantedCompletes ==
  ASSUME NEW events \in Seq(Event), NEW board, board.picks \in Seq(Facts),
         WellFormed(events), IsPrefix(LedgerActions(events), board.picks),
         WellFormed(events \o Wanted(events, board))
  PROVE  LedgerActions(events \o Wanted(events, board)) = board.picks
<1> DEFINE append == Wanted(events, board)
           longer == events \o append
           m == Len(LedgerActions(events))
           n == Len(board.picks)
           before == EventsAt(events, Acquired(events))
           after == EventsAt(longer, Acquired(longer))
<1>1. /\ append \in Seq(Event) /\ m \in Nat
      /\ Len(append) = IF m < n THEN n - m ELSE 0
      /\ \A k \in 1 .. Len(append) : FromYahoo(append[k]) /\ Fact(append[k]) = board.picks[m + k]
  BY WantedFromYahoo
<1>2. n \in Nat /\ m <= n /\ \A i \in 1 .. m : LedgerActions(events)[i] = board.picks[i]
  <2> DEFINE actions == LedgerActions(events)
             picks == board.picks
  <2>1. actions \in Seq(Facts) /\ picks \in Seq(Facts) /\ IsPrefix(actions, picks)
    BY LedgerActionsTyped
  <2> HIDE DEF actions, picks
  <2>2. /\ Len(picks) \in Nat /\ Len(actions) <= Len(picks)
        /\ \A i \in 1 .. Len(actions) : actions[i] = picks[i]
    BY <2>1, PrefixPointwise
  <2>3. QED
    BY <2>2 DEF actions, picks
<1>3. Len(append) = n - m
  BY <1>1, <1>2
<1> HIDE DEF append, n
<1>4. /\ longer \in Seq(Event) /\ Len(longer) = Len(events) + Len(append)
      /\ \A i \in 1 .. Len(events) : longer[i] = events[i]
      /\ \A k \in 1 .. Len(append) : longer[Len(events) + k] = append[k]
  BY <1>1, ConcatProperties, SMTT(30)
<1>5. /\ Len(events) \in Nat /\ Len(append) \in Nat /\ DOMAIN events = 1 .. Len(events)
      /\ DOMAIN longer = 1 .. Len(events) + Len(append)
  BY <1>1, <1>4
<1>6. /\ before \in Seq(Event) /\ Len(before) = m
      /\ \A i \in 1 .. m : LedgerActions(events)[i] = Fact(before[i])
  BY LedgerActionsTyped
<1>7. WellFormed(longer)
  BY DEF append
<1> HIDE DEF longer
<1>8. /\ LedgerActions(longer) \in Seq(Facts) /\ Len(LedgerActions(longer)) = Len(after)
      /\ \A i \in 1 .. Len(after) : LedgerActions(longer)[i] = Fact(after[i])
  BY <1>4, LedgerActionsTyped
<1> HIDE DEF m
<1>9. ASSUME NEW j \in DOMAIN longer, IsRevert(longer[j])
      PROVE  j \in DOMAIN events /\ longer[j] = events[j]
  <2>1. CASE j \in DOMAIN events
    BY <1>4, <1>5, <2>1
  <2>2. CASE j \notin DOMAIN events
    <3>1. j - Len(events) \in 1 .. Len(append) /\ Len(events) + (j - Len(events)) = j
      BY <1>5, <1>9, <2>2
    <3>2. QED
      BY <1>1, <1>4, <1>9, <3>1 DEF FromYahoo
  <2>3. QED
    BY <2>1, <2>2
<1>10. Reverted(longer) = Reverted(events)
  <2>1. ASSUME NEW j \in DOMAIN events PROVE j \in DOMAIN longer /\ longer[j] = events[j]
    BY <1>4, <1>5
  <2>2. QED
    BY <1>9, <2>1 DEF Reverted
<1>11. \A i \in 1 .. Len(events) : i \in Acquired(longer) <=> i \in Acquired(events)
  BY <1>4, <1>5, <1>10 DEF Acquired, Standing
<1>12. \A k \in 1 .. Len(append) : Len(events) + k \in Acquired(longer)
  <2>1. SUFFICES ASSUME NEW k \in 1 .. Len(append)
                 PROVE  Len(events) + k \in Acquired(longer)
    OBVIOUS
  <2>2. /\ Len(events) + k \in DOMAIN longer /\ longer[Len(events) + k] = append[k]
        /\ FromYahoo(append[k])
    BY <1>1, <1>4, <1>5
  <2>3. append[k].id \notin Reverted(longer)
    <3>1. SUFFICES ASSUME NEW j \in DOMAIN longer, IsRevert(longer[j]),
                          longer[j].target = append[k].id
                   PROVE  FALSE
      BY DEF Reverted
    <3>2. PICK i \in 1 .. j - 1 : longer[i].id = longer[j].target
      BY <1>7, <3>1 DEF WellFormed
    <3>3. j \in DOMAIN events
      BY <1>9, <3>1
    <3>4. i \in DOMAIN longer /\ i # Len(events) + k
      BY <1>5, <3>3
    <3>5. QED
      BY <1>7, <2>2, <3>1, <3>2, <3>4 DEF WellFormed
  <2>4. QED
    BY <2>2, <2>3 DEF Acquired, Standing, FromYahoo
<1>13. after = before \o append
  BY <1>1, <1>11, <1>12, EventsAtOfConcat, ZenonT(40) DEF longer
<1> HIDE DEF before, after
<1>14. /\ Len(after) = n
       /\ \A i \in 1 .. m : after[i] = before[i]
       /\ \A k \in 1 .. Len(append) : after[m + k] = append[k]
  <2> DEFINE whole == before \o append
  <2>1. /\ Len(whole) = Len(before) + Len(append)
        /\ \A i \in 1 .. Len(before) : whole[i] = before[i]
        /\ \A k \in 1 .. Len(append) : whole[Len(before) + k] = append[k]
    <3>1. before \in Seq(Event) /\ append \in Seq(Event)
      BY <1>1, <1>6
    <3>2. QED
      BY <3>1, ConcatProperties
  <2> HIDE DEF whole
  <2>2. after = whole
    BY <1>13 DEF whole
  <2>3. Len(after) = n
    BY <1>1, <1>2, <1>3, <1>6, <2>1, <2>2
  <2>4. QED
    BY <1>6, <2>1, <2>2, <2>3
<1>15. ASSUME NEW i \in 1 .. n PROVE LedgerActions(longer)[i] = board.picks[i]
  <2>1. LedgerActions(longer)[i] = Fact(after[i])
    BY <1>8, <1>14, <1>15
  <2>2. CASE i \in 1 .. m
    BY <1>2, <1>6, <1>14, <2>1, <2>2
  <2>3. CASE i \notin 1 .. m
    <3>1. i - m \in 1 .. Len(append) /\ m + (i - m) = i
      BY <1>1, <1>2, <1>3, <1>15, <2>3
    <3>2. QED
      BY <1>1, <1>14, <2>1, <3>1
  <2>4. QED
    BY <2>2, <2>3
<1>16. Len(LedgerActions(longer)) = n
  BY <1>8, <1>14
<1>17. LedgerActions(longer) = board.picks
  <2> DEFINE actions == LedgerActions(longer)
  <2>1. /\ actions \in Seq(Facts) /\ Len(actions) = Len(board.picks)
        /\ \A i \in 1 .. Len(actions) : actions[i] = board.picks[i]
    BY <1>8, <1>15, <1>16 DEF n
  <2> HIDE DEF actions
  <2>2. actions = board.picks
    BY <2>1, SeqEqual
  <2>3. QED
    BY <2>2 DEF actions
<1>18. QED
  BY <1>17 DEF longer, append

-----------------------------------------------------------------------------
(***************************************************************************)
(* The invariant.  The ledger reduces and no revert is undone; a poll that *)
(* has decided holds what the reconciler made of the board it fetched and  *)
(* of the start of the log it had read.                                    *)
(***************************************************************************)

DecidedOnTheLedger ==
  \A q \in Polls :
    poll[q].phase = "decided" =>
      \E players \in SUBSET Resolvable :
        poll[q].plan = Reconcile(SubSeq(log, 1, poll[q].sequence), poll[q].board, players)

RoomInv == TypeOK /\ Legal(log) /\ RevertsStand(log) /\ DecidedOnTheLedger

\* The picks of a board of Yahoo's are facts.
LEMMA BoardTyped ==
  ASSUME NEW board \in Boards
  PROVE  board.picks \in Seq(Facts)
<1> DEFINE Typed == [status : STRING, usable : BOOLEAN, picks : Seq(Facts)]
<1>1. PICK draft \in Drafts : \E n \in DOMAIN draft : board = draft[n]
  BY DEF Boards, Range
<1>2. draft \in Seq(Typed)
  BY YahooRoomAssumption
<1>3. board \in Typed
  <2> HIDE DEF Typed
  <2>1. QED
    BY <1>1, <1>2
<1>4. QED
  BY <1>3

\* A draft of Yahoo's is a sequence of its boards that is not empty.
LEMMA DraftsAreBoards == Drafts \subseteq Seq(Boards) \ {<<>>}
<1>1. SUFFICES ASSUME NEW draft \in Drafts PROVE draft \in Seq(Boards) \ {<<>>}
  OBVIOUS
<1>2. /\ draft \in Seq([status : STRING, usable : BOOLEAN, picks : Seq(Facts)])
      /\ draft # <<>>
  BY YahooRoomAssumption
<1>3. \A n \in DOMAIN draft : draft[n] \in Boards
  BY DEF Boards, Range
<1>4. draft = [n \in 1 .. Len(draft) |-> draft[n]] /\ Len(draft) \in Nat
      /\ DOMAIN draft = 1 .. Len(draft)
  BY <1>2
<1>5. draft \in Seq(Boards)
  BY <1>3, <1>4
<1>6. QED
  BY <1>2, <1>5

\* A poll under way, by its phase.
LEMMA PollKinds ==
  ASSUME TypeOK, NEW q \in Polls
  PROVE  /\ poll[q].phase \in {"idle", "started", "claimed", "decided"}
         /\ poll[q].phase = "idle" <=> poll[q] = Idle
         /\ poll[q] # Idle =>
              poll[q].sequence \in Nat /\ poll[q].sequence \in 0 .. Len(log)
         /\ poll[q].phase \in {"started", "claimed"} =>
              poll[q] \in [phase : {"started", "claimed"}, sequence : Nat]
         /\ poll[q].phase = "decided" =>
              /\ poll[q] \in [phase : {"decided"}, sequence : Nat, board : Boards, plan : Plans]
              /\ poll[q].board \in Boards /\ poll[q].plan \in Plans
              /\ poll[q].board.picks \in Seq(Facts)
<1>1. poll[q] \in PollStates /\ (poll[q] # Idle => poll[q].sequence <= Len(log))
      /\ Len(log) \in Nat
  BY DEF TypeOK
<1>2. CASE poll[q] = Idle
  BY <1>2 DEF Idle
<1>3. CASE poll[q] \in [phase : {"started", "claimed"}, sequence : Nat]
  BY <1>1, <1>3 DEF Idle
<1>4. CASE poll[q] \in [phase : {"decided"}, sequence : Nat, board : Boards, plan : Plans]
  <2>1. /\ poll[q].phase = "decided" /\ poll[q].sequence \in Nat
        /\ poll[q].board \in Boards /\ poll[q].plan \in Plans
    BY <1>4
  <2>2. poll[q].board.picks \in Seq(Facts)
    BY <2>1, BoardTyped
  <2>3. QED
    BY <1>1, <1>4, <2>1, <2>2 DEF Idle
<1>5. QED
  BY <1>1, <1>2, <1>3, <1>4 DEF PollStates

\* What a commissioner may write: events of his own, whose reverts name an action.
LEMMA ManualTyped ==
  ASSUME TypeOK, NEW batch \in ManualBatches
  PROVE  /\ batch \in Seq(Event) /\ batch # <<>>
         /\ \A k \in 1 .. Len(batch) :
              /\ batch[k].source = "manual"
              /\ IsRevert(batch[k]) => \E h \in DOMAIN log :
                   ~IsRevert(log[h]) /\ batch[k].target = log[h].id
<1> DEFINE targets == {i \in DOMAIN log : ~IsRevert(log[i]) /\ IsActive(log)[i]}
           n == Len(log) + 1
<1>1. n \in Nat /\ n + 1 \in Nat /\ log \in Seq(Event)
  BY DEF TypeOK
<1>2. ASSUME NEW a \in ManualActions, NEW position \in Nat
      PROVE  LET e == ManualEvent(position, a)
             IN e \in Event /\ e.source = "manual" /\ ~IsRevert(e)
  BY <1>2, YahooRoomAssumption DEF ManualEvent, Event, IsRevert, SnakeTypes, AuctionTypes
<1>3. ASSUME NEW i \in targets, NEW position \in Nat
      PROVE  LET e == ManualRevert(position, i)
             IN /\ e \in Event /\ e.source = "manual"
                /\ i \in DOMAIN log /\ ~IsRevert(log[i]) /\ e.target = log[i].id
  <2>1. log[i] \in Event /\ log[i].id \in EventIds
    BY <1>1, <1>3 DEF Event, EventIds
  <2>2. QED
    BY <1>3, <2>1 DEF ManualRevert, Event
<1>4. \/ \E a \in ManualActions : batch = <<ManualEvent(n, a)>>
      \/ \E i \in targets : batch = <<ManualRevert(n, i)>>
      \/ \E i \in targets, a \in ManualActions :
           batch = <<ManualRevert(n, i), ManualEvent(n + 1, a)>>
  BY DEF ManualBatches
<1> HIDE DEF targets, n
<1>5. CASE \E a \in ManualActions : batch = <<ManualEvent(n, a)>>
  <2>1. PICK a \in ManualActions : batch = <<ManualEvent(n, a)>>
    BY <1>5
  <2> DEFINE e == ManualEvent(n, a)
  <2>2. e \in Event /\ e.source = "manual" /\ ~IsRevert(e) /\ batch = <<e>>
    BY <1>1, <1>2, <2>1
  <2> HIDE DEF e
  <2>3. QED
    BY <2>2
<1>6. CASE \E i \in targets : batch = <<ManualRevert(n, i)>>
  <2>1. PICK i \in targets : batch = <<ManualRevert(n, i)>>
    BY <1>6
  <2> DEFINE e == ManualRevert(n, i)
  <2>2. /\ e \in Event /\ e.source = "manual" /\ batch = <<e>>
        /\ i \in DOMAIN log /\ ~IsRevert(log[i]) /\ e.target = log[i].id
    BY <1>1, <1>3, <2>1
  <2> HIDE DEF e
  <2>3. QED
    BY <2>2
<1>7. CASE \E i \in targets, a \in ManualActions :
             batch = <<ManualRevert(n, i), ManualEvent(n + 1, a)>>
  <2>1. PICK i \in targets, a \in ManualActions :
          batch = <<ManualRevert(n, i), ManualEvent(n + 1, a)>>
    BY <1>7
  <2> DEFINE e == ManualRevert(n, i)
             f == ManualEvent(n + 1, a)
  <2>2. /\ e \in Event /\ e.source = "manual" /\ batch = <<e, f>>
        /\ i \in DOMAIN log /\ ~IsRevert(log[i]) /\ e.target = log[i].id
    BY <1>1, <1>3, <2>1
  <2>3. f \in Event /\ f.source = "manual" /\ ~IsRevert(f)
    BY <1>1, <1>2
  <2> HIDE DEF e, f
  <2>4. QED
    BY <2>2, <2>3
<1>8. QED
  BY <1>4, <1>5, <1>6, <1>7

\* How the log changes: a poll appends what Yahoo has over the ledger it read, or a
\* commissioner appends a batch of his own; nothing else touches it.
PollAppends(q, batch) ==
  /\ poll[q].phase = "decided" /\ ~HasReverted(log)
  /\ batch = Wanted(log, poll[q].board) /\ batch = poll[q].plan.append
  /\ IsPrefix(LedgerActions(log), poll[q].board.picks)
  /\ \A k \in 1 .. Len(batch) : FromYahoo(batch[k])

ManAppends(batch) ==
  /\ batch # <<>>
  /\ \A k \in 1 .. Len(batch) :
       /\ batch[k].source = "manual"
       /\ IsRevert(batch[k]) => \E h \in DOMAIN log :
            ~IsRevert(log[h]) /\ batch[k].target = log[h].id

\* What a commit changes: the feed, the poll that ends, and the log at most by
\* the events of its plan, which replay; a room it verifies matches its board.
LEMMA CommitKinds ==
  ASSUME RoomInv, NEW q \in Polls, CommitObservation(q)
  PROVE  LET w == poll[q]
             verified == feed'.verification = "verified"
         IN /\ UNCHANGED <<known, archived, yahoo>> /\ poll' = [poll EXCEPT ![q] = Idle]
            /\ feed' \in [state : FeedStates, applicationMode : {"append", "shadow"},
                          owner : Polls \union {Nobody},
                          lastChecksum : Boards \union {NoBoard},
                          verification : {"pending", "verified", "mismatched"}]
            /\ feed'.lastChecksum = w.board
            /\ \/ UNCHANGED log /\ ~verified
               \/ /\ \E batch \in Seq(Event) :
                       PollAppends(q, batch) /\ log' = log \o batch /\ Legal(log')
                  /\ verified => w.board.status = "postdraft"
<1> DEFINE w == poll[q]
           disputed == LedgerMoved(w) \/ w.plan.kind = "held"
           applied == ~archived /\ ~disputed /\ feed.applicationMode = "append"
           verified == applied /\ w.board.status = "postdraft" /\ w.plan.complete
<1>1. /\ w.phase = "decided" /\ feed.owner = q
      /\ log' = IF applied THEN log \o w.plan.append ELSE log
      /\ feed' = [feed EXCEPT !.state = FeedState(w.board, disputed),
                              !.lastChecksum = w.board,
                              !.verification = IF verified THEN "verified"
                                               ELSE w.plan.verification]
      /\ poll' = [poll EXCEPT ![q] = Idle]
      /\ UNCHANGED <<known, archived, yahoo>>
  BY DEF CommitObservation
<1>2. /\ w.board \in Boards /\ w.plan \in Plans /\ w.board.picks \in Seq(Facts)
      /\ w.sequence \in 0 .. Len(log) /\ log \in Seq(Event)
  BY <1>1, PollKinds DEF RoomInv, TypeOK, Idle
<1>3. PICK players : w.plan = Reconcile(SubSeq(log, 1, w.sequence), w.board, players)
  BY <1>1 DEF RoomInv, DecidedOnTheLedger
<1>4. ASSUME applied
      PROVE  \E batch \in Seq(Event) : PollAppends(q, batch) /\ log' = log \o batch /\ Legal(log')
  <2>1. w.plan.kind # "held" /\ Len(log) = w.sequence
    BY <1>4 DEF LedgerMoved
  <2>2. w.plan.kind = "append" /\ w.plan.append \in Seq(Event)
    BY <1>2, <2>1 DEF Plans
  <2>3. SubSeq(log, 1, w.sequence) = log
    BY <1>2, <2>1
  <2>4. w.plan = Reconcile(log, w.board, players)
    BY <1>3, <2>3
  <2> DEFINE plan == w.plan
             board == w.board
             batch == plan.append
  <2>5. /\ board.picks \in Seq(Facts) /\ plan = Reconcile(log, board, players)
        /\ plan.kind = "append" /\ batch \in Seq(Event)
    BY <1>2, <2>2, <2>4
  <2> HIDE DEF plan, board
  <2>6. /\ batch = Wanted(log, board)
        /\ ~HasReverted(log) /\ IsPrefix(LedgerActions(log), board.picks)
        /\ Legal(Active(log) \o batch)
    BY <1>2, <2>5, ReconcileKinds
  <2>7. \A k \in 1 .. Len(batch) : FromYahoo(batch[k])
    BY <1>2, <2>5, <2>6, WantedFromYahoo
  <2> HIDE DEF batch
  <2>8. Legal(log \o batch)
    BY <1>2, <2>5, <2>6, <2>7, LegalAfterTheLog DEF RoomInv
  <2>9. PollAppends(q, batch)
    BY <1>1, <2>6, <2>7 DEF PollAppends, batch, plan, board
  <2>10. log' = log \o batch
    BY <1>1, <1>4 DEF batch, plan
  <2>11. QED
    BY <2>5, <2>8, <2>9, <2>10
<1>5. FeedState(w.board, disputed) \in FeedStates
  BY DEF FeedState, FeedStates, ProviderState
<1>6. w.plan.verification \in {"pending", "mismatched"}
  BY <1>2 DEF Plans
<1>7. /\ feed' \in [state : FeedStates, applicationMode : {"append", "shadow"},
                    owner : Polls \union {Nobody}, lastChecksum : Boards \union {NoBoard},
                    verification : {"pending", "verified", "mismatched"}]
      /\ feed'.lastChecksum = w.board
      /\ feed'.verification = IF verified THEN "verified" ELSE w.plan.verification
  <2> DEFINE state == FeedState(w.board, disputed)
             verification == IF verified THEN "verified" ELSE w.plan.verification
             board == w.board
  <2>1. /\ state \in FeedStates /\ verification \in {"pending", "verified", "mismatched"}
        /\ board \in Boards
        /\ feed' = [feed EXCEPT !.state = state, !.lastChecksum = board,
                                !.verification = verification]
    BY <1>1, <1>2, <1>5, <1>6
  <2> HIDE DEF state, verification, board
  <2>2. /\ feed' \in [state : FeedStates, applicationMode : {"append", "shadow"},
                      owner : Polls \union {Nobody}, lastChecksum : Boards \union {NoBoard},
                      verification : {"pending", "verified", "mismatched"}]
        /\ feed'.lastChecksum = board /\ feed'.verification = verification
    BY <2>1 DEF RoomInv, TypeOK
  <2>3. QED
    BY <2>2 DEF board, verification
<1>8. CASE applied
  <2>1. verified => w.board.status = "postdraft"
    OBVIOUS
  <2>2. feed'.verification = "verified" => verified
    BY <1>6, <1>7, SMTT(30)
  <2>3. QED
    BY <1>1, <1>4, <1>7, <1>8, <2>1, <2>2
<1>9. CASE ~applied
  <2>1. feed'.verification # "verified" /\ log' = log
    BY <1>1, <1>6, <1>7, <1>9
  <2>2. QED
    BY <1>1, <1>7, <2>1, ZenonT(40)
<1>10. QED
  BY <1>8, <1>9

\* What a commissioner's write changes: the log by a legal batch of the
\* commissioner's, and the feed, which is never left verified.
LEMMA WriteKinds ==
  ASSUME RoomInv, CommissionerWrite
  PROVE  /\ UNCHANGED <<known, poll, archived, yahoo>>
         /\ feed' \in [state : FeedStates, applicationMode : {"append", "shadow"},
                       owner : Polls \union {Nobody},
                       lastChecksum : Boards \union {NoBoard},
                       verification : {"pending", "verified", "mismatched"}]
         /\ feed'.verification # "verified"
         /\ \E batch \in Seq(Event) :
              ManAppends(batch) /\ log' = log \o batch /\ Legal(log')
<1>1. /\ UNCHANGED <<known, poll, archived, yahoo>>
      /\ feed' = IF feed.verification = "verified"
                 THEN [feed EXCEPT !.state = "attention", !.verification = "pending"]
                 ELSE feed
  BY DEF CommissionerWrite, WriteManually
<1>2. PICK batch \in ManualBatches : Legal(log \o batch) /\ log' = log \o batch
  BY DEF CommissionerWrite, WriteManually
<1>3. batch \in Seq(Event) /\ ManAppends(batch)
  BY ManualTyped DEF RoomInv, ManAppends
<1>4. /\ feed' \in [state : FeedStates, applicationMode : {"append", "shadow"},
                    owner : Polls \union {Nobody}, lastChecksum : Boards \union {NoBoard},
                    verification : {"pending", "verified", "mismatched"}]
      /\ feed'.verification # "verified"
  BY <1>1 DEF RoomInv, TypeOK, FeedStates
<1>5. QED
  BY <1>1, <1>2, <1>3, <1>4

\* A longer log with the old one as its start: what it holds at each place.
LEMMA PlacesOfConcat ==
  ASSUME NEW S, NEW events \in Seq(S), NEW batch \in Seq(S)
  PROVE  LET longer == events \o batch
         IN /\ longer \in Seq(S) /\ Len(events) \in Nat /\ Len(longer) \in Nat
            /\ Len(events) <= Len(longer)
            /\ DOMAIN events = 1 .. Len(events) /\ DOMAIN longer = 1 .. Len(longer)
            /\ \A i \in DOMAIN events : i \in DOMAIN longer /\ longer[i] = events[i]
            /\ \A i \in DOMAIN longer : i \notin DOMAIN events =>
                 \E k \in 1 .. Len(batch) : i = Len(events) + k /\ longer[i] = batch[k]
<1> DEFINE longer == events \o batch
<1>1. /\ longer \in Seq(S) /\ Len(longer) = Len(events) + Len(batch)
      /\ \A i \in 1 .. Len(events) : longer[i] = events[i]
      /\ \A k \in 1 .. Len(batch) : longer[Len(events) + k] = batch[k]
  BY ConcatProperties
<1> HIDE DEF longer
<1>2. /\ Len(events) \in Nat /\ Len(batch) \in Nat
      /\ DOMAIN events = 1 .. Len(events) /\ DOMAIN longer = 1 .. Len(longer)
  BY <1>1
<1>3. ASSUME NEW i \in DOMAIN longer, i \notin DOMAIN events
      PROVE  \E k \in 1 .. Len(batch) : i = Len(events) + k /\ longer[i] = batch[k]
  <2>1. i - Len(events) \in 1 .. Len(batch) /\ i = Len(events) + (i - Len(events))
    BY <1>1, <1>2, <1>3
  <2>2. QED
    BY <1>1, <2>1
<1>4. QED
  BY <1>1, <1>2, <1>3 DEF longer

\* A batch that undoes actions only leaves every revert standing.
LEMMA RevertsGoOnStanding ==
  ASSUME NEW S, NEW events \in Seq(S), NEW batch \in Seq(S),
         WellFormed(events), RevertsStand(events), WellFormed(events \o batch),
         \A k \in 1 .. Len(batch) : IsRevert(batch[k]) =>
           \E h \in DOMAIN events : ~IsRevert(events[h]) /\ batch[k].target = events[h].id
  PROVE  RevertsStand(events \o batch)
<1> DEFINE longer == events \o batch
<1>1. /\ \A i \in DOMAIN events : i \in DOMAIN longer /\ longer[i] = events[i]
      /\ \A i \in DOMAIN longer : i \notin DOMAIN events =>
           \E k \in 1 .. Len(batch) : longer[i] = batch[k]
      /\ DOMAIN events = 1 .. Len(events) /\ Len(events) \in Nat
  BY PlacesOfConcat
<1>2. WellFormed(longer)
  OBVIOUS
<1> HIDE DEF longer
<1>3. SUFFICES ASSUME NEW i \in DOMAIN longer, NEW j \in DOMAIN longer,
                      IsRevert(longer[i]), IsRevert(longer[j]),
                      longer[i].target = longer[j].id
               PROVE  FALSE
  BY DEF RevertsStand, longer
<1>4. CASE i \in DOMAIN events
  <2>1. PICK h \in 1 .. i - 1 : events[h].id = events[i].target
    BY <1>1, <1>3, <1>4 DEF WellFormed
  <2>2. h \in DOMAIN events
    BY <1>1, <1>4
  <2>3. h = j
    BY <1>1, <1>2, <1>3, <1>4, <2>1, <2>2 DEF WellFormed
  <2>4. QED
    BY <1>1, <1>3, <1>4, <2>2, <2>3 DEF RevertsStand
<1>5. CASE i \notin DOMAIN events
  <2>1. PICK h \in DOMAIN events : ~IsRevert(events[h]) /\ longer[i].target = events[h].id
    BY <1>1, <1>3, <1>5
  <2>2. h = j
    BY <1>1, <1>2, <1>3, <2>1 DEF WellFormed
  <2>3. QED
    BY <1>1, <1>3, <2>1, <2>2
<1>6. QED
  BY <1>4, <1>5

\* A new room satisfies the invariant.
LEMMA RoomInvInit == Init => RoomInv
<1> SUFFICES ASSUME Init PROVE RoomInv
  OBVIOUS
<1>1. log = <<>> /\ <<>> \in Seq(Event) /\ Len(<<>>) = 0
  BY DEF Init
<1>2. TypeOK
  <2>1. Idle \in PollStates
    BY DEF PollStates
  <2>2. poll \in [Polls -> PollStates] /\ \A q \in Polls : poll[q] = Idle
    BY <2>1 DEF Init
  <2>3. yahoo \in Seq(Boards) \ {<<>>}
    BY DraftsAreBoards DEF Init
  <2>4. feed \in [state : FeedStates, applicationMode : {"append", "shadow"},
                  owner : Polls \union {Nobody}, lastChecksum : Boards \union {NoBoard},
                  verification : {"pending", "verified", "mismatched"}]
    BY DEF Init, FeedStates
  <2>5. QED
    BY <1>1, <2>2, <2>3, <2>4 DEF Init, TypeOK
<1>3. Legal(log)
  <2>1. WellFormed(<<>>)
    BY DEF WellFormed
  <2>2. Reduce(<<>>).legal
    BY ReduceOfNothing, EmptyRoomIsSound
  <2>3. QED
    BY <1>1, <2>1, <2>2 DEF Legal
<1>4. RevertsStand(log)
  BY <1>1 DEF RevertsStand
<1>5. DecidedOnTheLedger
  BY DEF Init, DecidedOnTheLedger, Idle
<1>6. QED
  BY <1>2, <1>3, <1>4, <1>5 DEF RoomInv

\* Whoever appends, the log keeps its type and polls what they read.
LEMMA AppendKeepsInv ==
  ASSUME RoomInv, NEW batch \in Seq(Event), log' = log \o batch, Legal(log'),
         \A k \in 1 .. Len(batch) : IsRevert(batch[k]) =>
           \E h \in DOMAIN log : ~IsRevert(log[h]) /\ batch[k].target = log[h].id,
         poll' \in [Polls -> PollStates],
         \A q \in Polls : poll'[q] = Idle \/ poll'[q] = poll[q]
  PROVE  /\ log' \in Seq(Event) /\ RevertsStand(log') /\ DecidedOnTheLedger'
         /\ \A q \in Polls : poll'[q] # Idle => poll'[q].sequence <= Len(log')
<1>1. /\ log \in Seq(Event) /\ log' \in Seq(Event) /\ Len(log) \in Nat /\ Len(log') \in Nat
      /\ Len(log) <= Len(log') /\ DOMAIN log = 1 .. Len(log)
      /\ \A i \in DOMAIN log : log'[i] = log[i]
  BY PlacesOfConcat DEF RoomInv, TypeOK
<1>2. RevertsStand(log')
  <2>1. WellFormed(log) /\ WellFormed(log \o batch)
    BY DEF RoomInv, Legal
  <2>2. RevertsStand(log \o batch)
    BY <1>1, <2>1, RevertsGoOnStanding DEF RoomInv
  <2>3. QED
    BY <2>2
<1>3. \A q \in Polls : poll'[q] # Idle => poll'[q].sequence <= Len(log')
  <2>1. SUFFICES ASSUME NEW q \in Polls, poll'[q] # Idle PROVE poll'[q].sequence <= Len(log')
    OBVIOUS
  <2>2. poll'[q] = poll[q] /\ poll[q].sequence \in 0 .. Len(log)
    BY <2>1, PollKinds DEF RoomInv
  <2>3. QED
    BY <1>1, <2>2
<1>4. DecidedOnTheLedger'
  <2>1. SUFFICES ASSUME NEW q \in Polls, poll'[q].phase = "decided"
                 PROVE  \E players \in SUBSET Resolvable :
                          poll'[q].plan = Reconcile(SubSeq(log', 1, poll'[q].sequence),
                                                    poll'[q].board, players)
    BY DEF DecidedOnTheLedger
  <2>2. poll'[q] = poll[q]
    BY <2>1 DEF Idle
  <2>3. PICK players \in SUBSET Resolvable :
          poll[q].plan = Reconcile(SubSeq(log, 1, poll[q].sequence), poll[q].board, players)
    BY <2>1, <2>2 DEF RoomInv, DecidedOnTheLedger
  <2> DEFINE m == poll[q].sequence
             read == SubSeq(log, 1, m)
             still == SubSeq(log', 1, m)
  <2>4. m \in 0 .. Len(log) /\ m \in 0 .. Len(log') /\ m \in Nat
    BY <1>1, <2>1, <2>2, PollKinds DEF RoomInv, Idle
  <2> HIDE DEF m
  <2>5. /\ read \in Seq(Event) /\ Len(read) = m /\ \A i \in 1 .. m : read[i] = log[i]
        /\ still \in Seq(Event) /\ Len(still) = m /\ \A i \in 1 .. m : still[i] = log'[i]
    BY <1>1, <2>4, InitialPart
  <2> HIDE DEF read, still
  <2>6. \A i \in 1 .. m : read[i] = still[i]
    BY <1>1, <2>4, <2>5
  <2>7. read = still
    BY <2>4, <2>5, <2>6, SeqEqual
  <2>8. QED
    BY <2>2, <2>3, <2>7 DEF read, still, m
<1>5. QED
  BY <1>1, <1>2, <1>3, <1>4

(***************************************************************************)
(* What is left of a sequence of several elements is not empty: Yahoo has  *)
(* a board in every state.                                                 *)
(***************************************************************************)
LEMMA TailIsNotEmpty ==
    ASSUME NEW S, NEW s \in Seq(S), Len(s) > 1
    PROVE  Tail(s) \in Seq(S) \ {<<>>}
<1>1. Len(s) \in Nat /\ s # <<>>
  BY EmptySeq
<1>2. Tail(s) \in Seq(S) /\ Len(Tail(s)) = Len(s) - 1
  BY <1>1
<1>3. Len(Tail(s)) # 0
  BY <1>1, <1>2
<1>4. QED
  BY <1>2, <1>3, EmptySeq

\* Every step of a poll, a commissioner or Yahoo keeps the invariant.
LEMMA RoomInvStep == RoomInv /\ [Next]_vars => RoomInv'
<1> SUFFICES ASSUME RoomInv, [Next]_vars PROVE RoomInv'
  OBVIOUS
<1>0. /\ TypeOK /\ Legal(log) /\ RevertsStand(log) /\ DecidedOnTheLedger
      /\ log \in Seq(Event) /\ Len(log) \in Nat /\ poll \in [Polls -> PollStates]
  BY DEF RoomInv, TypeOK
\* A step that leaves the log alone and decides nothing.
<1>1. ASSUME UNCHANGED log, poll' \in [Polls -> PollStates],
             \A q \in Polls : poll'[q].phase = "decided" => poll'[q] = poll[q],
             \A q \in Polls : poll'[q] # Idle => poll'[q].sequence <= Len(log)
      PROVE  /\ Legal(log') /\ RevertsStand(log') /\ DecidedOnTheLedger'
             /\ log' \in Seq(Event)
             /\ \A q \in Polls : poll'[q] # Idle => poll'[q].sequence <= Len(log')
  <2>1. DecidedOnTheLedger'
    BY <1>0, <1>1 DEF DecidedOnTheLedger
  <2>2. QED
    BY <1>0, <1>1, <2>1 DEF RevertsStand
<1>2. ASSUME NEW q \in Polls, StartPoll(q) PROVE RoomInv'
  <2> DEFINE started == [phase |-> "started", sequence |-> Len(log)]
  <2>1. poll' = [poll EXCEPT ![q] = started] /\ UNCHANGED <<log, feed, known, archived, yahoo>>
    BY <1>2 DEF StartPoll
  <2>2. started \in PollStates /\ started.phase # "decided" /\ started.sequence = Len(log)
    BY <1>0 DEF PollStates
  <2> HIDE DEF started
  <2>3. /\ poll' \in [Polls -> PollStates] /\ poll'[q] = started
        /\ \A r \in Polls \ {q} : poll'[r] = poll[r]
    BY <1>0, <2>1, <2>2
  <2>4. \A r \in Polls : poll'[r] # Idle => poll'[r].sequence <= Len(log)
    <3>1. \A r \in Polls : poll[r] # Idle => poll[r].sequence <= Len(log)
      BY <1>0 DEF TypeOK
    <3>2. Len(log) <= Len(log)
      BY <1>0
    <3>3. QED
      BY <2>2, <2>3, <3>1, <3>2
  <2>5. \A r \in Polls : poll'[r].phase = "decided" => poll'[r] = poll[r]
    BY <2>2, <2>3
  <2>6. QED
    BY <1>0, <1>1, <2>1, <2>3, <2>4, <2>5 DEF RoomInv, TypeOK
<1>3. ASSUME NEW q \in Polls, ClaimPoll(q) PROVE RoomInv'
  <2> DEFINE claimed == [poll[q] EXCEPT !.phase = "claimed"]
  <2>1. /\ poll' = [poll EXCEPT ![q] = claimed] /\ UNCHANGED <<log, known, archived, yahoo>>
        /\ feed' = [feed EXCEPT !.owner = q] /\ poll[q].phase = "started"
    BY <1>3 DEF ClaimPoll
  <2>2. poll[q] \in [phase : {"started", "claimed"}, sequence : Nat]
    BY <1>0, <2>1, PollKinds
  <2>3. /\ claimed \in PollStates /\ claimed.phase # "decided"
        /\ claimed.sequence = poll[q].sequence /\ poll[q] # Idle
    BY <2>1, <2>2 DEF PollStates, Idle
  <2> HIDE DEF claimed
  <2>4. /\ poll' \in [Polls -> PollStates] /\ poll'[q] = claimed
        /\ \A r \in Polls \ {q} : poll'[r] = poll[r]
    BY <1>0, <2>1, <2>3
  <2>5. \A r \in Polls : poll'[r] # Idle => poll'[r].sequence <= Len(log)
    BY <1>0, <2>3, <2>4 DEF TypeOK
  <2>6. \A r \in Polls : poll'[r].phase = "decided" => poll'[r] = poll[r]
    BY <2>3, <2>4
  <2>7. feed' \in [state : FeedStates, applicationMode : {"append", "shadow"},
                   owner : Polls \union {Nobody}, lastChecksum : Boards \union {NoBoard},
                   verification : {"pending", "verified", "mismatched"}]
    BY <1>0, <2>1 DEF TypeOK
  <2>8. QED
    BY <1>0, <1>1, <2>1, <2>4, <2>5, <2>6, <2>7 DEF RoomInv, TypeOK
<1>4. ASSUME NEW q \in Polls, Fetch(q) PROVE RoomInv'
  <2> DEFINE m == poll[q].sequence
             board == Head(yahoo)
             plan == Reconcile(SubSeq(log, 1, m), board, known')
             decided == [phase |-> "decided", sequence |-> m, board |-> board, plan |-> plan]
  <2>1. /\ poll' = [poll EXCEPT ![q] = decided] /\ UNCHANGED <<log, feed, archived, yahoo>>
        /\ known' = known \union Matched(board.picks) /\ poll[q].phase = "claimed"
    BY <1>4 DEF Fetch
  <2>2. known' \subseteq Resolvable
    BY <1>0, <2>1 DEF TypeOK, Matched
  <2>3. board \in Boards /\ board.picks \in Seq(Facts)
    <3>1. board \in Boards
      BY <1>0 DEF TypeOK
    <3>2. QED
      BY <3>1, BoardTyped
  <2>4. m \in Nat /\ m \in 0 .. Len(log) /\ poll[q] # Idle
    BY <1>0, <2>1, PollKinds DEF Idle
  <2> HIDE DEF m, board
  <2>5. SubSeq(log, 1, m) \in Seq(Event)
    BY <1>0, <2>4, InitialPart
  <2>6. plan \in Plans
    BY <2>3, <2>5, ReconcileKinds
  <2>7. decided \in PollStates /\ decided.sequence = m /\ decided.board = board /\ decided.plan = plan
    <3> HIDE DEF plan
    <3>1. QED
      BY <2>3, <2>4, <2>6 DEF PollStates
  <2> HIDE DEF plan, decided
  <2>8. /\ poll' \in [Polls -> PollStates] /\ poll'[q] = decided
        /\ \A r \in Polls \ {q} : poll'[r] = poll[r]
    BY <1>0, <2>1, <2>7
  <2>9. \A r \in Polls : poll'[r] # Idle => poll'[r].sequence <= Len(log)
    BY <1>0, <2>4, <2>7, <2>8 DEF TypeOK
  <2>10. DecidedOnTheLedger'
    <3>1. SUFFICES ASSUME NEW r \in Polls, poll'[r].phase = "decided"
                   PROVE  \E players \in SUBSET Resolvable :
                            poll'[r].plan = Reconcile(SubSeq(log, 1, poll'[r].sequence),
                                                      poll'[r].board, players)
      BY <2>1 DEF DecidedOnTheLedger
    <3>2. CASE r = q
      BY <2>2, <2>7, <2>8, <3>2 DEF plan
    <3>3. CASE r # q
      BY <1>0, <2>8, <3>1, <3>3 DEF DecidedOnTheLedger
    <3>4. QED
      BY <3>2, <3>3
  <2>11. QED
    BY <1>0, <2>1, <2>2, <2>8, <2>9, <2>10 DEF RoomInv, TypeOK, RevertsStand
<1>5. ASSUME NEW q \in Polls, CommitObservation(q) PROVE RoomInv'
  <2>1. /\ UNCHANGED <<known, archived, yahoo>> /\ poll' = [poll EXCEPT ![q] = Idle]
        /\ feed' \in [state : FeedStates, applicationMode : {"append", "shadow"},
                      owner : Polls \union {Nobody}, lastChecksum : Boards \union {NoBoard},
                      verification : {"pending", "verified", "mismatched"}]
        /\ \/ UNCHANGED log
           \/ \E batch \in Seq(Event) :
                PollAppends(q, batch) /\ log' = log \o batch /\ Legal(log')
    BY <1>5, CommitKinds
  <2>2. Idle \in PollStates
    BY DEF PollStates
  <2>3. /\ poll' \in [Polls -> PollStates]
        /\ \A r \in Polls : poll'[r] = Idle \/ poll'[r] = poll[r]
    BY <1>0, <2>1, <2>2
  <2>4. CASE UNCHANGED log
    <3>1. \A r \in Polls : poll'[r].phase = "decided" => poll'[r] = poll[r]
      BY <2>3 DEF Idle
    <3>2. \A r \in Polls : poll'[r] # Idle => poll'[r].sequence <= Len(log)
      BY <1>0, <2>3 DEF TypeOK
    <3>3. QED
      BY <1>0, <1>1, <2>1, <2>3, <2>4, <3>1, <3>2 DEF RoomInv, TypeOK
  <2>5. CASE \E batch \in Seq(Event) :
               PollAppends(q, batch) /\ log' = log \o batch /\ Legal(log')
    <3>1. PICK batch \in Seq(Event) : PollAppends(q, batch) /\ log' = log \o batch /\ Legal(log')
      BY <2>5
    <3>2. \A k \in 1 .. Len(batch) : ~IsRevert(batch[k])
      BY <3>1 DEF PollAppends, FromYahoo
    <3>3. /\ log' \in Seq(Event) /\ RevertsStand(log') /\ DecidedOnTheLedger'
          /\ \A r \in Polls : poll'[r] # Idle => poll'[r].sequence <= Len(log')
      BY <2>3, <3>1, <3>2, AppendKeepsInv
    <3>4. QED
      BY <1>0, <2>1, <2>3, <3>1, <3>3 DEF RoomInv, TypeOK
  <2>6. QED
    BY <2>1, <2>4, <2>5
<1>6. ASSUME NEW q \in Polls, FailPoll(q) \/ AbandonPoll(q) PROVE RoomInv'
  <2>1. /\ poll' = [poll EXCEPT ![q] = Idle] /\ UNCHANGED <<log, known, archived, yahoo>>
        /\ feed' = feed \/ feed' = [feed EXCEPT !.state = "delayed"]
    BY <1>6 DEF FailPoll, AbandonPoll
  <2>2. Idle \in PollStates
    BY DEF PollStates
  <2>3. /\ poll' \in [Polls -> PollStates]
        /\ \A r \in Polls : poll'[r] = Idle \/ poll'[r] = poll[r]
    BY <1>0, <2>1, <2>2
  <2>4. \A r \in Polls : poll'[r].phase = "decided" => poll'[r] = poll[r]
    BY <2>3 DEF Idle
  <2>5. \A r \in Polls : poll'[r] # Idle => poll'[r].sequence <= Len(log)
    BY <1>0, <2>3 DEF TypeOK
  <2>6. feed' \in [state : FeedStates, applicationMode : {"append", "shadow"},
                   owner : Polls \union {Nobody}, lastChecksum : Boards \union {NoBoard},
                   verification : {"pending", "verified", "mismatched"}]
    BY <1>0, <2>1 DEF TypeOK, FeedStates
  <2>7. QED
    BY <1>0, <1>1, <2>1, <2>3, <2>4, <2>5, <2>6 DEF RoomInv, TypeOK
<1>7. CASE CommissionerWrite
  <2>1. /\ UNCHANGED <<known, poll, archived, yahoo>>
        /\ feed' \in [state : FeedStates, applicationMode : {"append", "shadow"},
                      owner : Polls \union {Nobody}, lastChecksum : Boards \union {NoBoard},
                      verification : {"pending", "verified", "mismatched"}]
        /\ \E batch \in Seq(Event) : ManAppends(batch) /\ log' = log \o batch /\ Legal(log')
    BY <1>7, WriteKinds
  <2>2. PICK batch \in Seq(Event) : ManAppends(batch) /\ log' = log \o batch /\ Legal(log')
    BY <2>1
  <2>3. /\ log' \in Seq(Event) /\ RevertsStand(log') /\ DecidedOnTheLedger'
        /\ \A r \in Polls : poll'[r] # Idle => poll'[r].sequence <= Len(log')
    BY <1>0, <2>1, <2>2, AppendKeepsInv DEF ManAppends
  <2>4. QED
    BY <1>0, <2>1, <2>2, <2>3 DEF RoomInv, TypeOK
<1>8. CASE Archive \/ YahooMovesOn \/ UNCHANGED vars
  <2>1. /\ UNCHANGED <<log, feed, known, poll>> /\ archived' \in BOOLEAN
        /\ yahoo' \in Seq(Boards) \ {<<>>}
    <3>1. CASE YahooMovesOn
      <4>1. yahoo \in Seq(Boards) /\ Len(yahoo) > 1 /\ yahoo' = Tail(yahoo)
        BY <1>0, <3>1 DEF YahooMovesOn, TypeOK
      <4>2. Tail(yahoo) \in Seq(Boards) \ {<<>>}
        BY <4>1, TailIsNotEmpty
      <4>3. QED
        BY <1>0, <3>1, <4>1, <4>2 DEF YahooMovesOn, TypeOK
    <3>2. CASE Archive \/ UNCHANGED vars
      BY <1>0, <3>2 DEF Archive, vars, TypeOK
    <3>3. QED
      BY <1>8, <3>1, <3>2
  <2>2. QED
    BY <1>0, <1>1, <2>1 DEF RoomInv, TypeOK
<1>9. QED
  BY <1>2, <1>3, <1>4, <1>5, <1>6, <1>7, <1>8 DEF Next

\* The invariant holds in every state of a room Yahoo assists.
THEOREM RoomInvariant == Spec => []RoomInv
BY RoomInvInit, RoomInvStep, PTL DEF Spec

\* Every variable of the room keeps its type, whatever Yahoo shows and whoever writes.
THEOREM RoomTypeCorrect == Spec => []TypeOK
<1>1. RoomInv => TypeOK
  BY DEF RoomInv
<1>2. QED
  BY <1>1, RoomInvariant, PTL

\* The ledger of the room is append-only and reduces after every step, however the
\* polls and the commissioners overlap.
THEOREM YahooImplementsLedger == Spec => ImplementsLedger
<1>1. Init => Ledger!Init
  BY DEF Init, Ledger!Init
<1>2. RoomInv /\ [Next]_vars => [Ledger!AppendBatch]_log
  <2> SUFFICES ASSUME RoomInv, Next, log' # log
               PROVE  Ledger!AppendBatch
    BY DEF vars
  <2>1. \/ \E q \in Polls : CommitObservation(q)
        \/ CommissionerWrite
    BY DEF Next, StartPoll, ClaimPoll, Fetch, FailPoll, AbandonPoll, Archive, YahooMovesOn
  <2>2. PICK batch \in Seq(Event) : log' = log \o batch /\ Legal(log')
    BY <2>1, CommitKinds, WriteKinds
  <2>3. IsPrefix(log, log')
    BY <2>2, PrefixOfConcat DEF RoomInv, TypeOK
  <2>4. QED
    BY <2>2, <2>3 DEF Ledger!AppendBatch, Ledger!IsPrefix, IsPrefix
<1>3. QED
  BY <1>1, <1>2, RoomInvariant, PTL DEF Spec, ImplementsLedger, Ledger!Spec

\* Every board a reader of the room is shown is sound, Yahoo's picks included.
THEOREM YahooBoardsSound == Spec => []SoundRoom(Reduce(log))
<1>1. RoomInv => SoundRoom(Reduce(log))
  <2>1. SUFFICES ASSUME RoomInv PROVE OfEvents(log)
    BY EveryRoomIsSound DEF RoomInv, TypeOK
  <2>2. \A e \in Event : IsRevert(e) \/ IsAction(e)
    BY DEF Event, IsRevert, IsAction, Acquisitions, SnakeTypes, AuctionTypes
  <2>3. QED
    BY <2>1, <2>2 DEF RoomInv, TypeOK, OfEvents
<1>2. QED
  BY <1>1, RoomInvariant, PTL

-----------------------------------------------------------------------------
(***************************************************************************)
(* What was taken back, and what is verified.                              *)
(***************************************************************************)

\* Once an acquisition of Yahoo's is undone every poll is held on any log that shows
\* it, and a poll decided on an older log may not append.
LEMMA TakenBackStep == RoomInv /\ TakenBackStays /\ [Next]_vars => TakenBackStays'
<1> SUFFICES ASSUME RoomInv, TakenBackStays, [Next]_vars PROVE TakenBackStays'
  OBVIOUS
<1>1. CASE UNCHANGED log
  BY <1>1 DEF TakenBackStays
<1>2. ASSUME NEW batch \in Seq(Event), log' = log \o batch, Legal(log'),
             \/ \A k \in 1 .. Len(batch) : batch[k].source = "manual"
             \/ ~HasReverted(log) /\ \A k \in 1 .. Len(batch) : ~IsRevert(batch[k])
      PROVE  TakenBackStays'
  <2>1. /\ log \in Seq(Event) /\ log' \in Seq(Event)
        /\ Len(log) \in Nat /\ Len(log') \in Nat
        /\ DOMAIN log = 1 .. Len(log) /\ DOMAIN log' = 1 .. Len(log')
        /\ \A i \in DOMAIN log : i \in DOMAIN log' /\ log'[i] = log[i]
        /\ \A i \in DOMAIN log' : i \notin DOMAIN log =>
             \E k \in 1 .. Len(batch) : i = Len(log) + k /\ log'[i] = batch[k]
    BY <1>2, PlacesOfConcat DEF RoomInv, TypeOK
  <2>2. WellFormed(log) /\ WellFormed(log')
    BY <1>2 DEF RoomInv, Legal
  <2>3. SUFFICES ASSUME NEW i \in DOMAIN log', NEW j \in DOMAIN log', NEW k \in DOMAIN log',
                        log'[i].source = "yahoo", IsRevert(log'[j]),
                        log'[j].target = log'[i].id, j < k
                 PROVE  log'[k].source = "manual"
    BY DEF TakenBackStays
  <2>4. CASE \A n \in 1 .. Len(batch) : batch[n].source = "manual"
    <3>1. CASE k \in DOMAIN log
      <4>1. j \in DOMAIN log
        BY <2>1, <2>3, <3>1
      <4>2. PICK h \in 1 .. j - 1 : log[h].id = log[j].target
        BY <2>1, <2>2, <2>3, <4>1 DEF WellFormed
      <4>3. h \in DOMAIN log
        BY <2>1, <4>1
      <4>4. h = i
        BY <2>1, <2>2, <2>3, <4>1, <4>2, <4>3 DEF WellFormed
      <4>5. QED
        BY <2>1, <2>3, <3>1, <4>1, <4>3, <4>4 DEF TakenBackStays
    <3>2. CASE k \notin DOMAIN log
      BY <2>1, <2>4, <3>2
    <3>3. QED
      BY <3>1, <3>2
  <2>5. CASE ~HasReverted(log) /\ \A n \in 1 .. Len(batch) : ~IsRevert(batch[n])
    <3>1. PICK h \in 1 .. j - 1 : log'[h].id = log'[j].target
      BY <2>2, <2>3 DEF WellFormed
    <3>2. h \in DOMAIN log'
      BY <2>1, <2>3, <3>1
    <3>3. h = i
      BY <2>2, <2>3, <3>1, <3>2 DEF WellFormed
    <3>4. log'[i] \in Event /\ log'[j] \in Event
      BY <2>1
    <3>5. log'[i].type \in Acquisitions /\ log'[j].source = "manual"
      BY <2>3, <3>4 DEF Event, IsRevert, Acquisitions, SnakeTypes, AuctionTypes
    <3>6. j \in DOMAIN log
      BY <2>1, <2>3, <2>5
    <3>7. i \in DOMAIN log
      BY <2>1, <3>1, <3>3, <3>6
    <3>8. log[i].id \in Reverted(log)
      BY <2>1, <2>3, <3>6, <3>7 DEF Reverted
    <3>9. HasReverted(log)
      BY <2>1, <2>3, <3>5, <3>7, <3>8 DEF HasReverted
    <3>10. QED
      BY <2>5, <3>9
  <2>6. QED
    BY <1>2, <2>4, <2>5
<1>3. ASSUME NEW q \in Polls, CommitObservation(q) PROVE TakenBackStays'
  <2>1. CASE UNCHANGED log
    BY <1>1, <2>1
  <2>2. CASE \E batch \in Seq(Event) :
               PollAppends(q, batch) /\ log' = log \o batch /\ Legal(log')
    BY <1>2, <2>2 DEF PollAppends, FromYahoo
  <2>3. QED
    BY <1>3, <2>1, <2>2, CommitKinds
<1>4. CASE CommissionerWrite
  <2>1. PICK batch \in Seq(Event) : ManAppends(batch) /\ log' = log \o batch /\ Legal(log')
    BY <1>4, WriteKinds
  <2>2. QED
    BY <1>2, <2>1 DEF ManAppends
<1>5. QED
  BY <1>1, <1>3, <1>4 DEF Next, StartPoll, ClaimPoll, Fetch, FailPoll, AbandonPoll,
       Archive, YahooMovesOn, vars

\* What a commissioner took back of Yahoo's is never put back by a poll, not even
\* by one that had read the ledger before.
THEOREM TakenBackAlwaysStays == Spec => []TakenBackStays
<1>1. Init => TakenBackStays
  BY DEF Init, TakenBackStays
<1>2. QED
  BY <1>1, RoomInvariant, TakenBackStep, PTL DEF Spec

\* Only a commit that brings the ledger up to Yahoo's final board verifies it, and
\* any later write of a commissioner takes the word back with it.
LEMMA VerifiedStep == RoomInv /\ VerifiedMatchesYahoo /\ [Next]_vars => VerifiedMatchesYahoo'
<1> SUFFICES ASSUME RoomInv, VerifiedMatchesYahoo, [Next]_vars PROVE VerifiedMatchesYahoo'
  OBVIOUS
<1>1. ASSUME NEW q \in Polls, CommitObservation(q) PROVE VerifiedMatchesYahoo'
  <2> DEFINE board == poll[q].board
  <2>1. SUFFICES ASSUME feed'.verification = "verified"
                 PROVE  board.status = "postdraft" /\ LedgerActions(log') = board.picks
    BY <1>1, CommitKinds DEF VerifiedMatchesYahoo
  <2>2. /\ board.status = "postdraft"
        /\ \E batch \in Seq(Event) :
             PollAppends(q, batch) /\ log' = log \o batch /\ Legal(log')
    BY <1>1, <2>1, CommitKinds
  <2>3. PICK batch \in Seq(Event) : PollAppends(q, batch) /\ log' = log \o batch /\ Legal(log')
    BY <2>2
  <2>4. board.picks \in Seq(Facts)
    BY <2>3, PollKinds DEF RoomInv, PollAppends
  <2>5. /\ batch = Wanted(log, board) /\ IsPrefix(LedgerActions(log), board.picks)
        /\ WellFormed(log) /\ WellFormed(log \o batch) /\ log \in Seq(Event)
    BY <2>3 DEF PollAppends, Legal, RoomInv, TypeOK
  <2> HIDE DEF board
  <2>6. LedgerActions(log \o Wanted(log, board)) = board.picks
    BY <2>4, <2>5, WantedCompletes
  <2>7. QED
    BY <2>2, <2>3, <2>5, <2>6
<1>2. CASE CommissionerWrite
  BY <1>2, WriteKinds DEF VerifiedMatchesYahoo
<1>3. ASSUME UNCHANGED log, feed'.verification = feed.verification,
             feed'.lastChecksum = feed.lastChecksum
      PROVE  VerifiedMatchesYahoo'
  BY <1>3 DEF VerifiedMatchesYahoo
<1>4. ASSUME NEW q \in Polls, ClaimPoll(q) \/ FailPoll(q) PROVE VerifiedMatchesYahoo'
  BY <1>3, <1>4 DEF ClaimPoll, FailPoll, RoomInv, TypeOK
<1>5. CASE UNCHANGED <<log, feed>>
  BY <1>3, <1>5
<1>6. QED
  BY <1>1, <1>2, <1>4, <1>5 DEF Next, StartPoll, Fetch, AbandonPoll, Archive, YahooMovesOn, vars

\* A comparison shown as verified is true of the ledger as it is now.
THEOREM VerifiedAlwaysMatches == Spec => []VerifiedMatchesYahoo
<1>1. Init => VerifiedMatchesYahoo
  BY DEF Init, VerifiedMatchesYahoo
<1>2. QED
  BY <1>1, RoomInvariant, VerifiedStep, PTL DEF Spec
=============================================================================
