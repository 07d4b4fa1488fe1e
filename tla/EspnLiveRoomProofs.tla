-------------------------- MODULE EspnLiveRoomProofs --------------------------
(***************************************************************************)
(* A draft room fed by ESPN, with any number of pages, uploads, polls and  *)
(* commissioners in any order.                                             *)
(***************************************************************************)
EXTENDS EspnLiveRoom, DraftReducerProofs

-----------------------------------------------------------------------------
(***************************************************************************)
(* Positions in their order.                                               *)
(***************************************************************************)

InOrder(s) == \A m, n \in DOMAIN s : m < n => s[m] < s[n]

Enumerates(s, positions) ==
  /\ s \in Seq(Nat) /\ InOrder(s)
  /\ \A n \in DOMAIN s : s[n] \in positions
  /\ \A p \in positions : \E n \in DOMAIN s : s[n] = p

\* A filter on the positions of a log lists them, oldest first.
LEMMA PositionsInOrder ==
  ASSUME NEW S, NEW events \in Seq(S), NEW positions \in SUBSET DOMAIN events
  PROVE  Enumerates(EventsAt([i \in DOMAIN events |-> i], positions), positions)
<1> DEFINE all == [i \in DOMAIN events |-> i]
           found == EventsAt(all, positions)
<1>1. /\ Len(events) \in Nat /\ DOMAIN events = 1 .. Len(events)
      /\ all = [i \in 1 .. Len(events) |-> i]
  OBVIOUS
<1>2. /\ all \in Seq(Nat) /\ Len(all) = Len(events) /\ DOMAIN all = 1 .. Len(events)
      /\ \A i \in 1 .. Len(events) : all[i] = i
  BY <1>1
<1> HIDE DEF all
<1>3. PICK kept : KeptBy(all, positions, kept) /\ found = kept[Len(all)]
  BY <1>2, EventsAtIsLast
<1> HIDE DEF found
<1> DEFINE Listed(n) ==
             /\ kept[n] \in Seq(Nat) /\ InOrder(kept[n])
             /\ \A k \in DOMAIN kept[n] : kept[n][k] \in positions /\ kept[n][k] <= n
             /\ \A p \in positions : p <= n => \E k \in DOMAIN kept[n] : kept[n][k] = p
           Good == {n \in 0 .. Len(events) : Listed(n)}
<1>4. 0 \in Good
  <2>1. kept[0] = <<>>
    BY <1>1, <1>2, <1>3 DEF KeptBy
  <2>2. DOMAIN <<>> = {} /\ <<>> \in Seq(Nat) /\ \A p \in positions : ~(p <= 0)
    BY <1>1
  <2>3. Listed(0)
    BY <2>1, <2>2 DEF InOrder
  <2>4. QED
    BY <1>1, <2>3
<1>5. ASSUME NEW n \in 0 .. Len(events) - 1, n \in Good PROVE n + 1 \in Good
  <2>1. n + 1 \in 0 .. Len(events) /\ n + 1 # 0 /\ (n + 1) - 1 = n /\ n + 1 \in 1 .. Len(events)
    BY <1>1
  <2>2. kept[n + 1] = IF n + 1 \in positions THEN Append(kept[n], n + 1) ELSE kept[n]
    BY <1>2, <1>3, <2>1 DEF KeptBy
  <2>3. Listed(n)
    BY <1>5
  <2>4. CASE n + 1 \notin positions
    <3>1. \A p \in positions : p <= n + 1 => p <= n
      BY <1>1, <2>1, <2>4
    <3>2. \A k \in DOMAIN kept[n] : kept[n][k] <= n + 1
      BY <1>1, <2>1, <2>3
    <3>3. Listed(n + 1)
      BY <2>2, <2>3, <2>4, <3>1, <3>2
    <3>4. QED
      BY <2>1, <3>3
  <2>5. CASE n + 1 \in positions
    <3> DEFINE s == kept[n]
               t == Append(s, n + 1)
    <3>1. s \in Seq(Nat) /\ Len(s) \in Nat /\ DOMAIN s = 1 .. Len(s) /\ InOrder(s)
      BY <2>3
    <3>2. /\ t \in Seq(Nat) /\ Len(t) = Len(s) + 1 /\ DOMAIN t = 1 .. Len(s) + 1
          /\ t[Len(s) + 1] = n + 1 /\ \A k \in 1 .. Len(s) : t[k] = s[k]
      BY <2>1, <3>1, AppendProperties
    <3>3. \A k \in 1 .. Len(s) : s[k] \in positions /\ s[k] <= n
      BY <2>3, <3>1
    <3>4. \A p \in positions : p <= n => \E k \in 1 .. Len(s) : s[k] = p
      BY <2>3, <3>1
    <3> HIDE DEF s, t
    <3>5. InOrder(t)
      <4>1. SUFFICES ASSUME NEW a \in 1 .. Len(s) + 1, NEW b \in 1 .. Len(s) + 1, a < b
                     PROVE  t[a] < t[b]
        BY <3>2 DEF InOrder
      <4>2. a \in 1 .. Len(s) /\ t[a] = s[a]
        BY <3>1, <3>2, <4>1
      <4>3. CASE b \in 1 .. Len(s)
        BY <3>1, <3>2, <4>1, <4>2, <4>3 DEF InOrder
      <4>4. CASE b \notin 1 .. Len(s)
        <5>1. b = Len(s) + 1
          BY <3>1, <4>1, <4>4
        <5>2. s[a] \in Nat /\ s[a] <= n
          BY <3>1, <3>3, <4>2
        <5>3. t[b] = n + 1
          BY <3>2, <5>1
        <5>4. QED
          BY <2>1, <4>2, <5>2, <5>3
      <4>5. QED
        BY <4>3, <4>4
    <3>6. ASSUME NEW k \in DOMAIN t PROVE t[k] \in positions /\ t[k] <= n + 1
      <4>1. CASE k \in 1 .. Len(s)
        BY <1>1, <2>1, <3>2, <3>3, <4>1
      <4>2. CASE k \notin 1 .. Len(s)
        <5>1. k = Len(s) + 1
          BY <3>1, <3>2, <3>6, <4>2
        <5>2. QED
          BY <2>1, <2>5, <3>2, <5>1
      <4>3. QED
        BY <4>1, <4>2
    <3>7. ASSUME NEW p \in positions, p <= n + 1 PROVE \E k \in DOMAIN t : t[k] = p
      <4>1. CASE p <= n
        <5>1. PICK k \in 1 .. Len(s) : s[k] = p
          BY <3>4, <4>1
        <5>2. k \in DOMAIN t /\ t[k] = p
          BY <3>1, <3>2, <5>1
        <5>3. QED
          BY <5>2
      <4>2. CASE ~(p <= n)
        <5>1. p = n + 1
          BY <1>1, <2>1, <3>7, <4>2
        <5>2. Len(s) + 1 \in DOMAIN t
          BY <3>1, <3>2
        <5>3. QED
          BY <3>2, <5>1, <5>2
      <4>3. QED
        BY <4>1, <4>2
    <3>8. kept[n + 1] = t
      BY <2>2, <2>5 DEF s, t
    <3>9. Listed(n + 1)
      BY <3>2, <3>5, <3>6, <3>7, <3>8
    <3>10. QED
      BY <2>1, <3>9
  <2>6. QED
    BY <2>4, <2>5
<1> HIDE DEF Good
<1>6. 0 .. Len(events) \subseteq Good
  BY <1>1, <1>4, <1>5, InductionOnNat
<1>7. /\ found \in Seq(Nat) /\ InOrder(found)
      /\ \A k \in DOMAIN found : found[k] \in positions
      /\ \A p \in positions : p <= Len(events) => \E k \in DOMAIN found : found[k] = p
  BY <1>1, <1>2, <1>3, <1>6 DEF Good
<1>8. \A p \in positions : p <= Len(events)
  BY <1>1
<1>9. Enumerates(found, positions)
  BY <1>7, <1>8 DEF Enumerates
<1>10. QED
  BY <1>9 DEF found, all

\* What lists the same positions in their order agrees, as far as the first goes.
LEMMA OneOrderAgrees ==
  ASSUME NEW positions, NEW a, NEW b, Enumerates(a, positions), Enumerates(b, positions)
  PROVE  \A n \in 1 .. Len(a) : n <= Len(b) /\ a[n] = b[n]
<1> DEFINE Differ == {n \in 1 .. Len(a) : ~(n <= Len(b) /\ a[n] = b[n])}
<1>1. SUFFICES ASSUME Differ # {} PROVE FALSE
  OBVIOUS
<1>2. /\ a \in Seq(Nat) /\ b \in Seq(Nat) /\ Len(a) \in Nat /\ Len(b) \in Nat
      /\ DOMAIN a = 1 .. Len(a) /\ DOMAIN b = 1 .. Len(b)
      /\ \A n \in 1 .. Len(a) : a[n] \in Nat
      /\ \A n \in 1 .. Len(b) : b[n] \in Nat
  BY DEF Enumerates
<1>3. Differ \in SUBSET Nat
  BY <1>2
<1>4. PICK n \in Differ : \A m \in Differ : n <= m
  BY <1>1, <1>3, LeastNatural
<1>5. n \in 1 .. Len(a) /\ ~(n <= Len(b) /\ a[n] = b[n])
  BY <1>4
<1>6. \A m \in 1 .. n - 1 : m <= Len(b) /\ a[m] = b[m]
  BY <1>2, <1>4, <1>5
<1>7. PICK k \in 1 .. Len(b) : b[k] = a[n]
  BY <1>2, <1>5 DEF Enumerates
<1>8. ~(k < n)
  <2>1. SUFFICES ASSUME k < n PROVE FALSE
    OBVIOUS
  <2>2. k \in 1 .. n - 1 /\ k \in 1 .. Len(a)
    BY <1>2, <1>5, <1>7, <2>1
  <2>3. a[k] = a[n] /\ a[k] < a[n]
    BY <1>2, <1>5, <1>6, <1>7, <2>1, <2>2 DEF Enumerates, InOrder
  <2>4. QED
    BY <1>2, <2>2, <2>3
<1>9. n \in 1 .. Len(b) /\ n < k
  BY <1>2, <1>5, <1>7, <1>8
<1>10. b[n] < a[n]
  BY <1>2, <1>7, <1>9 DEF Enumerates, InOrder
<1>11. PICK j \in 1 .. Len(a) : a[j] = b[n]
  BY <1>2, <1>9 DEF Enumerates
<1>12. j < n
  <2>1. SUFFICES ASSUME ~(j < n) PROVE FALSE
    OBVIOUS
  <2>2. j = n \/ n < j
    BY <1>2, <1>5, <1>11, <2>1
  <2>3. a[j] = a[n] \/ a[n] < a[j]
    BY <1>2, <1>5, <1>11, <2>2 DEF Enumerates, InOrder
  <2>4. a[n] \in Nat /\ a[j] \in Nat /\ b[n] \in Nat
    BY <1>2, <1>5, <1>9, <1>11
  <2>5. QED
    BY <1>10, <1>11, <2>3, <2>4
<1>13. j \in 1 .. n - 1 /\ j \in 1 .. Len(b)
  BY <1>2, <1>5, <1>9, <1>11, <1>12
<1>14. b[j] = b[n] /\ b[j] < b[n]
  BY <1>2, <1>6, <1>9, <1>11, <1>12, <1>13 DEF Enumerates, InOrder
<1>15. QED
  BY <1>2, <1>9, <1>13, <1>14

\* There is one way to list positions in their order.
LEMMA OneOrder ==
  ASSUME NEW positions, NEW a, NEW b, Enumerates(a, positions), Enumerates(b, positions)
  PROVE  a = b
<1>1. /\ \A n \in 1 .. Len(a) : n <= Len(b) /\ a[n] = b[n]
      /\ \A n \in 1 .. Len(b) : n <= Len(a)
  BY OneOrderAgrees
<1>2. a \in Seq(Nat) /\ b \in Seq(Nat) /\ Len(a) \in Nat /\ Len(b) \in Nat
  BY DEF Enumerates
<1>3. Len(a) = Len(b)
  <2>1. Len(a) = 0 \/ Len(a) \in 1 .. Len(a)
    BY <1>2
  <2>2. Len(b) = 0 \/ Len(b) \in 1 .. Len(b)
    BY <1>2
  <2>3. QED
    BY <1>1, <1>2, <2>1, <2>2
<1>4. QED
  BY <1>1, <1>2, <1>3, SeqEqual

-----------------------------------------------------------------------------
(***************************************************************************)
(* What the reconciler wants to append.                                    *)
(***************************************************************************)

\* An event of the log that is no revert says what happened.
LEMMA ActionTyped ==
  ASSUME NEW e \in Event, ~IsRevert(e)
  PROVE  ActionOf(e) \in DraftActions
BY DEF Event, IsRevert, ActionOf, DraftActions

\* The provider actions that stand, by their positions.
LEMMA AcceptedTyped ==
  ASSUME NEW events \in Seq(Event)
  PROVE  /\ \A source : Enumerates(Standing(events, source), StandingAt(events, source))
         /\ Accepted(events) \in Seq(DraftActions)
         /\ Len(Accepted(events)) = Len(Standing(events, "espn"))
         /\ \A n \in 1 .. Len(Accepted(events)) :
              /\ Standing(events, "espn")[n] \in StandingAt(events, "espn")
              /\ Accepted(events)[n] = ActionOf(events[Standing(events, "espn")[n]])
<1>1. ASSUME NEW source
      PROVE  Enumerates(Standing(events, source), StandingAt(events, source))
  <2>1. StandingAt(events, source) \in SUBSET DOMAIN events
    BY DEF StandingAt
  <2>2. QED
    BY <2>1, PositionsInOrder DEF Standing
<1> DEFINE standing == Standing(events, "espn")
           accepted == Accepted(events)
<1>2. Enumerates(standing, StandingAt(events, "espn"))
  BY <1>1
<1>3. accepted = [n \in DOMAIN standing |-> ActionOf(events[standing[n]])]
  BY DEF Accepted
<1> HIDE DEF standing, accepted
<1>4. /\ standing \in Seq(Nat) /\ Len(standing) \in Nat /\ DOMAIN standing = 1 .. Len(standing)
      /\ \A n \in 1 .. Len(standing) : standing[n] \in StandingAt(events, "espn")
  BY <1>2 DEF Enumerates
<1>5. ASSUME NEW n \in 1 .. Len(standing) PROVE ActionOf(events[standing[n]]) \in DraftActions
  <2>1. events[standing[n]] \in Event /\ ~IsRevert(events[standing[n]])
    BY <1>4 DEF StandingAt
  <2>2. QED
    BY <2>1, ActionTyped
<1>6. accepted \in Seq(DraftActions) /\ Len(accepted) = Len(standing)
  BY <1>3, <1>4, <1>5
<1>7. QED
  BY <1>1, <1>3, <1>4, <1>6 DEF standing, accepted

\* Ordering a board keeps its picks actions.
LEMMA OrderTyped ==
  ASSUME NEW picks \in Seq(DraftActions)
  PROVE  CanonicalOrder(picks) \in Seq(DraftActions)
<1> DEFINE keepers == {n \in DOMAIN picks : picks[n].type \in KeeperTypes}
<1>1. /\ EventsAt(picks, keepers) \in Seq(DraftActions)
      /\ EventsAt(picks, DOMAIN picks \ keepers) \in Seq(DraftActions)
  BY EventsAtAreThose
<1>2. QED
  BY <1>1, ConcatProperties DEF CanonicalOrder

\* The board and the ledger agree on their common prefix.
LEMMA PrefixAgrees ==
  ASSUME NEW events \in Seq(Event), NEW picks \in Seq(DraftActions),
         NEW k, k = CommonPrefix(events, picks)
  PROVE  /\ k \in 0 .. Len(Accepted(events)) /\ k <= Len(CanonicalOrder(picks))
         /\ \A n \in 1 .. k : Accepted(events)[n] = CanonicalOrder(picks)[n]
<1> DEFINE accepted == Accepted(events)
           observed == CanonicalOrder(picks)
           Agreed == {m \in 0 .. Len(accepted) :
                        m <= Len(observed) /\ \A n \in 1 .. m : accepted[n] = observed[n]}
<1>1. Len(accepted) \in Nat /\ Len(observed) \in Nat
  BY AcceptedTyped, OrderTyped
<1>2. k = Max(Agreed)
  BY DEF CommonPrefix
<1> HIDE DEF accepted, observed
<1>3. 0 \in Agreed
  BY <1>1
<1>4. Agreed \in SUBSET (0 .. Len(accepted)) /\ Agreed # {}
  BY <1>3
<1> HIDE DEF Agreed
<1>5. k \in Agreed
  BY <1>1, <1>2, <1>4, MaxIsGreatest
<1>6. QED
  BY <1>5 DEF Agreed, accepted, observed

\* A revert ESPN's reconciler appends: the action at a position is taken back.
TakesBack(e, events, position) ==
  /\ e \in Event /\ IsRevert(e) /\ e.source = "espn"
  /\ e.target = events[position].id
  /\ \E f \in DraftActions : e.id = RevertKey(position, f)

\* An action it appends: the n-th addition, under its key.
Adds(e, events, additions, prefix, n) ==
  /\ e \in Event /\ ~IsRevert(e) /\ e.source = "espn"
  /\ ActionOf(e) = additions[n]
  /\ e.id = ActionKey(events, additions, prefix, n)

\* Who claimed a slot, and how often, is finite.
LEMMA ClaimsTyped ==
  ASSUME NEW events \in Seq(Event), NEW slot
  PROVE  /\ Claims(events, slot) \in SUBSET (1 .. Len(events)) /\ IsFiniteSet(Claims(events, slot))
         /\ Cardinality(Claims(events, slot)) \in Nat
<1>1. Claims(events, slot) \in SUBSET (1 .. Len(events)) /\ Len(events) \in Nat
  BY DEF Claims
<1>2. IsFiniteSet(1 .. Len(events))
  BY <1>1, FS_Interval
<1>3. QED
  BY <1>1, <1>2, FS_Subset, FS_CardinalityType

\* The key of an addition is an event id.
LEMMA ActionKeyTyped ==
  ASSUME NEW events \in Seq(Event), NEW additions \in Seq(DraftActions), NEW prefix \in Nat,
         NEW n \in 1 .. Len(additions)
  PROVE  ActionKey(events, additions, prefix, n)
           \in [slot : Nat, fingerprint : DraftActions, generation : Nat]
<1> DEFINE slot == Slot(additions[n], prefix + n)
           earlier == {m \in 1 .. n - 1 : Slot(additions[m], prefix + m) = slot}
<1>1. additions[n] \in DraftActions /\ n \in Nat
  OBVIOUS
<1>2. slot \in Nat
  BY <1>1 DEF Slot, DraftActions
<1>3. Cardinality(Claims(events, slot)) \in Nat
  BY ClaimsTyped
<1>4. Cardinality(earlier) \in Nat
  <2>1. earlier \in SUBSET (1 .. n - 1)
    OBVIOUS
  <2> HIDE DEF earlier
  <2>2. 1 \in Int /\ n - 1 \in Int
    BY <1>1
  <2>3. IsFiniteSet(1 .. n - 1)
    BY <2>2, FS_Interval
  <2>4. QED
    BY <2>1, <2>3, FS_Subset, FS_CardinalityType
<1>5. ActionKey(events, additions, prefix, n) =
        [slot |-> slot, fingerprint |-> additions[n],
         generation |-> Cardinality(Claims(events, slot)) + Cardinality(earlier)]
  BY DEF ActionKey
<1> HIDE DEF slot, earlier
<1>6. QED
  BY <1>1, <1>2, <1>3, <1>4, <1>5

\* How many accepted actions the board does not repeat, and how many it adds.
Unrepeated(events, picks) ==
  Len(Standing(events, "espn")) - CommonPrefix(events, picks)

Missing(events, picks) ==
  Len(CanonicalOrder(picks)) - CommonPrefix(events, picks)

\* What is left of a sequence after its first k elements.
LEMMA RestOfSeq ==
  ASSUME NEW S, NEW s \in Seq(S), NEW k \in Nat, k <= Len(s),
         NEW rest, rest = SubSeq(s, k + 1, Len(s))
  PROVE  /\ rest \in Seq(S) /\ Len(rest) = Len(s) - k
         /\ \A n \in 1 .. Len(s) - k : rest[n] = s[k + n]
<1> DEFINE n == Len(s)
<1>1. n \in Nat /\ k + 1 \in Int /\ \A i \in k + 1 .. n : s[i] \in S
  OBVIOUS
<1>2. rest = SubSeq(s, k + 1, n)
  OBVIOUS
<1> HIDE DEF n
<1>3. /\ rest \in Seq(S)
      /\ Len(rest) = IF k + 1 <= n THEN n - (k + 1) + 1 ELSE 0
      /\ \A i \in 1 .. n - (k + 1) + 1 : rest[i] = s[(k + 1) + i - 1]
  BY <1>1, <1>2, SubSeqProperties
<1>4. Len(rest) = n - k
  BY <1>1, <1>3 DEF n
<1>5. ASSUME NEW i \in 1 .. n - k PROVE rest[i] = s[k + i]
  <2>1. i \in 1 .. n - (k + 1) + 1 /\ (k + 1) + i - 1 = k + i
    BY <1>1, <1>5
  <2>2. QED
    BY <1>3, <2>1
<1>6. QED
  BY <1>3, <1>4, <1>5 DEF n

\* A function on the first n naturals is a sequence of n elements.
LEMMA SeqOfFunction ==
  ASSUME NEW S, NEW n \in Nat, NEW f \in [1 .. n -> S]
  PROVE  f \in Seq(S) /\ Len(f) = n
OBVIOUS

\* What the reconciler appends: first it takes back, newest first, the accepted
\* actions that the board does not repeat, then it adds the rest of the board.
LEMMA ReconcilerAppends ==
  ASSUME NEW events \in Seq(Event), NEW picks \in Seq(DraftActions)
  PROVE  LET k == CommonPrefix(events, picks)
             standing == Standing(events, "espn")
             observed == CanonicalOrder(picks)
             append == ProviderEvents(events, picks)
             additions == Additions(events, picks)
             r == Unrepeated(events, picks)
             a == Missing(events, picks)
         IN /\ k \in Nat /\ r \in Nat /\ a \in Nat
            /\ r = Len(standing) - k /\ a = Len(observed) - k
            /\ Superseded(events, picks) # <<>> <=> r > 0
            /\ append \in Seq(Event) /\ Len(append) = r + a
            /\ \A n \in 1 .. r : TakesBack(append[n], events, standing[Len(standing) - n + 1])
            /\ additions \in Seq(DraftActions) /\ Len(additions) = a
            /\ \A n \in 1 .. a : /\ additions[n] = observed[k + n]
                                 /\ Adds(append[r + n], events, additions, k, n)
<1> DEFINE k == CommonPrefix(events, picks)
           standing == Standing(events, "espn")
           observed == CanonicalOrder(picks)
           append == ProviderEvents(events, picks)
           additions == Additions(events, picks)
           r == Unrepeated(events, picks)
           a == Missing(events, picks)
           P == StandingAt(events, "espn")
           stale == SubSeq(standing, k + 1, Len(standing))
           superseded == Superseded(events, picks)
           Fingerprint(position) ==
             IF additions # <<>> THEN additions[1] ELSE ActionOf(events[position])
           RevertAt(n) == [id     |-> RevertKey(superseded[n], Fingerprint(superseded[n])),
                           type   |-> "DRAFT_EVENT_REVERTED",
                           target |-> events[superseded[n]].id,
                           source |-> "espn"]
           AddAt(n) == [id     |-> ActionKey(events, additions, k, n),
                        type   |-> additions[n].type,
                        team   |-> additions[n].team,
                        player |-> additions[n].player,
                        number |-> additions[n].number,
                        source |-> "espn"]
           reverts == [n \in DOMAIN superseded |-> RevertAt(n)]
           adds == [n \in DOMAIN additions |-> AddAt(n)]
<1>1. /\ Enumerates(standing, StandingAt(events, "espn"))
      /\ Len(Accepted(events)) = Len(standing) /\ observed \in Seq(DraftActions)
      /\ k \in 0 .. Len(Accepted(events)) /\ k <= Len(observed)
  BY AcceptedTyped, OrderTyped, PrefixAgrees
<1> HIDE DEF k, standing, observed, append
<1>2. /\ standing \in Seq(P) /\ Len(standing) \in Nat /\ DOMAIN standing = 1 .. Len(standing)
      /\ Len(observed) \in Nat /\ P \in SUBSET Nat
      /\ \A n \in 1 .. Len(standing) : standing[n] \in P
  <2>1. Len(observed) \in Nat
    BY <1>1
  <2>2. P \in SUBSET Nat
    BY DEF StandingAt
  <2> HIDE DEF P
  <2>3. /\ standing \in Seq(Nat) /\ Len(standing) \in Nat /\ DOMAIN standing = 1 .. Len(standing)
        /\ \A n \in 1 .. Len(standing) : standing[n] \in P
    <3>1. Enumerates(standing, P)
      BY <1>1 DEF P
    <3>2. QED
      BY <3>1 DEF Enumerates
  <2>4. standing \in [1 .. Len(standing) -> P]
    BY <2>3
  <2>5. standing \in Seq(P)
    BY <2>3, <2>4, SeqOfFunction
  <2>6. QED
    BY <2>1, <2>2, <2>3, <2>5
<1> HIDE DEF P
<1>3. k \in 0 .. Len(standing) /\ k <= Len(observed)
  BY <1>1
<1>4. /\ k \in Nat /\ r \in Nat /\ a \in Nat
      /\ r = Len(standing) - k /\ a = Len(observed) - k
      /\ k <= Len(standing) /\ k <= Len(observed)
  BY <1>2, <1>3 DEF Unrepeated, Missing, k, standing, observed
<1> HIDE DEF r, a
<1>5. /\ stale \in Seq(P) /\ Len(stale) = r
      /\ \A n \in 1 .. r : stale[n] = standing[k + n]
  <2>1. stale = SubSeq(standing, k + 1, Len(standing))
    OBVIOUS
  <2> HIDE DEF stale
  <2>2. /\ stale \in Seq(P) /\ Len(stale) = Len(standing) - k
        /\ \A n \in 1 .. Len(standing) - k : stale[n] = standing[k + n]
    <3>1. standing \in Seq(P) /\ k \in Nat /\ k <= Len(standing)
      BY <1>2, <1>4
    <3>2. QED
      BY <2>1, <3>1, RestOfSeq
  <2>3. QED
    BY <1>4, <2>2
<1>6. superseded = [n \in 1 .. Len(stale) |-> stale[(Len(stale) - n) + 1]]
  BY <1>1 DEF Superseded, Reverse, k, standing
<1> HIDE DEF stale, superseded
<1>7. /\ superseded \in Seq(P) /\ Len(superseded) = r /\ DOMAIN superseded = 1 .. r
      /\ \A n \in 1 .. r : superseded[n] = standing[Len(standing) - n + 1]
  <2>1. ASSUME NEW n \in 1 .. r
        PROVE  /\ (Len(stale) - n) + 1 \in 1 .. r
               /\ stale[(Len(stale) - n) + 1] = standing[Len(standing) - n + 1]
    <3>1. (r - n) + 1 \in 1 .. r /\ k + ((r - n) + 1) = Len(standing) - n + 1
      BY <1>2, <1>4, <2>1
    <3>2. QED
      BY <1>5, <3>1
  <2>2. \A n \in 1 .. r : stale[(Len(stale) - n) + 1] \in P
    <3>1. \A i \in 1 .. r : stale[i] \in P
      BY <1>5
    <3>2. QED
      BY <2>1, <3>1
  <2>3. superseded = [n \in 1 .. r |-> stale[(Len(stale) - n) + 1]]
    BY <1>5, <1>6
  <2>4. superseded \in [1 .. r -> P]
    BY <2>2, <2>3
  <2>5. superseded \in Seq(P) /\ Len(superseded) = r /\ DOMAIN superseded = 1 .. r
    <3>1. DOMAIN superseded = 1 .. r
      BY <2>3
    <3>2. QED
      BY <1>4, <2>4, <3>1, SeqOfFunction
  <2>6. QED
    BY <2>1, <2>3, <2>5
<1>8. superseded # <<>> <=> r > 0
  BY <1>4, <1>7
<1>9. /\ additions \in Seq(DraftActions) /\ Len(additions) = a /\ DOMAIN additions = 1 .. a
      /\ \A n \in 1 .. a : additions[n] = observed[k + n]
  <2>1. additions = SubSeq(observed, k + 1, Len(observed))
    BY DEF Additions, k, observed
  <2> HIDE DEF additions
  <2>2. /\ additions \in Seq(DraftActions) /\ Len(additions) = Len(observed) - k
        /\ \A n \in 1 .. Len(observed) - k : additions[n] = observed[k + n]
    BY <1>1, <1>4, <2>1, RestOfSeq
  <2>3. QED
    BY <1>4, <2>2
<1>10. append = reverts \o adds
  BY DEF ProviderEvents, superseded, append, k
<1>11. ASSUME NEW n \in 1 .. r
       PROVE  TakesBack(RevertAt(n), events, standing[Len(standing) - n + 1])
  <2> DEFINE position == standing[Len(standing) - n + 1]
             f == Fingerprint(superseded[n])
  <2>1. Len(standing) - n + 1 \in 1 .. Len(standing)
    BY <1>2, <1>3, <1>4, <1>11
  <2>2. superseded[n] = position /\ position \in P /\ position \in Nat
    BY <1>2, <1>7, <2>1
  <2>3. events[position] \in Event /\ ~IsRevert(events[position])
    BY <2>2 DEF StandingAt, P
  <2>4. f \in DraftActions
    <3>1. CASE additions # <<>>
      BY <1>9, <3>1
    <3>2. CASE additions = <<>>
      BY <2>2, <2>3, <3>2, ActionTyped
    <3>3. QED
      BY <3>1, <3>2
  <2> HIDE DEF f, position
  <2>5. events[position].id \in EventIds
    BY <2>3 DEF Event
  <2>6. RevertKey(position, f) \in EventIds
    BY <2>2, <2>4 DEF RevertKey, EventIds
  <2>7. RevertAt(n) = [id |-> RevertKey(position, f), type |-> "DRAFT_EVENT_REVERTED",
                       target |-> events[position].id, source |-> "espn"]
    BY <2>2 DEF f
  <2> HIDE DEF RevertAt
  <2>8. RevertAt(n) \in Event
    BY <2>5, <2>6, <2>7 DEF Event
  <2>9. TakesBack(RevertAt(n), events, position)
    BY <2>4, <2>7, <2>8 DEF TakesBack, IsRevert
  <2>10. QED
    BY <2>9 DEF position
<1>12. ASSUME NEW n \in 1 .. a PROVE Adds(AddAt(n), events, additions, k, n)
  <2>1. additions[n] \in DraftActions
    BY <1>9
  <2>2. ActionKey(events, additions, k, n) \in EventIds
    <3> HIDE DEF additions
    <3>1. QED
      BY <1>4, <1>9, ActionKeyTyped DEF EventIds
  <2> DEFINE key == ActionKey(events, additions, k, n)
             e == AddAt(n)
             b == additions[n]
  <2>3. e = [id |-> key, type |-> b.type, team |-> b.team, player |-> b.player,
             number |-> b.number, source |-> "espn"]
    OBVIOUS
  <2> HIDE DEF e, key, additions
  <2>4. /\ b.type \in SnakeTypes \union AuctionTypes /\ b.team \in Teams
        /\ b.player \in Players /\ b.number \in Nat
        /\ b = [type |-> b.type, team |-> b.team, player |-> b.player, number |-> b.number]
    BY <2>1 DEF DraftActions
  <2>5. b.type # "DRAFT_EVENT_REVERTED"
    BY <2>4 DEF SnakeTypes, AuctionTypes
  <2> HIDE DEF b
  <2>6. e \in Event
    BY <2>2, <2>3, <2>4 DEF Event, key
  <2>7. ActionOf(e) = b /\ ~IsRevert(e) /\ e.source = "espn" /\ e.id = key
    BY <2>3, <2>4, <2>5 DEF ActionOf, IsRevert
  <2>8. Adds(e, events, additions, k, n)
    BY <2>6, <2>7 DEF Adds, b, key
  <2>9. QED
    BY <2>8 DEF e
<1> HIDE DEF RevertAt, AddAt, additions
<1>13. /\ reverts \in Seq(Event) /\ Len(reverts) = r /\ \A n \in 1 .. r : reverts[n] = RevertAt(n)
  <2>1. \A n \in 1 .. r : RevertAt(n) \in Event
    BY <1>11 DEF TakesBack
  <2>2. reverts \in [1 .. r -> Event]
    BY <1>7, <2>1
  <2>3. QED
    BY <1>4, <1>7, <2>2, SeqOfFunction
<1>14. /\ adds \in Seq(Event) /\ Len(adds) = a /\ \A n \in 1 .. a : adds[n] = AddAt(n)
  <2>1. \A n \in 1 .. a : AddAt(n) \in Event
    BY <1>12 DEF Adds
  <2>2. adds \in [1 .. a -> Event]
    BY <1>9, <2>1
  <2>3. QED
    BY <1>4, <1>9, <2>2, SeqOfFunction
<1> HIDE DEF reverts, adds
<1>15. /\ append \in Seq(Event) /\ Len(append) = r + a
       /\ \A n \in 1 .. r : append[n] = RevertAt(n)
       /\ \A n \in 1 .. a : append[r + n] = AddAt(n)
  <2>1. /\ append \in Seq(Event) /\ Len(append) = Len(reverts) + Len(adds)
        /\ \A n \in 1 .. Len(reverts) : append[n] = reverts[n]
        /\ \A n \in 1 .. Len(adds) : append[Len(reverts) + n] = adds[n]
    <3>1. reverts \in Seq(Event) /\ adds \in Seq(Event) /\ append = reverts \o adds
      BY <1>10, <1>13, <1>14
    <3>2. QED
      BY <3>1, ConcatProperties
  <2>2. QED
    BY <1>13, <1>14, <2>1
<1>16. /\ \A n \in 1 .. r : TakesBack(append[n], events, standing[Len(standing) - n + 1])
       /\ \A n \in 1 .. a : Adds(append[r + n], events, additions, k, n)
  BY <1>11, <1>12, <1>15
<1>17. QED
  BY <1>4, <1>8, <1>9, <1>15, <1>16 DEF superseded, additions, k, standing, observed, append, r, a

-----------------------------------------------------------------------------
(***************************************************************************)
(* What an upload or a poll decides.                                       *)
(***************************************************************************)

\* It appends nothing, or all that the reconciler wants; then the engine accepts it,
\* nobody froze the feed, and accepted history is rewritten only at a confirmed sight
\* and over no entry of a human.  A board that is held counts as seen once.
SoundDecision(decision, context, events, board) ==
  /\ decision.state \in FeedStates /\ decision.pending \in Boards
  /\ decision.pendingSeen \in {0, 1}
  /\ decision.pendingSeen = 1 =>
       decision.issue = "DESTRUCTIVE_PENDING" /\ decision.pending = board
  /\ \/ decision.append = <<>>
     \/ /\ decision.append = ProviderEvents(events, board.picks)
        /\ Legal(events \o decision.append) /\ ~context.manualBackupActive
        /\ Superseded(events, board.picks) # <<>> =>
             Confirmed(context, board) /\ Standing(events, "manual") = <<>>

\* Holding is sound.
LEMMA HoldIsSound ==
  ASSUME NEW context, NEW events, NEW board, NEW state \in FeedStates, NEW issue
  PROVE  SoundDecision(Hold(state, issue), context, events, board)
BY DEF Hold, SoundDecision, Boards

\* Following the reconciler's plan is sound, in a feed nobody froze.
LEMMA FollowPlanIsSound ==
  ASSUME NEW context, context.pendingSeen \in {0, 1}, ~context.manualBackupActive,
         NEW events, NEW board \in Observations, board.state \in FeedStates,
         NEW state \in FeedStates
  PROVE  SoundDecision(FollowPlan(context, events, board, state), context, events, board)
<1> DEFINE append == ProviderEvents(events, board.picks)
           confirmed == Confirmed(context, board)
           rewrites == Superseded(events, board.picks) # <<>>
           touched == Standing(events, "manual") # <<>>
           plan == Plan(events, board.picks, confirmed)
           decision == FollowPlan(context, events, board, state)
<1>1. \/ plan = "idempotent" /\ append = <<>>
      \/ plan = "held"
      \/ plan = "destructive-hold" /\ ~confirmed
      \/ /\ plan \in {"destructive", "forward"}
         /\ Legal(events \o append) /\ (rewrites => confirmed /\ ~touched)
  BY DEF Plan
<1>2. /\ plan = "held" => decision = Hold("degraded", "REFUSED")
      /\ plan = "destructive-hold" => decision = HoldDestructive(board, Seen(context, board))
      /\ plan \in {"idempotent", "destructive", "forward"} => decision = Advance(append, state)
  BY DEF FollowPlan
<1> HIDE DEF plan, decision
<1>3. CASE plan = "held"
  BY <1>2, <1>3, HoldIsSound DEF FeedStates, decision
<1>4. CASE plan = "destructive-hold" /\ ~confirmed
  <2>1. Seen(context, board) = 1
    BY <1>4 DEF Seen, Confirmed, DestructiveConfirmations
  <2>2. decision = [result |-> "held", append |-> <<>>, state |-> board.state,
                    issue |-> "DESTRUCTIVE_PENDING", pending |-> board, pendingSeen |-> 1]
    BY <1>2, <1>4, <2>1 DEF HoldDestructive
  <2>3. QED
    BY <2>2 DEF SoundDecision, Boards, decision
<1>5. CASE \/ plan = "idempotent" /\ append = <<>>
           \/ /\ plan \in {"destructive", "forward"}
              /\ Legal(events \o append) /\ (rewrites => confirmed /\ ~touched)
  <2>1. decision = Advance(append, state)
    BY <1>2, <1>5
  <2>2. /\ decision.append = append /\ decision.state = state
        /\ decision.pending = NoBoard /\ decision.pendingSeen = 0
    BY <2>1 DEF Advance
  <2>3. QED
    BY <1>5, <2>2 DEF SoundDecision, Boards, decision
<1>6. QED
  BY <1>1, <1>3, <1>4, <1>5

\* So is what an upload decides ...
LEMMA UploadDecidesSoundly ==
  ASSUME NEW context, context.pendingSeen \in {0, 1}, context.state \in FeedStates,
         context.manualBackupActive \in BOOLEAN,
         NEW events, NEW board \in Observations, board.state \in FeedStates, NEW resolved
  PROVE  SoundDecision(DecideUpload(context, events, board, resolved), context, events, board)
<1>1. "degraded" \in FeedStates
  BY DEF FeedStates
<1>2. QED
  BY <1>1, HoldIsSound, FollowPlanIsSound DEF DecideUpload

\* ... and what a poll decides.
LEMMA PollDecidesSoundly ==
  ASSUME NEW context, context.pendingSeen \in {0, 1}, context.manualBackupActive \in BOOLEAN,
         NEW events, NEW board \in Observations, board.state \in FeedStates, NEW resolved
  PROVE  SoundDecision(DecidePoll(context, events, board, resolved), context, events, board)
<1> DEFINE followed == FollowPlan(context, events, board, board.state)
           decision == DecidePoll(context, events, board, resolved)
<1>1. "degraded" \in FeedStates /\ "complete" \in FeedStates
  BY DEF FeedStates
<1>2. \/ \E state \in FeedStates : \E issue : decision = Hold(state, issue)
      \/ ~context.manualBackupActive /\ decision = Conclude(followed, events, board)
  BY <1>1 DEF DecidePoll
<1>3. CASE \E state \in FeedStates : \E issue : decision = Hold(state, issue)
  BY <1>3, HoldIsSound
<1>4. CASE ~context.manualBackupActive /\ decision = Conclude(followed, events, board)
  <2>1. SoundDecision(followed, context, events, board)
    BY <1>4, FollowPlanIsSound
  <2>2. \/ decision = followed
        \/ decision = [followed EXCEPT !.state = "complete"]
        \/ decision = Hold("degraded", "COMPLETED_COUNT_MISMATCH")
    BY <1>4 DEF Conclude
  <2>3. CASE decision = followed
    BY <2>1, <2>3
  <2>4. CASE decision = Hold("degraded", "COMPLETED_COUNT_MISMATCH")
    BY <1>1, <2>4, HoldIsSound
  <2>5. CASE decision = [followed EXCEPT !.state = "complete"]
    <3>1. \E f \in {followed} : f = Hold("degraded", "REFUSED")
                             \/ f = HoldDestructive(board, Seen(context, board))
                             \/ f = Advance(ProviderEvents(events, board.picks), board.state)
      BY DEF FollowPlan
    <3>2. /\ decision.state = "complete" /\ decision.pending = followed.pending
          /\ decision.pendingSeen = followed.pendingSeen
          /\ decision.issue = followed.issue /\ decision.append = followed.append
      BY <2>5, <3>1 DEF Hold, HoldDestructive, Advance
    <3> HIDE DEF followed, decision
    <3>3. SoundDecision(decision, context, events, board)
      BY <1>1, <2>1, <3>2 DEF SoundDecision
    <3>4. QED
      BY <3>3 DEF decision
  <2>6. QED
    BY <2>2, <2>3, <2>4, <2>5
<1>5. QED
  BY <1>2, <1>3, <1>4

-----------------------------------------------------------------------------
(***************************************************************************)
(* Keys.                                                                   *)
(***************************************************************************)

\* A revert names an action before it.
NamesAnAction(events, i) ==
  \E h \in 1 .. i - 1 : ~IsRevert(events[h]) /\ events[i].target = events[h].id

\* The key of an event tells what it is: a human's says where it stands, a revert of
\* ESPN's what it takes back, and an action of ESPN's how often its slot had been
\* claimed before.
SlotKeys == [slot : Nat, fingerprint : DraftActions, generation : Nat]

KeyTells(events, i) ==
  LET e == events[i]
      earlier == {j \in Claims(events, e.id.slot) : j < i}
  IN /\ e.source = "manual" => e.id = ManualKey(i)
     /\ e.source = "espn" /\ IsRevert(e) =>
          \E p \in 1 .. i - 1 : \E f : e.id = RevertKey(p, f) /\ e.target = events[p].id
     /\ e.source = "espn" /\ ~IsRevert(e) =>
          /\ e.id \in SlotKeys
          /\ e.id.generation = Cardinality(earlier)

Keyed(events) ==
  \A i \in DOMAIN events :
    KeyTells(events, i) /\ (IsRevert(events[i]) => NamesAnAction(events, i))

\* The three kinds of keys are apart, and a revert's key tells what it takes back.
LEMMA KindsApart ==
  /\ \A i, p, f : ManualKey(i) # RevertKey(p, f)
  /\ \A i : ManualKey(i) \notin SlotKeys
  /\ \A p, f : RevertKey(p, f) \notin SlotKeys
  /\ \A p, f, q, g : RevertKey(p, f) = RevertKey(q, g) => p = q
<1>1. \A i : DOMAIN ManualKey(i) = {"manual"}
  BY DEF ManualKey
<1>2. \A p, f : /\ DOMAIN RevertKey(p, f) = {"revert", "fingerprint"}
                /\ RevertKey(p, f).revert = p
  BY DEF RevertKey
<1>3. \A x \in SlotKeys : DOMAIN x = {"slot", "fingerprint", "generation"}
  BY DEF SlotKeys
<1>4. {"manual"} # {"revert", "fingerprint"} /\ "manual" \notin {"slot", "fingerprint", "generation"}
  OBVIOUS
<1>5. "revert" \notin {"slot", "fingerprint", "generation"}
  OBVIOUS
<1>6. \A i, p, f : ManualKey(i) # RevertKey(p, f)
  BY <1>1, <1>2, <1>4
<1>7. ASSUME NEW x \in SlotKeys PROVE \A i, p, f : ManualKey(i) # x /\ RevertKey(p, f) # x
  BY <1>1, <1>2, <1>3, <1>4, <1>5
<1>8. \A p, f, q, g : RevertKey(p, f) = RevertKey(q, g) => p = q
  BY <1>2
<1>9. QED
  BY <1>6, <1>7, <1>8

\* A log and what is appended to it, by position.
LEMMA LongerLog ==
  ASSUME NEW events \in Seq(Event), NEW batch \in Seq(Event)
  PROVE  LET longer == events \o batch
         IN /\ longer \in Seq(Event) /\ Len(longer) = Len(events) + Len(batch)
            /\ Len(events) \in Nat /\ Len(batch) \in Nat
            /\ DOMAIN events = 1 .. Len(events) /\ DOMAIN longer = 1 .. Len(longer)
            /\ \A i \in DOMAIN events : i \in DOMAIN longer /\ longer[i] = events[i]
            /\ \A n \in 1 .. Len(batch) :
                 Len(events) + n \in DOMAIN longer /\ longer[Len(events) + n] = batch[n]
            /\ \A i \in DOMAIN longer :
                 i \in DOMAIN events \/ \E n \in 1 .. Len(batch) : i = Len(events) + n
<1> DEFINE longer == events \o batch
<1>1. /\ longer \in Seq(Event) /\ Len(longer) = Len(events) + Len(batch)
      /\ \A i \in 1 .. Len(events) : longer[i] = events[i]
      /\ \A n \in 1 .. Len(batch) : longer[Len(events) + n] = batch[n]
  BY ConcatProperties
<1> HIDE DEF longer
<1>2. /\ Len(events) \in Nat /\ Len(batch) \in Nat
      /\ DOMAIN events = 1 .. Len(events) /\ DOMAIN longer = 1 .. Len(longer)
  BY <1>1
<1>3. ASSUME NEW i \in DOMAIN longer, i \notin DOMAIN events
      PROVE  \E n \in 1 .. Len(batch) : i = Len(events) + n
  <2>1. i - Len(events) \in 1 .. Len(batch) /\ i = Len(events) + (i - Len(events))
    BY <1>1, <1>2, <1>3
  <2>2. QED
    BY <2>1
<1>4. ASSUME NEW i \in DOMAIN events PROVE i \in DOMAIN longer /\ longer[i] = events[i]
  BY <1>1, <1>2, <1>4
<1>5. ASSUME NEW n \in 1 .. Len(batch)
      PROVE  Len(events) + n \in DOMAIN longer /\ longer[Len(events) + n] = batch[n]
  BY <1>1, <1>2, <1>5
<1>6. QED
  BY <1>1, <1>2, <1>3, <1>4, <1>5 DEF longer

\* The earlier additions that claim the slot of the n-th.
EarlierAdditions(additions, prefix, n) ==
  {m \in 1 .. n - 1 : Slot(additions[m], prefix + m) = Slot(additions[n], prefix + n)}

\* The parts of the key of the n-th addition.
LEMMA KeyOfAddition ==
  ASSUME NEW events \in Seq(Event), NEW additions \in Seq(DraftActions), NEW prefix \in Nat,
         NEW n \in 1 .. Len(additions)
  PROVE  LET key == ActionKey(events, additions, prefix, n)
             earlier == EarlierAdditions(additions, prefix, n)
         IN /\ key \in SlotKeys
            /\ key.slot = Slot(additions[n], prefix + n)
            /\ key.generation = Cardinality(Claims(events, key.slot)) + Cardinality(earlier)
            /\ Cardinality(Claims(events, key.slot)) \in Nat
            /\ IsFiniteSet(earlier) /\ Cardinality(earlier) \in Nat
<1> DEFINE key == ActionKey(events, additions, prefix, n)
<1>1. key \in SlotKeys
  BY ActionKeyTyped DEF SlotKeys
<1>2. key = [slot        |-> Slot(additions[n], prefix + n),
             fingerprint |-> additions[n],
             generation  |-> Cardinality(Claims(events, Slot(additions[n], prefix + n)))
                               + Cardinality(EarlierAdditions(additions, prefix, n))]
  BY DEF ActionKey, EarlierAdditions
<1>3. /\ key.slot = Slot(additions[n], prefix + n)
      /\ key.generation = Cardinality(Claims(events, key.slot))
                            + Cardinality(EarlierAdditions(additions, prefix, n))
  BY <1>2
<1>4. IsFiniteSet(1 .. n - 1)
  <2>1. 1 \in Int /\ n - 1 \in Int
    OBVIOUS
  <2>2. QED
    BY <2>1, FS_Interval
<1>5. EarlierAdditions(additions, prefix, n) \in SUBSET (1 .. n - 1)
  BY DEF EarlierAdditions
<1>6. /\ IsFiniteSet(EarlierAdditions(additions, prefix, n))
      /\ Cardinality(EarlierAdditions(additions, prefix, n)) \in Nat
  BY <1>4, <1>5, FS_Subset, FS_CardinalityType
<1>7. QED
  BY <1>1, <1>3, <1>6, ClaimsTyped

\* Two additions that claim one slot do so under different generations.
LEMMA LaterIsNewer ==
  ASSUME NEW events \in Seq(Event), NEW additions \in Seq(DraftActions), NEW prefix \in Nat,
         NEW m \in 1 .. Len(additions), NEW n \in 1 .. Len(additions), m < n
  PROVE  ActionKey(events, additions, prefix, m) # ActionKey(events, additions, prefix, n)
<1> DEFINE a == ActionKey(events, additions, prefix, m)
           b == ActionKey(events, additions, prefix, n)
           before == EarlierAdditions(additions, prefix, m)
           after == EarlierAdditions(additions, prefix, n)
<1>1. SUFFICES ASSUME a = b PROVE FALSE
  OBVIOUS
<1>2. a = ActionKey(events, additions, prefix, m) /\ b = ActionKey(events, additions, prefix, n)
  OBVIOUS
<1> HIDE DEF a, b
<1>3. /\ a.slot = Slot(additions[m], prefix + m)
      /\ a.generation = Cardinality(Claims(events, a.slot)) + Cardinality(before)
      /\ Cardinality(Claims(events, a.slot)) \in Nat
      /\ IsFiniteSet(before) /\ Cardinality(before) \in Nat
  BY <1>2, KeyOfAddition
<1>4. /\ b.slot = Slot(additions[n], prefix + n)
      /\ b.generation = Cardinality(Claims(events, b.slot)) + Cardinality(after)
      /\ IsFiniteSet(after) /\ Cardinality(after) \in Nat
  BY <1>2, KeyOfAddition
<1>5. Cardinality(before) = Cardinality(after)
  BY <1>1, <1>3, <1>4
<1>6. m \in after /\ m \notin before /\ before \in SUBSET after
  BY <1>1, <1>3, <1>4 DEF EarlierAdditions
<1> HIDE DEF before, after
<1>7. before = after
  BY <1>4, <1>5, <1>6, FS_Subset
<1>8. QED
  BY <1>6, <1>7

\* Whatever board comes next, none of its events claims a key that is taken.
LEMMA NewKeysAreFresh ==
  ASSUME NEW events \in Seq(Event), Keyed(events), WellFormed(events),
         NEW picks \in Seq(DraftActions),
         NEW append, append = ProviderEvents(events, picks)
  PROVE  /\ \A i \in DOMAIN append, j \in DOMAIN events : append[i].id # events[j].id
         /\ \A i, j \in DOMAIN append : append[i].id = append[j].id => i = j
<1> DEFINE k == CommonPrefix(events, picks)
           standing == Standing(events, "espn")
           additions == Additions(events, picks)
           r == Unrepeated(events, picks)
           a == Missing(events, picks)
           Key(n) == ActionKey(events, additions, k, n)
<1>1. /\ k \in Nat /\ r \in Nat /\ a \in Nat /\ r = Len(standing) - k
      /\ append \in Seq(Event) /\ Len(append) = r + a
      /\ additions \in Seq(DraftActions) /\ Len(additions) = a
  BY ReconcilerAppends
<1>2. \A n \in 1 .. r : TakesBack(append[n], events, standing[Len(standing) - n + 1])
  BY ReconcilerAppends
<1>3. \A n \in 1 .. a : Adds(append[r + n], events, additions, k, n)
  BY ReconcilerAppends
<1>4. Enumerates(standing, StandingAt(events, "espn"))
  BY AcceptedTyped
<1> HIDE DEF k, standing, additions, r, a
<1>5. DOMAIN append = 1 .. r + a
  BY <1>1
<1>6. /\ Len(standing) \in Nat /\ DOMAIN standing = 1 .. Len(standing)
      /\ \A n \in 1 .. Len(standing) : standing[n] \in Nat
  BY <1>4 DEF Enumerates
<1>7. ASSUME NEW n \in 1 .. r
      PROVE  /\ Len(standing) - n + 1 \in DOMAIN standing
             /\ standing[Len(standing) - n + 1] \in StandingAt(events, "espn")
             /\ \E f : append[n].id = RevertKey(standing[Len(standing) - n + 1], f)
  <2>1. Len(standing) - n + 1 \in DOMAIN standing
    BY <1>1, <1>6, <1>7
  <2>2. standing[Len(standing) - n + 1] \in StandingAt(events, "espn")
    BY <1>4, <2>1 DEF Enumerates
  <2>3. QED
    BY <1>2, <2>1, <2>2 DEF TakesBack
<1>8. ASSUME NEW n \in 1 .. a
      PROVE  append[r + n].id = Key(n) /\ Key(n) \in SlotKeys /\ n \in 1 .. Len(additions)
  BY <1>1, <1>3, KeyOfAddition DEF Adds
<1>9. ASSUME NEW i \in DOMAIN append
      PROVE  \/ i \in 1 .. r
             \/ i - r \in 1 .. a /\ append[i].id = Key(i - r) /\ Key(i - r) \in SlotKeys
  <2>1. CASE i \in 1 .. r
    BY <2>1
  <2>2. CASE i \notin 1 .. r
    <3>1. i - r \in 1 .. a /\ r + (i - r) = i
      BY <1>1, <1>5, <1>9, <2>2
    <3>2. QED
      BY <1>8, <3>1
  <2>3. QED
    BY <2>1, <2>2
<1>10. ASSUME NEW i \in DOMAIN append, NEW j \in DOMAIN events, append[i].id = events[j].id
       PROVE  FALSE
  <2>1. events[j] \in Event /\ KeyTells(events, j) /\ events[j].source \in {"espn", "manual"}
    BY DEF Keyed, Event
  <2>2. CASE i \in 1 .. r
    <3> DEFINE p == standing[Len(standing) - i + 1]
    <3>1. p \in StandingAt(events, "espn")
      BY <1>7, <2>2
    <3>2. PICK f : append[i].id = RevertKey(p, f)
      BY <1>7, <2>2
    <3> HIDE DEF p
    <3>3. events[j].source # "manual"
      BY <1>10, <2>1, <3>2, KindsApart DEF KeyTells
    <3>4. IsRevert(events[j])
      <4>1. ~IsRevert(events[j]) => events[j].id \in SlotKeys
        BY <2>1, <3>3 DEF KeyTells
      <4>2. RevertKey(p, f) \notin SlotKeys
        BY KindsApart
      <4>3. QED
        BY <1>10, <3>2, <4>1, <4>2
    <3>5. PICK q \in 1 .. j - 1 :
                 \E g : events[j].id = RevertKey(q, g) /\ events[j].target = events[q].id
      BY <2>1, <3>3, <3>4 DEF KeyTells
    <3>6. q = p
      <4>1. \E g : RevertKey(p, f) = RevertKey(q, g)
        BY <1>10, <3>2, <3>5
      <4>2. QED
        BY <4>1, KindsApart
    <3>7. events[p].id \in Reverted(events)
      BY <3>4, <3>5, <3>6 DEF Reverted
    <3>8. QED
      BY <3>1, <3>7 DEF StandingAt
  <2>3. CASE i - r \in 1 .. a /\ append[i].id = Key(i - r) /\ Key(i - r) \in SlotKeys
    <3> DEFINE n == i - r
               key == Key(n)
               claims == Claims(events, key.slot)
               before == {h \in claims : h < j}
    <3>1. events[j].id = key /\ key \in SlotKeys
      BY <1>10, <2>3
    <3>2. events[j].source # "manual"
      <4>1. events[j].source = "manual" => events[j].id = ManualKey(j)
        BY <2>1 DEF KeyTells
      <4>2. ManualKey(j) \notin SlotKeys
        BY KindsApart
      <4>3. QED
        BY <3>1, <4>1, <4>2
    <3>3. ~IsRevert(events[j])
      <4>1. IsRevert(events[j]) => \E p, f : events[j].id = RevertKey(p, f)
        BY <2>1, <3>2 DEF KeyTells
      <4>2. \A p, f : RevertKey(p, f) \notin SlotKeys
        BY KindsApart
      <4>3. QED
        BY <3>1, <4>1, <4>2
    <3>4. key.generation = Cardinality(before)
      BY <2>1, <3>1, <3>2, <3>3 DEF KeyTells
    <3>5. /\ key.generation = Cardinality(claims) + Cardinality(EarlierAdditions(additions, k, n))
          /\ Cardinality(claims) \in Nat /\ Cardinality(EarlierAdditions(additions, k, n)) \in Nat
      BY <1>1, <2>3, KeyOfAddition
    <3>6. IsFiniteSet(claims)
      BY ClaimsTyped
    <3>7. j \in claims
      BY <2>1, <3>1, <3>2, <3>3 DEF Claims
    <3>8. before \in SUBSET claims /\ j \notin before
      <4>1. j \in Int
        OBVIOUS
      <4>2. QED
        BY <4>1
    <3> HIDE DEF claims, before, key
    <3>9. Cardinality(before) <= Cardinality(claims) /\ before # claims
      BY <3>6, <3>7, <3>8, FS_Subset
    <3>10. Cardinality(before) # Cardinality(claims) /\ Cardinality(before) \in Nat
      BY <3>6, <3>8, <3>9, FS_Subset, FS_CardinalityType
    <3>11. QED
      BY <3>4, <3>5, <3>9, <3>10
  <2>4. QED
    BY <1>9, <2>2, <2>3
<1>11. ASSUME NEW i \in DOMAIN append, NEW j \in DOMAIN append, append[i].id = append[j].id
       PROVE  i = j
  <2>1. CASE i \in 1 .. r /\ j \in 1 .. r
    <3>1. standing[Len(standing) - i + 1] = standing[Len(standing) - j + 1]
      BY <1>7, <1>11, <2>1, KindsApart
    <3>2. \A m, n \in DOMAIN standing : standing[m] = standing[n] => m = n
      <4>1. \A m, n \in DOMAIN standing : m < n => standing[m] < standing[n]
        BY <1>4 DEF Enumerates, InOrder
      <4>2. QED
        BY <1>6, <4>1
    <3>3. Len(standing) - i + 1 = Len(standing) - j + 1
      BY <1>7, <2>1, <3>1, <3>2
    <3>4. QED
      BY <1>6, <2>1, <3>3
  <2>2. CASE i \in 1 .. r /\ j - r \in 1 .. a /\ append[j].id = Key(j - r) /\ Key(j - r) \in SlotKeys
    <3>1. PICK p, f : append[i].id = RevertKey(p, f)
      BY <1>7, <2>2
    <3>2. append[j].id \in SlotKeys /\ RevertKey(p, f) \notin SlotKeys
      BY <2>2, KindsApart
    <3>3. QED
      BY <1>11, <3>1, <3>2
  <2>3. CASE j \in 1 .. r /\ i - r \in 1 .. a /\ append[i].id = Key(i - r) /\ Key(i - r) \in SlotKeys
    <3>1. PICK p, f : append[j].id = RevertKey(p, f)
      BY <1>7, <2>3
    <3>2. append[i].id \in SlotKeys /\ RevertKey(p, f) \notin SlotKeys
      BY <2>3, KindsApart
    <3>3. QED
      BY <1>11, <3>1, <3>2
  <2>4. CASE /\ i - r \in 1 .. a /\ append[i].id = Key(i - r)
             /\ j - r \in 1 .. a /\ append[j].id = Key(j - r)
    <3> DEFINE m == i - r
               n == j - r
    <3>1. m \in 1 .. Len(additions) /\ n \in 1 .. Len(additions)
      BY <1>8, <2>4
    <3>2. Key(m) = Key(n)
      BY <1>11, <2>4
    <3>3. i \in Int /\ j \in Int
      BY <1>1, <1>5
    <3>4. m \in Nat /\ n \in Nat
      BY <3>1
    <3> HIDE DEF m, n
    <3>5. ~(m < n) /\ ~(n < m)
      BY <1>1, <3>1, <3>2, LaterIsNewer
    <3>6. m = n
      BY <3>4, <3>5
    <3>7. QED
      BY <1>1, <3>3, <3>6 DEF m, n
  <2>5. QED
    BY <1>9, <1>11, <2>1, <2>2, <2>3, <2>4
<1>12. QED
  BY <1>10, <1>11

\* Appending leaves what was claimed before a position of the log as it was.
LEMMA OldClaims ==
  ASSUME NEW events \in Seq(Event), NEW batch \in Seq(Event), NEW i \in DOMAIN events, NEW slot
  PROVE  {j \in Claims(events \o batch, slot) : j < i} = {j \in Claims(events, slot) : j < i}
<1> DEFINE longer == events \o batch
<1>1. /\ DOMAIN events = 1 .. Len(events) /\ DOMAIN longer = 1 .. Len(longer)
      /\ Len(events) \in Nat /\ longer \in Seq(Event)
      /\ \A j \in DOMAIN events : j \in DOMAIN longer /\ longer[j] = events[j]
  BY LongerLog
<1> HIDE DEF longer
<1>2. ASSUME NEW j \in DOMAIN longer, j < i PROVE j \in DOMAIN events
  <2>1. j \in Nat /\ j >= 1 /\ i <= Len(events)
    BY <1>1
  <2>2. QED
    BY <1>1, <1>2, <2>1
<1>3. {j \in Claims(longer, slot) : j < i} = {j \in Claims(events, slot) : j < i}
  BY <1>1, <1>2 DEF Claims
<1>4. QED
  BY <1>3 DEF longer

\* So the key of every event of a log still tells what it is once more is appended.
LEMMA OldKeysTell ==
  ASSUME NEW events \in Seq(Event), Keyed(events), NEW batch \in Seq(Event), NEW i \in DOMAIN events,
         NEW longer, longer = events \o batch
  PROVE  KeyTells(longer, i) /\ (IsRevert(longer[i]) => NamesAnAction(longer, i))
<1>1. /\ DOMAIN events = 1 .. Len(events) /\ Len(events) \in Nat
      /\ \A j \in DOMAIN events : longer[j] = events[j]
  BY LongerLog
<1>2. KeyTells(events, i) /\ (IsRevert(events[i]) => NamesAnAction(events, i))
  BY DEF Keyed
<1>3. longer[i] = events[i] /\ \A p \in 1 .. i - 1 : longer[p] = events[p]
  BY <1>1
<1>4. \A slot : {j \in Claims(longer, slot) : j < i} = {j \in Claims(events, slot) : j < i}
  BY OldClaims
<1>5. KeyTells(longer, i)
  BY <1>2, <1>3, <1>4 DEF KeyTells
<1>6. IsRevert(longer[i]) => NamesAnAction(longer, i)
  BY <1>2, <1>3 DEF NamesAnAction
<1>7. QED
  BY <1>5, <1>6

\* Shifting a finite set of naturals keeps its size.
LEMMA ShiftedSet ==
  ASSUME NEW T \in SUBSET Nat, IsFiniteSet(T), NEW d \in Nat
  PROVE  IsFiniteSet({d + m : m \in T}) /\ Cardinality({d + m : m \in T}) = Cardinality(T)
<1> DEFINE U == {d + m : m \in T}
           f == [m \in T |-> d + m]
<1>1. f \in [T -> U] /\ \A u \in U : \E m \in T : f[m] = u
  OBVIOUS
<1>2. \A m, n \in T : f[m] = f[n] => m = n
  OBVIOUS
<1>3. f \in Bijection(T, U)
  BY <1>1, <1>2 DEF Bijection, Injection, Surjection, IsInjective
<1>4. ExistsBijection(T, U)
  BY <1>3 DEF ExistsBijection
<1>5. QED
  BY <1>4, FS_Bijection

\* The reconciler's events keep every key telling.
LEMMA ProviderKeepsKeys ==
  ASSUME NEW events \in Seq(Event), Keyed(events), NEW picks \in Seq(DraftActions)
  PROVE  Keyed(events \o ProviderEvents(events, picks))
<1> DEFINE append == ProviderEvents(events, picks)
           longer == events \o append
           k == CommonPrefix(events, picks)
           standing == Standing(events, "espn")
           additions == Additions(events, picks)
           r == Unrepeated(events, picks)
           a == Missing(events, picks)
           L == Len(events)
<1>1. /\ k \in Nat /\ r \in Nat /\ a \in Nat /\ r = Len(standing) - k
      /\ append \in Seq(Event) /\ Len(append) = r + a
      /\ additions \in Seq(DraftActions) /\ Len(additions) = a
  BY ReconcilerAppends
<1>2. \A n \in 1 .. r : TakesBack(append[n], events, standing[Len(standing) - n + 1])
  BY ReconcilerAppends
<1>3. \A n \in 1 .. a : Adds(append[r + n], events, additions, k, n)
  BY ReconcilerAppends
<1>4. Enumerates(standing, StandingAt(events, "espn"))
  BY AcceptedTyped
<1> HIDE DEF k, standing, additions, r, a
<1> HIDE DEF append, longer
<1>0. /\ longer \in Seq(Event) /\ Len(longer) = Len(events) + Len(append)
      /\ Len(events) \in Nat /\ Len(append) \in Nat
      /\ DOMAIN events = 1 .. Len(events) /\ DOMAIN longer = 1 .. Len(longer)
      /\ \A i \in DOMAIN events : i \in DOMAIN longer /\ longer[i] = events[i]
      /\ \A n \in 1 .. Len(append) :
           Len(events) + n \in DOMAIN longer /\ longer[Len(events) + n] = append[n]
      /\ \A i \in DOMAIN longer :
           i \in DOMAIN events \/ \E n \in 1 .. Len(append) : i = Len(events) + n
  BY <1>1, LongerLog DEF longer
<1> HIDE DEF L
<1>5. /\ L \in Nat /\ DOMAIN events = 1 .. L /\ DOMAIN longer = 1 .. L + (r + a)
      /\ \A i \in DOMAIN events : i \in DOMAIN longer /\ longer[i] = events[i]
      /\ \A n \in 1 .. r + a : longer[L + n] = append[n]
      /\ \A i \in DOMAIN longer : i \in DOMAIN events \/ \E n \in 1 .. r + a : i = L + n
  BY <1>0, <1>1 DEF L
<1>6. ASSUME NEW n \in 1 .. r
      PROVE  KeyTells(longer, L + n) /\ NamesAnAction(longer, L + n)
  <2> DEFINE p == standing[Len(standing) - n + 1]
             e == longer[L + n]
  <2>1. TakesBack(e, events, p)
    <3>1. n \in 1 .. r + a
      BY <1>1
    <3>2. QED
      BY <1>2, <1>5, <3>1
  <2>2. p \in StandingAt(events, "espn")
    <3>1. Len(standing) - n + 1 \in DOMAIN standing
      <4>1. standing \in Seq(Nat)
        BY <1>4 DEF Enumerates
      <4>2. DOMAIN standing = 1 .. Len(standing) /\ Len(standing) \in Nat
        BY <4>1
      <4>3. QED
        BY <1>1, <4>2
    <3>2. QED
      BY <1>4, <3>1 DEF Enumerates
  <2> HIDE DEF p, e
  <2>3. p \in 1 .. L /\ ~IsRevert(events[p]) /\ longer[p] = events[p]
    BY <1>5, <2>2 DEF StandingAt
  <2>4. p \in 1 .. (L + n) - 1
    BY <1>1, <1>5, <2>3
  <2>5. /\ e.source = "espn" /\ IsRevert(e) /\ e.target = longer[p].id
        /\ \E f : e.id = RevertKey(p, f)
    BY <2>1, <2>3 DEF TakesBack
  <2>6. KeyTells(longer, L + n)
    BY <2>4, <2>5 DEF KeyTells, e
  <2>7. NamesAnAction(longer, L + n)
    BY <2>3, <2>4, <2>5 DEF NamesAnAction, e
  <2>8. QED
    BY <2>6, <2>7
<1>7. ASSUME NEW n \in 1 .. a
      PROVE  KeyTells(longer, L + (r + n)) /\ ~IsRevert(longer[L + (r + n)])
  <2> DEFINE e == longer[L + (r + n)]
             key == ActionKey(events, additions, k, n)
             claims == Claims(events, key.slot)
             earlier == EarlierAdditions(additions, k, n)
             shifted == {(L + r) + m : m \in earlier}
             before == {j \in Claims(longer, key.slot) : j < L + (r + n)}
  <2>1. Adds(e, events, additions, k, n)
    <3>1. r + n \in 1 .. r + a
      BY <1>1
    <3>2. QED
      BY <1>3, <1>5, <3>1
  <2>2. /\ key \in SlotKeys /\ key.slot = Slot(additions[n], k + n)
        /\ key.generation = Cardinality(claims) + Cardinality(earlier)
        /\ IsFiniteSet(earlier)
    BY <1>1, KeyOfAddition
  <2>3. IsFiniteSet(claims) /\ claims \in SUBSET (1 .. L)
    BY ClaimsTyped DEF L
  <2>4. earlier \in SUBSET (1 .. n - 1)
    BY DEF EarlierAdditions
  <2>5. IsFiniteSet(shifted) /\ Cardinality(shifted) = Cardinality(earlier)
    <3>1. earlier \in SUBSET Nat /\ L + r \in Nat
      BY <1>1, <1>5, <2>4
    <3>2. QED
      BY <2>2, <3>1, ShiftedSet
  <2>6. claims \intersect shifted = {}
    BY <1>1, <1>5, <2>3, <2>4
  <2>7. ASSUME NEW m \in 1 .. a
        PROVE  L + (r + m) \in Claims(longer, key.slot)
                 <=> Slot(additions[m], k + m) = Slot(additions[n], k + n)
    <3>1. r + m \in 1 .. r + a
      BY <1>1
    <3>4. longer[L + (r + m)] = append[r + m]
      BY <1>5, <3>1
    <3>5. L + (r + m) \in 1 .. L + (r + a)
      BY <1>1, <1>5, <3>1
    <3>2. Adds(longer[L + (r + m)], events, additions, k, m) /\ L + (r + m) \in DOMAIN longer
      BY <1>3, <1>5, <3>4, <3>5
    <3>3. ActionKey(events, additions, k, m).slot = Slot(additions[m], k + m)
      BY <1>1, KeyOfAddition
    <3>6. QED
      BY <2>2, <3>2, <3>3 DEF Claims, Adds
  <2>8. \A m \in 1 .. r : L + m \notin Claims(longer, key.slot)
    <3>1. ASSUME NEW m \in 1 .. r PROVE IsRevert(longer[L + m])
      <4>1. m \in 1 .. r + a
        BY <1>1
      <4>2. QED
        BY <1>2, <1>5, <4>1 DEF TakesBack
    <3>2. QED
      BY <3>1 DEF Claims
  <2>9. \A j \in 1 .. L : j \in Claims(longer, key.slot) <=> j \in claims
    BY <1>5 DEF Claims
  <2>10. before = claims \union shifted
    <3>1. ASSUME NEW j \in before PROVE j \in claims \union shifted
      <4>1. j \in DOMAIN longer /\ j \in Claims(longer, key.slot) /\ j < L + (r + n)
        BY DEF Claims
      <4>2. CASE j \in 1 .. L
        BY <2>9, <4>1, <4>2
      <4>3. CASE j \notin 1 .. L
        <5>1. j - L \in 1 .. r + a /\ L + (j - L) = j
          BY <1>1, <1>5, <4>1, <4>3
        <5>2. j - L \notin 1 .. r
          BY <2>8, <4>1, <5>1
        <5> DEFINE m == j - (L + r)
        <5>6. j \in Nat /\ L \in Nat /\ r \in Nat /\ a \in Nat /\ n \in Nat
          BY <1>1, <1>5, <4>1
        <5>7. j < L + (r + n) /\ j - L > r /\ j - L <= r + a
          BY <4>1, <5>1, <5>2, <5>6
        <5>3. m \in 1 .. n - 1 /\ m \in 1 .. a /\ L + (r + m) = j /\ (L + r) + m = j
          BY <5>6, <5>7
        <5> HIDE DEF m
        <5>4. m \in earlier
          BY <2>7, <4>1, <5>3 DEF EarlierAdditions
        <5>5. QED
          BY <5>3, <5>4
      <4>4. QED
        BY <4>2, <4>3
    <3>2. ASSUME NEW j \in claims PROVE j \in before
      BY <1>1, <1>5, <2>3, <2>9, <3>2
    <3>3. ASSUME NEW m \in earlier PROVE (L + r) + m \in before
      <4>1. m \in 1 .. n - 1 /\ m \in 1 .. a /\ (L + r) + m = L + (r + m)
        BY <1>1, <1>5, <2>4, <3>3
      <4>2. L + (r + m) \in Claims(longer, key.slot)
        BY <2>7, <3>3, <4>1 DEF EarlierAdditions
      <4>5. m \in Nat /\ n \in Nat /\ r \in Nat /\ L \in Nat /\ m < n
        BY <1>1, <1>5, <4>1
      <4>3. L + (r + m) < L + (r + n)
        BY <4>5, SMTT(30)
      <4>4. QED
        BY <4>1, <4>2, <4>3
    <3> HIDE DEF before, claims, earlier
    <3>4. QED
      BY <3>1, <3>2, <3>3
  <2> HIDE DEF before, claims, earlier, shifted
  <2>11. Cardinality(before) = Cardinality(claims) + Cardinality(earlier)
    <3>1. /\ Cardinality(claims \union shifted) =
               Cardinality(claims) + Cardinality(shifted) - Cardinality(claims \intersect shifted)
          /\ Cardinality(claims) \in Nat /\ Cardinality(shifted) \in Nat
          /\ Cardinality(claims \intersect shifted) = 0
      BY <2>3, <2>5, <2>6, FS_Union, FS_CardinalityType, FS_EmptySet
    <3>2. QED
      BY <2>5, <2>10, <3>1
  <2>12. e.source = "espn" /\ ~IsRevert(e) /\ e.id = key
    BY <2>1 DEF Adds
  <2> HIDE DEF e, key
  <2>13. KeyTells(longer, L + (r + n))
    BY <2>2, <2>11, <2>12 DEF KeyTells, e, before
  <2>14. QED
    BY <2>12, <2>13 DEF e
<1>8. ASSUME NEW i \in DOMAIN longer
      PROVE  KeyTells(longer, i) /\ (IsRevert(longer[i]) => NamesAnAction(longer, i))
  <2>1. CASE i \in DOMAIN events
    BY <1>1, <2>1, OldKeysTell DEF longer
  <2>2. CASE i \notin DOMAIN events
    <3>1. PICK n \in 1 .. r + a : i = L + n
      BY <1>5, <2>2
    <3>2. CASE n \in 1 .. r
      BY <1>6, <3>1, <3>2
    <3>3. CASE n \notin 1 .. r
      <4>1. n - r \in 1 .. a /\ r + (n - r) = n
        BY <1>1, <3>1, <3>3
      <4>2. QED
        BY <1>7, <3>1, <4>1
    <3>4. QED
      BY <3>2, <3>3
  <2>3. QED
    BY <2>1, <2>2
<1>9. QED
  BY <1>8 DEF Keyed, longer, append

-----------------------------------------------------------------------------
(***************************************************************************)
(* What stands after the reconciler's events.                              *)
(***************************************************************************)

\* Nothing is listed exactly if nothing stands.
LEMMA NoneStanding ==
  ASSUME NEW events \in Seq(Event), NEW source
  PROVE  Standing(events, source) = <<>> <=> StandingAt(events, source) = {}
<1> DEFINE standing == Standing(events, source)
           P == StandingAt(events, source)
<1>1. Enumerates(standing, P)
  BY AcceptedTyped
<1> HIDE DEF standing, P
<1>2. /\ standing \in Seq(Nat) /\ DOMAIN standing = 1 .. Len(standing) /\ Len(standing) \in Nat
      /\ \A n \in DOMAIN standing : standing[n] \in P
      /\ \A p \in P : \E n \in DOMAIN standing : standing[n] = p
  BY <1>1 DEF Enumerates
<1>3. standing = <<>> => P = {}
  BY <1>2
<1>4. ASSUME P = {} PROVE standing = <<>>
  <2>1. Len(standing) = 0
    <3>1. DOMAIN standing = {}
      BY <1>2, <1>4
    <3>2. QED
      BY <1>2, <3>1
  <2>2. QED
    BY <1>2, <2>1
<1>5. QED
  BY <1>3, <1>4 DEF standing, P

\* A position of the old log stands after a batch only if it stood before.
LEMMA StoodBefore ==
  ASSUME NEW events \in Seq(Event), NEW batch \in Seq(Event), NEW source,
         NEW i \in DOMAIN events, i \in StandingAt(events \o batch, source)
  PROVE  i \in StandingAt(events, source)
<1> DEFINE longer == events \o batch
<1>1. \A j \in DOMAIN events : j \in DOMAIN longer /\ longer[j] = events[j]
  BY LongerLog
<1>2. i \in StandingAt(longer, source)
  OBVIOUS
<1> HIDE DEF longer
<1>3. longer[i].source = source /\ ~IsRevert(longer[i]) /\ longer[i].id \notin Reverted(longer)
  BY <1>2 DEF StandingAt
<1>4. Reverted(events) \subseteq Reverted(longer)
  BY <1>1 DEF Reverted
<1>5. QED
  BY <1>1, <1>3, <1>4 DEF StandingAt

\* What of ESPN's stands then: what the board repeated, and what was added.
LEMMA ProviderStanding ==
  ASSUME NEW events \in Seq(Event), NEW picks \in Seq(DraftActions),
         WellFormed(events \o ProviderEvents(events, picks))
  PROVE  LET longer == events \o ProviderEvents(events, picks)
             k == CommonPrefix(events, picks)
             r == Unrepeated(events, picks)
             a == Missing(events, picks)
         IN StandingAt(longer, "espn") =
              {Standing(events, "espn")[n] : n \in 1 .. k}
              \union {Len(events) + (r + n) : n \in 1 .. a}
<1> DEFINE append == ProviderEvents(events, picks)
           longer == events \o append
           k == CommonPrefix(events, picks)
           standing == Standing(events, "espn")
           additions == Additions(events, picks)
           r == Unrepeated(events, picks)
           a == Missing(events, picks)
           L == Len(events)
           P == StandingAt(events, "espn")
           S == StandingAt(longer, "espn")
<1>1. /\ k \in Nat /\ r \in Nat /\ a \in Nat /\ r = Len(standing) - k
      /\ append \in Seq(Event) /\ Len(append) = r + a
  BY ReconcilerAppends
<1>2. \A n \in 1 .. r : TakesBack(append[n], events, standing[Len(standing) - n + 1])
  BY ReconcilerAppends
<1>3. \A n \in 1 .. a : Adds(append[r + n], events, additions, k, n)
  BY ReconcilerAppends
<1>4. Enumerates(standing, P)
  BY AcceptedTyped
<1>ids. /\ \A i, j \in DOMAIN longer : longer[i].id = longer[j].id => i = j
      /\ \A i \in DOMAIN longer :
           IsRevert(longer[i]) => \E j \in 1 .. i - 1 : longer[j].id = longer[i].target
  BY DEF WellFormed
<1> HIDE DEF k, standing, additions, r, a, append, longer
<1>5. /\ longer \in Seq(Event) /\ Len(longer) = Len(events) + Len(append)
      /\ Len(events) \in Nat /\ Len(append) \in Nat
      /\ DOMAIN events = 1 .. Len(events) /\ DOMAIN longer = 1 .. Len(longer)
      /\ \A i \in DOMAIN events : i \in DOMAIN longer /\ longer[i] = events[i]
      /\ \A n \in 1 .. Len(append) :
           Len(events) + n \in DOMAIN longer /\ longer[Len(events) + n] = append[n]
      /\ \A i \in DOMAIN longer :
           i \in DOMAIN events \/ \E n \in 1 .. Len(append) : i = Len(events) + n
  BY <1>1, LongerLog DEF longer
<1> HIDE DEF L
<1>6. /\ L \in Nat /\ DOMAIN events = 1 .. L /\ DOMAIN longer = 1 .. L + (r + a)
      /\ \A i \in DOMAIN events : i \in DOMAIN longer /\ longer[i] = events[i]
      /\ \A n \in 1 .. r + a : L + n \in DOMAIN longer /\ longer[L + n] = append[n]
      /\ \A i \in DOMAIN longer : i \in DOMAIN events \/ \E n \in 1 .. r + a : i = L + n
  BY <1>1, <1>5 DEF L
<1>7. /\ Len(standing) \in Nat /\ DOMAIN standing = 1 .. Len(standing)
      /\ \A n \in 1 .. Len(standing) : standing[n] \in P /\ standing[n] \in Nat
      /\ \A m, n \in 1 .. Len(standing) : m < n => standing[m] < standing[n]
      /\ \A p \in P : \E n \in 1 .. Len(standing) : standing[n] = p
  BY <1>4 DEF Enumerates, InOrder
<1>8. \A i \in P : /\ i \in DOMAIN events /\ events[i].source = "espn" /\ ~IsRevert(events[i])
                   /\ events[i].id \notin Reverted(events)
  BY DEF StandingAt
<1> HIDE DEF P
<1>9. \A n \in 1 .. a : /\ L + (r + n) \in DOMAIN longer
                        /\ longer[L + (r + n)].source = "espn" /\ ~IsRevert(longer[L + (r + n)])
  <2>1. SUFFICES ASSUME NEW n \in 1 .. a
                 PROVE  /\ L + (r + n) \in DOMAIN longer
                        /\ longer[L + (r + n)].source = "espn" /\ ~IsRevert(longer[L + (r + n)])
    OBVIOUS
  <2>2. r + n \in 1 .. r + a
    BY <1>1
  <2>3. QED
    BY <1>3, <1>6, <2>2, SMTT(30) DEF Adds
<1>10. \A n \in 1 .. r : /\ L + n \in DOMAIN longer /\ IsRevert(longer[L + n])
                         /\ Len(standing) - n + 1 \in 1 .. Len(standing)
                         /\ longer[L + n].target = events[standing[Len(standing) - n + 1]].id
  <2>1. SUFFICES ASSUME NEW n \in 1 .. r
                 PROVE  /\ L + n \in DOMAIN longer /\ IsRevert(longer[L + n])
                        /\ Len(standing) - n + 1 \in 1 .. Len(standing)
                        /\ longer[L + n].target = events[standing[Len(standing) - n + 1]].id
    OBVIOUS
  <2>2. n \in 1 .. r + a
    BY <1>1
  <2>3. Len(standing) - n + 1 \in 1 .. Len(standing)
    BY <1>1, <1>7
  <2>4. QED
    BY <1>2, <1>6, <2>2, <2>3 DEF TakesBack
<1>11. ASSUME NEW j \in DOMAIN longer, IsRevert(longer[j])
       PROVE  \/ j \in DOMAIN events /\ longer[j] = events[j]
              \/ \E n \in 1 .. r : j = L + n
  <2>1. CASE j \in DOMAIN events
    BY <1>6, <2>1
  <2>2. CASE j \notin DOMAIN events
    <3>1. PICK n \in 1 .. r + a : j = L + n
      BY <1>6, <2>2
    <3>2. CASE n \in 1 .. r
      BY <3>1, <3>2
    <3>3. CASE n \notin 1 .. r
      <4>1. n - r \in 1 .. a /\ r + (n - r) = n
        BY <1>1, <3>1, <3>3
      <4>2. QED
        BY <1>9, <1>11, <3>1, <4>1
    <3>4. QED
      BY <3>2, <3>3
  <2>3. QED
    BY <2>1, <2>2
<1>12. ASSUME NEW n \in 1 .. k PROVE standing[n] \in S
  <2> DEFINE i == standing[n]
  <2>1. n \in 1 .. Len(standing)
    BY <1>1, <1>7
  <2>2. i \in P /\ i \in DOMAIN events /\ i \in DOMAIN longer /\ longer[i] = events[i]
    BY <1>6, <1>7, <1>8, <2>1
  <2>3. ASSUME NEW j \in DOMAIN longer, IsRevert(longer[j]), longer[j].target = longer[i].id
        PROVE  FALSE
    <3>1. CASE j \in DOMAIN events /\ longer[j] = events[j]
      <4>1. events[i].id \in Reverted(events)
        BY <2>2, <2>3, <3>1 DEF Reverted
      <4>2. QED
        BY <1>8, <2>2, <4>1
    <3>2. CASE \E m \in 1 .. r : j = L + m
      <4>1. PICK m \in 1 .. r : j = L + m
        BY <3>2
      <4> DEFINE o == Len(standing) - m + 1
      <4>2. o \in 1 .. Len(standing) /\ longer[j].target = events[standing[o]].id
        BY <1>10, <4>1
      <4>3. n < o
        BY <1>1, <1>7, <4>1
      <4> HIDE DEF o
      <4>4. standing[o] \in DOMAIN longer /\ longer[standing[o]].id = longer[i].id
        BY <1>6, <1>7, <1>8, <2>3, <4>2
      <4>5. standing[o] = i
        BY <1>ids, <2>2, <4>4
      <4>6. i < standing[o] /\ i \in Nat
        BY <1>7, <2>1, <4>2, <4>3
      <4>7. QED
        BY <4>5, <4>6
    <3>3. QED
      BY <1>11, <2>3, <3>1, <3>2
  <2>4. longer[i].id \notin Reverted(longer)
    BY <2>3 DEF Reverted
  <2>5. QED
    BY <1>8, <2>2, <2>4 DEF StandingAt
<1>13. ASSUME NEW n \in 1 .. a PROVE L + (r + n) \in S
  <2> DEFINE i == L + (r + n)
  <2>1. i \in DOMAIN longer /\ longer[i].source = "espn" /\ ~IsRevert(longer[i])
    BY <1>9
  <2>2. ASSUME NEW j \in DOMAIN longer, IsRevert(longer[j]), longer[j].target = longer[i].id
        PROVE  FALSE
    <3>1. PICK h \in 1 .. j - 1 : longer[h].id = longer[j].target
      BY <1>ids, <2>2
    <3>7. /\ L \in Nat /\ r \in Nat /\ a \in Nat /\ n \in 1 .. a
          /\ DOMAIN longer = 1 .. L + (r + a) /\ j \in 1 .. L + (r + a)
      BY <1>1, <1>6
    <3>2. h \in DOMAIN longer /\ h < j
      BY <3>7
    <3>3. h = i
      BY <1>ids, <2>1, <2>2, <3>1, <3>2
    <3>4. \/ j \in 1 .. L
          \/ \E m \in 1 .. r : j = L + m
      BY <1>6, <1>11, <2>2
    <3>5. j <= L + r
      BY <3>4, <3>7
    <3>6. QED
      BY <3>2, <3>3, <3>5, <3>7
  <2>3. longer[i].id \notin Reverted(longer)
    BY <2>2 DEF Reverted
  <2>4. QED
    BY <2>1, <2>3 DEF StandingAt
<1>14. ASSUME NEW i \in S
       PROVE  (\E n \in 1 .. k : i = standing[n]) \/ (\E n \in 1 .. a : i = L + (r + n))
  <2>1. i \in DOMAIN longer /\ ~IsRevert(longer[i]) /\ longer[i].id \notin Reverted(longer)
    BY DEF StandingAt
  <2>2. CASE i \in DOMAIN events
    <3>1. i \in P
      BY <1>1, <1>14, <2>2, StoodBefore DEF longer, P
    <3>2. PICK n \in 1 .. Len(standing) : standing[n] = i
      BY <1>7, <3>1
    <3>3. n <= k
      <4>1. SUFFICES ASSUME ~(n <= k) PROVE FALSE
        OBVIOUS
      <4> DEFINE m == Len(standing) - n + 1
      <4>2. m \in 1 .. r /\ Len(standing) - m + 1 = n
        BY <1>1, <1>7, <4>1
      <4> HIDE DEF m
      <4>3. longer[L + m].target = longer[i].id /\ L + m \in DOMAIN longer /\ IsRevert(longer[L + m])
        BY <1>6, <1>10, <2>2, <3>2, <4>2
      <4>4. longer[i].id \in Reverted(longer)
        BY <4>3 DEF Reverted
      <4>5. QED
        BY <2>1, <4>4
    <3>4. n \in 1 .. k
      BY <1>1, <3>3
    <3>5. QED
      BY <3>2, <3>4
  <2>3. CASE i \notin DOMAIN events
    <3>1. PICK n \in 1 .. r + a : i = L + n
      BY <1>6, <2>1, <2>3
    <3>2. n \notin 1 .. r
      BY <1>10, <2>1, <3>1
    <3>3. n - r \in 1 .. a /\ r + (n - r) = n
      BY <1>1, <3>1, <3>2
    <3>4. QED
      BY <3>1, <3>3
  <2>4. QED
    BY <2>2, <2>3
<1> HIDE DEF S
<1>15. S = {standing[n] : n \in 1 .. k} \union {L + (r + n) : n \in 1 .. a}
  BY <1>12, <1>13, <1>14
<1>16. QED
  BY <1>15 DEF S, standing, k, L, r, a, longer, append

\* So the board the reconciler was given is what the log then shows of ESPN.
LEMMA ProviderCompletes ==
  ASSUME NEW events \in Seq(Event), NEW picks \in Seq(DraftActions),
         WellFormed(events \o ProviderEvents(events, picks))
  PROVE  Accepted(events \o ProviderEvents(events, picks)) = CanonicalOrder(picks)
<1> DEFINE append == ProviderEvents(events, picks)
           longer == events \o append
           k == CommonPrefix(events, picks)
           standing == Standing(events, "espn")
           observed == CanonicalOrder(picks)
           additions == Additions(events, picks)
           r == Unrepeated(events, picks)
           a == Missing(events, picks)
           L == Len(events)
           S == StandingAt(longer, "espn")
           Position(n) == IF n <= k THEN standing[n] ELSE L + (r + (n - k))
           positions == [n \in 1 .. k + a |-> Position(n)]
<1>1. /\ k \in Nat /\ r \in Nat /\ a \in Nat /\ r = Len(standing) - k /\ a = Len(observed) - k
      /\ append \in Seq(Event) /\ Len(append) = r + a
  BY ReconcilerAppends
<1>2. \A n \in 1 .. a : additions[n] = observed[k + n] /\ Adds(append[r + n], events, additions, k, n)
  BY ReconcilerAppends
<1>3. /\ Enumerates(standing, StandingAt(events, "espn"))
      /\ Len(Accepted(events)) = Len(standing)
      /\ \A n \in 1 .. Len(Accepted(events)) : Accepted(events)[n] = ActionOf(events[standing[n]])
  BY AcceptedTyped
<1>4. S = {standing[n] : n \in 1 .. k} \union {L + (r + n) : n \in 1 .. a}
  BY ProviderStanding
<1>5. observed \in Seq(DraftActions) /\ \A n \in 1 .. k : Accepted(events)[n] = observed[n]
  BY OrderTyped, PrefixAgrees
<1>6. /\ longer \in Seq(Event)
      /\ \A n \in 1 .. L : longer[n] = events[n]
      /\ \A n \in 1 .. Len(append) : longer[L + n] = append[n]
      /\ L \in Nat
  BY <1>1, ConcatProperties, SMTT(30)
<1>7. Enumerates(Standing(longer, "espn"), S) /\ Accepted(longer) \in Seq(DraftActions)
      /\ Len(Accepted(longer)) = Len(Standing(longer, "espn"))
      /\ \A n \in 1 .. Len(Accepted(longer)) :
           Accepted(longer)[n] = ActionOf(longer[Standing(longer, "espn")[n]])
  BY <1>6, AcceptedTyped
<1>8. \A n \in 1 .. Len(standing) : standing[n] \in 1 .. L
  <2>1. DOMAIN standing = 1 .. Len(standing) /\ DOMAIN events = 1 .. L
    BY <1>3 DEF Enumerates
  <2>2. QED
    BY <1>3, <2>1 DEF Enumerates, StandingAt
<1>9. \A m, n \in 1 .. Len(standing) : m < n => standing[m] < standing[n]
  BY <1>3 DEF Enumerates, InOrder
<1> HIDE DEF append, longer, k, standing, observed, additions, r, a, L, S
<1>10. Len(standing) = k + r /\ Len(observed) = k + a
  BY <1>1, <1>3, <1>5 DEF Enumerates
<1>11. ASSUME NEW n \in 1 .. k PROVE n \in 1 .. Len(standing) /\ Position(n) = standing[n]
  BY <1>1, <1>10
<1>12. ASSUME NEW n \in 1 .. k + a, ~(n <= k)
       PROVE  n - k \in 1 .. a /\ Position(n) = L + (r + (n - k)) /\ Position(n) > L
  BY <1>1, <1>6, <1>12
<1>13. ASSUME NEW n \in 1 .. k + a PROVE Position(n) \in S /\ Position(n) \in Nat
  <2>1. CASE n <= k
    <3>1. n \in 1 .. k
      BY <1>1, <2>1
    <3>2. QED
      BY <1>4, <1>6, <1>8, <1>11, <3>1
  <2>2. CASE ~(n <= k)
    <3> DEFINE m == n - k
    <3>1. m \in 1 .. a /\ Position(n) = L + (r + m)
      BY <1>12, <2>2
    <3> HIDE DEF m, Position
    <3>2. Position(n) \in S
      BY <1>4, <3>1
    <3>3. Position(n) \in Nat
      BY <1>1, <1>6, <3>1
    <3>4. QED
      BY <3>2, <3>3
  <2>3. QED
    BY <2>1, <2>2
<1>14. ASSUME NEW m \in 1 .. k + a, NEW n \in 1 .. k + a, m < n PROVE Position(m) < Position(n)
  <2>1. CASE n <= k
    <3>1. m \in 1 .. k /\ n \in 1 .. k
      BY <1>1, <1>14, <2>1
    <3>2. QED
      BY <1>9, <1>11, <1>14, <3>1
  <2>2. CASE ~(n <= k) /\ m <= k
    <3>1. m \in 1 .. k
      BY <1>1, <2>2
    <3>2. Position(m) \in 1 .. L
      BY <1>8, <1>11, <3>1
    <3>3. Position(n) > L /\ Position(n) \in Nat
      BY <1>12, <1>13, <2>2
    <3> HIDE DEF Position
    <3>4. QED
      BY <1>6, <3>2, <3>3
  <2>3. CASE ~(n <= k) /\ ~(m <= k)
    <3>1. Position(m) = L + (r + (m - k)) /\ Position(n) = L + (r + (n - k))
      BY <1>12, <2>3
    <3>2. /\ L \in Int /\ r \in Int /\ k \in Int /\ m \in Int /\ n \in Int
      BY <1>1, <1>6
    <3> HIDE DEF Position
    <3>3. QED
      BY <1>14, <3>1, <3>2
  <2>4. QED
    BY <1>1, <1>14, <2>1, <2>2, <2>3
<1>15. ASSUME NEW i \in S PROVE \E n \in 1 .. k + a : Position(n) = i
  <2>1. CASE \E n \in 1 .. k : i = standing[n]
    <3>1. PICK n \in 1 .. k : i = standing[n]
      BY <2>1
    <3>2. n \in 1 .. k + a
      BY <1>1
    <3>3. QED
      BY <1>11, <3>1, <3>2
  <2>2. CASE \E n \in 1 .. a : i = L + (r + n)
    <3>1. PICK n \in 1 .. a : i = L + (r + n)
      BY <2>2
    <3>2. k + n \in 1 .. k + a /\ ~(k + n <= k) /\ (k + n) - k = n
      BY <1>1
    <3>3. Position(k + n) = L + (r + n)
      BY <1>12, <3>2
    <3>4. QED
      BY <3>1, <3>2, <3>3
  <2>3. QED
    BY <1>4, <2>1, <2>2
<1>16. ASSUME NEW n \in 1 .. k + a PROVE ActionOf(longer[Position(n)]) = observed[n]
  <2>1. CASE n <= k
    <3>1. n \in 1 .. k /\ n \in 1 .. Len(standing)
      BY <1>1, <1>11, <2>1
    <3>2. ActionOf(events[standing[n]]) = observed[n]
      BY <1>3, <1>5, <3>1 DEF standing
    <3>3. QED
      BY <1>6, <1>8, <1>11, <3>1, <3>2
  <2>2. CASE ~(n <= k)
    <3>1. n - k \in 1 .. a /\ k + (n - k) = n /\ r + (n - k) \in 1 .. r + a
      BY <1>1, <1>12, <2>2
    <3>2. ActionOf(append[r + (n - k)]) = observed[n]
      BY <1>2, <3>1 DEF Adds
    <3>3. longer[Position(n)] = append[r + (n - k)]
      BY <1>1, <1>6, <1>12, <2>2, <3>1
    <3>4. QED
      BY <3>2, <3>3
  <2>3. QED
    BY <2>1, <2>2
<1> HIDE DEF Position
<1>17. /\ positions \in Seq(Nat) /\ Len(positions) = k + a /\ DOMAIN positions = 1 .. k + a
       /\ \A n \in 1 .. k + a : positions[n] = Position(n)
  <2>1. positions \in [1 .. k + a -> Nat] /\ k + a \in Nat
    BY <1>1, <1>13
  <2>2. positions \in Seq(Nat) /\ Len(positions) = k + a
    BY <2>1, SeqOfFunction
  <2>3. QED
    BY <2>2
<1> HIDE DEF positions
<1>18. Enumerates(positions, S)
  <2>1. InOrder(positions)
    BY <1>14, <1>17 DEF InOrder
  <2>2. \A n \in DOMAIN positions : positions[n] \in S
    BY <1>13, <1>17
  <2>3. ASSUME NEW i \in S PROVE \E n \in DOMAIN positions : positions[n] = i
    BY <1>15, <1>17
  <2>4. QED
    BY <1>17, <2>1, <2>2, <2>3 DEF Enumerates
<1>19. Standing(longer, "espn") = positions
  BY <1>7, <1>18, OneOrder
<1>20. Len(Accepted(longer)) = Len(observed)
  BY <1>7, <1>10, <1>17, <1>19
<1>21. \A n \in 1 .. Len(observed) : Accepted(longer)[n] = observed[n]
  BY <1>7, <1>10, <1>16, <1>17, <1>19, <1>20
<1>22. Accepted(longer) = observed
  BY <1>5, <1>7, <1>20, <1>21, SeqEqual
<1>23. QED
  BY <1>22 DEF longer, append, observed

-----------------------------------------------------------------------------
(***************************************************************************)
(* What a log shows, and what an append does to it.                        *)
(***************************************************************************)

\* ManualEntriesStand and NeverABlend, of any log.
HumansKept(events) ==
  \A i \in DOMAIN events :
    IsRevert(events[i]) /\ events[i].source = "espn" =>
      Standing(SubSeq(events, 1, i - 1), "manual") = <<>>

ShowsABoard(events) ==
  \/ \E i \in DOMAIN events : IsRevert(events[i]) /\ events[i].source = "manual"
  \/ Accepted(events) \in {<<>>} \union {CanonicalOrder(o.picks) : o \in Observations}

\* What a commissioner appends: entries of their own, each under the key of its
\* position, whose reverts name actions of the log.
OfHumans(batch, events) ==
  /\ batch \in Seq(Event) /\ batch # <<>>
  /\ \A n \in DOMAIN batch :
       /\ batch[n].source = "manual" /\ batch[n].id = ManualKey(Len(events) + n)
       /\ IsRevert(batch[n]) => \E h \in DOMAIN events :
            ~IsRevert(events[h]) /\ batch[n].target = events[h].id

\* Appending leaves what came before a position of the log as it was.
LEMMA SamePart ==
  ASSUME NEW events \in Seq(Event), NEW batch \in Seq(Event), NEW i \in DOMAIN events
  PROVE  SubSeq(events \o batch, 1, i - 1) = SubSeq(events, 1, i - 1)
<1> DEFINE longer == events \o batch
           a == SubSeq(longer, 1, i - 1)
           b == SubSeq(events, 1, i - 1)
<1>1. /\ longer \in Seq(Event) /\ Len(longer) = Len(events) + Len(batch)
      /\ Len(events) \in Nat /\ Len(batch) \in Nat /\ DOMAIN events = 1 .. Len(events)
      /\ \A j \in DOMAIN events : longer[j] = events[j]
  BY LongerLog
<1> HIDE DEF longer
<1>2. i - 1 \in 0 .. Len(events) /\ i - 1 \in 0 .. Len(longer) /\ i - 1 \in Nat
  BY <1>1
<1>3. a \in Seq(Event) /\ Len(a) = i - 1 /\ \A j \in 1 .. i - 1 : a[j] = longer[j]
  BY <1>1, <1>2, InitialPart
<1>4. b \in Seq(Event) /\ Len(b) = i - 1 /\ \A j \in 1 .. i - 1 : b[j] = events[j]
  BY <1>2, InitialPart
<1> HIDE DEF a, b
<1>5. ASSUME NEW j \in 1 .. i - 1 PROVE a[j] = b[j]
  <2>1. j \in DOMAIN events
    BY <1>1, <1>2
  <2>2. QED
    BY <1>1, <1>3, <1>4, <2>1
<1>6. a = b
  BY <1>3, <1>4, <1>5, SeqEqual
<1>7. QED
  BY <1>6 DEF a, b, longer

\* The reconciler takes nothing back over an entry a human made.
LEMMA ProviderKeepsHumans ==
  ASSUME NEW events \in Seq(Event), HumansKept(events), NEW picks \in Seq(DraftActions),
         Superseded(events, picks) # <<>> => Standing(events, "manual") = <<>>
  PROVE  HumansKept(events \o ProviderEvents(events, picks))
<1> DEFINE append == ProviderEvents(events, picks)
           longer == events \o append
           additions == Additions(events, picks)
           r == Unrepeated(events, picks)
           a == Missing(events, picks)
           L == Len(events)
<1>1. /\ r \in Nat /\ a \in Nat /\ append \in Seq(Event) /\ Len(append) = r + a
      /\ Superseded(events, picks) # <<>> <=> r > 0
  BY ReconcilerAppends
<1>2. \A n \in 1 .. r : append[n].source = "espn"
  BY ReconcilerAppends DEF TakesBack
<1>3. \A n \in 1 .. a : append[r + n].source = "espn" /\ ~IsRevert(append[r + n])
  BY ReconcilerAppends DEF Adds
<1> HIDE DEF append, longer, r, a
<1>4. /\ longer \in Seq(Event) /\ Len(longer) = Len(events) + Len(append)
      /\ Len(events) \in Nat /\ Len(append) \in Nat
      /\ DOMAIN events = 1 .. Len(events) /\ DOMAIN longer = 1 .. Len(longer)
      /\ \A i \in DOMAIN events : i \in DOMAIN longer /\ longer[i] = events[i]
      /\ \A n \in 1 .. Len(append) :
           Len(events) + n \in DOMAIN longer /\ longer[Len(events) + n] = append[n]
      /\ \A i \in DOMAIN longer :
           i \in DOMAIN events \/ \E n \in 1 .. Len(append) : i = Len(events) + n
  BY <1>1, LongerLog DEF longer
<1>5. ASSUME NEW n \in 1 .. Len(append)
      PROVE  append[n].source = "espn" /\ (IsRevert(append[n]) => n \in 1 .. r)
  <2>1. CASE n \in 1 .. r
    BY <1>2, <2>1
  <2>2. CASE n \notin 1 .. r
    <3>1. n - r \in 1 .. a /\ r + (n - r) = n
      BY <1>1, <2>2
    <3>2. QED
      BY <1>3, <3>1
  <2>3. QED
    BY <2>1, <2>2
<1>6. SUFFICES ASSUME NEW i \in DOMAIN longer, IsRevert(longer[i]), longer[i].source = "espn"
               PROVE  Standing(SubSeq(longer, 1, i - 1), "manual") = <<>>
  BY DEF HumansKept, longer, append
<1>7. CASE i \in DOMAIN events
  <2>1. SubSeq(longer, 1, i - 1) = SubSeq(events, 1, i - 1)
    BY <1>1, <1>7, SamePart DEF longer
  <2>2. Standing(SubSeq(events, 1, i - 1), "manual") = <<>>
    BY <1>4, <1>6, <1>7 DEF HumansKept
  <2>3. QED
    BY <2>1, <2>2
<1>8. CASE i \notin DOMAIN events
  <2> DEFINE part == SubSeq(longer, 1, i - 1)
  <2>1. PICK n \in 1 .. Len(append) : i = Len(events) + n /\ longer[i] = append[n]
    BY <1>4, <1>8
  <2>2. n \in 1 .. r
    BY <1>5, <1>6, <2>1
  <2>3. Standing(events, "manual") = <<>>
    BY <1>1, <2>2
  <2>4. StandingAt(events, "manual") = {}
    BY <2>3, NoneStanding
  <2>5. i - 1 \in 0 .. Len(longer) /\ i - 1 \in Nat /\ Len(events) <= i - 1
    BY <1>4, <2>1
  <2>6. /\ part \in Seq(Event) /\ Len(part) = i - 1 /\ DOMAIN part = 1 .. i - 1
        /\ \A j \in 1 .. i - 1 : part[j] = longer[j]
    BY <1>4, <2>5, InitialPart
  <2> HIDE DEF part
  <2>7. ASSUME NEW j \in DOMAIN events PROVE j \in DOMAIN part /\ part[j] = events[j]
    BY <1>4, <2>5, <2>6
  <2>8. Reverted(events) \subseteq Reverted(part)
    BY <2>7 DEF Reverted
  <2>9. ASSUME NEW j \in StandingAt(part, "manual") PROVE FALSE
    <3>1. /\ j \in DOMAIN part /\ part[j].source = "manual" /\ ~IsRevert(part[j])
          /\ part[j].id \notin Reverted(part)
      BY DEF StandingAt
    <3>2. j \in DOMAIN longer /\ longer[j] = part[j]
      BY <1>4, <2>5, <2>6, <3>1
    <3>3. j \in DOMAIN events
      <4>1. SUFFICES ASSUME j \notin DOMAIN events PROVE FALSE
        OBVIOUS
      <4>2. PICK m \in 1 .. Len(append) : j = Len(events) + m /\ longer[j] = append[m]
        BY <1>4, <3>2, <4>1
      <4>3. append[m].source = "espn"
        BY <1>5
      <4>4. QED
        BY <3>1, <3>2, <4>2, <4>3
    <3>4. j \in StandingAt(events, "manual")
      BY <2>7, <2>8, <3>1, <3>3 DEF StandingAt
    <3>5. QED
      BY <2>4, <3>4
  <2>10. StandingAt(part, "manual") = {}
    BY <2>9
  <2>11. QED
    BY <2>6, <2>10, NoneStanding DEF part
<1>9. QED
  BY <1>7, <1>8

\* Nor does a commissioner's append write provider history over.
LEMMA HumansKeepHumans ==
  ASSUME NEW events \in Seq(Event), HumansKept(events), NEW batch, OfHumans(batch, events)
  PROVE  HumansKept(events \o batch)
<1> DEFINE longer == events \o batch
<1>1. batch \in Seq(Event) /\ \A n \in DOMAIN batch : batch[n].source = "manual"
  BY DEF OfHumans
<1>2. /\ longer \in Seq(Event) /\ Len(longer) = Len(events) + Len(batch)
      /\ Len(events) \in Nat /\ Len(batch) \in Nat
      /\ DOMAIN events = 1 .. Len(events) /\ DOMAIN longer = 1 .. Len(longer)
      /\ \A i \in DOMAIN events : i \in DOMAIN longer /\ longer[i] = events[i]
      /\ \A n \in 1 .. Len(batch) :
           Len(events) + n \in DOMAIN longer /\ longer[Len(events) + n] = batch[n]
      /\ \A i \in DOMAIN longer :
           i \in DOMAIN events \/ \E n \in 1 .. Len(batch) : i = Len(events) + n
  BY <1>1, LongerLog
<1> HIDE DEF longer
<1>3. SUFFICES ASSUME NEW i \in DOMAIN longer, IsRevert(longer[i]), longer[i].source = "espn"
               PROVE  Standing(SubSeq(longer, 1, i - 1), "manual") = <<>>
  BY DEF HumansKept, longer
<1>4. i \in DOMAIN events
  <2>1. DOMAIN batch = 1 .. Len(batch) /\ "espn" # "manual"
    BY <1>1
  <2>2. QED
    BY <1>1, <1>2, <1>3, <2>1
<1>5. SubSeq(longer, 1, i - 1) = SubSeq(events, 1, i - 1)
  BY <1>1, <1>4, SamePart DEF longer
<1>6. Standing(SubSeq(events, 1, i - 1), "manual") = <<>>
  BY <1>2, <1>3, <1>4 DEF HumansKept
<1>7. QED
  BY <1>5, <1>6

\* A commissioner's append leaves what the log shows of ESPN, or takes some of it back.
LEMMA HumansKeepBoard ==
  ASSUME NEW events \in Seq(Event), ShowsABoard(events), NEW batch, OfHumans(batch, events)
  PROVE  ShowsABoard(events \o batch)
<1> DEFINE longer == events \o batch
<1>1. /\ batch \in Seq(Event) /\ DOMAIN batch = 1 .. Len(batch)
      /\ \A n \in DOMAIN batch : batch[n].source = "manual"
  BY DEF OfHumans
<1>2. /\ longer \in Seq(Event) /\ Len(longer) = Len(events) + Len(batch)
      /\ Len(events) \in Nat /\ Len(batch) \in Nat
      /\ DOMAIN events = 1 .. Len(events) /\ DOMAIN longer = 1 .. Len(longer)
      /\ \A i \in DOMAIN events : i \in DOMAIN longer /\ longer[i] = events[i]
      /\ \A n \in 1 .. Len(batch) :
           Len(events) + n \in DOMAIN longer /\ longer[Len(events) + n] = batch[n]
      /\ \A i \in DOMAIN longer :
           i \in DOMAIN events \/ \E n \in 1 .. Len(batch) : i = Len(events) + n
  BY <1>1, LongerLog
<1> HIDE DEF longer
<1>3. CASE \E i \in DOMAIN longer : IsRevert(longer[i]) /\ longer[i].source = "manual"
  BY <1>3 DEF ShowsABoard, longer
<1>4. CASE ~ \E i \in DOMAIN longer : IsRevert(longer[i]) /\ longer[i].source = "manual"
  <2>1. ASSUME NEW i \in DOMAIN longer, i \notin DOMAIN events
        PROVE  ~IsRevert(longer[i]) /\ longer[i].source = "manual"
    <3>1. longer[i].source = "manual"
      BY <1>1, <1>2, <2>1
    <3>2. QED
      BY <1>4, <3>1
  <2>2. Reverted(longer) = Reverted(events)
    BY <1>2, <2>1 DEF Reverted
  <2>3. StandingAt(longer, "espn") = StandingAt(events, "espn")
    <3>1. "espn" # "manual"
      OBVIOUS
    <3>2. QED
      BY <1>2, <2>1, <2>2, <3>1 DEF StandingAt
  <2>4. /\ Enumerates(Standing(longer, "espn"), StandingAt(longer, "espn"))
        /\ Enumerates(Standing(events, "espn"), StandingAt(events, "espn"))
    BY <1>2, AcceptedTyped
  <2>5. Standing(longer, "espn") = Standing(events, "espn")
    BY <2>3, <2>4, OneOrder
  <2>6. \A n \in DOMAIN Standing(events, "espn") :
          longer[Standing(events, "espn")[n]] = events[Standing(events, "espn")[n]]
    BY <1>2, <2>4 DEF Enumerates, StandingAt
  <2>7. Accepted(longer) = Accepted(events)
    BY <2>5, <2>6 DEF Accepted
  <2>8. ~ \E i \in DOMAIN events : IsRevert(events[i]) /\ events[i].source = "manual"
    BY <1>2, <1>4
  <2>9. QED
    BY <2>7, <2>8 DEF ShowsABoard, longer
<1>5. QED
  BY <1>3, <1>4

\* And every key goes on telling.
LEMMA HumansKeepKeys ==
  ASSUME NEW events \in Seq(Event), Keyed(events), NEW batch, OfHumans(batch, events)
  PROVE  Keyed(events \o batch)
<1> DEFINE longer == events \o batch
<1>1. batch \in Seq(Event) /\ DOMAIN batch = 1 .. Len(batch)
  BY DEF OfHumans
<1>2. /\ longer \in Seq(Event) /\ Len(longer) = Len(events) + Len(batch)
      /\ Len(events) \in Nat /\ Len(batch) \in Nat
      /\ DOMAIN events = 1 .. Len(events) /\ DOMAIN longer = 1 .. Len(longer)
      /\ \A i \in DOMAIN events : i \in DOMAIN longer /\ longer[i] = events[i]
      /\ \A n \in 1 .. Len(batch) :
           Len(events) + n \in DOMAIN longer /\ longer[Len(events) + n] = batch[n]
      /\ \A i \in DOMAIN longer :
           i \in DOMAIN events \/ \E n \in 1 .. Len(batch) : i = Len(events) + n
  BY <1>1, LongerLog
<1> HIDE DEF longer
<1>3. ASSUME NEW i \in DOMAIN longer
      PROVE  KeyTells(longer, i) /\ (IsRevert(longer[i]) => NamesAnAction(longer, i))
  <2>1. CASE i \in DOMAIN events
    BY <1>1, <2>1, OldKeysTell DEF longer
  <2>2. CASE i \notin DOMAIN events
    <3>1. PICK n \in 1 .. Len(batch) : i = Len(events) + n /\ longer[i] = batch[n]
      BY <1>2, <2>2
    <3>2. longer[i].source = "manual" /\ longer[i].id = ManualKey(i)
      BY <1>1, <3>1 DEF OfHumans
    <3>3. KeyTells(longer, i)
      BY <3>2 DEF KeyTells
    <3>4. ASSUME IsRevert(longer[i]) PROVE NamesAnAction(longer, i)
      <4>1. PICK h \in DOMAIN events : ~IsRevert(events[h]) /\ longer[i].target = events[h].id
        BY <1>1, <3>1, <3>4 DEF OfHumans
      <4>2. h \in 1 .. i - 1 /\ longer[h] = events[h]
        BY <1>2, <3>1, <4>1
      <4>3. QED
        BY <4>1, <4>2 DEF NamesAnAction
    <3>5. QED
      BY <3>3, <3>4
  <2>3. QED
    BY <2>1, <2>2
<1>4. QED
  BY <1>3 DEF Keyed, longer

\* A batch of a commissioner is one.
LEMMA BatchesAreOfHumans ==
  ASSUME log \in Seq(Event), Len(log) < MaxLog, NEW batch \in ManualBatches
  PROVE  OfHumans(batch, log)
<1> DEFINE next == Len(log) + 1
           targets == {i \in DOMAIN log : ~IsRevert(log[i]) /\ IsActive(log)[i]}
<1>1. /\ Len(log) \in Nat /\ MaxLog \in Nat /\ next \in Nat /\ next + 1 \in Nat
      /\ next \in 1 .. MaxLog + 2 /\ next + 1 \in 1 .. MaxLog + 2
  BY RoomAssumption
<1>2. ASSUME NEW n \in 1 .. MaxLog + 2, NEW a \in ManualActions
      PROVE  LET e == ManualAction(n, a)
             IN e \in Event /\ ~IsRevert(e) /\ e.source = "manual" /\ e.id = ManualKey(n)
  <2> DEFINE e == ManualAction(n, a)
  <2>1. /\ a.type \in SnakeTypes \union AuctionTypes /\ a.team \in Teams
        /\ a.player \in Players /\ a.number \in Nat
    BY RoomAssumption DEF DraftActions
  <2>2. a.type # "DRAFT_EVENT_REVERTED"
    BY <2>1 DEF SnakeTypes, AuctionTypes
  <2>3. ManualKey(n) \in EventIds
    BY DEF ManualKey, EventIds
  <2>4. e = [id |-> ManualKey(n), type |-> a.type, team |-> a.team, player |-> a.player,
             number |-> a.number, source |-> "manual"]
    BY DEF ManualAction
  <2> HIDE DEF e
  <2>5. e \in Event
    BY <2>1, <2>3, <2>4 DEF Event
  <2>6. ~IsRevert(e) /\ e.source = "manual" /\ e.id = ManualKey(n)
    BY <2>2, <2>4 DEF IsRevert
  <2>7. QED
    BY <2>5, <2>6 DEF e
<1>3. ASSUME NEW i \in targets
      PROVE  LET e == ManualRevert(next, i)
             IN /\ e \in Event /\ IsRevert(e) /\ e.source = "manual" /\ e.id = ManualKey(next)
                /\ \E h \in DOMAIN log : ~IsRevert(log[h]) /\ e.target = log[h].id
  <2> DEFINE e == ManualRevert(next, i)
  <2>1. log[i] \in Event /\ ~IsRevert(log[i]) /\ i \in DOMAIN log
    OBVIOUS
  <2>2. log[i].id \in EventIds
    BY <2>1 DEF Event
  <2>3. ManualKey(next) \in EventIds
    BY <1>1 DEF ManualKey, EventIds
  <2>4. e = [id |-> ManualKey(next), type |-> "DRAFT_EVENT_REVERTED",
             target |-> log[i].id, source |-> "manual"]
    BY DEF ManualRevert
  <2> HIDE DEF e, next, targets
  <2>5. e \in Event
    BY <2>2, <2>3, <2>4 DEF Event
  <2>6. IsRevert(e) /\ e.source = "manual" /\ e.id = ManualKey(next) /\ e.target = log[i].id
    BY <2>4 DEF IsRevert
  <2>7. QED
    BY <2>1, <2>5, <2>6 DEF e
<1>4. \/ \E a \in ManualActions : batch = <<ManualAction(next, a)>>
      \/ \E i \in targets : batch = <<ManualRevert(next, i)>>
      \/ \E i \in targets, a \in ManualActions :
           batch = <<ManualRevert(next, i), ManualAction(next + 1, a)>>
  BY DEF ManualBatches
<1> HIDE DEF targets
<1>5. CASE \E a \in ManualActions : batch = <<ManualAction(next, a)>>
  <2>1. PICK a \in ManualActions : batch = <<ManualAction(next, a)>>
    BY <1>5
  <2> DEFINE e == ManualAction(next, a)
  <2>2. e \in Event /\ ~IsRevert(e) /\ e.source = "manual" /\ e.id = ManualKey(next)
    BY <1>1, <1>2
  <2> HIDE DEF e
  <2>3. batch = <<e>>
    BY <2>1 DEF e
  <2>4. batch \in Seq(Event) /\ batch # <<>> /\ DOMAIN batch = {1} /\ batch[1] = e
    BY <2>2, <2>3
  <2>5. QED
    BY <2>2, <2>4 DEF OfHumans
<1>6. CASE \E i \in targets : batch = <<ManualRevert(next, i)>>
  <2>1. PICK i \in targets : batch = <<ManualRevert(next, i)>>
    BY <1>6
  <2> DEFINE e == ManualRevert(next, i)
  <2>2. /\ e \in Event /\ e.source = "manual" /\ e.id = ManualKey(next)
        /\ \E h \in DOMAIN log : ~IsRevert(log[h]) /\ e.target = log[h].id
    BY <1>3
  <2> HIDE DEF e
  <2>3. batch = <<e>>
    BY <2>1 DEF e
  <2>4. batch \in Seq(Event) /\ batch # <<>> /\ DOMAIN batch = {1} /\ batch[1] = e
    BY <2>2, <2>3
  <2>5. QED
    BY <2>2, <2>4 DEF OfHumans
<1>7. CASE \E i \in targets, a \in ManualActions :
             batch = <<ManualRevert(next, i), ManualAction(next + 1, a)>>
  <2>1. PICK i \in targets, a \in ManualActions :
               batch = <<ManualRevert(next, i), ManualAction(next + 1, a)>>
    BY <1>7
  <2> DEFINE d == ManualRevert(next, i)
             e == ManualAction(next + 1, a)
  <2>2. /\ d \in Event /\ d.source = "manual" /\ d.id = ManualKey(next)
        /\ \E h \in DOMAIN log : ~IsRevert(log[h]) /\ d.target = log[h].id
    BY <1>3
  <2>3. e \in Event /\ ~IsRevert(e) /\ e.source = "manual" /\ e.id = ManualKey(next + 1)
    BY <1>1, <1>2
  <2> HIDE DEF d, e
  <2>4. batch = <<d, e>>
    BY <2>1 DEF d, e
  <2>5. /\ batch \in Seq(Event) /\ batch # <<>> /\ DOMAIN batch = {1, 2}
        /\ batch[1] = d /\ batch[2] = e
    BY <2>2, <2>3, <2>4
  <2>6. Len(log) + 2 = next + 1
    BY <1>1
  <2>7. QED
    BY <2>2, <2>3, <2>5, <2>6 DEF OfHumans
<1>8. QED
  BY <1>4, <1>5, <1>6, <1>7

-----------------------------------------------------------------------------
(***************************************************************************)
(* The inductive invariant: types; a log that reduces and whose keys tell; *)
(* provider history that is one board and over no human entry; and, of     *)
(* every count that the feed, an upload or a poll goes by, that the look   *)
(* it counts was taken.                                                    *)
(***************************************************************************)

\* The looks a channel took at a board: at any time, or since the last switch of
\* manual backup.
SeenBy(channel, board, looks) == \E h \in looks : h.channel = channel /\ h.board = board

SeenSince(board, looks) == [channel |-> "browser", board |-> board, since |-> TRUE] \in looks

FeedRecalls(row, looks) ==
  /\ row.pendingSeen = 1 => SeenSince(row.pending, looks)
  /\ row.serverPendingSeen = 1 => SeenBy("server", row.serverPending, looks)

\* A switch and a takeover end the generation an upload read the feed in, so its count
\* matters in that generation only.
UploadRecalls(w, generation, looks) ==
  w.phase \in {"observed", "decided"} =>
    /\ w.generation <= generation
    /\ w.generation = generation /\ w.context.pendingSeen = 1 =>
         SeenSince(w.context.pending, looks)

PollRecalls(w, looks) ==
  w.phase = "fetching" =>
    (w.context.pendingSeen = 1 => SeenBy("server", w.context.pending, looks))

\* An upload works on something that its page renders.
OnScreen(w, screens) == w.phase # "idle" => w.revision \in DOMAIN screens[w.page]

Looked ==
  /\ FeedRecalls(feed, held)
  /\ \A u \in Uploads :
       UploadRecalls(upload[u], feed.leaseGeneration, held) /\ OnScreen(upload[u], screen)
  /\ \A q \in Polls : PollRecalls(poll[q], held)

\* What holds of every log of the room.
SoundLog(events) ==
  Legal(events) /\ Keyed(events) /\ HumansKept(events) /\ ShowsABoard(events)

LogIsSound == SoundLog(log)

RewritesEarned == RewritesSeenTwice /\ BrowserRewritesReEarned

LiveRoomInv == TypeOK /\ LogIsSound /\ Looked /\ RewritesEarned

\* What was seen stays seen.
LEMMA LooksOnlyGrow ==
  ASSUME NEW looks, NEW more, looks \subseteq more
  PROVE  /\ \A row : FeedRecalls(row, looks) => FeedRecalls(row, more)
         /\ \A w, generation : UploadRecalls(w, generation, looks) => UploadRecalls(w, generation, more)
         /\ \A w : PollRecalls(w, looks) => PollRecalls(w, more)
BY DEF FeedRecalls, UploadRecalls, PollRecalls, SeenBy, SeenSince

\* In a later generation an upload of an earlier one goes by no count.
LEMMA LaterGeneration ==
  ASSUME NEW w \in UploadStates, NEW generation \in Nat, NEW later \in Nat, generation < later,
         NEW looks, UploadRecalls(w, generation, looks), NEW others
  PROVE  UploadRecalls(w, later, others)
<1>1. w.phase \in {"observed", "decided"} => w.generation \in Nat
  BY DEF UploadStates, Idle
<1>2. QED
  BY <1>1 DEF UploadRecalls

\* Boards.
LEMMA ObservationTyped ==
  ASSUME NEW board \in Observations
  PROVE  board.picks \in Seq(DraftActions) /\ board.state \in FeedStates /\ board \in Boards
<1>1. board \in ObservationType
  <2>1. CASE board \in Results
    BY <2>1, RoomAssumption
  <2>2. CASE \E s \in Screens : board \in Range(s)
    <3>1. PICK s \in Screens : board \in Range(s)
      BY <2>2
    <3>2. s \in Seq(ObservationType) /\ \E n \in DOMAIN s : board = s[n]
      BY <3>1, RoomAssumption DEF Range
    <3>3. QED
      BY <3>2
  <2>3. board \in Results \/ \E s \in Screens : board \in Range(s)
    BY DEF Observations
  <2>4. QED
    BY <2>1, <2>2, <2>3
<1>2. QED
  BY <1>1 DEF ObservationType, FeedStates, Boards

\* What a page renders.
LEMMA RenderedTyped ==
  ASSUME screen \in [Pages -> Screens], NEW g \in Pages, NEW r \in DOMAIN screen[g]
  PROVE  r \in Revisions /\ screen[g][r] \in Observations
<1> DEFINE s == screen[g]
<1>1. s \in Screens /\ s \in Seq(ObservationType) /\ r \in DOMAIN s
  BY RoomAssumption
<1> HIDE DEF s
<1>2. r \in Revisions
  BY <1>1 DEF Revisions
<1>3. s[r] \in Range(s)
  BY <1>1 DEF Range
<1>4. s[r] \in Observations
  BY <1>1, <1>3 DEF Observations
<1>5. QED
  BY <1>2, <1>4 DEF s

\* What an upload keeps, by its phase.
LEMMA UploadPhases ==
  ASSUME NEW w \in UploadStates
  PROVE  /\ w.phase \in {"idle", "observed", "decided", "heartbeat"}
         /\ w = Idle <=> w.phase = "idle"
         /\ w.phase # "idle" => w.page \in Pages /\ w.revision \in Revisions
         /\ w.phase \in {"observed", "decided"} =>
              /\ w.generation \in Nat
              /\ w.context \in [state : FeedStates, pending : Boards, pendingSeen : {0, 1},
                                manualBackupActive : BOOLEAN]
         /\ w.phase = "observed" => w.answered \in BOOLEAN
         /\ w.phase = "decided" => w.sequence \in Nat
         /\ w.phase = "heartbeat" => w.state \in FeedStates
BY DEF UploadStates, Idle

\* And a poll.
LEMMA PollPhases ==
  ASSUME NEW w \in PollStates
  PROVE  /\ w.phase \in {"idle", "started", "fetching"}
         /\ w = Idle <=> w.phase = "idle"
         /\ w.phase # "idle" => w.sequence \in Nat
         /\ w.phase = "fetching" =>
              /\ w.generation \in Nat /\ w.browserSince \in BOOLEAN
              /\ w.context \in [pending : Boards, pendingSeen : {0, 1},
                                manualBackupActive : BOOLEAN]
BY DEF PollStates, Idle

-----------------------------------------------------------------------------
(***************************************************************************)
(* What an upload's, a poll's and a commissioner's append keep.            *)
(***************************************************************************)

\* A sound decision keeps the log sound; its append is ESPN's, and takes something
\* back at a confirmed sight only.
LEMMA DecisionKeepsLog ==
  ASSUME NEW events \in Seq(Event), SoundLog(events), NEW board \in Observations,
         NEW context, NEW decision, SoundDecision(decision, context, events, board)
  PROVE  /\ decision.append \in Seq(Event)
         /\ events \o decision.append \in Seq(Event) /\ SoundLog(events \o decision.append)
         /\ decision.append # <<>> => ~context.manualBackupActive
         /\ (\E n \in DOMAIN decision.append : IsRevert(decision.append[n])) =>
              Confirmed(context, board)
<1> DEFINE append == decision.append
           wanted == ProviderEvents(events, board.picks)
           r == Unrepeated(events, board.picks)
           a == Missing(events, board.picks)
<1>1. board.picks \in Seq(DraftActions)
  BY ObservationTyped
<1>2. CASE append = <<>>
  <2>1. append \in Seq(Event) /\ events \o append = events /\ DOMAIN append = {}
    BY <1>2
  <2>2. QED
    BY <1>2, <2>1
<1>3. CASE append # <<>>
  <2>1. /\ append = wanted /\ Legal(events \o append) /\ ~context.manualBackupActive
        /\ Superseded(events, board.picks) # <<>> =>
             Confirmed(context, board) /\ Standing(events, "manual") = <<>>
    BY <1>3 DEF SoundDecision
  <2>2. WellFormed(events \o wanted)
    BY <2>1 DEF Legal
  <2>3. Keyed(events) /\ HumansKept(events)
    BY DEF SoundLog
  <2>4. Keyed(events \o wanted)
    BY <1>1, <2>3, ProviderKeepsKeys
  <2>5. HumansKept(events \o wanted)
    BY <1>1, <2>1, <2>3, ProviderKeepsHumans
  <2>6. Accepted(events \o wanted) = CanonicalOrder(board.picks)
    BY <1>1, <2>2, ProviderCompletes
  <2>7. ShowsABoard(events \o wanted)
    BY <2>6 DEF ShowsABoard
  <2>8. /\ wanted \in Seq(Event) /\ r \in Nat /\ a \in Nat /\ Len(wanted) = r + a
        /\ Superseded(events, board.picks) # <<>> <=> r > 0
    BY <1>1, ReconcilerAppends
  <2>9. \A n \in 1 .. a : ~IsRevert(wanted[r + n])
    BY <1>1, ReconcilerAppends DEF Adds
  <2>10. ASSUME NEW n \in DOMAIN wanted, IsRevert(wanted[n]) PROVE Confirmed(context, board)
    <3> HIDE DEF wanted, r, a
    <3>1. n \in 1 .. r + a
      BY <2>8, <2>10
    <3>2. r > 0
      <4>1. SUFFICES ASSUME r = 0 PROVE FALSE
        BY <2>8
      <4>2. n \in 1 .. a /\ r + n = n
        BY <2>8, <3>1, <4>1
      <4>3. QED
        BY <2>9, <2>10, <4>2
    <3>3. QED
      BY <2>1, <2>8, <3>2
  <2>11. events \o wanted \in Seq(Event)
    BY <2>8, ConcatProperties
  <2> HIDE DEF wanted, r, a
  <2>12. QED
    BY <2>1, <2>4, <2>5, <2>7, <2>8, <2>10, <2>11 DEF SoundLog
<1>4. QED
  BY <1>2, <1>3

\* A commissioner's append keeps the log sound, if the engine accepts it.
LEMMA BatchKeepsLog ==
  ASSUME NEW events \in Seq(Event), SoundLog(events), NEW batch, OfHumans(batch, events),
         Legal(events \o batch)
  PROVE  events \o batch \in Seq(Event) /\ SoundLog(events \o batch)
<1>1. batch \in Seq(Event)
  BY DEF OfHumans
<1>2. events \o batch \in Seq(Event)
  BY <1>1, ConcatProperties
<1>3. Keyed(events \o batch) /\ HumansKept(events \o batch) /\ ShowsABoard(events \o batch)
  BY HumansKeepKeys, HumansKeepHumans, HumansKeepBoard DEF SoundLog
<1>4. QED
  BY <1>2, <1>3 DEF SoundLog

\* The empty log is sound.
LEMMA EmptyLogIsSound == SoundLog(<<>>) /\ <<>> \in Seq(Event)
<1>1. <<>> \in Seq(Event) /\ DOMAIN <<>> = {} /\ Len(<<>>) = 0
  OBVIOUS
<1>2. Legal(<<>>)
  <2>1. Reduce(<<>>) = EmptyRoom /\ EmptyRoom.legal = TRUE
    BY ReduceOfNothing, EmptyRoomIsSound
  <2>2. QED
    BY <1>1, <2>1 DEF Legal, WellFormed
<1>3. Keyed(<<>>) /\ HumansKept(<<>>)
  BY <1>1 DEF Keyed, HumansKept
<1>4. ShowsABoard(<<>>)
  <2>1. StandingAt(<<>>, "espn") = {}
    BY <1>1 DEF StandingAt
  <2>2. Standing(<<>>, "espn") = <<>>
    BY <1>1, <2>1, NoneStanding
  <2>3. /\ Accepted(<<>>) \in Seq(DraftActions) /\ Len(Accepted(<<>>)) = Len(Standing(<<>>, "espn"))
    BY <1>1, AcceptedTyped
  <2>4. Accepted(<<>>) = <<>>
    BY <1>1, <2>2, <2>3
  <2>5. QED
    BY <2>4 DEF ShowsABoard
<1>5. QED
  BY <1>1, <1>2, <1>3, <1>4 DEF SoundLog

\* The whole of a log is the part of it up to its length.
LEMMA WholePart ==
  ASSUME NEW S, NEW events \in Seq(S)
  PROVE  SubSeq(events, 1, Len(events)) = events
<1>1. Len(events) \in 0 .. Len(events)
  OBVIOUS
<1>2. /\ SubSeq(events, 1, Len(events)) \in Seq(S)
      /\ Len(SubSeq(events, 1, Len(events))) = Len(events)
      /\ \A i \in 1 .. Len(events) : SubSeq(events, 1, Len(events))[i] = events[i]
  BY <1>1, InitialPart
<1>3. QED
  BY <1>2, SeqEqual

-----------------------------------------------------------------------------
(***************************************************************************)
(* Every step keeps the invariant.                                         *)
(***************************************************************************)

\* The history of the looks a commit leaves: a rewrite that was seen before leaves no
\* fault, and a board that is held is remembered.
LEMMA RememberKeeps ==
  ASSUME held \subseteq [channel : Channels, board : Observations, since : BOOLEAN],
         unearned \subseteq Channels \X {"unseen", "resumed"}, RewritesEarned,
         NEW channel \in Channels, NEW board \in Observations, NEW decision,
         Remember(channel, board, decision),
         (\E n \in DOMAIN decision.append : IsRevert(decision.append[n])) =>
           IF channel = "browser" THEN SeenSince(board, held) ELSE SeenBy("server", board, held)
  PROVE  /\ held' \subseteq [channel : Channels, board : Observations, since : BOOLEAN]
         /\ unearned' \subseteq Channels \X {"unseen", "resumed"}
         /\ held \subseteq held' /\ RewritesEarned'
         /\ decision.issue = "DESTRUCTIVE_PENDING" =>
              [channel |-> channel, board |-> board, since |-> TRUE] \in held'
<1> DEFINE rewrites == \E n \in DOMAIN decision.append : IsRevert(decision.append[n])
           looks == Looks(channel, board)
           faults == {f \in {"unseen", "resumed"} :
                        CASE f = "unseen"  -> looks = {}
                          [] f = "resumed" -> \A h \in looks : ~h.since}
<1>1. /\ held' = IF decision.issue = "DESTRUCTIVE_PENDING"
                 THEN held \union {[channel |-> channel, board |-> board, since |-> TRUE]}
                 ELSE held
      /\ unearned' = IF rewrites THEN unearned \union ({channel} \X faults) ELSE unearned
  BY DEF Remember
<1>2. /\ held' \subseteq [channel : Channels, board : Observations, since : BOOLEAN]
      /\ held \subseteq held'
      /\ decision.issue = "DESTRUCTIVE_PENDING" =>
           [channel |-> channel, board |-> board, since |-> TRUE] \in held'
  <2> DEFINE h == [channel |-> channel, board |-> board, since |-> TRUE]
  <2>1. h \in [channel : Channels, board : Observations, since : BOOLEAN]
    OBVIOUS
  <2>2. held' = IF decision.issue = "DESTRUCTIVE_PENDING" THEN held \union {h} ELSE held
    BY <1>1
  <2> HIDE DEF h
  <2>3. /\ held' \subseteq [channel : Channels, board : Observations, since : BOOLEAN]
        /\ held \subseteq held'
        /\ decision.issue = "DESTRUCTIVE_PENDING" => h \in held'
    BY <2>1, <2>2
  <2>4. QED
    BY <2>3 DEF h
<1>3. faults \subseteq {"unseen", "resumed"}
  OBVIOUS
<1>4. rewrites => /\ "unseen" \notin faults
                  /\ channel = "browser" => "resumed" \notin faults
  <2>1. SUFFICES ASSUME rewrites PROVE /\ "unseen" \notin faults
                                       /\ channel = "browser" => "resumed" \notin faults
    OBVIOUS
  <2>2. CASE channel = "browser"
    <3> DEFINE h == [channel |-> "browser", board |-> board, since |-> TRUE]
    <3>1. h \in held
      BY <2>1, <2>2 DEF SeenSince
    <3>2. h \in looks /\ h.since
      BY <2>2, <3>1 DEF Looks
    <3> HIDE DEF h, looks
    <3>3. QED
      BY <3>2
  <2>3. CASE channel # "browser"
    <3>1. channel = "server"
      BY <2>3 DEF Channels
    <3>2. looks # {}
      BY <2>1, <2>3, <3>1 DEF SeenBy, Looks
    <3> HIDE DEF looks
    <3>3. QED
      BY <2>3, <3>2
  <2>4. QED
    BY <2>2, <2>3
<1> HIDE DEF faults, rewrites
<1>5. unearned' \subseteq Channels \X {"unseen", "resumed"}
  BY <1>1, <1>3
<1>6. /\ \A c \in Channels : <<c, "unseen">> \notin unearned
      /\ <<"browser", "resumed">> \notin unearned
  BY DEF RewritesEarned, RewritesSeenTwice, BrowserRewritesReEarned
<1>7. /\ \A c \in Channels : <<c, "unseen">> \notin unearned'
      /\ <<"browser", "resumed">> \notin unearned'
  BY <1>1, <1>4, <1>6
<1>8. RewritesEarned'
  BY <1>7 DEF RewritesEarned, RewritesSeenTwice, BrowserRewritesReEarned
<1>9. QED
  BY <1>2, <1>5, <1>8

\* One upload changes.
LEMMA UploadChanges ==
  ASSUME LiveRoomInv, NEW u \in Uploads, NEW w \in UploadStates,
         upload' = [upload EXCEPT ![u] = w], screen' = screen, held \subseteq held',
         feed'.leaseGeneration \in Nat, feed.leaseGeneration <= feed'.leaseGeneration,
         UploadRecalls(w, feed'.leaseGeneration, held'), OnScreen(w, screen)
  PROVE  /\ upload' \in [Uploads -> UploadStates]
         /\ \A v \in Uploads : /\ UploadRecalls(upload'[v], feed'.leaseGeneration, held')
                               /\ OnScreen(upload'[v], screen')
<1>1. upload \in [Uploads -> UploadStates] /\ feed.leaseGeneration \in Nat
  BY DEF LiveRoomInv, TypeOK, Feed
<1>2. upload' \in [Uploads -> UploadStates]
  BY <1>1
<1>3. ASSUME NEW v \in Uploads, v # u
      PROVE  /\ UploadRecalls(upload'[v], feed'.leaseGeneration, held')
             /\ OnScreen(upload'[v], screen')
  <2> DEFINE x == upload[v]
  <2>1. upload'[v] = x /\ x \in UploadStates
    BY <1>1, <1>3
  <2>2. UploadRecalls(x, feed.leaseGeneration, held) /\ OnScreen(x, screen)
    BY DEF LiveRoomInv, Looked
  <2> HIDE DEF x
  <2>3. UploadRecalls(x, feed'.leaseGeneration, held')
    <3>1. CASE feed.leaseGeneration < feed'.leaseGeneration
      BY <1>1, <2>1, <2>2, <3>1, LaterGeneration
    <3>2. CASE feed.leaseGeneration = feed'.leaseGeneration
      BY <2>2, <3>2, LooksOnlyGrow
    <3>3. QED
      BY <1>1, <3>1, <3>2
  <2>4. QED
    BY <2>1, <2>2, <2>3
<1>4. upload'[u] = w
  BY <1>1
<1>5. QED
  BY <1>2, <1>3, <1>4

\* None does.
LEMMA UploadsStay ==
  ASSUME LiveRoomInv, upload' = upload, screen' = screen, held \subseteq held',
         feed'.leaseGeneration = feed.leaseGeneration
  PROVE  /\ upload' \in [Uploads -> UploadStates]
         /\ \A v \in Uploads : /\ UploadRecalls(upload'[v], feed'.leaseGeneration, held')
                               /\ OnScreen(upload'[v], screen')
<1>1. upload \in [Uploads -> UploadStates]
  BY DEF LiveRoomInv, TypeOK
<1>2. \A v \in Uploads :
        UploadRecalls(upload[v], feed.leaseGeneration, held) /\ OnScreen(upload[v], screen)
  BY DEF LiveRoomInv, Looked
<1>3. \A v \in Uploads : UploadRecalls(upload[v], feed.leaseGeneration, held')
  BY <1>2, LooksOnlyGrow
<1>4. QED
  BY <1>1, <1>2, <1>3

\* One poll changes.
LEMMA PollChanges ==
  ASSUME LiveRoomInv, NEW q \in Polls, NEW w \in PollStates,
         poll' = [poll EXCEPT ![q] = w], held \subseteq held', PollRecalls(w, held')
  PROVE  poll' \in [Polls -> PollStates] /\ \A v \in Polls : PollRecalls(poll'[v], held')
<1>1. poll \in [Polls -> PollStates] /\ \A v \in Polls : PollRecalls(poll[v], held)
  BY DEF LiveRoomInv, TypeOK, Looked
<1>2. \A v \in Polls : PollRecalls(poll[v], held')
  BY <1>1, LooksOnlyGrow
<1>3. QED
  BY <1>1, <1>2

\* None does.
LEMMA PollsStay ==
  ASSUME LiveRoomInv, poll' = poll, held \subseteq held'
  PROVE  poll' \in [Polls -> PollStates] /\ \A v \in Polls : PollRecalls(poll'[v], held')
<1>1. poll \in [Polls -> PollStates] /\ \A v \in Polls : PollRecalls(poll[v], held)
  BY DEF LiveRoomInv, TypeOK, Looked
<1>2. \A v \in Polls : PollRecalls(poll[v], held')
  BY <1>1, LooksOnlyGrow
<1>3. QED
  BY <1>1, <1>2

\* The browser was heard, and polls under way know it.
LEMMA PollsHear ==
  ASSUME LiveRoomInv, poll' = Received, held \subseteq held'
  PROVE  poll' \in [Polls -> PollStates] /\ \A v \in Polls : PollRecalls(poll'[v], held')
<1>1. poll \in [Polls -> PollStates] /\ \A v \in Polls : PollRecalls(poll[v], held)
  BY DEF LiveRoomInv, TypeOK, Looked
<1>2. ASSUME NEW v \in Polls
      PROVE  Received[v] \in PollStates /\ PollRecalls(Received[v], held')
  <2> DEFINE w == poll[v]
  <2>1. w \in PollStates /\ PollRecalls(w, held)
    BY <1>1
  <2>2. Received[v] = IF w.phase = "fetching" THEN [w EXCEPT !.browserSince = TRUE] ELSE w
    BY DEF Received
  <2> HIDE DEF w
  <2>3. PollRecalls(w, held')
    BY <2>1, LooksOnlyGrow
  <2>4. CASE w.phase = "fetching"
    <3>1. w \in [phase : {"fetching"}, sequence : Nat, generation : Nat, browserSince : BOOLEAN,
                 context : [pending : Boards, pendingSeen : {0, 1}, manualBackupActive : BOOLEAN]]
      BY <2>1, <2>4 DEF PollStates, Idle
    <3>2. Received[v] \in PollStates
      BY <2>2, <2>4, <3>1, ZenonT(40) DEF PollStates
    <3>3. Received[v].phase = w.phase /\ Received[v].context = w.context
      BY <2>2, <2>4, <3>1
    <3>4. QED
      BY <2>3, <3>2, <3>3 DEF PollRecalls
  <2>5. CASE w.phase # "fetching"
    BY <2>1, <2>2, <2>3, <2>5
  <2>6. QED
    BY <2>4, <2>5
<1>3. Received = [v \in Polls |-> Received[v]]
  BY DEF Received
<1>4. Received \in [Polls -> PollStates]
  BY <1>2, <1>3
<1>5. QED
  BY <1>2, <1>4

\* The row of the feed, by its columns.
LEMMA FeedTyped ==
  ASSUME NEW row
  PROVE  row \in Feed <=>
    /\ row = [state |-> row.state, activePage |-> row.activePage,
              leaseGeneration |-> row.leaseGeneration, lastPageRevision |-> row.lastPageRevision,
              lastChecksum |-> row.lastChecksum, manualBackupActive |-> row.manualBackupActive,
              pending |-> row.pending, pendingSeen |-> row.pendingSeen,
              pollGeneration |-> row.pollGeneration,
              serverLastChecksum |-> row.serverLastChecksum, serverPending |-> row.serverPending,
              serverPendingSeen |-> row.serverPendingSeen, verified |-> row.verified]
    /\ row.state \in FeedStates /\ row.activePage \in Pages \union {NoPage}
    /\ row.leaseGeneration \in Nat /\ row.lastPageRevision \in Nat
    /\ row.lastChecksum \in Boards /\ row.manualBackupActive \in BOOLEAN
    /\ row.pending \in Boards /\ row.pendingSeen \in {0, 1} /\ row.pollGeneration \in Nat
    /\ row.serverLastChecksum \in Boards /\ row.serverPending \in Boards
    /\ row.serverPendingSeen \in {0, 1} /\ row.verified \in BOOLEAN
BY DEF Feed

\* A step of an upload that writes nothing.
LEMMA OnlyAnUpload ==
  ASSUME LiveRoomInv, NEW u \in Uploads, NEW w \in UploadStates,
         upload' = [upload EXCEPT ![u] = w],
         UNCHANGED <<log, feed, recorded, screen, poll, freezes, held, unearned>>,
         UploadRecalls(w, feed.leaseGeneration, held), OnScreen(w, screen)
  PROVE  LiveRoomInv'
<1>1. TypeOK /\ LogIsSound /\ Looked /\ RewritesEarned
  BY DEF LiveRoomInv
<1>2. /\ log' = log /\ feed' = feed /\ recorded' = recorded /\ screen' = screen /\ poll' = poll
      /\ freezes' = freezes /\ held' = held /\ unearned' = unearned
  OBVIOUS
<1>3. feed.leaseGeneration \in Nat
  BY <1>1 DEF TypeOK, Feed
<1>4. /\ upload' \in [Uploads -> UploadStates]
      /\ \A v \in Uploads : /\ UploadRecalls(upload'[v], feed'.leaseGeneration, held')
                            /\ OnScreen(upload'[v], screen')
  <2>1. /\ held \subseteq held' /\ feed'.leaseGeneration \in Nat
        /\ feed.leaseGeneration <= feed'.leaseGeneration
        /\ UploadRecalls(w, feed'.leaseGeneration, held')
    BY <1>2, <1>3
  <2>2. QED
    BY <1>2, <2>1, UploadChanges
<1>5. TypeOK'
  BY <1>1, <1>2, <1>4 DEF TypeOK
<1>6. LogIsSound' /\ RewritesEarned'
  BY <1>1, <1>2 DEF LogIsSound, RewritesEarned, RewritesSeenTwice, BrowserRewritesReEarned
<1>7. Looked'
  BY <1>1, <1>2, <1>4 DEF Looked
<1>8. QED
  BY <1>5, <1>6, <1>7 DEF LiveRoomInv

\* A step of a poll that writes nothing.
LEMMA OnlyAPoll ==
  ASSUME LiveRoomInv, NEW q \in Polls, NEW w \in PollStates,
         poll' = [poll EXCEPT ![q] = w],
         UNCHANGED <<log, feed, recorded, screen, upload, freezes, held, unearned>>,
         PollRecalls(w, held)
  PROVE  LiveRoomInv'
<1>1. TypeOK /\ LogIsSound /\ Looked /\ RewritesEarned
  BY DEF LiveRoomInv
<1>2. /\ log' = log /\ feed' = feed /\ recorded' = recorded /\ screen' = screen
      /\ upload' = upload /\ freezes' = freezes /\ held' = held /\ unearned' = unearned
  OBVIOUS
<1>3. poll' \in [Polls -> PollStates] /\ \A v \in Polls : PollRecalls(poll'[v], held')
  <2>1. held \subseteq held' /\ PollRecalls(w, held')
    BY <1>2
  <2>2. QED
    BY <2>1, PollChanges
<1>4. TypeOK'
  BY <1>1, <1>2, <1>3 DEF TypeOK
<1>5. LogIsSound' /\ RewritesEarned'
  BY <1>1, <1>2 DEF LogIsSound, RewritesEarned, RewritesSeenTwice, BrowserRewritesReEarned
<1>6. Looked'
  BY <1>1, <1>2, <1>3 DEF Looked
<1>7. QED
  BY <1>4, <1>5, <1>6 DEF LiveRoomInv

\* An idle upload goes by nothing.
LEMMA IdleUpload ==
  /\ Idle \in UploadStates
  /\ \A generation, looks : UploadRecalls(Idle, generation, looks)
  /\ \A screens : OnScreen(Idle, screens)
BY DEF Idle, UploadStates, UploadRecalls, OnScreen

\* Nor does an idle poll.
LEMMA IdlePoll == Idle \in PollStates /\ \A looks : PollRecalls(Idle, looks)
BY DEF Idle, PollStates, PollRecalls

\* ReceiveObservation
LEMMA ReceiveObservationKeeps ==
  ASSUME LiveRoomInv, NEW u \in Uploads, NEW g \in Pages, NEW r \in DOMAIN screen[g],
         ReceiveObservation(u, g, r)
  PROVE  LiveRoomInv'
<1> DEFINE w == [phase |-> "observed", page |-> g, revision |-> r,
                 generation |-> feed.leaseGeneration, answered |-> Answered(g, r),
                 context |-> Context]
<1>1. /\ upload' = [upload EXCEPT ![u] = w]
      /\ UNCHANGED <<log, feed, recorded, screen, poll, freezes, held, unearned>>
  BY DEF ReceiveObservation
<1>2. feed \in Feed /\ screen \in [Pages -> Screens] /\ FeedRecalls(feed, held)
  BY DEF LiveRoomInv, TypeOK, Looked
<1>3. r \in Revisions
  BY <1>2, RenderedTyped
<1>4. /\ feed.state \in FeedStates /\ feed.pending \in Boards /\ feed.pendingSeen \in {0, 1}
      /\ feed.manualBackupActive \in BOOLEAN /\ feed.leaseGeneration \in Nat
  BY <1>2, FeedTyped
<1>5. w \in UploadStates
  <2>1. Answered(g, r) \in BOOLEAN
    BY DEF Answered
  <2>2. QED
    BY <1>3, <1>4, <2>1 DEF UploadStates, Context
<1>6. UploadRecalls(w, feed.leaseGeneration, held)
  BY <1>2, <1>4 DEF UploadRecalls, FeedRecalls, Context
<1>7. OnScreen(w, screen)
  BY DEF OnScreen
<1> HIDE DEF w
<1>8. QED
  BY <1>1, <1>5, <1>6, <1>7, OnlyAnUpload

\* ReceiveHeartbeat
LEMMA ReceiveHeartbeatKeeps ==
  ASSUME LiveRoomInv, NEW u \in Uploads, NEW g \in Pages, NEW r \in DOMAIN screen[g],
         ReceiveHeartbeat(u, g, r)
  PROVE  LiveRoomInv'
<1> DEFINE w == [phase |-> "heartbeat", page |-> g, revision |-> r, state |-> feed.state]
<1>1. /\ upload' = [upload EXCEPT ![u] = w]
      /\ UNCHANGED <<log, feed, recorded, screen, poll, freezes, held, unearned>>
  BY DEF ReceiveHeartbeat
<1>2. feed \in Feed /\ screen \in [Pages -> Screens]
  BY DEF LiveRoomInv, TypeOK
<1>3. r \in Revisions /\ feed.state \in FeedStates
  BY <1>2, RenderedTyped, FeedTyped
<1>4. w \in UploadStates
  BY <1>3 DEF UploadStates
<1>5. UploadRecalls(w, feed.leaseGeneration, held) /\ OnScreen(w, screen)
  BY DEF UploadRecalls, OnScreen
<1> HIDE DEF w
<1>6. QED
  BY <1>1, <1>4, <1>5, OnlyAnUpload

\* AbandonUpload
LEMMA AbandonUploadKeeps ==
  ASSUME LiveRoomInv, NEW u \in Uploads, AbandonUpload(u)
  PROVE  LiveRoomInv'
BY IdleUpload, OnlyAnUpload DEF AbandonUpload

\* StartPoll
LEMMA StartPollKeeps ==
  ASSUME LiveRoomInv, NEW q \in Polls, StartPoll(q)
  PROVE  LiveRoomInv'
<1> DEFINE w == [phase |-> "started", sequence |-> Len(log)]
<1>1. /\ poll' = [poll EXCEPT ![q] = w]
      /\ UNCHANGED <<log, feed, recorded, screen, upload, freezes, held, unearned>>
  BY DEF StartPoll
<1>2. Len(log) \in Nat
  BY DEF LiveRoomInv, TypeOK
<1>3. w \in PollStates /\ PollRecalls(w, held)
  BY <1>2 DEF PollStates, PollRecalls
<1> HIDE DEF w
<1>4. QED
  BY <1>1, <1>3, OnlyAPoll

\* AbandonPoll
LEMMA AbandonPollKeeps ==
  ASSUME LiveRoomInv, NEW q \in Polls, AbandonPoll(q)
  PROVE  LiveRoomInv'
BY IdlePoll, OnlyAPoll DEF AbandonPoll

\* The feed after a claim of its lease: as it was, or in a new generation.
LEMMA TakenTyped ==
  ASSUME feed \in Feed, NEW page \in Pages
  PROVE  /\ Taken(page) \in Feed
         /\ Taken(page).pending = feed.pending /\ Taken(page).pendingSeen = feed.pendingSeen
         /\ Taken(page).serverPending = feed.serverPending
         /\ Taken(page).serverPendingSeen = feed.serverPendingSeen
         /\ \/ Taken(page) = feed
            \/ Taken(page).leaseGeneration = feed.leaseGeneration + 1
<1>1. CASE HoldsFeed(page)
  BY <1>1 DEF Taken
<1>2. CASE ~HoldsFeed(page)
  <2> DEFINE row == [feed EXCEPT !.activePage = page, !.lastPageRevision = 0,
                                 !.leaseGeneration = @ + 1]
  <2>1. Taken(page) = row
    BY <1>2 DEF Taken
  <2> DEFINE a == [feed EXCEPT !.activePage = page]
             b == [a EXCEPT !.lastPageRevision = 0]
  <2>2. row = [b EXCEPT !.leaseGeneration = @ + 1]
    OBVIOUS
  <2> HIDE DEF row
  <2>3. /\ a \in Feed /\ a.pending = feed.pending /\ a.pendingSeen = feed.pendingSeen
        /\ a.serverPending = feed.serverPending /\ a.serverPendingSeen = feed.serverPendingSeen
        /\ a.leaseGeneration = feed.leaseGeneration
    BY DEF Feed
  <2> HIDE DEF a
  <2>4. /\ b \in Feed /\ b.pending = feed.pending /\ b.pendingSeen = feed.pendingSeen
        /\ b.serverPending = feed.serverPending /\ b.serverPendingSeen = feed.serverPendingSeen
        /\ b.leaseGeneration = feed.leaseGeneration
    BY <2>3 DEF Feed
  <2> HIDE DEF b
  <2>5. /\ row \in Feed /\ row.pending = feed.pending /\ row.pendingSeen = feed.pendingSeen
        /\ row.serverPending = feed.serverPending
        /\ row.serverPendingSeen = feed.serverPendingSeen
        /\ row.leaseGeneration = feed.leaseGeneration + 1
    BY <2>2, <2>4 DEF Feed
  <2>6. QED
    BY <2>1, <2>5
<1>3. QED
  BY <1>1, <1>2

\* A step that appends nothing and has no look to remember.
LEMMA SameLog ==
  ASSUME LiveRoomInv, log' = log, unearned' = unearned, TypeOK', Looked'
  PROVE  LiveRoomInv'
BY DEF LiveRoomInv, LogIsSound, RewritesEarned, RewritesSeenTwice, BrowserRewritesReEarned

\* ClaimLease
LEMMA ClaimLeaseKeeps ==
  ASSUME LiveRoomInv, NEW u \in Uploads, ClaimLease(u)
  PROVE  LiveRoomInv'
<1> DEFINE w == upload[u]
           x == [phase |-> "decided", page |-> w.page, revision |-> w.revision,
                 sequence |-> Len(log), generation |-> feed'.leaseGeneration,
                 context |-> w.context]
<1>1. TypeOK /\ Looked
  BY DEF LiveRoomInv
<1>2. /\ w \in UploadStates /\ UploadRecalls(w, feed.leaseGeneration, held) /\ OnScreen(w, screen)
      /\ feed \in Feed /\ FeedRecalls(feed, held) /\ Len(log) \in Nat
  BY <1>1 DEF TypeOK, Looked
<1>3. /\ w.phase = "observed"
      /\ UNCHANGED <<log, recorded, screen, poll, freezes, held, unearned>>
      /\ \E lapsed \in BOOLEAN :
           \/ /\ MayClaim(w.page, w.generation, lapsed)
              /\ feed' = Taken(w.page)
              /\ upload' = [upload EXCEPT ![u] = IF w.answered THEN Idle ELSE x]
           \/ /\ ~MayClaim(w.page, w.generation, lapsed)
              /\ upload' = [upload EXCEPT ![u] = Idle]
              /\ UNCHANGED feed
  BY DEF ClaimLease
<1> HIDE DEF w
<1>4. CASE upload' = [upload EXCEPT ![u] = Idle] /\ UNCHANGED feed
  BY <1>3, <1>4, IdleUpload, OnlyAnUpload
<1>5. CASE /\ \E lapsed \in BOOLEAN : MayClaim(w.page, w.generation, lapsed)
           /\ feed' = Taken(w.page)
           /\ upload' = [upload EXCEPT ![u] = IF w.answered THEN Idle ELSE x]
  <2> DEFINE y == IF w.answered THEN Idle ELSE x
  <2>1. w.generation = feed.leaseGeneration
    BY <1>5 DEF MayClaim
  <2>2. /\ w.page \in Pages /\ w.revision \in Revisions /\ w.generation \in Nat
        /\ w.context \in [state : FeedStates, pending : Boards, pendingSeen : {0, 1},
                          manualBackupActive : BOOLEAN]
    BY <1>2, <1>3, UploadPhases
  <2>3. /\ feed' \in Feed /\ feed'.pending = feed.pending /\ feed'.pendingSeen = feed.pendingSeen
        /\ feed'.serverPending = feed.serverPending
        /\ feed'.serverPendingSeen = feed.serverPendingSeen
        /\ feed' = feed \/ feed'.leaseGeneration = feed.leaseGeneration + 1
    BY <1>2, <1>5, <2>2, TakenTyped
  <2>4. /\ feed.leaseGeneration \in Nat /\ feed'.leaseGeneration \in Nat
        /\ feed.leaseGeneration <= feed'.leaseGeneration
    BY <1>2, <2>3, FeedTyped
  <2>5. x \in UploadStates
    BY <1>2, <2>2, <2>4 DEF UploadStates
  <2>6. UploadRecalls(x, feed'.leaseGeneration, held)
    BY <1>2, <1>3, <2>1, <2>4 DEF UploadRecalls
  <2>7. OnScreen(x, screen)
    BY <1>2, <1>3 DEF OnScreen
  <2> HIDE DEF x
  <2>8. y \in UploadStates /\ UploadRecalls(y, feed'.leaseGeneration, held) /\ OnScreen(y, screen)
    BY <2>5, <2>6, <2>7, IdleUpload
  <2> HIDE DEF y
  <2>9. upload' = [upload EXCEPT ![u] = y]
    BY <1>5 DEF y
  <2>10. /\ log' = log /\ recorded' = recorded /\ screen' = screen /\ poll' = poll
         /\ freezes' = freezes /\ held' = held /\ unearned' = unearned
    BY <1>3
  <2>11. /\ upload' \in [Uploads -> UploadStates]
         /\ \A v \in Uploads : /\ UploadRecalls(upload'[v], feed'.leaseGeneration, held')
                               /\ OnScreen(upload'[v], screen')
    BY <2>4, <2>8, <2>9, <2>10, UploadChanges
  <2>12. TypeOK'
    BY <1>1, <2>3, <2>10, <2>11 DEF TypeOK
  <2>13. FeedRecalls(feed', held')
    BY <1>2, <2>3, <2>10 DEF FeedRecalls
  <2>14. Looked'
    BY <1>1, <2>10, <2>11, <2>13 DEF Looked
  <2>15. QED
    BY <2>10, <2>12, <2>14, SameLog
<1>6. QED
  BY <1>3, <1>4, <1>5

\* RenewLease
LEMMA RenewLeaseKeeps ==
  ASSUME LiveRoomInv, NEW u \in Uploads, RenewLease(u)
  PROVE  LiveRoomInv'
<1> DEFINE w == upload[u]
           board == screen[w.page][w.revision]
<1>1. TypeOK /\ Looked
  BY DEF LiveRoomInv
<1>2. /\ w \in UploadStates /\ OnScreen(w, screen) /\ screen \in [Pages -> Screens]
      /\ feed \in Feed /\ FeedRecalls(feed, held)
  BY <1>1 DEF TypeOK, Looked
<1>3. /\ w.phase = "heartbeat" /\ upload' = [upload EXCEPT ![u] = Idle]
      /\ log' = log /\ recorded' = recorded /\ screen' = screen
      /\ freezes' = freezes /\ held' = held /\ unearned' = unearned
      /\ \/ /\ feed' = [feed EXCEPT !.state = IF w.state = "degraded" THEN @ ELSE board.state]
            /\ poll' = Received
         \/ UNCHANGED <<feed, poll>>
  BY DEF RenewLease
<1>4. board.state \in FeedStates
  <2>1. w.page \in Pages /\ w.revision \in DOMAIN screen[w.page]
    BY <1>2, <1>3, UploadPhases DEF OnScreen
  <2>2. board \in Observations
    BY <1>2, <2>1, RenderedTyped
  <2>3. QED
    BY <2>2, ObservationTyped
<1> HIDE DEF board, w
<1>5. /\ feed' \in Feed /\ feed'.leaseGeneration = feed.leaseGeneration
      /\ feed'.pending = feed.pending /\ feed'.pendingSeen = feed.pendingSeen
      /\ feed'.serverPending = feed.serverPending
      /\ feed'.serverPendingSeen = feed.serverPendingSeen
  <2>1. CASE UNCHANGED feed
    BY <1>2, <2>1
  <2>2. CASE feed' = [feed EXCEPT !.state = IF w.state = "degraded" THEN @ ELSE board.state]
    <3>1. PICK state \in FeedStates : feed' = [feed EXCEPT !.state = state]
      <4>1. feed.state \in FeedStates
        BY <1>2, FeedTyped
      <4>2. QED
        BY <1>4, <2>2, <4>1
    <3>2. QED
      BY <1>2, <3>1 DEF Feed
  <2>3. QED
    BY <1>3, <2>1, <2>2
<1>6. FeedRecalls(feed', held')
  BY <1>2, <1>3, <1>5 DEF FeedRecalls
<1>7. poll' \in [Polls -> PollStates] /\ \A v \in Polls : PollRecalls(poll'[v], held')
  BY <1>3, PollsHear, PollsStay
<1>8. /\ upload' \in [Uploads -> UploadStates]
      /\ \A v \in Uploads : /\ UploadRecalls(upload'[v], feed'.leaseGeneration, held')
                            /\ OnScreen(upload'[v], screen')
  <2>1. /\ feed'.leaseGeneration \in Nat /\ feed.leaseGeneration <= feed'.leaseGeneration
        /\ held \subseteq held'
    BY <1>2, <1>3, <1>5, FeedTyped
  <2>2. /\ Idle \in UploadStates /\ UploadRecalls(Idle, feed'.leaseGeneration, held')
        /\ OnScreen(Idle, screen)
    BY IdleUpload
  <2>3. QED
    BY <1>3, <2>1, <2>2, UploadChanges
<1>9. TypeOK'
  BY <1>1, <1>3, <1>5, <1>7, <1>8 DEF TypeOK
<1>10. Looked'
  BY <1>6, <1>7, <1>8 DEF Looked
<1>11. QED
  BY <1>3, <1>9, <1>10, SameLog

\* ClaimPoll
LEMMA ClaimPollKeeps ==
  ASSUME LiveRoomInv, NEW q \in Polls, ClaimPoll(q)
  PROVE  LiveRoomInv'
<1> DEFINE w == poll[q]
           x == [phase |-> "fetching", sequence |-> w.sequence,
                 generation |-> feed'.pollGeneration, browserSince |-> FALSE,
                 context |-> [pending            |-> feed.serverPending,
                              pendingSeen        |-> feed.serverPendingSeen,
                              manualBackupActive |-> feed.manualBackupActive]]
<1>1. TypeOK /\ Looked
  BY DEF LiveRoomInv
<1>2. w \in PollStates /\ feed \in Feed /\ FeedRecalls(feed, held)
  BY <1>1 DEF TypeOK, Looked
<1>3. /\ w.phase = "started"
      /\ log' = log /\ recorded' = recorded /\ screen' = screen /\ upload' = upload
      /\ freezes' = freezes /\ held' = held /\ unearned' = unearned
      /\ \/ /\ feed' = [feed EXCEPT !.pollGeneration = @ + 1]
            /\ poll' = [poll EXCEPT ![q] = x]
         \/ poll' = [poll EXCEPT ![q] = Idle] /\ UNCHANGED feed
  BY DEF ClaimPoll
<1> HIDE DEF w
<1>4. CASE poll' = [poll EXCEPT ![q] = Idle] /\ UNCHANGED feed
  BY <1>3, <1>4, IdlePoll, OnlyAPoll
<1>5. CASE /\ feed' = [feed EXCEPT !.pollGeneration = @ + 1]
           /\ poll' = [poll EXCEPT ![q] = x]
  <2>1. /\ feed' \in Feed /\ feed'.leaseGeneration = feed.leaseGeneration
        /\ feed'.pending = feed.pending /\ feed'.pendingSeen = feed.pendingSeen
        /\ feed'.serverPending = feed.serverPending
        /\ feed'.serverPendingSeen = feed.serverPendingSeen
    BY <1>2, <1>5 DEF Feed
  <2>2. /\ feed.serverPending \in Boards /\ feed.serverPendingSeen \in {0, 1}
        /\ feed.manualBackupActive \in BOOLEAN /\ feed'.pollGeneration \in Nat
    BY <1>2, <2>1, FeedTyped
  <2>3. w.sequence \in Nat
    BY <1>2, <1>3, PollPhases
  <2>4. x \in PollStates
    BY <2>2, <2>3 DEF PollStates
  <2>5. PollRecalls(x, held')
    BY <1>2, <1>3 DEF PollRecalls, FeedRecalls
  <2> HIDE DEF x
  <2>6. poll' \in [Polls -> PollStates] /\ \A v \in Polls : PollRecalls(poll'[v], held')
    BY <1>3, <1>5, <2>4, <2>5, PollChanges
  <2>7. FeedRecalls(feed', held')
    BY <1>2, <1>3, <2>1 DEF FeedRecalls
  <2>8. TypeOK'
    BY <1>1, <1>3, <2>1, <2>6 DEF TypeOK
  <2>9. Looked'
    BY <1>1, <1>3, <2>1, <2>6, <2>7 DEF Looked
  <2>10. QED
    BY <1>3, <2>8, <2>9, SameLog
<1>6. QED
  BY <1>3, <1>4, <1>5

\* FailPoll
LEMMA FailPollKeeps ==
  ASSUME LiveRoomInv, NEW q \in Polls, FailPoll(q)
  PROVE  LiveRoomInv'
<1>1. TypeOK /\ Looked
  BY DEF LiveRoomInv
<1>2. feed \in Feed /\ FeedRecalls(feed, held)
  BY <1>1 DEF TypeOK, Looked
<1>3. /\ poll' = [poll EXCEPT ![q] = Idle]
      /\ log' = log /\ recorded' = recorded /\ screen' = screen /\ upload' = upload
      /\ freezes' = freezes /\ held' = held /\ unearned' = unearned
      /\ feed' = [feed EXCEPT !.state = "stale"] \/ UNCHANGED feed
  BY DEF FailPoll
<1>4. /\ feed' \in Feed /\ feed'.leaseGeneration = feed.leaseGeneration
      /\ feed'.pending = feed.pending /\ feed'.pendingSeen = feed.pendingSeen
      /\ feed'.serverPending = feed.serverPending
      /\ feed'.serverPendingSeen = feed.serverPendingSeen
  <2>1. CASE UNCHANGED feed
    BY <1>2, <2>1
  <2>2. CASE feed' = [feed EXCEPT !.state = "stale"]
    BY <1>2, <2>2 DEF Feed, FeedStates
  <2>3. QED
    BY <1>3, <2>1, <2>2
<1>5. poll' \in [Polls -> PollStates] /\ \A v \in Polls : PollRecalls(poll'[v], held')
  BY <1>3, IdlePoll, PollChanges
<1>6. FeedRecalls(feed', held')
  BY <1>2, <1>3, <1>4 DEF FeedRecalls
<1>7. TypeOK'
  BY <1>1, <1>3, <1>4, <1>5 DEF TypeOK
<1>8. Looked'
  BY <1>1, <1>3, <1>4, <1>5, <1>6 DEF Looked
<1>9. QED
  BY <1>3, <1>7, <1>8, SameLog

\* SetManualBackup: counts start over, and with them their generation.
LEMMA SetManualBackupKeeps ==
  ASSUME LiveRoomInv, SetManualBackup
  PROVE  LiveRoomInv'
<1>1. TypeOK /\ Looked
  BY DEF LiveRoomInv
<1>2. /\ feed \in Feed /\ FeedRecalls(feed, held) /\ freezes \in 0 .. MaxFreezes
      /\ held \subseteq [channel : Channels, board : Observations, since : BOOLEAN]
  BY <1>1 DEF TypeOK, Looked
<1>3. /\ freezes < MaxFreezes /\ freezes' = freezes + 1
      /\ log' = log /\ recorded' = recorded /\ screen' = screen /\ upload' = upload
      /\ poll' = poll /\ unearned' = unearned
      /\ held' = {[h EXCEPT !.since = FALSE] : h \in held}
      /\ \E active \in BOOLEAN :
           feed' = [feed EXCEPT !.manualBackupActive = active, !.leaseGeneration = @ + 1,
                                !.pending = NoBoard, !.pendingSeen = 0]
  BY DEF SetManualBackup
<1>4. /\ feed' \in Feed /\ feed'.leaseGeneration = feed.leaseGeneration + 1
      /\ feed'.pendingSeen = 0 /\ feed'.serverPending = feed.serverPending
      /\ feed'.serverPendingSeen = feed.serverPendingSeen
  <2>1. PICK active \in BOOLEAN :
          feed' = [feed EXCEPT !.manualBackupActive = active, !.leaseGeneration = @ + 1,
                               !.pending = NoBoard, !.pendingSeen = 0]
    BY <1>3
  <2> DEFINE a == [feed EXCEPT !.manualBackupActive = active]
             b == [a EXCEPT !.leaseGeneration = @ + 1]
             c == [b EXCEPT !.pending = NoBoard]
  <2>2. feed' = [c EXCEPT !.pendingSeen = 0]
    BY <2>1
  <2>3. /\ a \in Feed /\ a.leaseGeneration = feed.leaseGeneration
        /\ a.serverPending = feed.serverPending /\ a.serverPendingSeen = feed.serverPendingSeen
    BY <1>2 DEF Feed
  <2> HIDE DEF a
  <2>4. /\ b \in Feed /\ b.leaseGeneration = feed.leaseGeneration + 1
        /\ b.serverPending = feed.serverPending /\ b.serverPendingSeen = feed.serverPendingSeen
    BY <2>3 DEF Feed
  <2> HIDE DEF b
  <2>5. /\ c \in Feed /\ c.leaseGeneration = feed.leaseGeneration + 1
        /\ c.serverPending = feed.serverPending /\ c.serverPendingSeen = feed.serverPendingSeen
    BY <2>4 DEF Feed, Boards
  <2> HIDE DEF c
  <2>6. QED
    BY <2>2, <2>5 DEF Feed
<1>5. held' \subseteq [channel : Channels, board : Observations, since : BOOLEAN]
  <2>1. SUFFICES ASSUME NEW h \in held
                 PROVE  [h EXCEPT !.since = FALSE]
                          \in [channel : Channels, board : Observations, since : BOOLEAN]
    BY <1>3
  <2>2. h \in [channel : Channels, board : Observations, since : BOOLEAN]
    BY <1>2
  <2>3. QED
    BY <2>2
<1>6. \A channel, board : SeenBy(channel, board, held) => SeenBy(channel, board, held')
  <2>1. SUFFICES ASSUME NEW channel, NEW board, SeenBy(channel, board, held)
                 PROVE  SeenBy(channel, board, held')
    OBVIOUS
  <2>2. PICK h \in held : h.channel = channel /\ h.board = board
    BY <2>1 DEF SeenBy
  <2> DEFINE other == [h EXCEPT !.since = FALSE]
  <2>3. other.channel = channel /\ other.board = board
    BY <1>2, <2>2
  <2>4. other \in held'
    BY <1>3
  <2> HIDE DEF other
  <2>5. QED
    BY <2>3, <2>4 DEF SeenBy
<1>7. FeedRecalls(feed', held')
  BY <1>2, <1>4, <1>6 DEF FeedRecalls
<1>8. \A v \in Polls : PollRecalls(poll[v], held')
  BY <1>1, <1>6 DEF Looked, PollRecalls
<1>9. ASSUME NEW v \in Uploads PROVE UploadRecalls(upload[v], feed'.leaseGeneration, held')
  <2>1. upload[v] \in UploadStates /\ UploadRecalls(upload[v], feed.leaseGeneration, held)
    BY <1>1 DEF TypeOK, Looked
  <2>2. /\ feed.leaseGeneration \in Nat /\ feed'.leaseGeneration \in Nat
        /\ feed.leaseGeneration < feed'.leaseGeneration
    BY <1>2, <1>4, FeedTyped
  <2>3. QED
    BY <2>1, <2>2, LaterGeneration
<1>10. TypeOK'
  <2>1. freezes' \in 0 .. MaxFreezes
    BY <1>2, <1>3, RoomAssumption
  <2>2. QED
    BY <1>1, <1>3, <1>4, <1>5, <2>1 DEF TypeOK
<1>11. Looked'
  BY <1>1, <1>3, <1>7, <1>8, <1>9 DEF Looked
<1>12. QED
  BY <1>3, <1>10, <1>11, SameLog

\* ManualWrite
LEMMA ManualWriteKeeps ==
  ASSUME LiveRoomInv, ManualWrite
  PROVE  LiveRoomInv'
<1>1. TypeOK /\ LogIsSound /\ Looked /\ RewritesEarned
  BY DEF LiveRoomInv
<1>2. PICK batch \in ManualBatches : Legal(log \o batch) /\ log' = log \o batch
  BY DEF ManualWrite
<1>3. /\ Len(log) < MaxLog
      /\ feed' = feed /\ recorded' = recorded /\ screen' = screen /\ upload' = upload
      /\ poll' = poll /\ freezes' = freezes /\ held' = held /\ unearned' = unearned
  BY DEF ManualWrite
<1>4. log \in Seq(Event) /\ SoundLog(log)
  BY <1>1 DEF TypeOK, LogIsSound
<1>5. OfHumans(batch, log)
  BY <1>3, <1>4, BatchesAreOfHumans
<1>6. log' \in Seq(Event) /\ SoundLog(log')
  BY <1>2, <1>4, <1>5, BatchKeepsLog
<1>7. TypeOK'
  BY <1>1, <1>3, <1>6 DEF TypeOK
<1>8. LogIsSound'
  BY <1>6 DEF LogIsSound
<1>9. Looked'
  BY <1>1, <1>3 DEF Looked
<1>10. RewritesEarned'
  BY <1>1, <1>3 DEF RewritesEarned, RewritesSeenTwice, BrowserRewritesReEarned
<1>11. QED
  BY <1>7, <1>8, <1>9, <1>10 DEF LiveRoomInv

\* What the commit of a page's observation does, unless it is fenced.
LEMMA UploadApplies ==
  ASSUME LiveRoomInv, NEW u \in Uploads, upload[u].phase = "decided",
         NEW w, w = upload[u], CanAdvance(w), NEW board, board = screen[w.page][w.revision],
         NEW resolved, NEW decision,
         decision = DecideUpload(w.context, Session(w), board, resolved)
  PROVE  /\ w \in UploadStates /\ board \in Observations /\ w.revision \in Revisions
         /\ w.page \in Pages
         /\ SoundDecision(decision, w.context, log, board)
         /\ w.context.manualBackupActive = feed.manualBackupActive
         /\ Confirmed(w.context, board) => SeenSince(board, held)
<1>1. /\ w \in UploadStates /\ UploadRecalls(w, feed.leaseGeneration, held) /\ OnScreen(w, screen)
      /\ screen \in [Pages -> Screens] /\ log \in Seq(Event)
  BY DEF LiveRoomInv, TypeOK, Looked
<1>2. /\ w.page \in Pages /\ w.revision \in DOMAIN screen[w.page]
      /\ w.context.state \in FeedStates /\ w.context.pendingSeen \in {0, 1}
      /\ w.context.manualBackupActive \in BOOLEAN
  BY <1>1, UploadPhases DEF OnScreen
<1>3. board \in Observations /\ w.revision \in Revisions
  BY <1>1, <1>2, RenderedTyped
<1>4. board.state \in FeedStates
  BY <1>3, ObservationTyped
<1>5. Session(w) = log
  <2>1. w.sequence = Len(log)
    BY DEF CanAdvance, LedgerMoved
  <2>2. QED
    BY <1>1, <2>1, WholePart DEF Session
<1>6. SoundDecision(decision, w.context, log, board)
  BY <1>2, <1>3, <1>4, <1>5, UploadDecidesSoundly
<1>7. Confirmed(w.context, board) => SeenSince(board, held)
  <2>1. SUFFICES ASSUME Confirmed(w.context, board) PROVE SeenSince(board, held)
    OBVIOUS
  <2>2. w.context.pending = board /\ w.context.pendingSeen = 1
    BY <1>2, <2>1 DEF Confirmed, DestructiveConfirmations
  <2>3. w.generation = feed.leaseGeneration
    BY DEF CanAdvance
  <2>4. QED
    BY <1>1, <2>2, <2>3 DEF UploadRecalls
<1>8. QED
  BY <1>1, <1>2, <1>3, <1>6, <1>7 DEF CanAdvance

\* CommitObservation
LEMMA CommitObservationKeeps ==
  ASSUME LiveRoomInv, NEW u \in Uploads, CommitObservation(u)
  PROVE  LiveRoomInv'
<1> DEFINE w == upload[u]
           board == screen[w.page][w.revision]
<1>1. TypeOK /\ LogIsSound /\ Looked /\ RewritesEarned
  BY DEF LiveRoomInv
<1>2. /\ w.phase = "decided" /\ upload' = [upload EXCEPT ![u] = Idle]
      /\ screen' = screen /\ freezes' = freezes
      /\ \/ /\ CanAdvance(w)
            /\ \E resolved \in BOOLEAN :
                 RecordObservation(w, board, DecideUpload(w.context, Session(w), board, resolved))
            /\ recorded' = recorded \union {<<w.page, w.revision>>}
            /\ poll' = Received
         \/ UNCHANGED <<log, feed, recorded, poll, held, unearned>>
  BY DEF CommitObservation
<1>3. CASE UNCHANGED <<log, feed, recorded, poll, held, unearned>>
  BY <1>2, <1>3, IdleUpload, OnlyAnUpload
<1>4. CASE /\ CanAdvance(w)
           /\ \E resolved \in BOOLEAN :
                RecordObservation(w, board, DecideUpload(w.context, Session(w), board, resolved))
           /\ recorded' = recorded \union {<<w.page, w.revision>>}
           /\ poll' = Received
  <2>1. PICK resolved \in BOOLEAN :
          RecordObservation(w, board, DecideUpload(w.context, Session(w), board, resolved))
    BY <1>4
  <2> DEFINE decision == DecideUpload(w.context, Session(w), board, resolved)
  <2>2. /\ board \in Observations /\ w.page \in Pages /\ w.revision \in Revisions
        /\ SoundDecision(decision, w.context, log, board)
        /\ Confirmed(w.context, board) => SeenSince(board, held)
    BY <1>2, <1>4, UploadApplies, SMTT(30)
  <2>3. /\ log' = log \o decision.append
        /\ feed' = [feed EXCEPT
             !.state = decision.state,
             !.lastPageRevision = w.revision,
             !.lastChecksum = IF decision.result = "held" THEN @ ELSE board,
             !.pending = decision.pending,
             !.pendingSeen = decision.pendingSeen]
        /\ Remember("browser", board, decision)
    BY <2>1 DEF RecordObservation
  <2> HIDE DEF decision, board
  <2>4. /\ feed \in Feed /\ FeedRecalls(feed, held) /\ log \in Seq(Event) /\ SoundLog(log)
        /\ recorded \subseteq Pages \X Revisions
        /\ held \subseteq [channel : Channels, board : Observations, since : BOOLEAN]
        /\ unearned \subseteq Channels \X {"unseen", "resumed"}
    BY <1>1 DEF TypeOK, Looked, LogIsSound
  <2>5. /\ log' \in Seq(Event) /\ SoundLog(log')
        /\ (\E n \in DOMAIN decision.append : IsRevert(decision.append[n])) =>
             SeenSince(board, held)
    BY <2>2, <2>3, <2>4, DecisionKeepsLog
  <2>6. /\ held' \subseteq [channel : Channels, board : Observations, since : BOOLEAN]
        /\ unearned' \subseteq Channels \X {"unseen", "resumed"}
        /\ held \subseteq held' /\ RewritesEarned'
        /\ decision.issue = "DESTRUCTIVE_PENDING" => SeenSince(board, held')
    <3>1. "browser" \in Channels
      BY DEF Channels
    <3>2. QED
      BY <1>1, <2>2, <2>3, <2>4, <2>5, <3>1, RememberKeeps DEF SeenSince
  <2>7. /\ decision.state \in FeedStates /\ decision.pending \in Boards
        /\ decision.pendingSeen \in {0, 1}
        /\ decision.pendingSeen = 1 => SeenSince(decision.pending, held')
    BY <2>2, <2>6 DEF SoundDecision
  <2>8. /\ feed' \in Feed /\ feed'.leaseGeneration = feed.leaseGeneration
        /\ feed'.pending = decision.pending /\ feed'.pendingSeen = decision.pendingSeen
        /\ feed'.serverPending = feed.serverPending
        /\ feed'.serverPendingSeen = feed.serverPendingSeen
    <3> DEFINE a == [feed EXCEPT !.state = decision.state]
               b == [a EXCEPT !.lastPageRevision = w.revision]
               c == [b EXCEPT !.lastChecksum = IF decision.result = "held" THEN @ ELSE board]
               d == [c EXCEPT !.pending = decision.pending]
    <3>1. feed' = [d EXCEPT !.pendingSeen = decision.pendingSeen]
      BY <2>3
    <3>2. /\ a \in Feed /\ a.leaseGeneration = feed.leaseGeneration
          /\ a.serverPending = feed.serverPending /\ a.serverPendingSeen = feed.serverPendingSeen
      BY <2>4, <2>7 DEF Feed
    <3> HIDE DEF a
    <3>3. /\ b \in Feed /\ b.leaseGeneration = feed.leaseGeneration
          /\ b.serverPending = feed.serverPending /\ b.serverPendingSeen = feed.serverPendingSeen
      BY <2>2, <3>2 DEF Feed, Revisions
    <3> HIDE DEF b
    <3>4. /\ c \in Feed /\ c.leaseGeneration = feed.leaseGeneration
          /\ c.serverPending = feed.serverPending /\ c.serverPendingSeen = feed.serverPendingSeen
      <4>1. board \in Boards
        BY <2>2, ObservationTyped
      <4>2. QED
        BY <3>3, <4>1 DEF Feed
    <3> HIDE DEF c
    <3>5. /\ d \in Feed /\ d.leaseGeneration = feed.leaseGeneration
          /\ d.serverPending = feed.serverPending /\ d.serverPendingSeen = feed.serverPendingSeen
          /\ d.pending = decision.pending
      BY <2>7, <3>4 DEF Feed
    <3> HIDE DEF d
    <3>6. QED
      BY <2>7, <3>1, <3>5 DEF Feed
  <2>9. FeedRecalls(feed', held')
    BY <2>4, <2>6, <2>7, <2>8 DEF FeedRecalls, SeenBy
  <2>10. poll' \in [Polls -> PollStates] /\ \A v \in Polls : PollRecalls(poll'[v], held')
    BY <1>4, <2>6, PollsHear
  <2>11. /\ upload' \in [Uploads -> UploadStates]
         /\ \A v \in Uploads : /\ UploadRecalls(upload'[v], feed'.leaseGeneration, held')
                               /\ OnScreen(upload'[v], screen')
    <3>1. feed'.leaseGeneration \in Nat /\ feed.leaseGeneration <= feed'.leaseGeneration
      BY <2>4, <2>8, FeedTyped
    <3>2. /\ Idle \in UploadStates /\ UploadRecalls(Idle, feed'.leaseGeneration, held')
          /\ OnScreen(Idle, screen)
      BY IdleUpload
    <3>3. QED
      BY <1>2, <2>6, <3>1, <3>2, UploadChanges
  <2>12. recorded' \subseteq Pages \X Revisions
    BY <1>4, <2>2, <2>4
  <2>13. TypeOK'
    BY <1>1, <1>2, <2>5, <2>6, <2>8, <2>10, <2>11, <2>12 DEF TypeOK
  <2>14. LogIsSound'
    BY <2>5 DEF LogIsSound
  <2>15. Looked'
    BY <2>9, <2>10, <2>11 DEF Looked
  <2>16. QED
    BY <2>6, <2>13, <2>14, <2>15 DEF LiveRoomInv
<1>5. QED
  BY <1>2, <1>3, <1>4

\* What the commit of a poll does, unless it is fenced.
LEMMA PollApplies ==
  ASSUME LiveRoomInv, NEW q \in Polls, poll[q].phase = "fetching",
         NEW w, w = poll[q], ~PollFenced(w), ~LedgerMoved(w), NEW board \in Results,
         NEW resolved, NEW decision,
         decision = DecidePoll(w.context, Session(w), board, resolved)
  PROVE  /\ board \in Observations
         /\ SoundDecision(decision, w.context, log, board)
         /\ w.context.manualBackupActive = feed.manualBackupActive
         /\ Confirmed(w.context, board) => SeenBy("server", board, held)
<1>1. w \in PollStates /\ PollRecalls(w, held) /\ log \in Seq(Event)
  BY DEF LiveRoomInv, TypeOK, Looked
<1>2. w.context.pendingSeen \in {0, 1} /\ w.context.manualBackupActive \in BOOLEAN
  BY <1>1, PollPhases
<1>3. board \in Observations
  BY DEF Observations
<1>4. board.state \in FeedStates
  BY <1>3, ObservationTyped
<1>5. Session(w) = log
  <2>1. w.sequence = Len(log)
    BY DEF LedgerMoved
  <2>2. QED
    BY <1>1, <2>1, WholePart DEF Session
<1>6. SoundDecision(decision, w.context, log, board)
  BY <1>2, <1>3, <1>4, <1>5, PollDecidesSoundly
<1>7. Confirmed(w.context, board) => SeenBy("server", board, held)
  <2>1. SUFFICES ASSUME Confirmed(w.context, board) PROVE SeenBy("server", board, held)
    OBVIOUS
  <2>2. w.context.pending = board /\ w.context.pendingSeen = 1
    BY <1>2, <2>1 DEF Confirmed, DestructiveConfirmations
  <2>3. QED
    BY <1>1, <2>2 DEF PollRecalls
<1>8. QED
  BY <1>3, <1>6, <1>7 DEF PollFenced

\* CommitPoll
LEMMA CommitPollKeeps ==
  ASSUME LiveRoomInv, NEW q \in Polls, CommitPoll(q)
  PROVE  LiveRoomInv'
<1> DEFINE w == poll[q]
<1>1. TypeOK /\ LogIsSound /\ Looked /\ RewritesEarned
  BY DEF LiveRoomInv
<1>2. /\ w.phase = "fetching" /\ poll' = [poll EXCEPT ![q] = Idle]
      /\ UNCHANGED <<recorded, screen, upload, freezes>>
      /\ \/ UNCHANGED <<log, feed, held, unearned>>
         \/ /\ ~PollFenced(w) /\ ~LedgerMoved(w)
            /\ \E board \in Results, resolved \in BOOLEAN, fresh \in BrowserFresh(w) :
                 RecordPoll(board, DecidePoll(w.context, Session(w), board, resolved), fresh)
  BY DEF CommitPoll
<1>3. CASE UNCHANGED <<log, feed, held, unearned>>
  BY <1>2, <1>3, IdlePoll, OnlyAPoll
<1>4. CASE /\ ~PollFenced(w) /\ ~LedgerMoved(w)
           /\ \E board \in Results, resolved \in BOOLEAN, fresh \in BrowserFresh(w) :
                RecordPoll(board, DecidePoll(w.context, Session(w), board, resolved), fresh)
  <2>1. PICK board \in Results, resolved \in BOOLEAN, fresh \in BrowserFresh(w) :
          RecordPoll(board, DecidePoll(w.context, Session(w), board, resolved), fresh)
    BY <1>4
  <2> DEFINE decision == DecidePoll(w.context, Session(w), board, resolved)
  <2>2. /\ board \in Observations /\ SoundDecision(decision, w.context, log, board)
        /\ Confirmed(w.context, board) => SeenBy("server", board, held)
    BY <1>2, <1>4, PollApplies
  <2>3. /\ log' = log \o decision.append
        /\ feed' = [feed EXCEPT
             !.state = IF decision.state # "complete" /\ fresh THEN @ ELSE decision.state,
             !.serverLastChecksum = board,
             !.serverPending = decision.pending,
             !.serverPendingSeen = decision.pendingSeen,
             !.verified = decision.state = "complete" /\ decision.issue = "none"]
        /\ Remember("server", board, decision)
    BY <2>1 DEF RecordPoll
  <2> HIDE DEF decision, w
  <2>4. /\ feed \in Feed /\ FeedRecalls(feed, held) /\ log \in Seq(Event) /\ SoundLog(log)
        /\ held \subseteq [channel : Channels, board : Observations, since : BOOLEAN]
        /\ unearned \subseteq Channels \X {"unseen", "resumed"}
    BY <1>1 DEF TypeOK, Looked, LogIsSound
  <2>5. /\ log' \in Seq(Event) /\ SoundLog(log')
        /\ (\E n \in DOMAIN decision.append : IsRevert(decision.append[n])) =>
             SeenBy("server", board, held)
    BY <2>2, <2>3, <2>4, DecisionKeepsLog
  <2>6. /\ held' \subseteq [channel : Channels, board : Observations, since : BOOLEAN]
        /\ unearned' \subseteq Channels \X {"unseen", "resumed"}
        /\ held \subseteq held' /\ RewritesEarned'
        /\ decision.issue = "DESTRUCTIVE_PENDING" => SeenBy("server", board, held')
    <3>1. "server" \in Channels /\ "server" # "browser"
      BY DEF Channels
    <3> DEFINE h == [channel |-> "server", board |-> board, since |-> TRUE]
    <3>2. /\ held' \subseteq [channel : Channels, board : Observations, since : BOOLEAN]
          /\ unearned' \subseteq Channels \X {"unseen", "resumed"}
          /\ held \subseteq held' /\ RewritesEarned'
          /\ decision.issue = "DESTRUCTIVE_PENDING" => h \in held'
      BY <1>1, <2>2, <2>3, <2>4, <2>5, <3>1, RememberKeeps
    <3>3. h.channel = "server" /\ h.board = board
      OBVIOUS
    <3> HIDE DEF h
    <3>4. QED
      BY <3>2, <3>3 DEF SeenBy
  <2>7. /\ decision.state \in FeedStates /\ decision.pending \in Boards
        /\ decision.pendingSeen \in {0, 1}
        /\ decision.pendingSeen = 1 => SeenBy("server", decision.pending, held')
    BY <2>2, <2>6 DEF SoundDecision
  <2>8. /\ feed' \in Feed /\ feed'.leaseGeneration = feed.leaseGeneration
        /\ feed'.pending = feed.pending /\ feed'.pendingSeen = feed.pendingSeen
        /\ feed'.serverPending = decision.pending
        /\ feed'.serverPendingSeen = decision.pendingSeen
    <3> DEFINE state == IF decision.state # "complete" /\ fresh THEN feed.state ELSE decision.state
               verified == decision.state = "complete" /\ decision.issue = "none"
    <3>1. state \in FeedStates /\ verified \in BOOLEAN /\ board \in Boards
      BY <2>2, <2>4, <2>7, FeedTyped, ObservationTyped
    <3> DEFINE a == [feed EXCEPT !.state = state]
               b == [a EXCEPT !.serverLastChecksum = board]
               c == [b EXCEPT !.serverPending = decision.pending]
               d == [c EXCEPT !.serverPendingSeen = decision.pendingSeen]
    <3>2. feed' = [d EXCEPT !.verified = verified]
      BY <2>3
    <3> HIDE DEF state, verified
    <3>3. /\ a \in Feed /\ a.leaseGeneration = feed.leaseGeneration
          /\ a.pending = feed.pending /\ a.pendingSeen = feed.pendingSeen
      BY <2>4, <3>1 DEF Feed
    <3> HIDE DEF a
    <3>4. /\ b \in Feed /\ b.leaseGeneration = feed.leaseGeneration
          /\ b.pending = feed.pending /\ b.pendingSeen = feed.pendingSeen
      BY <3>1, <3>3 DEF Feed
    <3> HIDE DEF b
    <3>5. /\ c \in Feed /\ c.leaseGeneration = feed.leaseGeneration
          /\ c.pending = feed.pending /\ c.pendingSeen = feed.pendingSeen
          /\ c.serverPending = decision.pending
      BY <2>7, <3>4 DEF Feed
    <3> HIDE DEF c
    <3>6. /\ d \in Feed /\ d.leaseGeneration = feed.leaseGeneration
          /\ d.pending = feed.pending /\ d.pendingSeen = feed.pendingSeen
          /\ d.serverPending = decision.pending /\ d.serverPendingSeen = decision.pendingSeen
      BY <2>7, <3>5 DEF Feed
    <3> HIDE DEF d
    <3>7. QED
      BY <3>1, <3>2, <3>6 DEF Feed
  <2>9. FeedRecalls(feed', held')
    BY <2>4, <2>6, <2>7, <2>8 DEF FeedRecalls, SeenSince
  <2>10. poll' \in [Polls -> PollStates] /\ \A v \in Polls : PollRecalls(poll'[v], held')
    BY <1>2, <2>6, IdlePoll, PollChanges
  <2>11. /\ upload' \in [Uploads -> UploadStates]
         /\ \A v \in Uploads : /\ UploadRecalls(upload'[v], feed'.leaseGeneration, held')
                               /\ OnScreen(upload'[v], screen')
    BY <1>2, <2>6, <2>8, UploadsStay
  <2>12. TypeOK'
    BY <1>1, <1>2, <2>5, <2>6, <2>8, <2>10, <2>11 DEF TypeOK
  <2>13. LogIsSound'
    BY <2>5 DEF LogIsSound
  <2>14. Looked'
    BY <2>9, <2>10, <2>11 DEF Looked
  <2>15. QED
    BY <2>6, <2>12, <2>13, <2>14 DEF LiveRoomInv
<1>5. QED
  BY <1>2, <1>3, <1>4

\* A new draft: an empty log, a waiting feed and nothing under way.
LEMMA NewDraftIsSound == Init => LiveRoomInv
<1> SUFFICES ASSUME Init PROVE LiveRoomInv
  OBVIOUS
<1>1. log \in Seq(Event) /\ SoundLog(log)
  BY EmptyLogIsSound DEF Init
<1>2. feed \in Feed
  BY DEF Init, Feed, FeedStates, Boards
<1>3. FeedRecalls(feed, held)
  BY DEF Init, FeedRecalls
<1>4. upload \in [Uploads -> UploadStates] /\ \A u \in Uploads : upload[u] = Idle
  BY IdleUpload DEF Init
<1>5. poll \in [Polls -> PollStates] /\ \A q \in Polls : poll[q] = Idle
  BY IdlePoll DEF Init
<1>6. TypeOK
  BY <1>1, <1>2, <1>4, <1>5, RoomAssumption DEF Init, TypeOK
<1>7. Looked
  BY <1>3, <1>4, <1>5, IdleUpload, IdlePoll DEF Looked
<1>8. RewritesEarned
  BY DEF Init, RewritesEarned, RewritesSeenTwice, BrowserRewritesReEarned
<1>9. QED
  BY <1>1, <1>6, <1>7, <1>8 DEF LiveRoomInv, LogIsSound

\* Every step of a page, a poll or a commissioner keeps the invariant.
LEMMA StepKeeps == LiveRoomInv /\ [Next]_vars => LiveRoomInv'
<1> SUFFICES ASSUME LiveRoomInv, [Next]_vars PROVE LiveRoomInv'
  OBVIOUS
<1>1. CASE \E u \in Uploads, g \in Pages : \E r \in DOMAIN screen[g] : ReceiveObservation(u, g, r)
  BY <1>1, ReceiveObservationKeeps
<1>2. CASE \E u \in Uploads, g \in Pages : \E r \in DOMAIN screen[g] : ReceiveHeartbeat(u, g, r)
  BY <1>2, ReceiveHeartbeatKeeps
<1>3. CASE \E u \in Uploads : ClaimLease(u)
  BY <1>3, ClaimLeaseKeeps
<1>4. CASE \E u \in Uploads : CommitObservation(u)
  BY <1>4, CommitObservationKeeps
<1>5. CASE \E u \in Uploads : RenewLease(u)
  BY <1>5, RenewLeaseKeeps
<1>6. CASE \E u \in Uploads : AbandonUpload(u)
  BY <1>6, AbandonUploadKeeps
<1>7. CASE \E q \in Polls : StartPoll(q)
  BY <1>7, StartPollKeeps
<1>8. CASE \E q \in Polls : ClaimPoll(q)
  BY <1>8, ClaimPollKeeps
<1>9. CASE \E q \in Polls : CommitPoll(q)
  BY <1>9, CommitPollKeeps
<1>10. CASE \E q \in Polls : FailPoll(q)
  BY <1>10, FailPollKeeps
<1>11. CASE \E q \in Polls : AbandonPoll(q)
  BY <1>11, AbandonPollKeeps
<1>12. CASE ManualWrite
  BY <1>12, ManualWriteKeeps
<1>13. CASE SetManualBackup
  BY <1>13, SetManualBackupKeeps
<1>14. CASE UNCHANGED vars
  <2>1. /\ log' = log /\ feed' = feed /\ recorded' = recorded /\ screen' = screen
        /\ upload' = upload /\ poll' = poll /\ freezes' = freezes
        /\ held' = held /\ unearned' = unearned
    BY <1>14 DEF vars
  <2>2. TypeOK' /\ Looked'
    BY <2>1 DEF LiveRoomInv, TypeOK, Looked
  <2>3. QED
    BY <2>1, <2>2, SameLog
<1>15. QED
  BY <1>1, <1>2, <1>3, <1>4, <1>5, <1>6, <1>7, <1>8, <1>9, <1>10, <1>11, <1>12, <1>13, <1>14
  DEF Next

-----------------------------------------------------------------------------
(***************************************************************************)
(* The theorems.                                                           *)
(***************************************************************************)

\* The invariant holds of every behaviour of the room, however many pages, uploads
\* and polls there are.
THEOREM LiveRoomInvariant == Spec => []LiveRoomInv
BY NewDraftIsSound, StepKeeps, PTL DEF Spec

\* Every variable keeps its type.
THEOREM LiveRoomTypeCorrect == Spec => []TypeOK
<1>1. LiveRoomInv => TypeOK
  BY DEF LiveRoomInv
<1>2. QED
  BY <1>1, LiveRoomInvariant, PTL

\* The provider's actions that stand are one observed board, and ESPN never takes
\* anything back while an entry of a human stands.
THEOREM HistoryAlwaysSound == Spec => []HistoryIsSound
<1>1. LiveRoomInv => HistoryIsSound
  <2>1. ShowsABoard(log) => NeverABlend
    BY DEF ShowsABoard, NeverABlend
  <2>2. HumansKept(log) => ManualEntriesStand
    BY DEF HumansKept, ManualEntriesStand
  <2>3. QED
    BY <2>1, <2>2 DEF LiveRoomInv, LogIsSound, SoundLog, HistoryIsSound
<1>2. QED
  BY <1>1, LiveRoomInvariant, PTL

\* Whatever board comes next, none of its events claims a key that is taken.
THEOREM KeysAlwaysFresh == Spec => []KeysAreFresh
<1>1. LiveRoomInv => KeysAreFresh
  <2> SUFFICES ASSUME LiveRoomInv, NEW o \in Observations
               PROVE  LET append == ProviderEvents(log, o.picks)
                      IN /\ \A i \in DOMAIN append, j \in DOMAIN log : append[i].id # log[j].id
                         /\ \A i, j \in DOMAIN append : append[i].id = append[j].id => i = j
    BY DEF KeysAreFresh
  <2>1. log \in Seq(Event) /\ Keyed(log) /\ WellFormed(log)
    BY DEF LiveRoomInv, TypeOK, LogIsSound, SoundLog, Legal
  <2>2. o.picks \in Seq(DraftActions)
    BY ObservationTyped
  <2>3. QED
    BY <2>1, <2>2, NewKeysAreFresh
<1>2. QED
  BY <1>1, LiveRoomInvariant, PTL

\* No channel rewrites accepted history at the first sight of a board.
THEOREM RewritesAlwaysSeenTwice == Spec => []RewritesSeenTwice
<1>1. LiveRoomInv => RewritesSeenTwice
  BY DEF LiveRoomInv, RewritesEarned
<1>2. QED
  BY <1>1, LiveRoomInvariant, PTL

\* A page's rewrite was seen before, after the last switch of manual backup.
THEOREM BrowserAlwaysReEarns == Spec => []BrowserRewritesReEarned
<1>1. LiveRoomInv => BrowserRewritesReEarned
  BY DEF LiveRoomInv, RewritesEarned
<1>2. QED
  BY <1>1, LiveRoomInvariant, PTL

-----------------------------------------------------------------------------
\* A step that moves the log appends a batch; while manual backup is on, one of
\* humans' entries only.
LEMMA StepAppends ==
  ASSUME LiveRoomInv, [Next]_vars, log' # log
  PROVE  \E batch \in Seq(Event) :
           /\ log' = log \o batch
           /\ feed.manualBackupActive => \A n \in DOMAIN batch : batch[n].source = "manual"
<1>1. \/ \E u \in Uploads : CommitObservation(u)
      \/ \E q \in Polls : CommitPoll(q)
      \/ ManualWrite
  BY DEF Next, vars, ReceiveObservation, ReceiveHeartbeat, ClaimLease, RenewLease,
         AbandonUpload, StartPoll, ClaimPoll, FailPoll, AbandonPoll, SetManualBackup
<1>2. log \in Seq(Event) /\ SoundLog(log)
  BY DEF LiveRoomInv, TypeOK, LogIsSound
<1>3. ASSUME NEW context, NEW board \in Observations, NEW decision,
             SoundDecision(decision, context, log, board),
             context.manualBackupActive = feed.manualBackupActive,
             log' = log \o decision.append
      PROVE  \E batch \in Seq(Event) :
               /\ log' = log \o batch
               /\ feed.manualBackupActive => \A n \in DOMAIN batch : batch[n].source = "manual"
  <2>1. decision.append \in Seq(Event)
    BY <1>2, <1>3, DecisionKeepsLog
  <2>2. decision.append # <<>> => ~context.manualBackupActive
    BY <1>2, <1>3, DecisionKeepsLog
  <2>3. decision.append # <<>>
    <3>1. SUFFICES ASSUME decision.append = <<>> PROVE FALSE
      OBVIOUS
    <3>2. log' = log
      BY <1>2, <1>3, <3>1
    <3>3. QED
      BY <3>2
  <2>4. QED
    BY <1>3, <2>1, <2>2, <2>3
<1>4. CASE \E u \in Uploads : CommitObservation(u)
  <2>1. PICK u \in Uploads : CommitObservation(u)
    BY <1>4
  <2> DEFINE w == upload[u]
             board == screen[w.page][w.revision]
  <2>2. PICK resolved \in BOOLEAN :
          /\ w.phase = "decided" /\ CanAdvance(w)
          /\ RecordObservation(w, board, DecideUpload(w.context, Session(w), board, resolved))
    BY <2>1 DEF CommitObservation
  <2> DEFINE decision == DecideUpload(w.context, Session(w), board, resolved)
  <2>3. log' = log \o decision.append
    BY <2>2 DEF RecordObservation
  <2>4. /\ board \in Observations /\ SoundDecision(decision, w.context, log, board)
        /\ w.context.manualBackupActive = feed.manualBackupActive
    BY <2>2, UploadApplies
  <2> HIDE DEF decision, board, w
  <2>5. QED
    BY <1>3, <2>3, <2>4
<1>5. CASE \E q \in Polls : CommitPoll(q)
  <2>1. PICK q \in Polls : CommitPoll(q)
    BY <1>5
  <2> DEFINE w == poll[q]
  <2>2. PICK board \in Results, resolved \in BOOLEAN, fresh \in BrowserFresh(w) :
          /\ w.phase = "fetching" /\ ~PollFenced(w) /\ ~LedgerMoved(w)
          /\ RecordPoll(board, DecidePoll(w.context, Session(w), board, resolved), fresh)
    BY <2>1 DEF CommitPoll
  <2> DEFINE decision == DecidePoll(w.context, Session(w), board, resolved)
  <2>3. log' = log \o decision.append
    BY <2>2 DEF RecordPoll
  <2>4. /\ board \in Observations /\ SoundDecision(decision, w.context, log, board)
        /\ w.context.manualBackupActive = feed.manualBackupActive
    BY <2>2, PollApplies
  <2> HIDE DEF decision, w
  <2>5. QED
    BY <1>3, <2>3, <2>4
<1>6. CASE ManualWrite
  <2>1. PICK batch \in ManualBatches : log' = log \o batch
    BY <1>6 DEF ManualWrite
  <2>2. OfHumans(batch, log)
    BY <1>2, <1>6, BatchesAreOfHumans DEF ManualWrite
  <2>3. QED
    BY <2>1, <2>2 DEF OfHumans
<1>7. QED
  BY <1>1, <1>4, <1>5, <1>6, SMTT(30)

\* The room implements the append-only ledger: each step of its three writers
\* appends one batch after which the log reduces, or leaves the log alone.
THEOREM LiveRoomImplementsLedger == Spec => ImplementsLedger
<1>1. Init => Ledger!Init
  BY DEF Init, Ledger!Init
<1>2. LiveRoomInv /\ [Next]_vars => [Ledger!AppendBatch]_log
  <2> SUFFICES ASSUME LiveRoomInv, [Next]_vars, log' # log
               PROVE  Ledger!AppendBatch
    OBVIOUS
  <2>1. PICK batch \in Seq(Event) : log' = log \o batch
    BY StepAppends
  <2>2. log \in Seq(Event)
    BY DEF LiveRoomInv, TypeOK
  <2>3. IsPrefix(log, log')
    BY <2>1, <2>2, PrefixOfConcat
  <2>4. Legal(log')
    BY StepKeeps DEF LiveRoomInv, LogIsSound, SoundLog
  <2>5. QED
    BY <2>3, <2>4 DEF Ledger!AppendBatch, Ledger!IsPrefix, IsPrefix
<1>3. QED
  BY <1>1, <1>2, LiveRoomInvariant, PTL DEF Spec, ImplementsLedger, Ledger!Spec

\* While manual backup is on only humans write, even with an upload or a poll under
\* way when it was switched on: each commits in the mode that it read, or not at all.
THEOREM FrozenAlwaysManual == Spec => FrozenMeansManual
<1> DEFINE OnlyHumans == feed.manualBackupActive =>
             \A i \in Len(log) + 1 .. Len(log') : log'[i].source = "manual"
<1>1. LiveRoomInv /\ [Next]_vars => [OnlyHumans]_vars
  <2> SUFFICES ASSUME LiveRoomInv, [Next]_vars, feed.manualBackupActive,
                      NEW i \in Len(log) + 1 .. Len(log')
               PROVE  log'[i].source = "manual"
    OBVIOUS
  <2>1. log \in Seq(Event) /\ Len(log) \in Nat
    BY DEF LiveRoomInv, TypeOK
  <2>2. CASE log' = log
    BY <2>1, <2>2
  <2>3. CASE log' # log
    <3>1. PICK batch \in Seq(Event) :
            /\ log' = log \o batch
            /\ \A n \in DOMAIN batch : batch[n].source = "manual"
      BY <2>3, StepAppends
    <3>2. /\ Len(log') = Len(log) + Len(batch) /\ Len(batch) \in Nat
          /\ DOMAIN batch = 1 .. Len(batch)
          /\ \A n \in 1 .. Len(batch) : log'[Len(log) + n] = batch[n]
      BY <2>1, <3>1, LongerLog
    <3>3. i - Len(log) \in 1 .. Len(batch) /\ Len(log) + (i - Len(log)) = i
      BY <2>1, <3>2
    <3>4. QED
      BY <3>1, <3>2, <3>3
  <2>4. QED
    BY <2>2, <2>3
<1>2. QED
  BY <1>1, LiveRoomInvariant, PTL DEF Spec, FrozenMeansManual

\* Readers' cursor only moves forward, across takeovers and out-of-order posts.
THEOREM CursorAlwaysAdvances == Spec => CursorOnlyAdvances
<1> DEFINE Forward == \/ feed'.leaseGeneration > feed.leaseGeneration
                      \/ /\ feed'.leaseGeneration = feed.leaseGeneration
                         /\ feed'.lastPageRevision >= feed.lastPageRevision
<1>1. LiveRoomInv /\ [Next]_vars => [Forward]_vars
  <2> SUFFICES ASSUME LiveRoomInv, [Next]_vars PROVE Forward
    OBVIOUS
  <2>1. /\ feed \in Feed /\ feed.leaseGeneration \in Nat /\ feed.lastPageRevision \in Nat
        /\ upload \in [Uploads -> UploadStates]
    BY FeedTyped DEF LiveRoomInv, TypeOK
  <2>2. CASE feed' = feed
    BY <2>1, <2>2
  <2>3. CASE /\ feed'.leaseGeneration = feed.leaseGeneration
             /\ feed'.lastPageRevision = feed.lastPageRevision
    BY <2>1, <2>3
  <2>4. CASE \E u \in Uploads : ClaimLease(u)
    <3>1. PICK u \in Uploads : ClaimLease(u)
      BY <2>4
    <3>2. upload[u].phase = "observed" /\ upload[u].page \in Pages
      BY <2>1, <3>1, UploadPhases DEF ClaimLease
    <3>3. feed' = Taken(upload[u].page) \/ feed' = feed
      BY <3>1 DEF ClaimLease
    <3>4. feed' = feed \/ feed'.leaseGeneration = feed.leaseGeneration + 1
      BY <2>1, <3>2, <3>3, TakenTyped
    <3>5. QED
      BY <2>1, <3>4
  <2>5. CASE \E u \in Uploads : CommitObservation(u)
    <3>1. PICK u \in Uploads : CommitObservation(u)
      BY <2>5
    <3> DEFINE w == upload[u]
               board == screen[w.page][w.revision]
    <3>2. CASE /\ CanAdvance(w)
               /\ \E resolved \in BOOLEAN :
                    RecordObservation(w, board,
                      DecideUpload(w.context, Session(w), board, resolved))
      <4>1. /\ feed'.leaseGeneration = feed.leaseGeneration
            /\ feed'.lastPageRevision = w.revision
        BY <2>1, <3>2 DEF RecordObservation, Feed
      <4>2. w.phase = "decided" /\ w.revision \in Nat
        BY <2>1, <3>1, UploadPhases DEF CommitObservation, Revisions
      <4>3. w.revision > feed.lastPageRevision
        BY <3>2 DEF CanAdvance
      <4>4. QED
        BY <2>1, <4>1, <4>2, <4>3, SMTT(30)
    <3>3. QED
      BY <2>2, <3>1, <3>2 DEF CommitObservation
  <2>6. CASE SetManualBackup
    <3>1. feed'.leaseGeneration = feed.leaseGeneration + 1
      BY <2>1, <2>6 DEF SetManualBackup, Feed
    <3>2. QED
      BY <2>1, <3>1
  <2>7. CASE \/ \E u \in Uploads : RenewLease(u)
             \/ \E q \in Polls : ClaimPoll(q) \/ CommitPoll(q) \/ FailPoll(q)
    <3>1. CASE \E u \in Uploads : RenewLease(u)
      BY <2>1, <2>3, <3>1 DEF RenewLease, Feed
    <3>2. CASE \E q \in Polls : ClaimPoll(q)
      BY <2>1, <2>3, <3>2 DEF ClaimPoll, Feed
    <3>3. CASE \E q \in Polls : CommitPoll(q)
      <4>1. PICK q \in Polls : CommitPoll(q)
        BY <3>3
      <4>2. CASE \E board, decision, fresh : RecordPoll(board, decision, fresh)
        <5>1. PICK board, decision, fresh : RecordPoll(board, decision, fresh)
          BY <4>2
        <5>2. /\ feed'.leaseGeneration = feed.leaseGeneration
              /\ feed'.lastPageRevision = feed.lastPageRevision
          BY <2>1, <5>1 DEF RecordPoll, Feed
        <5>3. QED
          BY <2>3, <5>2
      <4>3. QED
        BY <2>2, <4>1, <4>2 DEF CommitPoll
    <3>4. CASE \E q \in Polls : FailPoll(q)
      BY <2>1, <2>2, <2>3, <3>4 DEF FailPoll, Feed
    <3>5. QED
      BY <2>7, <3>1, <3>2, <3>3, <3>4
  <2>8. CASE feed' # feed
    BY <2>4, <2>5, <2>6, <2>7, <2>8
    DEF Next, vars, ReceiveObservation, ReceiveHeartbeat, AbandonUpload, StartPoll,
        AbandonPoll, ManualWrite
  <2>9. QED
    BY <2>2, <2>8
<1>2. QED
  BY <1>1, LiveRoomInvariant, PTL DEF Spec, CursorOnlyAdvances

=============================================================================
