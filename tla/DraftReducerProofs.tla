-------------------------- MODULE DraftReducerProofs --------------------------
(***************************************************************************)
(* What the draft engine computes, for every log: which events survive,    *)
(* what appending to a log and undoing its latest action do to the room,   *)
(* and that every log that reduces reduces to a sound room.                *)
(*                                                                         *)
(* Induction is on sets of naturals (NatInduction of the library takes an  *)
(* operator, which the provers cannot instantiate): see InductionOnNat.    *)
(***************************************************************************)
EXTENDS DraftReducer, SequenceTheorems, FiniteSetTheorems, WellFoundedInduction, TLAPS

-----------------------------------------------------------------------------
(***************************************************************************)
(* Induction.                                                              *)
(***************************************************************************)

\* A nonempty set of naturals has a least element.
LEMMA LeastNatural ==
  ASSUME NEW T \in SUBSET Nat, T # {}
  PROVE  \E n \in T : \A m \in T : n <= m
<1>1. IsWellFoundedOn(OpToRel(<, Nat), Nat)
  BY NatLessThanWellFounded
<1>2. PICK n \in T : \A m \in T : ~(<<m, n>> \in OpToRel(<, Nat))
  BY <1>1, WFMin
<1>3. \A m \in T : ~(m < n)
  BY <1>2 DEF OpToRel
<1>4. QED
  BY <1>3

\* A nonempty set of naturals up to n has a greatest element.
LEMMA MaxIsGreatest ==
  ASSUME NEW n \in Nat, NEW T \in SUBSET (0 .. n), T # {}
  PROVE  Max(T) \in T /\ \A y \in T : y <= Max(T)
<1> DEFINE Gaps == {m \in Nat : n - m \in T}
<1>1. PICK i \in T : TRUE
  OBVIOUS
<1>2. n - i \in Nat /\ n - (n - i) = i
  BY <1>1
<1>3. n - i \in Gaps /\ Gaps \in SUBSET Nat
  BY <1>1, <1>2
<1>4. PICK g \in Gaps : \A m \in Gaps : g <= m
  BY <1>3, LeastNatural
<1>5. ASSUME NEW y \in T PROVE y <= n - g
  <2>1. n - y \in Nat /\ n - (n - y) = y
    BY <1>5
  <2>2. n - y \in Gaps
    BY <1>5, <2>1
  <2>3. g \in Nat
    OBVIOUS
  <2>4. y \in Nat
    BY <1>5
  <2> HIDE DEF Gaps
  <2>5. g <= n - y
    BY <1>4, <2>2
  <2>6. QED
    BY <2>3, <2>4, <2>5
<1>6. \E x \in T : \A y \in T : y <= x
  BY <1>4, <1>5
<1>7. QED
  BY <1>6 DEF Max

\* What holds at 0 and with every number at the next one holds up to any bound.
LEMMA InductionOnNat ==
  ASSUME NEW n \in Nat, NEW T, 0 \in T, \A m \in 0 .. n - 1 : m \in T => m + 1 \in T
  PROVE  0 .. n \subseteq T
<1> DEFINE Missing == (0 .. n) \ T
<1>1. SUFFICES ASSUME Missing # {} PROVE FALSE
  OBVIOUS
<1>2. Missing \in SUBSET Nat
  OBVIOUS
<1>3. PICK m \in Missing : \A k \in Missing : m <= k
  BY <1>1, <1>2, LeastNatural
<1>4. m # 0 /\ m - 1 \in 0 .. n - 1 /\ m - 1 \in T
  BY <1>3
<1>5. QED
  BY <1>3, <1>4

\* The same from the upper end of an interval down to 1.
LEMMA InductionDownwards ==
  ASSUME NEW n \in Nat, NEW T,
         \A i \in 1 .. n : (\A j \in i + 1 .. n : j \in T) => i \in T
  PROVE  1 .. n \subseteq T
<1> DEFINE Missing == {k \in 0 .. n - 1 : n - k \notin T}
<1>1. SUFFICES ASSUME NEW i \in 1 .. n, i \notin T PROVE FALSE
  OBVIOUS
<1>2. n - i \in 0 .. n - 1 /\ n - (n - i) = i
  OBVIOUS
<1>3. n - i \in Missing /\ Missing \in SUBSET Nat
  BY <1>1, <1>2
<1>4. PICK m \in Missing : \A k \in Missing : m <= k
  BY <1>3, LeastNatural
<1>5. n - m \in 1 .. n
  BY <1>4
<1>6. \A j \in (n - m) + 1 .. n : j \in T
  <2>1. SUFFICES ASSUME NEW j \in (n - m) + 1 .. n, j \notin T PROVE FALSE
    OBVIOUS
  <2>2. n - j \in 0 .. n - 1 /\ n - (n - j) = j /\ n - j < m
    BY <1>4, <1>5
  <2>3. n - j \in Missing
    BY <2>1, <2>2
  <2>4. QED
    BY <1>4, <2>2, <2>3
<1>7. QED
  BY <1>4, <1>5, <1>6

-----------------------------------------------------------------------------
(***************************************************************************)
(* Sequences and their prefixes.                                           *)
(***************************************************************************)

\* A prefix agrees with the longer sequence wherever it is defined.
LEMMA PrefixPointwise ==
  ASSUME NEW S, NEW s \in Seq(S), NEW t \in Seq(S)
  PROVE  IsPrefix(s, t) <=> /\ Len(s) <= Len(t)
                            /\ \A i \in 1 .. Len(s) : s[i] = t[i]
<1>1. ASSUME Len(s) <= Len(t)
      PROVE  /\ SubSeq(t, 1, Len(s)) \in Seq(S)
             /\ Len(SubSeq(t, 1, Len(s))) = Len(s)
             /\ \A i \in 1 .. Len(s) : SubSeq(t, 1, Len(s))[i] = t[i]
  <2>1. Len(s) \in Nat /\ \A i \in 1 .. Len(s) : t[i] \in S
    BY <1>1
  <2>2. QED
    BY <2>1, SubSeqProperties
<1>2. SubSeq(s, 1, Len(s)) = s
  OBVIOUS
<1>3. ASSUME Len(s) <= Len(t), \A i \in 1 .. Len(s) : s[i] = t[i]
      PROVE  s = SubSeq(t, 1, Len(s))
  <2> DEFINE u == SubSeq(t, 1, Len(s))
  <2>1. u \in Seq(S) /\ Len(u) = Len(s) /\ \A i \in 1 .. Len(s) : u[i] = s[i]
    BY <1>1, <1>3
  <2> HIDE DEF u
  <2>2. s = u
    BY <2>1, SeqEqual
  <2>3. QED
    BY <2>2 DEF u
<1>4. QED
  BY <1>1, <1>2, <1>3 DEF IsPrefix

\* A log begins with itself.
LEMMA PrefixReflexive ==
  ASSUME NEW S, NEW s \in Seq(S)
  PROVE  IsPrefix(s, s)
BY PrefixPointwise

\* What begins a log that begins another begins the other.
LEMMA PrefixTransitive ==
  ASSUME NEW S, NEW s \in Seq(S), NEW t \in Seq(S), NEW u \in Seq(S),
         IsPrefix(s, t), IsPrefix(t, u)
  PROVE  IsPrefix(s, u)
BY PrefixPointwise

\* A prefix of the same length is the whole sequence.
LEMMA PrefixSameLength ==
  ASSUME NEW S, NEW s \in Seq(S), NEW t \in Seq(S), IsPrefix(s, t), Len(s) = Len(t)
  PROVE  s = t
BY PrefixPointwise, SeqEqual

\* Appending keeps what was there and, unless empty, changes the sequence.
LEMMA PrefixOfConcat ==
  ASSUME NEW S, NEW s \in Seq(S), NEW t \in Seq(S)
  PROVE  /\ s \o t \in Seq(S)
         /\ IsPrefix(s, s \o t)
         /\ t # <<>> => s \o t # s
<1>1. /\ s \o t \in Seq(S)
      /\ Len(s \o t) = Len(s) + Len(t)
      /\ \A i \in 1 .. Len(s) : (s \o t)[i] = s[i]
  BY ConcatProperties
<1>2. IsPrefix(s, s \o t)
  <2> DEFINE u == s \o t
  <2>1. u \in Seq(S) /\ Len(s) <= Len(u) /\ \A i \in 1 .. Len(s) : s[i] = u[i]
    BY <1>1
  <2> HIDE DEF u
  <2>2. IsPrefix(s, u)
    BY <2>1, PrefixPointwise
  <2>3. QED
    BY <2>2 DEF u
<1>3. t # <<>> => Len(t) \in Nat \ {0}
  BY EmptySeq
<1>4. ASSUME t # <<>> PROVE s \o t # s
  <2>1. Len(s) \in Nat /\ Len(s \o t) # Len(s)
    BY <1>1, <1>3, <1>4
  <2>2. QED
    BY <2>1
<1>5. QED
  BY <1>1, <1>2, <1>4

\* The first n events of a log.
LEMMA InitialPart ==
  ASSUME NEW S, NEW events \in Seq(S), NEW n \in 0 .. Len(events)
  PROVE  /\ SubSeq(events, 1, n) \in Seq(S) /\ Len(SubSeq(events, 1, n)) = n
         /\ IsPrefix(SubSeq(events, 1, n), events)
         /\ \A i \in 1 .. n : SubSeq(events, 1, n)[i] = events[i]
<1> DEFINE before == SubSeq(events, 1, n)
<1>1. n \in Int /\ \A i \in 1 .. n : events[i] \in S
  OBVIOUS
<1>2. /\ before \in Seq(S) /\ Len(before) = n
      /\ \A i \in 1 .. n : before[i] = events[i]
  BY <1>1, SubSeqProperties
<1> HIDE DEF before
<1>3. IsPrefix(before, events)
  BY <1>2, PrefixPointwise
<1>4. QED
  BY <1>2, <1>3 DEF before

\* A start of the log is told by its length.
LEMMA InitialPartIs ==
  ASSUME NEW S, NEW events \in Seq(S), NEW before \in Seq(S), IsPrefix(before, events)
  PROVE  Len(before) \in 0 .. Len(events) /\ SubSeq(events, 1, Len(before)) = before
<1>1. Len(before) \in 0 .. Len(events) /\ \A i \in 1 .. Len(before) : before[i] = events[i]
  BY PrefixPointwise
<1> DEFINE other == SubSeq(events, 1, Len(before))
<1>2. /\ other \in Seq(S) /\ Len(other) = Len(before)
      /\ \A i \in 1 .. Len(before) : other[i] = before[i]
  BY <1>1, InitialPart
<1> HIDE DEF other
<1>3. other = before
  BY <1>2, SeqEqual
<1>4. QED
  BY <1>1, <1>3 DEF other

-----------------------------------------------------------------------------
(***************************************************************************)
(* The events at some positions of a log.                                  *)
(***************************************************************************)

KeptBy(events, positions, kept) ==
  kept = [n \in 0 .. Len(events) |->
            IF n = 0 THEN <<>>
            ELSE IF n \in positions THEN Append(kept[n - 1], events[n])
            ELSE kept[n - 1]]

\* A filter of a log has its intermediate results, one per position.
LEMMA KeptExists ==
  ASSUME NEW S, NEW events \in Seq(S), NEW positions
  PROVE  \E kept : KeptBy(events, positions, kept)
<1> DEFINE Goes(kept, n) == IF n = 0 THEN <<>>
                            ELSE IF n \in positions THEN Append(kept[n - 1], events[n])
                            ELSE kept[n - 1]
           Keeps(k, kept) == kept = [n \in 0 .. k |-> Goes(kept, n)]
           Keepable == {k \in 0 .. Len(events) : \E kept : Keeps(k, kept)}
<1>1. Len(events) \in Nat
  OBVIOUS
<1>2. 0 \in Keepable
  <2>1. Keeps(0, [n \in 0 .. 0 |-> <<>>])
    OBVIOUS
  <2> HIDE DEF Keeps
  <2>2. \E kept : Keeps(0, kept)
    BY <2>1
  <2>3. QED
    BY <1>1, <2>2
<1>3. ASSUME NEW k \in 0 .. Len(events) - 1, k \in Keepable PROVE k + 1 \in Keepable
  <2>1. PICK kept : Keeps(k, kept)
    BY <1>3
  <2> DEFINE longer == [n \in 0 .. k + 1 |-> IF n = k + 1 THEN Goes(kept, n) ELSE kept[n]]
  <2>2. \A n \in 0 .. k : longer[n] = kept[n]
    BY <1>1, <1>3
  <2>3. ASSUME NEW n \in 0 .. k + 1 PROVE longer[n] = Goes(longer, n)
    <3>1. n # 0 => n - 1 \in 0 .. k
      BY <1>3, <2>3
    <3>2. Goes(longer, n) = Goes(kept, n)
      <4> HIDE DEF longer
      <4>1. QED
        BY <2>2, <3>1
    <3>3. CASE n = k + 1
      BY <3>2, <3>3
    <3>4. CASE n # k + 1
      <4>1. n \in 0 .. k
        BY <1>3, <2>3, <3>4
      <4>2. kept[n] = Goes(kept, n)
        BY <2>1, <4>1
      <4> HIDE DEF Goes
      <4>3. QED
        BY <2>2, <3>2, <4>1, <4>2
    <3>5. QED
      BY <3>3, <3>4
  <2>4. longer = [n \in 0 .. k + 1 |-> longer[n]]
    OBVIOUS
  <2> HIDE DEF longer, Goes
  <2>5. Keeps(k + 1, longer)
    BY <2>3, <2>4
  <2> HIDE DEF Keeps
  <2>6. \E other : Keeps(k + 1, other)
    BY <2>5
  <2>7. QED
    BY <1>1, <1>3, <2>6
<1> HIDE DEF Keepable
<1>4. Len(events) \in Keepable
  <2>1. 0 .. Len(events) \subseteq Keepable
    BY <1>1, <1>2, <1>3, InductionOnNat
  <2>2. QED
    BY <1>1, <2>1
<1>5. QED
  BY <1>4 DEF Keepable, KeptBy

\* What is kept of the first n events depends on those events and positions only.
LEMMA KeptAlike ==
  ASSUME NEW S, NEW T, NEW events \in Seq(S), NEW others \in Seq(T), NEW m \in Nat,
         m <= Len(events), m <= Len(others), NEW P, NEW Q,
         \A i \in 1 .. m : events[i] = others[i] /\ (i \in P <=> i \in Q),
         NEW kept, KeptBy(events, P, kept), NEW also, KeptBy(others, Q, also)
  PROVE  kept[m] = also[m]
<1> DEFINE Same == {n \in 0 .. m : kept[n] = also[n]}
<1>1. Len(events) \in Nat /\ Len(others) \in Nat
  OBVIOUS
<1>2. 0 \in Same
  BY <1>1 DEF KeptBy
<1>3. ASSUME NEW n \in 0 .. m - 1, n \in Same PROVE n + 1 \in Same
  <2>1. /\ n + 1 \in 0 .. Len(events) /\ n + 1 \in 0 .. Len(others) /\ n + 1 # 0
        /\ (n + 1) - 1 = n /\ n + 1 \in 1 .. m /\ n + 1 \in 0 .. m
    BY <1>1, <1>3
  <2>2. /\ kept[n + 1] = IF n + 1 \in P THEN Append(kept[n], events[n + 1]) ELSE kept[n]
        /\ also[n + 1] = IF n + 1 \in Q THEN Append(also[n], others[n + 1]) ELSE also[n]
    BY <2>1 DEF KeptBy
  <2>3. QED
    BY <1>3, <2>1, <2>2
<1> HIDE DEF Same
<1>4. 0 .. m \subseteq Same
  BY <1>2, <1>3, InductionOnNat
<1>5. QED
  BY <1>4 DEF Same

\* EventsAt is the last of them.
LEMMA EventsAtIsLast ==
  ASSUME NEW S, NEW events \in Seq(S), NEW positions
  PROVE  \E kept : /\ KeptBy(events, positions, kept)
                   /\ EventsAt(events, positions) = kept[Len(events)]
<1> DEFINE chosen == CHOOSE kept : KeptBy(events, positions, kept)
<1>1. EventsAt(events, positions) = chosen[Len(events)]
  BY DEF EventsAt, KeptBy
<1>2. KeptBy(events, positions, chosen)
  BY KeptExists
<1> HIDE DEF chosen
<1>3. QED
  BY <1>1, <1>2

\* What is kept are events of the log at those positions, and all of them.
LEMMA EventsAtAreThose ==
  ASSUME NEW S, NEW events \in Seq(S), NEW positions,
         NEW found, found = EventsAt(events, positions)
  PROVE  /\ found \in Seq(S)
         /\ \A n \in DOMAIN found : \E i \in positions \intersect DOMAIN events :
              found[n] = events[i]
         /\ \A i \in positions \intersect DOMAIN events : \E n \in DOMAIN found :
              found[n] = events[i]
<1>1. PICK kept : KeptBy(events, positions, kept) /\ found = kept[Len(events)]
  BY EventsAtIsLast
<1>2. Len(events) \in Nat /\ DOMAIN events = 1 .. Len(events)
  OBVIOUS
<1> DEFINE Those(n) ==
             /\ kept[n] \in Seq(S)
             /\ \A k \in DOMAIN kept[n] : \E i \in positions \intersect 1 .. n :
                  kept[n][k] = events[i]
             /\ \A i \in positions \intersect 1 .. n : \E k \in DOMAIN kept[n] :
                  kept[n][k] = events[i]
           Good == {n \in 0 .. Len(events) : Those(n)}
<1>3. 0 \in Good
  <2>1. kept[0] = <<>>
    BY <1>1, <1>2 DEF KeptBy
  <2>2. DOMAIN <<>> = {} /\ 1 .. 0 = {} /\ <<>> \in Seq(S)
    OBVIOUS
  <2>3. Those(0)
    BY <2>1, <2>2
  <2> HIDE DEF Those
  <2>4. QED
    BY <1>2, <2>3
<1>4. ASSUME NEW n \in 0 .. Len(events) - 1, n \in Good PROVE n + 1 \in Good
  <2>1. /\ n + 1 \in 0 .. Len(events) /\ n + 1 # 0 /\ (n + 1) - 1 = n
        /\ n + 1 \in DOMAIN events /\ 1 .. n + 1 = (1 .. n) \union {n + 1}
        /\ events[n + 1] \in S
    BY <1>2, <1>4
  <2>2. kept[n + 1] = IF n + 1 \in positions THEN Append(kept[n], events[n + 1]) ELSE kept[n]
    BY <1>1, <2>1 DEF KeptBy
  <2>3. Those(n)
    BY <1>4
  <2>4. CASE n + 1 \in positions
    <3> DEFINE before == kept[n]
               e == events[n + 1]
               after == Append(before, e)
    <3>1. kept[n + 1] = after
      BY <2>2, <2>4
    <3>2. before \in Seq(S) /\ e \in S
      BY <2>1, <2>3
    <3> HIDE DEF before, e
    <3>3. /\ after \in Seq(S) /\ Len(before) \in Nat
          /\ DOMAIN after = DOMAIN before \union {Len(before) + 1}
          /\ after[Len(before) + 1] = e
          /\ \A k \in DOMAIN before : after[k] = before[k]
      BY <3>2
    <3> HIDE DEF after
    <3>4. \A k \in DOMAIN after : \E i \in positions \intersect 1 .. n + 1 : after[k] = events[i]
      BY <2>1, <2>3, <2>4, <3>3 DEF before, e
    <3>5. \A i \in positions \intersect 1 .. n + 1 : \E k \in DOMAIN after : after[k] = events[i]
      BY <2>1, <2>3, <3>3 DEF before, e
    <3>6. QED
      BY <2>1, <3>1, <3>3, <3>4, <3>5
  <2>5. CASE n + 1 \notin positions
    <3>1. kept[n + 1] = kept[n]
      BY <2>2, <2>5
    <3>2. positions \intersect 1 .. n + 1 = positions \intersect 1 .. n
      BY <2>1, <2>5
    <3>3. QED
      BY <2>1, <2>3, <3>1, <3>2
  <2>6. QED
    BY <2>4, <2>5
<1> HIDE DEF Good
<1>5. 0 .. Len(events) \subseteq Good
  BY <1>2, <1>3, <1>4, InductionOnNat
<1>6. Those(Len(events))
  BY <1>2, <1>5 DEF Good
<1>7. QED
  BY <1>1, <1>2, <1>6

\* What is kept of a longer log: what was kept before, and all that follows.
LEMMA EventsAtOfConcat ==
  ASSUME NEW S, NEW events \in Seq(S), NEW batch \in Seq(S), NEW P, NEW Q,
         \A i \in 1 .. Len(events) : i \in P <=> i \in Q,
         \A k \in 1 .. Len(batch) : Len(events) + k \in P
  PROVE  EventsAt(events \o batch, P) = EventsAt(events, Q) \o batch
<1> DEFINE longer == events \o batch
           before == EventsAt(events, Q)
           n == Len(events)
<1>1. /\ longer \in Seq(S) /\ Len(longer) = n + Len(batch)
      /\ n \in Nat /\ Len(batch) \in Nat
      /\ \A i \in 1 .. n : longer[i] = events[i]
      /\ \A k \in 1 .. Len(batch) : longer[n + k] = batch[k]
  BY ConcatProperties
<1>2. before \in Seq(S)
  BY EventsAtAreThose
<1>3. PICK kept : KeptBy(longer, P, kept) /\ EventsAt(longer, P) = kept[Len(longer)]
  BY <1>1, EventsAtIsLast
<1>4. PICK also : KeptBy(events, Q, also) /\ before = also[n]
  BY EventsAtIsLast
<1> HIDE DEF longer, before
<1>5. kept[n] = before
  <2>1. /\ n \in Nat /\ n <= Len(longer) /\ n <= Len(events)
        /\ \A i \in 1 .. n : longer[i] = events[i] /\ (i \in P <=> i \in Q)
    BY <1>1
  <2>2. longer \in Seq(S) /\ KeptBy(longer, P, kept) /\ KeptBy(events, Q, also)
    BY <1>1, <1>3, <1>4
  <2> HIDE DEF n
  <2>3. kept[n] = also[n]
    BY <2>1, <2>2, KeptAlike
  <2>4. QED
    BY <1>4, <2>3
<1> HIDE DEF n
<1> DEFINE After(k) == /\ kept[n + k] \in Seq(S) /\ Len(kept[n + k]) = Len(before) + k
                       /\ \A i \in 1 .. Len(before) : kept[n + k][i] = before[i]
                       /\ \A i \in 1 .. k : kept[n + k][Len(before) + i] = batch[i]
           Good == {k \in 0 .. Len(batch) : After(k)}
<1>6. 0 \in Good
  <2>1. n + 0 = n /\ Len(before) \in Nat
    BY <1>1, <1>2
  <2>2. After(0)
    BY <1>2, <1>5, <2>1
  <2> HIDE DEF After
  <2>3. QED
    BY <1>1, <2>2
<1>7. ASSUME NEW k \in 0 .. Len(batch) - 1, k \in Good PROVE k + 1 \in Good
  <2>1. /\ k + 1 \in 1 .. Len(batch) /\ k + 1 \in 0 .. Len(batch) /\ k \in Nat
        /\ n + (k + 1) \in 0 .. Len(longer) /\ n + (k + 1) # 0
        /\ (n + (k + 1)) - 1 = n + k /\ n + (k + 1) \in P
    BY <1>1, <1>7 DEF n
  <2>2. kept[n + (k + 1)] = Append(kept[n + k], longer[n + (k + 1)])
    BY <1>3, <2>1 DEF KeptBy
  <2>3. longer[n + (k + 1)] = batch[k + 1] /\ batch[k + 1] \in S
    BY <1>1, <2>1
  <2>4. After(k)
    BY <1>7
  <2> DEFINE here == kept[n + k]
             there == kept[n + (k + 1)]
             e == batch[k + 1]
  <2>5. here \in Seq(S) /\ e \in S /\ there = Append(here, e)
    BY <2>2, <2>3, <2>4
  <2>6. /\ Len(here) = Len(before) + k /\ Len(before) \in Nat
        /\ \A i \in 1 .. Len(before) : here[i] = before[i]
        /\ \A i \in 1 .. k : here[Len(before) + i] = batch[i]
    BY <1>2, <2>4
  <2> HIDE DEF here, there
  <2>7. /\ there \in Seq(S) /\ Len(there) = Len(here) + 1 /\ there[Len(here) + 1] = e
        /\ \A i \in 1 .. Len(here) : there[i] = here[i]
    BY <2>5
  <2>8. Len(there) = Len(before) + (k + 1) /\ there[Len(before) + (k + 1)] = e
    BY <2>1, <2>6, <2>7
  <2>9. ASSUME NEW i \in 1 .. Len(before) PROVE there[i] = before[i]
    BY <2>1, <2>6, <2>7, <2>9
  <2>10. ASSUME NEW i \in 1 .. k PROVE there[Len(before) + i] = batch[i]
    BY <2>1, <2>6, <2>7, <2>10, SMTT(90)
  <2>11. \A i \in 1 .. k + 1 : there[Len(before) + i] = batch[i]
    <3>1. SUFFICES ASSUME NEW i \in 1 .. k + 1 PROVE there[Len(before) + i] = batch[i]
      OBVIOUS
    <3>2. i = k + 1 \/ i \in 1 .. k
      BY <2>1
    <3>3. QED
      BY <2>8, <2>10, <3>2
  <2>12. After(k + 1)
    BY <2>7, <2>8, <2>9, <2>11 DEF there
  <2> HIDE DEF After
  <2>13. QED
    BY <2>1, <2>12
<1> HIDE DEF Good
<1>8. After(Len(batch))
  <2>1. 0 .. Len(batch) \subseteq Good
    BY <1>1, <1>6, <1>7, InductionOnNat
  <2>2. Len(batch) \in Good
    BY <1>1, <2>1
  <2>3. QED
    BY <2>2 DEF Good
<1> DEFINE whole == before \o batch
           got == kept[n + Len(batch)]
<1>9. /\ whole \in Seq(S) /\ Len(whole) = Len(before) + Len(batch) /\ Len(before) \in Nat
      /\ \A i \in 1 .. Len(before) : whole[i] = before[i]
      /\ \A i \in 1 .. Len(batch) : whole[Len(before) + i] = batch[i]
  BY <1>1, <1>2, ConcatProperties
<1>10. /\ got \in Seq(S) /\ Len(got) = Len(before) + Len(batch)
       /\ \A i \in 1 .. Len(before) : got[i] = before[i]
       /\ \A i \in 1 .. Len(batch) : got[Len(before) + i] = batch[i]
  BY <1>8
<1>11. EventsAt(longer, P) = got
  BY <1>1, <1>3
<1> HIDE DEF whole, got
<1>12. ASSUME NEW i \in 1 .. Len(got) PROVE got[i] = whole[i]
  <2>1. CASE i \in 1 .. Len(before)
    BY <1>9, <1>10, <2>1
  <2>2. CASE i \notin 1 .. Len(before)
    <3>1. i - Len(before) \in 1 .. Len(batch) /\ Len(before) + (i - Len(before)) = i
      BY <1>1, <1>9, <1>10, <1>12, <2>2
    <3>2. QED
      BY <1>9, <1>10, <3>1
  <2>3. QED
    BY <2>1, <2>2
<1>13. got = whole
  BY <1>9, <1>10, <1>12, SeqEqual
<1>14. QED
  BY <1>11, <1>13 DEF whole, longer, before

-----------------------------------------------------------------------------
(***************************************************************************)
(* Which events survive.                                                   *)
(***************************************************************************)

\* The equation IsActive is the solution of.
Suppressed(log, active, i) ==
  \E j \in i + 1 .. Len(log) :
    IsRevert(log[j]) /\ log[j].target = log[i].id /\ active[j]

SaysWhoIsActive(log, active) ==
  active = [i \in DOMAIN log |-> ~Suppressed(log, active, i)]

\* The equation has a solution: from the newest event back.
LEMMA ActivityExists ==
  ASSUME NEW S, NEW log \in Seq(S)
  PROVE  \E active : SaysWhoIsActive(log, active)
<1> DEFINE n == Len(log)
           From(k) == {i \in 1 .. n : i > n - k}
           Solves(active, k) == active = [i \in From(k) |-> ~Suppressed(log, active, i)]
           Solvable == {k \in 0 .. n : \E active : Solves(active, k)}
<1>1. n \in Nat /\ DOMAIN log = 1 .. n
  OBVIOUS
<1>2. 0 \in Solvable
  <2>1. From(0) = {}
    BY <1>1
  <2>2. Solves([i \in {} |-> TRUE], 0)
    BY <2>1
  <2> HIDE DEF Solves
  <2>3. \E active : Solves(active, 0)
    BY <2>2
  <2>4. QED
    BY <1>1, <2>3
<1>3. ASSUME NEW k \in 0 .. n - 1, k \in Solvable PROVE k + 1 \in Solvable
  <2>1. PICK active : Solves(active, k)
    BY <1>3
  <2> DEFINE p == n - k
             longer == [i \in From(k + 1) |-> IF i = p THEN ~Suppressed(log, active, p)
                                                       ELSE active[i]]
  <2>2. p \in 1 .. n /\ From(k + 1) = From(k) \cup {p} /\ p \notin From(k)
    BY <1>1, <1>3
  <2>3. \A i \in From(k + 1) : i + 1 .. n \subseteq From(k)
    BY <1>1, <1>3
  <2>4. \A i \in From(k) : longer[i] = active[i]
    BY <2>2
  <2> HIDE DEF longer, From
  <2>5. \A i \in From(k + 1) : Suppressed(log, longer, i) <=> Suppressed(log, active, i)
    BY <2>3, <2>4 DEF Suppressed
  <2>6. longer = [i \in From(k + 1) |-> ~Suppressed(log, longer, i)]
    <3>1. longer = [i \in From(k + 1) |-> ~Suppressed(log, active, i)]
      BY <2>1, <2>2 DEF longer
    <3>2. QED
      BY <2>5, <3>1
  <2>7. Solves(longer, k + 1)
    BY <2>6 DEF From
  <2> HIDE DEF Solves
  <2>8. \E other : Solves(other, k + 1)
    BY <2>7
  <2>9. k + 1 \in 0 .. n
    BY <1>1, <1>3
  <2>10. QED
    BY <2>8, <2>9
<1> HIDE DEF Solvable
<1>4. n \in Solvable
  <2>1. 0 .. n \subseteq Solvable
    BY <1>1, <1>2, <1>3, InductionOnNat
  <2>2. QED
    BY <1>1, <2>1
<1>5. QED
  <2>1. PICK active : Solves(active, n)
    BY <1>4 DEF Solvable
  <2>2. From(n) = DOMAIN log
    BY <1>1
  <2>3. QED
    BY <2>1, <2>2 DEF SaysWhoIsActive

\* IsActive solves the equation.
LEMMA IsActiveIsActivity ==
  ASSUME NEW S, NEW log \in Seq(S)
  PROVE  SaysWhoIsActive(log, IsActive(log))
<1>1. IsActive(log) = CHOOSE active : SaysWhoIsActive(log, active)
  BY DEF IsActive, SaysWhoIsActive, Suppressed
<1>2. QED
  BY <1>1, ActivityExists

\* And it has no other solution.
LEMMA ActivityUnique ==
  ASSUME NEW S, NEW log \in Seq(S), NEW active, SaysWhoIsActive(log, active)
  PROVE  active = IsActive(log)
<1> DEFINE other == IsActive(log)
           Same == {i \in DOMAIN log : active[i] = other[i]}
<1>1. SaysWhoIsActive(log, other)
  BY IsActiveIsActivity
<1>2. DOMAIN log = 1 .. Len(log) /\ Len(log) \in Nat
  OBVIOUS
<1> HIDE DEF other
<1>3. ASSUME NEW i \in 1 .. Len(log), \A j \in i + 1 .. Len(log) : j \in Same
      PROVE  i \in Same
  <2>1. Suppressed(log, active, i) <=> Suppressed(log, other, i)
    BY <1>3 DEF Suppressed
  <2>2. active[i] = ~Suppressed(log, active, i) /\ other[i] = ~Suppressed(log, other, i)
    BY <1>1, <1>2 DEF SaysWhoIsActive
  <2>3. QED
    BY <1>2, <2>1, <2>2
<1> HIDE DEF Same
<1>4. 1 .. Len(log) \subseteq Same
  BY <1>2, <1>3, InductionDownwards
<1>5. active = [i \in DOMAIN log |-> active[i]] /\ other = [i \in DOMAIN log |-> other[i]]
  BY <1>1 DEF SaysWhoIsActive
<1>6. QED
  BY <1>2, <1>4, <1>5 DEF Same, other

\* Actions appended to a log survive, and change nothing about the events before.
LEMMA ActivityOfAppend ==
  ASSUME NEW S, NEW log \in Seq(S), NEW batch \in Seq(S),
         \A i \in DOMAIN batch : ~IsRevert(batch[i])
  PROVE  /\ \A i \in DOMAIN log : IsActive(log \o batch)[i] = IsActive(log)[i]
         /\ \A i \in Len(log) + 1 .. Len(log \o batch) : IsActive(log \o batch)[i] = TRUE
<1> DEFINE longer == log \o batch
           active == IsActive(longer)
           before == [i \in DOMAIN log |-> active[i]]
<1>1. /\ longer \in Seq(S) /\ Len(longer) = Len(log) + Len(batch)
      /\ Len(log) \in Nat /\ Len(batch) \in Nat
      /\ DOMAIN log = 1 .. Len(log) /\ DOMAIN longer = 1 .. Len(longer)
      /\ \A i \in DOMAIN log : longer[i] = log[i]
  BY ConcatProperties
<1>2. \A i \in Len(log) + 1 .. Len(longer) : ~IsRevert(longer[i])
  <2>1. SUFFICES ASSUME NEW i \in Len(log) + 1 .. Len(longer) PROVE ~IsRevert(longer[i])
    OBVIOUS
  <2>2. i - Len(log) \in DOMAIN batch /\ longer[i] = batch[i - Len(log)]
    BY <1>1, <2>1, ConcatProperties
  <2>3. QED
    BY <2>2
<1>3. SaysWhoIsActive(longer, active)
  BY <1>1, IsActiveIsActivity
<1> HIDE DEF longer, active
<1>4. \A i \in DOMAIN longer : active[i] = ~Suppressed(longer, active, i)
  BY <1>3 DEF SaysWhoIsActive
<1>5. ASSUME NEW i \in DOMAIN log
      PROVE  Suppressed(longer, active, i) <=> Suppressed(log, before, i)
  <2>1. \A j \in i + 1 .. Len(longer) : IsRevert(longer[j]) => j \in i + 1 .. Len(log)
    BY <1>1, <1>2, <1>5
  <2>2. /\ i + 1 .. Len(log) \subseteq i + 1 .. Len(longer)
        /\ i + 1 .. Len(log) \subseteq DOMAIN log
    BY <1>1, <1>5
  <2>3. \A j \in i + 1 .. Len(log) : longer[j] = log[j] /\ before[j] = active[j]
    BY <1>1, <2>2
  <2>4. longer[i] = log[i]
    BY <1>1
  <2> HIDE DEF before
  <2>5. QED
    BY <2>1, <2>2, <2>3, <2>4 DEF Suppressed
<1>6. SaysWhoIsActive(log, before)
  BY <1>1, <1>4, <1>5 DEF SaysWhoIsActive
<1>7. before = IsActive(log)
  BY <1>6, ActivityUnique
<1>8. ASSUME NEW i \in Len(log) + 1 .. Len(longer) PROVE active[i] = TRUE
  <2>1. ~Suppressed(longer, active, i)
    BY <1>1, <1>2, <1>8 DEF Suppressed
  <2>2. active[i] = ~Suppressed(longer, active, i)
    BY <1>1, <1>4, <1>8
  <2>3. QED
    BY <2>1, <2>2, Zenon
<1>9. QED
  BY <1>1, <1>7, <1>8 DEF longer, active

\* A revert of one action takes that action back, and nothing else.
LEMMA ActivityOfUndo ==
  ASSUME NEW S, NEW log \in Seq(S), NEW revert \in S, NEW p \in DOMAIN log,
         IsRevert(revert), revert.target = log[p].id, ~IsRevert(log[p]),
         \A i \in DOMAIN log : log[i].id = log[p].id => i = p
  PROVE  /\ IsActive(Append(log, revert))[p] = FALSE
         /\ \A i \in DOMAIN log \ {p} :
              IsActive(Append(log, revert))[i] = IsActive(log)[i]
<1> DEFINE longer == Append(log, revert)
           active == IsActive(longer)
           old == IsActive(log)
           before == [i \in DOMAIN log |-> IF i = p THEN old[p] ELSE active[i]]
<1>1. /\ longer \in Seq(S) /\ Len(longer) = Len(log) + 1 /\ Len(log) \in Nat
      /\ DOMAIN log = 1 .. Len(log) /\ DOMAIN longer = 1 .. Len(longer)
      /\ \A i \in DOMAIN log : longer[i] = log[i]
      /\ longer[Len(longer)] = revert
  OBVIOUS
<1>2. SaysWhoIsActive(longer, active) /\ SaysWhoIsActive(log, old)
  BY <1>1, IsActiveIsActivity
<1> HIDE DEF longer, active, old
<1>3. /\ \A i \in DOMAIN longer : active[i] = ~Suppressed(longer, active, i)
      /\ \A i \in DOMAIN log : old[i] = ~Suppressed(log, old, i)
  BY <1>2 DEF SaysWhoIsActive
<1>4. active[Len(longer)] = TRUE
  <2>1. ~Suppressed(longer, active, Len(longer))
    BY <1>1 DEF Suppressed
  <2>2. active[Len(longer)] = ~Suppressed(longer, active, Len(longer))
    BY <1>1, <1>3
  <2>3. QED
    BY <2>1, <2>2, Zenon
<1>5. Suppressed(longer, active, p)
  BY <1>1, <1>4 DEF Suppressed
<1>6. ASSUME NEW i \in DOMAIN log, i # p
      PROVE  Suppressed(longer, active, i) <=> Suppressed(log, active, i)
  <2>1. longer[i] = log[i] /\ revert.target # longer[i].id
    BY <1>1, <1>6
  <2>2. /\ i + 1 .. Len(longer) = (i + 1 .. Len(log)) \cup {Len(longer)}
        /\ i + 1 .. Len(log) \subseteq DOMAIN log
    BY <1>1, <1>6
  <2>3. QED
    BY <1>1, <2>1, <2>2 DEF Suppressed
<1> DEFINE Same == {i \in DOMAIN log : i = p \/ active[i] = old[i]}
<1>7. ASSUME NEW i \in 1 .. Len(log), \A j \in i + 1 .. Len(log) : j \in Same
      PROVE  i \in Same
  <2>1. CASE i = p
    BY <1>1, <2>1
  <2>2. CASE i # p
    <3>1. \A j \in i + 1 .. Len(log) : IsRevert(log[j]) => active[j] = old[j]
      BY <1>7
    <3>2. Suppressed(log, active, i) <=> Suppressed(log, old, i)
      BY <3>1 DEF Suppressed
    <3>3. i \in DOMAIN log /\ i \in DOMAIN longer
      BY <1>1
    <3>4. QED
      BY <1>3, <1>6, <2>2, <3>2, <3>3
  <2>3. QED
    BY <2>1, <2>2
<1> HIDE DEF Same
<1>8. 1 .. Len(log) \subseteq Same
  BY <1>1, <1>7, InductionDownwards
<1>9. p \in DOMAIN longer
  BY <1>1
<1>10. QED
  BY <1>1, <1>3, <1>5, <1>8, <1>9 DEF Same, longer, active, old

\* No revert is undone itself: what the services keep, whoever writes.
RevertsStand(log) ==
  \A i, j \in DOMAIN log :
    IsRevert(log[i]) /\ IsRevert(log[j]) => log[i].target # log[j].id

\* Then an event counts exactly if no revert names it.
LEMMA ActiveIsNotReverted ==
  ASSUME NEW S, NEW log \in Seq(S), WellFormed(log), RevertsStand(log),
         NEW p \in DOMAIN log
  PROVE  IsActive(log)[p] <=> \A j \in DOMAIN log : IsRevert(log[j]) => log[j].target # log[p].id
<1> DEFINE active == IsActive(log)
<1>1. active = [i \in DOMAIN log |-> ~Suppressed(log, active, i)]
  BY IsActiveIsActivity DEF SaysWhoIsActive
<1> HIDE DEF active
<1>2. ASSUME NEW j \in DOMAIN log, IsRevert(log[j]) PROVE active[j]
  <2>1. ~Suppressed(log, active, j)
    BY <1>2 DEF Suppressed, RevertsStand
  <2>2. QED
    BY <1>1, <1>2, <2>1
<1>3. ASSUME NEW j \in DOMAIN log, IsRevert(log[j]), log[j].target = log[p].id
      PROVE  Suppressed(log, active, p)
  <2>1. PICK i \in 1 .. j - 1 : log[i].id = log[j].target
    BY <1>3 DEF WellFormed
  <2>2. i \in DOMAIN log /\ j \in i + 1 .. Len(log)
    BY <1>3, <2>1
  <2>3. i = p
    BY <1>3, <2>1, <2>2 DEF WellFormed
  <2>4. QED
    BY <1>2, <1>3, <2>2, <2>3 DEF Suppressed
<1>4. ASSUME Suppressed(log, active, p)
      PROVE  \E j \in DOMAIN log : IsRevert(log[j]) /\ log[j].target = log[p].id
  BY <1>4 DEF Suppressed
<1>5. active[p] <=> ~Suppressed(log, active, p)
  BY <1>1
<1>6. QED
  BY <1>3, <1>4, <1>5 DEF active

-----------------------------------------------------------------------------
(***************************************************************************)
(* The fold.                                                               *)
(***************************************************************************)

\* What the reducer does with the n-th event, on the room of the events before.
After(log, room, n) ==
  IF n \in ActiveActions(log) THEN Step(room, log[n]) ELSE room

FoldsTo(log, rooms) ==
  rooms = [n \in 0 .. Len(log) |->
             IF n = 0 THEN EmptyRoom ELSE After(log, rooms[n - 1], n)]

\* A log has the rooms its replay goes through, one per position.
LEMMA FoldExists ==
  ASSUME NEW S, NEW log \in Seq(S)
  PROVE  \E rooms : FoldsTo(log, rooms)
<1> DEFINE Folds(k, rooms) == rooms = [n \in 0 .. k |->
             IF n = 0 THEN EmptyRoom ELSE After(log, rooms[n - 1], n)]
           Foldable == {k \in 0 .. Len(log) : \E rooms : Folds(k, rooms)}
<1>1. Len(log) \in Nat
  OBVIOUS
<1>2. 0 \in Foldable
  <2>1. Folds(0, [n \in 0 .. 0 |-> EmptyRoom])
    OBVIOUS
  <2> HIDE DEF Folds
  <2>2. \E rooms : Folds(0, rooms)
    BY <2>1
  <2>3. QED
    BY <1>1, <2>2
<1>3. ASSUME NEW k \in 0 .. Len(log) - 1, k \in Foldable PROVE k + 1 \in Foldable
  <2>1. PICK rooms : Folds(k, rooms)
    BY <1>3
  <2> DEFINE longer == [n \in 0 .. k + 1 |-> IF n = k + 1 THEN After(log, rooms[k], n)
                                                         ELSE rooms[n]]
  <2>2. \A n \in 0 .. k : longer[n] = rooms[n]
    BY <1>1, <1>3
  <2>3. ASSUME NEW n \in 0 .. k + 1
        PROVE  longer[n] = IF n = 0 THEN EmptyRoom ELSE After(log, longer[n - 1], n)
    <3>1. CASE n = k + 1
      BY <1>1, <1>3, <2>2, <3>1
    <3>2. CASE n # k + 1
      <4>1. n \in 0 .. k /\ (n # 0 => n - 1 \in 0 .. k)
        BY <1>3, <2>3, <3>2
      <4>2. rooms[n] = IF n = 0 THEN EmptyRoom ELSE After(log, rooms[n - 1], n)
        BY <2>1, <4>1
      <4>3. QED
        BY <2>2, <4>1, <4>2
    <3>3. QED
      BY <3>1, <3>2
  <2>4. Folds(k + 1, longer)
    <3>1. longer = [n \in 0 .. k + 1 |-> longer[n]]
      OBVIOUS
    <3> HIDE DEF longer
    <3>2. QED
      BY <2>3, <3>1
  <2> HIDE DEF Folds
  <2>5. \E other : Folds(k + 1, other)
    BY <2>4
  <2>6. QED
    BY <1>1, <1>3, <2>5
<1> HIDE DEF Foldable
<1>4. Len(log) \in Foldable
  <2>1. 0 .. Len(log) \subseteq Foldable
    BY <1>1, <1>2, <1>3, InductionOnNat
  <2>2. QED
    BY <1>1, <2>1
<1>5. QED
  BY <1>4 DEF Foldable, FoldsTo

\* Two sequences of rooms that start alike and go on alike are the same.
LEMMA FoldUnique ==
  ASSUME NEW S, NEW log \in Seq(S), NEW rooms, NEW others,
         FoldsTo(log, rooms), FoldsTo(log, others)
  PROVE  rooms = others
<1> DEFINE Same == {n \in 0 .. Len(log) : rooms[n] = others[n]}
<1>1. Len(log) \in Nat
  OBVIOUS
<1>2. 0 \in Same
  BY <1>1 DEF FoldsTo
<1>3. ASSUME NEW n \in 0 .. Len(log) - 1, n \in Same PROVE n + 1 \in Same
  <2>1. n + 1 \in 0 .. Len(log) /\ n + 1 # 0 /\ (n + 1) - 1 = n
    BY <1>1, <1>3
  <2>2. /\ rooms[n + 1] = After(log, rooms[n], n + 1)
        /\ others[n + 1] = After(log, others[n], n + 1)
    BY <2>1 DEF FoldsTo
  <2>3. QED
    BY <1>3, <2>1, <2>2
<1> HIDE DEF Same
<1>4. 0 .. Len(log) \subseteq Same
  BY <1>1, <1>2, <1>3, InductionOnNat
<1>5. /\ rooms = [n \in 0 .. Len(log) |-> rooms[n]]
      /\ others = [n \in 0 .. Len(log) |-> others[n]]
  BY DEF FoldsTo
<1>6. QED
  BY <1>4, <1>5 DEF Same

\* The log reduces to the last room of its fold.
LEMMA ReduceIsLastRoom ==
  ASSUME NEW S, NEW log \in Seq(S)
  PROVE  /\ \E rooms : FoldsTo(log, rooms)
         /\ \A rooms : FoldsTo(log, rooms) => Reduce(log) = rooms[Len(log)]
<1>1. PICK rooms : FoldsTo(log, rooms)
  BY FoldExists
<1> DEFINE chosen == CHOOSE others : FoldsTo(log, others)
<1>2. Reduce(log) = chosen[Len(log)]
  BY DEF Reduce, FoldsTo, After
<1>3. FoldsTo(log, chosen)
  BY <1>1
<1> HIDE DEF chosen
<1>4. QED
  BY <1>1, <1>2, <1>3, FoldUnique

\* A draft without events has an empty room.
LEMMA ReduceOfNothing == Reduce(<<>>) = EmptyRoom
<1>1. <<>> \in Seq({}) /\ Len(<<>>) = 0
  OBVIOUS
<1>2. PICK rooms : FoldsTo(<<>>, rooms)
  BY <1>1, FoldExists
<1>3. rooms[0] = EmptyRoom
  BY <1>1, <1>2 DEF FoldsTo
<1>4. QED
  BY <1>1, <1>2, <1>3, ReduceIsLastRoom

\* Appending actions goes on from the room of the log, one action at a time.
LEMMA FoldOfAppend ==
  ASSUME NEW S, NEW log \in Seq(S), NEW batch \in Seq(S),
         \A i \in DOMAIN batch : ~IsRevert(batch[i]),
         NEW rooms, FoldsTo(log \o batch, rooms)
  PROVE  /\ rooms[Len(log)] = Reduce(log)
         /\ Reduce(log \o batch) = rooms[Len(log) + Len(batch)]
         /\ \A k \in 1 .. Len(batch) :
              rooms[Len(log) + k] = Step(rooms[Len(log) + k - 1], batch[k])
<1> DEFINE longer == log \o batch
           before == [n \in 0 .. Len(log) |-> rooms[n]]
<1>1. /\ longer \in Seq(S) /\ Len(longer) = Len(log) + Len(batch)
      /\ Len(log) \in Nat /\ Len(batch) \in Nat
      /\ DOMAIN log = 1 .. Len(log) /\ DOMAIN longer = 1 .. Len(longer)
      /\ \A i \in DOMAIN log : longer[i] = log[i]
      /\ \A k \in 1 .. Len(batch) : longer[Len(log) + k] = batch[k]
  BY ConcatProperties
<1>2. /\ \A i \in DOMAIN log : IsActive(longer)[i] = IsActive(log)[i]
      /\ \A i \in Len(log) + 1 .. Len(longer) : IsActive(longer)[i] = TRUE
  BY ActivityOfAppend
<1>3. FoldsTo(longer, rooms)
  OBVIOUS
<1> HIDE DEF longer
<1>4. \A i \in DOMAIN log : i \in ActiveActions(longer) <=> i \in ActiveActions(log)
  BY <1>1, <1>2 DEF ActiveActions
<1>5. \A k \in 1 .. Len(batch) : Len(log) + k \in ActiveActions(longer)
  <2>1. SUFFICES ASSUME NEW k \in 1 .. Len(batch) PROVE Len(log) + k \in ActiveActions(longer)
    OBVIOUS
  <2>2. /\ Len(log) + k \in DOMAIN longer /\ Len(log) + k \in Len(log) + 1 .. Len(longer)
        /\ ~IsRevert(longer[Len(log) + k])
    BY <1>1, <2>1
  <2>3. QED
    BY <1>2, <2>2 DEF ActiveActions
<1>6. \A n \in 0 .. Len(longer) :
        rooms[n] = IF n = 0 THEN EmptyRoom ELSE After(longer, rooms[n - 1], n)
  BY <1>3 DEF FoldsTo
<1>7. FoldsTo(log, before)
  <2>1. ASSUME NEW n \in 0 .. Len(log)
        PROVE  rooms[n] = IF n = 0 THEN EmptyRoom ELSE After(log, before[n - 1], n)
    <3>1. n \in 0 .. Len(longer) /\ (n # 0 => n \in DOMAIN log /\ n - 1 \in 0 .. Len(log))
      BY <1>1, <2>1
    <3>2. n # 0 => After(longer, rooms[n - 1], n) = After(log, before[n - 1], n)
      BY <1>1, <1>4, <3>1 DEF After
    <3>3. QED
      BY <1>6, <3>1, <3>2
  <2>2. QED
    BY <2>1 DEF FoldsTo
<1>8. before[Len(log)] = rooms[Len(log)]
  BY <1>1
<1>9. ASSUME NEW k \in 1 .. Len(batch)
      PROVE  rooms[Len(log) + k] = Step(rooms[Len(log) + k - 1], batch[k])
  <2>1. Len(log) + k \in 0 .. Len(longer) /\ Len(log) + k # 0
    BY <1>1, <1>9
  <2>2. rooms[Len(log) + k] = After(longer, rooms[Len(log) + k - 1], Len(log) + k)
    BY <1>6, <2>1
  <2>3. Len(log) + k \in ActiveActions(longer) /\ longer[Len(log) + k] = batch[k]
    BY <1>1, <1>5, <1>9
  <2>4. QED
    BY <2>2, <2>3 DEF After
<1> HIDE DEF before
<1>10. rooms[Len(log)] = Reduce(log)
  BY <1>7, <1>8, ReduceIsLastRoom
<1>11. Reduce(longer) = rooms[Len(log) + Len(batch)]
  BY <1>1, <1>3, ReduceIsLastRoom
<1>12. QED
  BY <1>9, <1>10, <1>11 DEF longer

\* Logs with the same room have the same room after the same actions.
LEMMA SameRoomGoesOnTheSame ==
  ASSUME NEW S, NEW log \in Seq(S), NEW other \in Seq(S), NEW batch \in Seq(S),
         \A i \in DOMAIN batch : ~IsRevert(batch[i]), Reduce(log) = Reduce(other)
  PROVE  Reduce(log \o batch) = Reduce(other \o batch)
<1>1. log \o batch \in Seq(S) /\ other \o batch \in Seq(S)
  BY ConcatProperties
<1>2. PICK rooms : FoldsTo(log \o batch, rooms)
  BY <1>1, FoldExists
<1>3. PICK others : FoldsTo(other \o batch, others)
  BY <1>1, FoldExists
<1>4. Len(log) \in Nat /\ Len(other) \in Nat /\ Len(batch) \in Nat
  OBVIOUS
<1>0. \A k \in 1 .. Len(batch) :
        /\ rooms[Len(log) + k] = Step(rooms[Len(log) + k - 1], batch[k])
        /\ others[Len(other) + k] = Step(others[Len(other) + k - 1], batch[k])
  BY <1>2, <1>3, FoldOfAppend
<1> DEFINE Same == {k \in 0 .. Len(batch) : rooms[Len(log) + k] = others[Len(other) + k]}
<1>5. 0 \in Same
  BY <1>2, <1>3, <1>4, FoldOfAppend
<1>6. ASSUME NEW k \in 0 .. Len(batch) - 1, k \in Same PROVE k + 1 \in Same
  <2>1. k + 1 \in 1 .. Len(batch) /\ k + 1 \in 0 .. Len(batch)
    BY <1>4, <1>6
  <2>2. Len(log) + (k + 1) - 1 = Len(log) + k /\ Len(other) + (k + 1) - 1 = Len(other) + k
    BY <1>4, <1>6
  <2>3. /\ rooms[Len(log) + (k + 1)] = Step(rooms[Len(log) + (k + 1) - 1], batch[k + 1])
        /\ others[Len(other) + (k + 1)] = Step(others[Len(other) + (k + 1) - 1], batch[k + 1])
    BY <1>0, <2>1
  <2>4. QED
    BY <1>6, <2>1, <2>2, <2>3
<1> HIDE DEF Same
<1>7. 0 .. Len(batch) \subseteq Same
  BY <1>4, <1>5, <1>6, InductionOnNat
<1>8. Len(batch) \in Same
  BY <1>4, <1>7
<1>9. QED
  BY <1>2, <1>3, <1>8, FoldOfAppend DEF Same

-----------------------------------------------------------------------------
(***************************************************************************)
(* Every room is sound: what an admissible action does to a sound room.    *)
(***************************************************************************)

IsAction(e) ==
  /\ e.type \in SnakeTypes \union AuctionTypes
  /\ e.team \in Teams /\ e.player \in Players /\ e.number \in Nat

Acquires(room, next, t, p) ==
  /\ CanAdd(room, t, p)
  /\ next.roster = [room.roster EXCEPT ![t] = @ \union {p}]

\* The three kinds of actions, by what they change.
Talks(room, next) ==
  next.roster = room.roster /\ next.spent = room.spent /\ next.consumed = room.consumed

Picks(room, next, e) ==
  /\ Mode = "SNAKE" /\ Acquires(room, next, e.team, e.player)
  /\ e.number \in OpenPicks(room) /\ PickOrder[e.number] = e.team
  /\ next.spent = room.spent
  /\ next.consumed = room.consumed \union {e.number}

Buys(room, next, e) ==
  /\ Mode = "AUCTION" /\ Acquires(room, next, e.team, e.player)
  /\ e.number <= LegalMaximum(room, e.team)
  /\ next.spent = [room.spent EXCEPT ![e.team] = @ + e.number]
  /\ next.consumed = room.consumed

\* What is on the block may change and nothing else.
OnBlock(room, p, t, n) == [room EXCEPT !.onBlock = p, !.bidder = t, !.bid = n]

\* A nomination or a bid changes the block alone: rosters, money and legality stay.
LEMMA BlockOnly ==
  ASSUME NEW room \in Rooms, NEW p \in Players \union {NoPlayer},
         NEW t \in Teams \union {NoTeam}, NEW n \in Nat
  PROVE  /\ OnBlock(room, p, t, n) \in Rooms
         /\ OnBlock(room, p, t, n).legal = room.legal
         /\ OnBlock(room, p, t, n).roster = room.roster
         /\ OnBlock(room, p, t, n).spent = room.spent
         /\ OnBlock(room, p, t, n).consumed = room.consumed
BY DEF OnBlock, Rooms

\* A pick, a keeper or a sale adds one player that was free and fits to one
\* roster; a nomination or a bid leaves rosters and money alone.
LEMMA ApplyKinds ==
  ASSUME NEW room \in Rooms, NEW e, IsAction(e), Admissible(room, e),
         NEW next, next = Apply(room, e)
  PROVE  /\ next \in Rooms /\ next.legal = room.legal
         /\ Talks(room, next) \/ Picks(room, next, e) \/ Buys(room, next, e)
<1>1. /\ e.team \in Teams /\ e.player \in Players /\ e.number \in Nat
      /\ e.type \in {"SNAKE_KEEPER_ASSIGNED", "SNAKE_PLAYER_SELECTED", "AUCTION_KEEPER_ASSIGNED",
                     "AUCTION_NOMINATION_STARTED", "AUCTION_BID_PLACED", "AUCTION_PLAYER_SOLD"}
  BY DEF IsAction, SnakeTypes, AuctionTypes
<1>2. CASE e.type \in SnakeTypes
  <2>1. CanPick(room, e)
    BY <1>2 DEF Admissible, CanKeep, CanNominate, CanBid, CanSell, SnakeTypes
  <2>2. next = Pick(room, e)
    BY <1>2 DEF Apply, SnakeTypes
  <2>3. /\ Mode = "SNAKE" /\ CanAdd(room, e.team, e.player)
        /\ e.number \in OpenPicks(room) /\ PickOrder[e.number] = e.team
        /\ e.number \in DOMAIN PickOrder
    BY <2>1 DEF CanPick, OpenPicks
  <2> DEFINE roster == [room.roster EXCEPT ![e.team] = @ \union {e.player}]
             consumed == room.consumed \union {e.number}
  <2>4. next = [room EXCEPT !.roster = roster, !.consumed = consumed]
    BY <2>2 DEF Pick, Rooms
  <2>5. roster \in [Teams -> SUBSET Players] /\ consumed \in SUBSET DOMAIN PickOrder
    BY <1>1, <2>3 DEF Rooms
  <2> HIDE DEF roster, consumed
  <2>6. /\ next \in Rooms /\ next.legal = room.legal /\ next.spent = room.spent
        /\ next.roster = roster /\ next.consumed = consumed
    BY <2>4, <2>5 DEF Rooms
  <2>7. QED
    BY <2>3, <2>6 DEF Picks, Acquires, roster, consumed
<1>3. CASE e.type = "AUCTION_NOMINATION_STARTED"
  <2>1. next = Nominate(room, e)
    BY <1>3 DEF Apply, SnakeTypes
  <2> DEFINE p == e.player
  <2>2. p \in Players /\ next = OnBlock(room, p, NoTeam, 0)
    BY <1>1, <2>1 DEF Nominate, OnBlock
  <2>3. p \in Players \union {NoPlayer} /\ NoTeam \in Teams \union {NoTeam} /\ 0 \in Nat
    BY <2>2
  <2> HIDE DEF p
  <2>4. /\ next \in Rooms /\ next.legal = room.legal /\ next.consumed = room.consumed
        /\ next.roster = room.roster /\ next.spent = room.spent
    BY <2>2, <2>3, BlockOnly
  <2>5. QED
    BY <2>4 DEF Talks
<1>4. CASE e.type = "AUCTION_BID_PLACED"
  <2>1. next = Bid(room, e)
    BY <1>4 DEF Apply, SnakeTypes
  <2>2. QED
    BY <1>1, <2>1 DEF Bid, Rooms, Talks
<1>5. CASE e.type \in {"AUCTION_KEEPER_ASSIGNED", "AUCTION_PLAYER_SOLD"}
  <2>1. \E least : CanBuy(room, e, least)
    BY <1>5 DEF Admissible, CanKeep, CanNominate, CanBid, CanSell, CanPick, SnakeTypes
  <2>2. Mode = "AUCTION" /\ e.number <= LegalMaximum(room, e.team) /\ CanAdd(room, e.team, e.player)
    BY <2>1 DEF CanBuy
  <2> DEFINE bought == Buy(room, e)
             roster == [room.roster EXCEPT ![e.team] = @ \union {e.player}]
             spent == [room.spent EXCEPT ![e.team] = @ + e.number]
  <2>3. bought = [room EXCEPT !.roster = roster, !.spent = spent]
    BY DEF Buy, Rooms
  <2>4. roster \in [Teams -> SUBSET Players] /\ spent \in [Teams -> Nat]
    BY <1>1 DEF Rooms
  <2>5. next = bought \/ next = ClearNomination(bought)
    BY <1>5 DEF Apply, SnakeTypes
  <2> HIDE DEF bought, roster, spent
  <2>6. /\ bought \in Rooms /\ bought.legal = room.legal /\ bought.consumed = room.consumed
        /\ bought.roster = roster /\ bought.spent = spent
    BY <2>3, <2>4 DEF Rooms
  <2>7. /\ next \in Rooms /\ next.legal = room.legal /\ next.consumed = room.consumed
        /\ next.roster = roster /\ next.spent = spent
    <3>1. CASE next = bought
      BY <2>6, <3>1
    <3>2. CASE next = ClearNomination(bought)
      <4>1. next = OnBlock(bought, NoPlayer, NoTeam, 0)
        BY <3>2 DEF ClearNomination, OnBlock
      <4>2. QED
        BY <2>6, <4>1, BlockOnly
    <3>3. QED
      BY <2>5, <3>1, <3>2
  <2>8. QED
    BY <2>2, <2>7 DEF Buys, Acquires, roster, spent
<1>6. QED
  BY <1>1, <1>2, <1>3, <1>4, <1>5 DEF SnakeTypes

\* If the matching leaves a slot for one more player, there is an open slot.
LEMMA OpenSlotLeft ==
  ASSUME NEW room, NEW t \in Teams, NEW p, CanRoster(room, t, p)
  PROVE  /\ IsFiniteSet(room.roster[t])
         /\ Cardinality(room.roster[t]) \in Nat
         /\ Cardinality(RosterSlots[t]) \in Nat
         /\ OpenSlots(room, t) >= 1
<1>1. PICK slotOf \in [room.roster[t] -> RosterSlots[t]],
           s \in RosterSlots[t] \intersect Eligible[p] :
        /\ IsAssignment(slotOf, room.roster[t])
        /\ \A q \in room.roster[t] : slotOf[q] # s
  BY DEF CanRoster
<1>2. slotOf \in Injection(room.roster[t], RosterSlots[t] \ {s})
  BY <1>1 DEF Injection, IsInjective, IsAssignment
<1>3. IsFiniteSet(RosterSlots[t])
  BY ConfigAssumption DEF ValidConfig
<1>4. /\ IsFiniteSet(RosterSlots[t] \ {s})
      /\ Cardinality(RosterSlots[t] \ {s}) = Cardinality(RosterSlots[t]) - 1
  BY <1>1, <1>3, FS_RemoveElement
<1>5. /\ IsFiniteSet(room.roster[t])
      /\ Cardinality(room.roster[t]) <= Cardinality(RosterSlots[t] \ {s})
  BY <1>2, <1>4, FS_Injection
<1>6. QED
  BY <1>3, <1>4, <1>5, FS_CardinalityType DEF OpenSlots

\* After an acquisition the buyer has one player more and one open slot fewer,
\* the others as many.
LEMMA AcquisitionSlots ==
  ASSUME NEW room \in Rooms, NEW next, NEW t \in Teams, NEW p \in Players,
         Acquires(room, next, t, p)
  PROVE  /\ OpenSlots(room, t) \in Nat \ {0}
         /\ IsFiniteSet(next.roster[t])
         /\ OpenSlots(next, t) = OpenSlots(room, t) - 1
         /\ Cardinality(room.roster[t]) \in Nat
         /\ Cardinality(next.roster[t]) = Cardinality(room.roster[t]) + 1
         /\ next.roster[t] = room.roster[t] \union {p}
         /\ \A u \in Teams : p \notin room.roster[u]
         /\ \A u \in Teams \ {t} : next.roster[u] = room.roster[u]
<1>1. (\A u \in Teams : p \notin room.roster[u]) /\ CanRoster(room, t, p)
  BY DEF Acquires, CanAdd, Drafted
<1>2. next.roster[t] = room.roster[t] \union {p}
  BY DEF Acquires, Rooms
<1>3. \A u \in Teams \ {t} : next.roster[u] = room.roster[u]
  BY DEF Acquires, Rooms
<1>4. /\ IsFiniteSet(room.roster[t])
      /\ Cardinality(room.roster[t]) \in Nat /\ Cardinality(RosterSlots[t]) \in Nat
      /\ OpenSlots(room, t) >= 1
  BY <1>1, OpenSlotLeft
<1>5. /\ IsFiniteSet(next.roster[t])
      /\ Cardinality(next.roster[t]) = Cardinality(room.roster[t]) + 1
  <2> DEFINE players == room.roster[t]
  <2>1. IsFiniteSet(players) /\ p \notin players
    BY <1>1, <1>4
  <2> HIDE DEF players
  <2>2. IsFiniteSet(players \union {p}) /\ Cardinality(players \union {p}) = Cardinality(players) + 1
    BY <2>1, FS_AddElement
  <2>3. QED
    BY <1>2, <2>2 DEF players
<1>6. OpenSlots(room, t) \in Nat \ {0} /\ OpenSlots(next, t) = OpenSlots(room, t) - 1
  BY <1>4, <1>5 DEF OpenSlots
<1>7. QED
  BY <1>1, <1>2, <1>3, <1>4, <1>5, <1>6

\* The slots the others have, and the one that was free, seat everybody.
LEMMA AcquisitionFits ==
  ASSUME NEW room \in Rooms, RostersFit(room), NEW next, NEW t \in Teams, NEW p \in Players,
         Acquires(room, next, t, p)
  PROVE  RostersFit(next)
<1>1. SUFFICES ASSUME NEW u \in Teams
               PROVE  \E slotOf \in [next.roster[u] -> RosterSlots[u]] :
                        IsAssignment(slotOf, next.roster[u])
  BY DEF RostersFit
<1>0. /\ next.roster[t] = room.roster[t] \union {p} /\ p \notin room.roster[t]
      /\ \A v \in Teams \ {t} : next.roster[v] = room.roster[v]
  <2>1. /\ next.roster[t] = room.roster[t] \union {p}
        /\ \A v \in Teams : p \notin room.roster[v]
        /\ \A v \in Teams \ {t} : next.roster[v] = room.roster[v]
    BY AcquisitionSlots
  <2>2. QED
    BY <2>1
<1>2. CASE u # t
  <2>1. next.roster[u] = room.roster[u]
    BY <1>0, <1>2
  <2>2. QED
    BY <2>1 DEF RostersFit
<1>3. CASE u = t
  <2>1. PICK slotOf \in [room.roster[t] -> RosterSlots[t]],
             s \in RosterSlots[t] \intersect Eligible[p] :
          /\ IsAssignment(slotOf, room.roster[t])
          /\ \A q \in room.roster[t] : slotOf[q] # s
    BY DEF Acquires, CanAdd, CanRoster
  <2> DEFINE seated == [q \in next.roster[t] |-> IF q = p THEN s ELSE slotOf[q]]
  <2>3. seated \in [next.roster[t] -> RosterSlots[t]]
    BY <1>0, <2>1
  <2>4. IsAssignment(seated, next.roster[t])
    BY <1>0, <2>1 DEF IsAssignment
  <2> HIDE DEF seated
  <2>5. QED
    BY <1>3, <2>3, <2>4
<1>4. QED
  BY <1>2, <1>3

\* Multiplication by the number of open slots, one slot at a time.
LEMMA OneSlotLess ==
  ASSUME NEW m \in Int, NEW k \in Int
  PROVE  m * k = m * (k - 1) + m
OBVIOUS

\* A price the reducer accepts leaves the reserve of the remaining slots intact.
LEMMA PriceKeepsReserve ==
  ASSUME NEW remaining \in Int, NEW open \in Nat \ {0}, NEW n \in Nat,
         MinimumBid \in Nat,
         remaining >= MinimumBid * open,
         n <= MaximumLegalBid(remaining, open)
  PROVE  remaining - n >= MinimumBid * (open - 1)
<1> DEFINE reserve == MinimumBid * (open - 1)
<1>1. reserve \in Int /\ remaining >= reserve + MinimumBid
  BY OneSlotLess
<1>2. n <= remaining - reserve
  BY <1>1 DEF MaximumLegalBid
<1>3. QED
  BY <1>1, <1>2

\* A pick is used with the player it brings to the team that owns it.
LEMMA PickFills ==
  ASSUME NEW room \in Rooms, PicksFilled(room), NEW e, IsAction(e), NEW next \in Rooms,
         Picks(room, next, e)
  PROVE  PicksFilled(next)
<1> DEFINE Used(r, t) == {n \in r.consumed : PickOrder[n] = t}
<1>1. SUFFICES ASSUME NEW t \in Teams
               PROVE  Cardinality(Used(next, t)) = Cardinality(next.roster[t])
  BY DEF PicksFilled
<1>2. /\ e.team \in Teams /\ e.player \in Players
      /\ e.number \notin room.consumed /\ PickOrder[e.number] = e.team
      /\ next.consumed = room.consumed \union {e.number}
      /\ Acquires(room, next, e.team, e.player)
  BY DEF Picks, OpenPicks, IsAction
<1>3. IsFiniteSet(room.consumed)
  <2>1. PickOrder \in Seq(Teams)
    BY ConfigAssumption DEF ValidConfig, Picks
  <2>2. room.consumed \subseteq 1 .. Len(PickOrder) /\ Len(PickOrder) \in Nat
    BY <2>1, SMTT(30) DEF Rooms
  <2>3. IsFiniteSet(1 .. Len(PickOrder))
    BY <2>2, FS_Interval
  <2>4. QED
    BY <2>2, <2>3, FS_Subset
<1>4. Cardinality(Used(room, t)) = Cardinality(room.roster[t])
  BY DEF PicksFilled, Picks
<1> DEFINE u == e.team
           p == e.player
<1>0. /\ Cardinality(next.roster[u]) = Cardinality(room.roster[u]) + 1
      /\ \A v \in Teams \ {u} : next.roster[v] = room.roster[v]
  <2>1. u \in Teams /\ p \in Players /\ Acquires(room, next, u, p)
    BY <1>2
  <2> HIDE DEF u, p
  <2>2. QED
    BY <2>1, AcquisitionSlots
<1>5. CASE t = e.team
  <2>1. Used(next, t) = Used(room, t) \union {e.number} /\ e.number \notin Used(room, t)
    BY <1>2, <1>5
  <2>2. IsFiniteSet(Used(room, t))
    BY <1>3, FS_Subset
  <2>3. Cardinality(Used(next, t)) = Cardinality(Used(room, t)) + 1
    BY <2>1, <2>2, FS_AddElement
  <2>4. QED
    BY <1>0, <1>4, <1>5, <2>3
<1>6. CASE t # e.team
  <2>1. Used(next, t) = Used(room, t)
    BY <1>2, <1>6
  <2>2. QED
    BY <1>0, <1>4, <1>6, <2>1
<1>7. QED
  BY <1>5, <1>6

\* A buyer keeps the reserve of the slots it has left, and the others theirs.
LEMMA PurchaseKeepsReserve ==
  ASSUME NEW room \in Rooms, ReserveKept(room), NEW e, IsAction(e), NEW next \in Rooms,
         Buys(room, next, e)
  PROVE  ReserveKept(next)
<1> DEFINE t == e.team
           n == e.number
<1>1. /\ Mode = "AUCTION" /\ t \in Teams /\ e.player \in Players /\ n \in Nat
      /\ Acquires(room, next, t, e.player) /\ n <= LegalMaximum(room, t)
      /\ next.spent = [room.spent EXCEPT ![t] = @ + n]
  BY DEF Buys, IsAction
<1>2. MinimumBid \in Nat /\ Budget \in [Teams -> Nat]
  BY <1>1, ConfigAssumption DEF ValidConfig
<1> HIDE DEF t, n
<1>3. ASSUME NEW u \in Teams
      PROVE  Remaining(next, u) >= MinimumBid * OpenSlots(next, u)
  <2>1. Remaining(room, u) \in Int /\ Remaining(room, u) >= MinimumBid * OpenSlots(room, u)
    BY <1>1, <1>2 DEF ReserveKept, Remaining, Rooms
  <2>2. CASE u = t
    <3>1. Remaining(next, t) = Remaining(room, t) - n
      BY <1>1, <1>2 DEF Remaining, Rooms
    <3>2. OpenSlots(room, t) \in Nat \ {0} /\ OpenSlots(next, t) = OpenSlots(room, t) - 1
      BY <1>1, AcquisitionSlots
    <3>3. QED
      BY <1>1, <1>2, <2>1, <2>2, <3>1, <3>2, PriceKeepsReserve DEF LegalMaximum
  <2>3. CASE u # t
    <3>1. Remaining(next, u) = Remaining(room, u) /\ OpenSlots(next, u) = OpenSlots(room, u)
      BY <1>1, <2>3, AcquisitionSlots DEF Remaining, OpenSlots, Rooms
    <3>2. QED
      BY <2>1, <3>1
  <2>4. QED
    BY <2>2, <2>3
<1>4. QED
  BY <1>3 DEF ReserveKept

\* A room before its first event is sound.
LEMMA EmptyRoomIsSound == SoundRoom(EmptyRoom) /\ EmptyRoom.legal = TRUE
<1>1. EmptyRoom \in Rooms /\ EmptyRoom.legal = TRUE
  BY DEF EmptyRoom, Rooms
<1>2. ASSUME NEW t \in Teams
      PROVE  /\ EmptyRoom.roster[t] = {} /\ IsFiniteSet(EmptyRoom.roster[t])
             /\ Cardinality(EmptyRoom.roster[t]) = 0
             /\ OpenSlots(EmptyRoom, t) = Cardinality(RosterSlots[t])
             /\ Cardinality(RosterSlots[t]) \in Nat
  <2>1. EmptyRoom.roster[t] = {}
    BY DEF EmptyRoom
  <2>2. Cardinality(RosterSlots[t]) \in Nat
    BY ConfigAssumption, FS_CardinalityType DEF ValidConfig
  <2>3. QED
    BY <2>1, <2>2, FS_EmptySet DEF OpenSlots
<1>3. DisjointRosters(EmptyRoom) /\ WithinSlots(EmptyRoom)
  BY <1>2 DEF DisjointRosters, WithinSlots
<1>4. RostersFit(EmptyRoom)
  <2>1. SUFFICES ASSUME NEW t \in Teams
                 PROVE  \E slotOf \in [EmptyRoom.roster[t] -> RosterSlots[t]] :
                          IsAssignment(slotOf, EmptyRoom.roster[t])
    BY DEF RostersFit
  <2> DEFINE nobody == [q \in {} |-> q]
  <2>2. nobody \in [{} -> RosterSlots[t]] /\ IsAssignment(nobody, {})
    BY DEF IsAssignment
  <2> HIDE DEF nobody
  <2>3. QED
    BY <1>2, <2>2
<1>5. ReserveKept(EmptyRoom)
  <2>1. SUFFICES ASSUME Mode = "AUCTION", NEW t \in Teams
                 PROVE  Remaining(EmptyRoom, t) >= MinimumBid * OpenSlots(EmptyRoom, t)
    BY DEF ReserveKept
  <2>2. Remaining(EmptyRoom, t) = Budget[t]
    BY <2>1, ConfigAssumption DEF EmptyRoom, Remaining, ValidConfig
  <2>3. QED
    BY <1>2, <2>1, <2>2, ConfigAssumption DEF ValidConfig
<1>6. PicksFilled(EmptyRoom)
  <2>1. \A t : {n \in EmptyRoom.consumed : PickOrder[n] = t} = {}
    BY DEF EmptyRoom
  <2>2. QED
    BY <1>2, <2>1, FS_EmptySet DEF PicksFilled
<1>7. QED
  BY <1>1, <1>3, <1>4, <1>5, <1>6 DEF SoundRoom

\* An admissible action leaves a sound room sound.
LEMMA ApplyKeepsSound ==
  ASSUME NEW room, SoundRoom(room), NEW e, IsAction(e), Admissible(room, e)
  PROVE  SoundRoom(Apply(room, e)) /\ Apply(room, e).legal = room.legal
<1> DEFINE next == Apply(room, e)
<1>1. /\ room \in Rooms /\ DisjointRosters(room) /\ RostersFit(room) /\ WithinSlots(room)
      /\ ReserveKept(room) /\ PicksFilled(room)
  BY DEF SoundRoom
<1>2. /\ next \in Rooms /\ next.legal = room.legal
      /\ Talks(room, next) \/ Picks(room, next, e) \/ Buys(room, next, e)
  BY <1>1, ApplyKinds
<1> HIDE DEF next
<1>3. CASE Talks(room, next)
  <2>1. /\ DisjointRosters(next) /\ RostersFit(next)
    BY <1>1, <1>3 DEF Talks, DisjointRosters, RostersFit
  <2>2. WithinSlots(next) /\ ReserveKept(next) /\ PicksFilled(next)
    BY <1>1, <1>3 DEF Talks, WithinSlots, ReserveKept, PicksFilled, OpenSlots, Remaining
  <2>3. QED
    BY <1>2, <2>1, <2>2 DEF SoundRoom, next
<1>4. ASSUME Acquires(room, next, e.team, e.player)
      PROVE  DisjointRosters(next) /\ RostersFit(next) /\ WithinSlots(next)
  <2> DEFINE t == e.team
             p == e.player
  <2>0. t \in Teams /\ p \in Players /\ Acquires(room, next, t, p)
    BY <1>4 DEF IsAction
  <2> HIDE DEF t, p
  <2>1. /\ OpenSlots(room, t) \in Nat \ {0} /\ OpenSlots(next, t) = OpenSlots(room, t) - 1
        /\ IsFiniteSet(next.roster[t]) /\ next.roster[t] = room.roster[t] \union {p}
        /\ \A u \in Teams : p \notin room.roster[u]
        /\ \A u \in Teams \ {t} : next.roster[u] = room.roster[u]
    BY <1>1, <2>0, AcquisitionSlots
  <2>2. DisjointRosters(next)
    <3>1. SUFFICES ASSUME NEW u \in Teams, NEW v \in Teams, u # v
                   PROVE  next.roster[u] \intersect next.roster[v] = {}
      BY DEF DisjointRosters
    <3>2. room.roster[u] \intersect room.roster[v] = {}
      BY <1>1, <3>1 DEF DisjointRosters
    <3>3. QED
      BY <2>1, <3>1, <3>2
  <2>3. WithinSlots(next)
    <3>1. SUFFICES ASSUME NEW u \in Teams
                   PROVE  IsFiniteSet(next.roster[u]) /\ OpenSlots(next, u) >= 0
      BY DEF WithinSlots
    <3>2. CASE u = t
      <4>1. IsFiniteSet(next.roster[t]) /\ OpenSlots(next, t) >= 0
        BY <2>1
      <4>2. QED
        BY <3>2, <4>1
    <3>3. CASE u # t
      <4>1. next.roster[u] = room.roster[u]
        BY <2>1, <3>3
      <4>2. QED
        BY <1>1, <4>1 DEF WithinSlots, OpenSlots
    <3>4. QED
      BY <3>2, <3>3
  <2>4. QED
    BY <1>1, <2>0, <2>2, <2>3, AcquisitionFits
<1>5. CASE Picks(room, next, e)
  <2>1. PicksFilled(next) /\ Mode # "AUCTION" /\ Acquires(room, next, e.team, e.player)
    BY <1>1, <1>2, <1>5, PickFills DEF Picks
  <2>2. QED
    BY <1>2, <1>4, <2>1 DEF SoundRoom, ReserveKept, next
<1>6. CASE Buys(room, next, e)
  <2>1. ReserveKept(next) /\ Mode # "SNAKE" /\ Acquires(room, next, e.team, e.player)
    BY <1>1, <1>2, <1>6, PurchaseKeepsReserve DEF Buys
  <2>2. QED
    BY <1>2, <1>4, <2>1 DEF SoundRoom, PicksFilled, next
<1>7. QED
  BY <1>2, <1>3, <1>5, <1>6

\* A step of the replay keeps a room sound, and never makes an illegal room legal.
LEMMA StepKeepsSound ==
  ASSUME NEW room, SoundRoom(room), NEW e, IsAction(e)
  PROVE  SoundRoom(Step(room, e)) /\ (Step(room, e).legal => room.legal)
<1>1. CASE room.legal /\ Admissible(room, e)
  BY <1>1, ApplyKeepsSound DEF Step
<1>2. CASE ~(room.legal /\ Admissible(room, e))
  <2> DEFINE next == [room EXCEPT !.legal = FALSE]
  <2>1. Step(room, e) = next
    BY <1>2 DEF Step
  <2>2. room \in Rooms
    BY DEF SoundRoom
  <2>3. /\ next \in Rooms /\ next.legal = FALSE /\ next.roster = room.roster
        /\ next.spent = room.spent /\ next.consumed = room.consumed
    BY <2>2 DEF Rooms
  <2> HIDE DEF next
  <2>4. SoundRoom(next)
    BY <2>3 DEF SoundRoom, DisjointRosters, RostersFit, WithinSlots, ReserveKept,
                PicksFilled, OpenSlots, Remaining
  <2>5. QED
    BY <2>1, <2>3, <2>4
<1>3. QED
  BY <1>1, <1>2

OfEvents(log) == \A i \in DOMAIN log : IsRevert(log[i]) \/ IsAction(log[i])

\* Every room of a fold is sound, and a legal room had only legal ones before it.
LEMMA FoldIsSound ==
  ASSUME NEW S, NEW log \in Seq(S), OfEvents(log), NEW rooms, FoldsTo(log, rooms)
  PROVE  /\ \A n \in 0 .. Len(log) : SoundRoom(rooms[n])
         /\ rooms[0].legal = TRUE
         /\ \A n \in 1 .. Len(log) : rooms[n].legal => rooms[n - 1].legal
<1> DEFINE Good(n) == SoundRoom(rooms[n]) /\ (n > 0 => (rooms[n].legal => rooms[n - 1].legal))
           Sound == {n \in 0 .. Len(log) : Good(n)}
<1>1. Len(log) \in Nat
  OBVIOUS
<1>2. rooms[0] = EmptyRoom
  BY <1>1 DEF FoldsTo
<1>3. 0 \in Sound
  BY <1>1, <1>2, EmptyRoomIsSound
<1>4. ASSUME NEW n \in 0 .. Len(log) - 1, n \in Sound PROVE n + 1 \in Sound
  <2>1. n + 1 \in 0 .. Len(log) /\ n + 1 \in DOMAIN log /\ n + 1 # 0 /\ (n + 1) - 1 = n
    BY <1>1, <1>4
  <2>2. rooms[n + 1] = After(log, rooms[n], n + 1)
    BY <2>1 DEF FoldsTo
  <2>3. SoundRoom(rooms[n])
    BY <1>4
  <2>4. SoundRoom(rooms[n + 1]) /\ (rooms[n + 1].legal => rooms[n].legal)
    <3>1. CASE n + 1 \in ActiveActions(log)
      <4>1. IsAction(log[n + 1]) /\ rooms[n + 1] = Step(rooms[n], log[n + 1])
        BY <2>1, <2>2, <3>1 DEF OfEvents, ActiveActions, After
      <4>2. QED
        BY <2>3, <4>1, StepKeepsSound
    <3>2. CASE n + 1 \notin ActiveActions(log)
      BY <2>2, <2>3, <3>2 DEF After
    <3>3. QED
      BY <3>1, <3>2
  <2> HIDE DEF Good
  <2>5. QED
    BY <2>1, <2>4 DEF Good
<1> HIDE DEF Sound
<1>5. 0 .. Len(log) \subseteq Sound
  BY <1>1, <1>3, <1>4, InductionOnNat
<1>6. QED
  BY <1>1, <1>2, <1>5, EmptyRoomIsSound DEF Sound

\* Whatever the log holds, legal or not, undone or corrected in any order, the
\* room reduceDraft ends in is one a draft board may show.
THEOREM EveryRoomIsSound ==
  ASSUME NEW S, NEW log \in Seq(S), OfEvents(log)
  PROVE  SoundRoom(Reduce(log))
<1>1. PICK rooms : FoldsTo(log, rooms)
  BY FoldExists
<1>2. Len(log) \in 0 .. Len(log)
  OBVIOUS
<1>3. QED
  BY <1>1, <1>2, FoldIsSound, ReduceIsLastRoom

-----------------------------------------------------------------------------
(***************************************************************************)
(* Whose picks the players of a snake draft are.                           *)
(***************************************************************************)

\* The picks and keepers that survive among the first n events, by position.
PicksOf(log, n) == {i \in ActiveActions(log) : i <= n}

\* The room holds those picks and nothing else, each on the team that owns it,
\* and no two of them are of one overall pick or of one player.
HoldsPicks(room, log, picks) ==
  /\ room.consumed = {log[i].number : i \in picks}
  /\ \A t \in Teams :
       room.roster[t] = {log[i].player : i \in {j \in picks : log[j].team = t}}
  /\ \A i \in picks : log[i].team \in Teams /\ PickOrder[log[i].number] = log[i].team
  /\ \A i, j \in picks :
       i # j => log[i].number # log[j].number /\ log[i].player # log[j].player

\* One more pick: its number and its player are new, and go to its team.
LEMMA PickIsHeld ==
  ASSUME Mode = "SNAKE", NEW room \in Rooms, NEW log, NEW picks, NEW i, i \notin picks,
         HoldsPicks(room, log, picks), IsAction(log[i]), Admissible(room, log[i])
  PROVE  HoldsPicks(Apply(room, log[i]), log, picks \union {i})
<1> DEFINE e == log[i]
           more == picks \union {i}
<1>1. CanPick(room, e)
  <2>1. CanKeep(room, e) \/ CanNominate(room, e) \/ CanBid(room, e) \/ CanSell(room, e)
          => Mode = "AUCTION"
    BY DEF CanKeep, CanNominate, CanBid, CanSell, CanBuy
  <2>2. ~(Mode = "AUCTION")
    OBVIOUS
  <2>3. QED
    BY <2>1, <2>2 DEF Admissible
<1>2. /\ e.number \in DOMAIN PickOrder \ room.consumed
      /\ PickOrder[e.number] = e.team /\ e.team \in Teams
      /\ e.player \notin Drafted(room) /\ e.type \in SnakeTypes
  BY <1>1 DEF CanPick, CanAdd, OpenPicks, IsAction
<1>3. Apply(room, e) = Pick(room, e)
  BY <1>2, SMT DEF Apply, SnakeTypes
<1>4. /\ Apply(room, e).consumed = room.consumed \union {e.number}
      /\ Apply(room, e).roster =
           [room.roster EXCEPT ![e.team] = room.roster[e.team] \union {e.player}]
      /\ DOMAIN room.roster = Teams
  BY <1>3 DEF Pick, Rooms
<1>5. ASSUME NEW j \in picks
      PROVE  /\ log[j].number # e.number /\ log[j].player # e.player
             /\ log[j].team \in Teams /\ PickOrder[log[j].number] = log[j].team
  <2>1. log[j].number \in room.consumed /\ log[j].team \in Teams
        /\ PickOrder[log[j].number] = log[j].team
    BY <1>5 DEF HoldsPicks
  <2>2. log[j].player \in room.roster[log[j].team]
    BY <1>5, <2>1 DEF HoldsPicks
  <2>3. log[j].player \in Drafted(room)
    BY <2>1, <2>2 DEF Drafted
  <2>4. QED
    BY <1>2, <2>1, <2>3
<1> HIDE DEF e
<1>6. Apply(room, e).consumed = {log[j].number : j \in more}
  <2>1. room.consumed = {log[j].number : j \in picks}
    BY DEF HoldsPicks
  <2>2. QED
    BY <1>4, <2>1 DEF e
<1>7. ASSUME NEW t \in Teams
      PROVE  Apply(room, e).roster[t] = {log[j].player : j \in {k \in more : log[k].team = t}}
  <2>1. room.roster[t] = {log[j].player : j \in {k \in picks : log[k].team = t}}
    BY DEF HoldsPicks
  <2>2. CASE t = e.team
    <3>1. Apply(room, e).roster[t] = room.roster[t] \union {e.player}
      BY <1>4, <2>2
    <3>2. {k \in more : log[k].team = t} = {k \in picks : log[k].team = t} \union {i}
      BY <2>2 DEF e
    <3>3. QED
      BY <2>1, <3>1, <3>2 DEF e
  <2>3. CASE t # e.team
    <3>1. Apply(room, e).roster[t] = room.roster[t]
      BY <1>4, <2>3
    <3>2. {k \in more : log[k].team = t} = {k \in picks : log[k].team = t}
      BY <2>3 DEF e
    <3>3. QED
      BY <2>1, <3>1, <3>2
  <2>4. QED
    BY <2>2, <2>3
<1>8. \A j \in more : log[j].team \in Teams /\ PickOrder[log[j].number] = log[j].team
  BY <1>2, <1>5 DEF e
<1>9. ASSUME NEW j \in more, NEW k \in more, j # k
      PROVE  log[j].number # log[k].number /\ log[j].player # log[k].player
  <2>1. CASE j \in picks /\ k \in picks
    BY <1>9, <2>1 DEF HoldsPicks
  <2>2. CASE j = i \/ k = i
    BY <1>5, <1>9, <2>2 DEF e
  <2>3. QED
    BY <2>1, <2>2
<1> HIDE DEF more
<1>10. HoldsPicks(Apply(room, e), log, more)
  BY <1>6, <1>7, <1>8, <1>9 DEF HoldsPicks
<1>11. QED
  BY <1>10 DEF e, more

\* The room after each prefix of a legal fold holds the picks of that prefix.
LEMMA FoldHoldsPicks ==
  ASSUME Mode = "SNAKE", NEW S, NEW log \in Seq(S), OfEvents(log),
         NEW rooms, FoldsTo(log, rooms)
  PROVE  \A n \in 0 .. Len(log) :
           rooms[n].legal => HoldsPicks(rooms[n], log, PicksOf(log, n))
<1> DEFINE Good(n) == rooms[n].legal => HoldsPicks(rooms[n], log, PicksOf(log, n))
           Held == {n \in 0 .. Len(log) : Good(n)}
<1>1. Len(log) \in Nat /\ ActiveActions(log) \subseteq 1 .. Len(log)
  BY DEF ActiveActions
<1>2. 0 \in Held
  <2>1. rooms[0] = EmptyRoom
    BY <1>1 DEF FoldsTo
  <2>2. PicksOf(log, 0) = {}
    BY <1>1, SMT DEF PicksOf
  <2>3. HoldsPicks(EmptyRoom, log, {})
    BY DEF HoldsPicks, EmptyRoom
  <2>4. Good(0)
    BY <2>1, <2>2, <2>3
  <2> HIDE DEF Good
  <2>5. QED
    BY <1>1, <2>4
<1>3. ASSUME NEW n \in 0 .. Len(log) - 1, n \in Held PROVE n + 1 \in Held
  <2>1. n + 1 \in 1 .. Len(log) /\ n \in 0 .. Len(log) /\ n + 1 \in 0 .. Len(log)
        /\ (n + 1) - 1 = n
    BY <1>1, <1>3
  <2>2. SUFFICES ASSUME rooms[n + 1].legal
                 PROVE  HoldsPicks(rooms[n + 1], log, PicksOf(log, n + 1))
    BY <2>1
  <2>3. rooms[n].legal /\ rooms[n] \in Rooms
    BY <2>1, <2>2, FoldIsSound DEF SoundRoom
  <2>4. HoldsPicks(rooms[n], log, PicksOf(log, n))
    BY <1>3, <2>3
  <2>5. rooms[n + 1] = After(log, rooms[n], n + 1)
    BY <2>1 DEF FoldsTo
  <2>6. CASE n + 1 \in ActiveActions(log)
    <3>1. IsAction(log[n + 1])
      BY <2>1, <2>6 DEF OfEvents, ActiveActions
    <3>2. rooms[n + 1] = Step(rooms[n], log[n + 1])
      BY <2>5, <2>6 DEF After
    <3>3. Admissible(rooms[n], log[n + 1]) /\ rooms[n + 1] = Apply(rooms[n], log[n + 1])
      <4>1. [rooms[n] EXCEPT !.legal = FALSE].legal = FALSE
        BY <2>3 DEF Rooms
      <4>2. QED
        BY <2>2, <3>2, <4>1 DEF Step
    <3>4. n + 1 \notin PicksOf(log, n)
      BY <2>1, SMT DEF PicksOf
    <3>5. \A i \in ActiveActions(log) : i <= n + 1 <=> i <= n \/ i = n + 1
      BY <1>1, <2>1, SMT
    <3>6. PicksOf(log, n + 1) = PicksOf(log, n) \union {n + 1}
      BY <2>1, <2>6, <3>5 DEF PicksOf
    <3>7. HoldsPicks(Apply(rooms[n], log[n + 1]), log, PicksOf(log, n) \union {n + 1})
      BY <2>3, <2>4, <3>1, <3>3, <3>4, PickIsHeld
    <3>8. QED
      BY <3>3, <3>6, <3>7
  <2>7. CASE n + 1 \notin ActiveActions(log)
    <3>1. rooms[n + 1] = rooms[n]
      BY <2>5, <2>7 DEF After
    <3>2. PicksOf(log, n + 1) = PicksOf(log, n)
      BY <1>1, <2>1, <2>7 DEF PicksOf
    <3>3. QED
      BY <2>4, <3>1, <3>2
  <2>8. QED
    BY <2>6, <2>7
<1> HIDE DEF Held
<1>4. 0 .. Len(log) \subseteq Held
  BY <1>1, <1>2, <1>3, InductionOnNat
<1>5. QED
  BY <1>4 DEF Held

\* In the room of a legal snake draft, whatever was undone or corrected on the way,
\* the players of a team are exactly those of the picks and keepers that survive of
\* it, each at an overall pick that the draft order gives to that team, and the
\* surviving picks have different numbers and different players.
THEOREM EveryPlayerHasAPick ==
  ASSUME Mode = "SNAKE", NEW S, NEW log \in Seq(S), OfEvents(log), Reduce(log).legal
  PROVE  HoldsPicks(Reduce(log), log, ActiveActions(log))
<1>1. PICK rooms : FoldsTo(log, rooms)
  BY FoldExists
<1>2. Len(log) \in 0 .. Len(log) /\ Reduce(log) = rooms[Len(log)]
  BY <1>1, ReduceIsLastRoom
<1>3. PicksOf(log, Len(log)) = ActiveActions(log)
  BY DEF PicksOf, ActiveActions
<1>4. QED
  BY <1>1, <1>2, <1>3, FoldHoldsPicks

-----------------------------------------------------------------------------
(***************************************************************************)
(* Undoing the latest action.                                              *)
(***************************************************************************)

\* The position of the latest action that counts.
LEMMA LatestIsLast ==
  ASSUME NEW S, NEW log \in Seq(S), LatestUndoable(log) # 0
  PROVE  /\ LatestUndoable(log) \in ActiveActions(log)
         /\ \A i \in ActiveActions(log) : i <= LatestUndoable(log)
<1>1. ActiveActions(log) # {} /\ LatestUndoable(log) = Max(ActiveActions(log))
  BY DEF LatestUndoable
<1>2. Len(log) \in Nat /\ ActiveActions(log) \in SUBSET (0 .. Len(log))
  BY DEF ActiveActions
<1>3. QED
  BY <1>1, <1>2, MaxIsGreatest

\* Reverting the latest action leads back to the room before it.
LEMMA UndoOfTheLatest ==
  ASSUME NEW S, NEW log \in Seq(S), OfEvents(log), NEW revert \in S,
         LatestUndoable(log) # 0, IsRevert(revert),
         revert.target = log[LatestUndoable(log)].id,
         \A i, j \in DOMAIN log : log[i].id = log[j].id => i = j,
         NEW rooms, FoldsTo(log, rooms)
  PROVE  Reduce(Append(log, revert)) = rooms[LatestUndoable(log) - 1]
<1> DEFINE p == LatestUndoable(log)
           longer == Append(log, revert)
<1>1. p \in ActiveActions(log) /\ \A i \in ActiveActions(log) : i <= p
  BY LatestIsLast
<1>2. /\ longer \in Seq(S) /\ Len(longer) = Len(log) + 1 /\ Len(log) \in Nat
      /\ DOMAIN log = 1 .. Len(log) /\ DOMAIN longer = 1 .. Len(longer)
      /\ longer[Len(log) + 1] = revert
      /\ \A i \in DOMAIN log : longer[i] = log[i]
  OBVIOUS
<1>3. p \in DOMAIN log /\ ~IsRevert(log[p]) /\ ActiveActions(log) \subseteq DOMAIN log
  BY <1>1 DEF ActiveActions
<1> HIDE DEF p, longer
<1>4. /\ IsActive(longer)[p] = FALSE
      /\ \A i \in DOMAIN log \ {p} : IsActive(longer)[i] = IsActive(log)[i]
  <2>1. /\ p \in DOMAIN log /\ revert \in S /\ IsRevert(revert) /\ ~IsRevert(log[p])
        /\ revert.target = log[p].id /\ \A i \in DOMAIN log : log[i].id = log[p].id => i = p
    BY <1>3 DEF p
  <2>2. QED
    BY <2>1, ActivityOfUndo, ZenonT(40) DEF longer
<1>5. \A i \in DOMAIN longer : i \in ActiveActions(longer) <=> i \in ActiveActions(log) \ {p}
  <2>1. ASSUME NEW i \in DOMAIN log
        PROVE  i \in ActiveActions(longer) <=> i \in ActiveActions(log) \ {p}
    BY <1>2, <1>4 DEF ActiveActions
  <2>2. Len(log) + 1 \notin ActiveActions(longer) /\ Len(log) + 1 \notin ActiveActions(log)
    BY <1>2, <1>3 DEF ActiveActions
  <2>3. QED
    BY <1>2, <2>1, <2>2
<1>6. PICK undone : FoldsTo(longer, undone)
  BY <1>2, FoldExists
<1> DEFINE Same == {n \in 0 .. Len(log) + 1 :
                      undone[n] = IF n < p THEN rooms[n] ELSE rooms[p - 1]}
<1>7. 0 \in Same
  BY <1>2, <1>3, <1>6 DEF FoldsTo
<1>8. ASSUME NEW n \in 0 .. Len(log), n \in Same PROVE n + 1 \in Same
  <2>1. /\ n + 1 \in 0 .. Len(log) + 1 /\ n + 1 \in DOMAIN longer /\ n + 1 # 0
        /\ (n + 1) - 1 = n /\ n \in Nat /\ p \in Nat /\ p > 0
    BY <1>2, <1>3, <1>8
  <2>2. undone[n + 1] = After(longer, undone[n], n + 1)
    BY <1>2, <1>6, <2>1 DEF FoldsTo
  <2>3. CASE n + 1 < p
    <3>1. n + 1 \in DOMAIN log /\ n + 1 \in 0 .. Len(log) /\ n < p
      BY <1>2, <1>3, <2>1, <2>3
    <3>2. rooms[n + 1] = After(log, rooms[n], n + 1)
      BY <2>1, <3>1 DEF FoldsTo
    <3>3. undone[n] = rooms[n]
      BY <1>8, <3>1
    <3>4. After(longer, rooms[n], n + 1) = After(log, rooms[n], n + 1)
      BY <1>2, <1>5, <2>1, <2>3, <3>1 DEF After
    <3>5. QED
      BY <2>1, <2>2, <2>3, <3>2, <3>3, <3>4
  <2>4. CASE ~(n + 1 < p)
    <3>1. undone[n] = rooms[p - 1]
      BY <1>8, <2>1, <2>4
    <3>2. n + 1 \notin ActiveActions(longer)
      BY <1>1, <1>5, <2>1, <2>4 DEF p
    <3>3. QED
      BY <2>1, <2>2, <2>4, <3>1, <3>2 DEF After
  <2>5. QED
    BY <2>3, <2>4
<1> HIDE DEF Same
<1>9. 0 .. Len(log) + 1 \subseteq Same
  <2>1. Len(log) + 1 \in Nat /\ 0 .. (Len(log) + 1) - 1 = 0 .. Len(log)
    BY <1>2
  <2>2. QED
    BY <1>7, <1>8, <2>1, InductionOnNat
<1>10. Reduce(longer) = undone[Len(log) + 1]
  BY <1>2, <1>6, ReduceIsLastRoom
<1>11. Len(log) + 1 \in Same /\ ~(Len(log) + 1 < p)
  BY <1>2, <1>3, <1>9
<1>12. QED
  BY <1>10, <1>11 DEF Same, p, longer

\* Whatever the log is, if it reduces its latest action can be undone.
THEOREM LatestAlwaysUndoable ==
  ASSUME NEW S, NEW log \in Seq(S), OfEvents(log), Legal(log), NEW revert \in S,
         LatestUndoable(log) # 0, IsRevert(revert),
         revert.target = log[LatestUndoable(log)].id,
         \A i \in DOMAIN log : log[i].id # revert.id
  PROVE  Legal(Append(log, revert))
<1> DEFINE p == LatestUndoable(log)
           longer == Append(log, revert)
<1>1. /\ \A i, j \in DOMAIN log : log[i].id = log[j].id => i = j
      /\ \A i \in DOMAIN log :
           IsRevert(log[i]) => \E j \in 1 .. i - 1 : log[j].id = log[i].target
      /\ Reduce(log).legal
  BY DEF Legal, WellFormed
<1>2. p \in DOMAIN log
  BY LatestIsLast DEF ActiveActions
<1>3. PICK rooms : FoldsTo(log, rooms)
  BY FoldExists
<1>4. Reduce(longer) = rooms[p - 1] /\ Reduce(log) = rooms[Len(log)]
  BY <1>1, <1>3, UndoOfTheLatest, ReduceIsLastRoom
<1>5. /\ longer \in Seq(S) /\ Len(longer) = Len(log) + 1 /\ Len(log) \in Nat
      /\ DOMAIN log = 1 .. Len(log) /\ DOMAIN longer = 1 .. Len(longer)
      /\ longer[Len(log) + 1] = revert
      /\ \A i \in DOMAIN log : longer[i] = log[i]
  OBVIOUS
<1> HIDE DEF p, longer
<1>6. rooms[p - 1].legal
  <2> DEFINE Back == {k \in 0 .. Len(log) : rooms[Len(log) - k].legal}
  <2>1. 0 \in Back
    BY <1>1, <1>4, <1>5
  <2>2. ASSUME NEW k \in 0 .. Len(log) - 1, k \in Back PROVE k + 1 \in Back
    <3>1. Len(log) - k \in 1 .. Len(log) /\ (Len(log) - k) - 1 = Len(log) - (k + 1)
      BY <1>5, <2>2
    <3>2. rooms[Len(log) - k].legal
      BY <2>2
    <3>3. rooms[(Len(log) - k) - 1].legal
      BY <1>3, <3>1, <3>2, FoldIsSound
    <3>4. QED
      BY <1>5, <2>2, <3>1, <3>3
  <2> HIDE DEF Back
  <2>3. 0 .. Len(log) \subseteq Back
    BY <1>5, <2>1, <2>2, InductionOnNat
  <2>4. /\ Len(log) - (p - 1) \in 0 .. Len(log)
        /\ Len(log) - (Len(log) - (p - 1)) = p - 1
    BY <1>2, <1>5
  <2>5. QED
    BY <2>3, <2>4 DEF Back
<1>7. WellFormed(longer)
  <2>1. ASSUME NEW i \in DOMAIN longer, NEW j \in DOMAIN longer, longer[i].id = longer[j].id
        PROVE  i = j
    <3>1. \A k \in DOMAIN longer : k \in DOMAIN log \/ k = Len(log) + 1
      BY <1>5
    <3>2. QED
      BY <1>1, <1>5, <2>1, <3>1
  <2>2. ASSUME NEW i \in DOMAIN longer, IsRevert(longer[i])
        PROVE  \E j \in 1 .. i - 1 : longer[j].id = longer[i].target
    <3>1. CASE i \in DOMAIN log
      <4>1. PICK j \in 1 .. i - 1 : log[j].id = log[i].target
        BY <1>1, <1>5, <2>2, <3>1
      <4>2. j \in DOMAIN log
        BY <1>5, <3>1
      <4>3. QED
        BY <1>5, <3>1, <4>1, <4>2
    <3>2. CASE i = Len(log) + 1
      <4>1. p \in 1 .. i - 1 /\ longer[p].id = longer[i].target
        BY <1>2, <1>5, <3>2 DEF p
      <4>2. QED
        BY <4>1
    <3>3. QED
      BY <1>5, <3>1, <3>2
  <2>3. QED
    BY <2>1, <2>2 DEF WellFormed
<1>8. QED
  BY <1>4, <1>6, <1>7 DEF Legal, longer
=============================================================================
