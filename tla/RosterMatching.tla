--------------------------- MODULE RosterMatching ---------------------------
(***************************************************************************)
(* assignPlayersToRosterSlots: the maximum matching by which the draft     *)
(* decides whether a roster is legal, computed anew for every acquisition. *)
(* DraftReducer says what it decides (CanRoster); this module says how.    *)
(***************************************************************************)
EXTENDS DraftRoom

\* The matching under way: who holds each slot (NoPlayer: nobody does), the slots
\* visited since the outermost player was tried, and whether a place was found.
Searches(slots) ==
  [playerBySlot : [ToSet(slots) -> Players \union {NoPlayer}],
   visited : SUBSET ToSet(slots), found : BOOLEAN]

NothingAssigned(slots) ==
  [playerBySlot |-> [s \in ToSet(slots) |-> NoPlayer], visited |-> {}, found |-> TRUE]

Visit(m, s) == [m EXCEPT !.visited = @ \union {s}]

Place(m, s, p) == [m EXCEPT !.found = TRUE, !.playerBySlot[s] = p]

\* One turn of the loop over the slots: the slot is taken if nobody holds it, or if
\* its player, asked to move, found a slot that was not visited yet.
Probe(ask, p, m, s) ==
  IF m.found \/ s \in m.visited \/ s \notin Eligible[p] THEN m
  ELSE IF m.playerBySlot[s] = NoPlayer THEN Place(Visit(m, s), s, p)
  ELSE LET moved == ask[<<m.playerBySlot[s], Visit(m, s)>>]
       IN  IF moved.found THEN Place(moved, s, p) ELSE moved

TrySlots(ask, p, m, slots) ==
  LET so[k \in 0 .. Len(slots)] ==
        IF k = 0 THEN [m EXCEPT !.found = FALSE] ELSE Probe(ask, p, so[k - 1], slots[k])
  IN  so[Len(slots)]

\* Faulty: the player in the way is not asked to move.
TryFree(p, m, slots) ==
  TrySlots([c \in Players \X Searches(slots) |-> [c[2] EXCEPT !.found = FALSE]], p, m, slots)

\* tryAssign calls itself for the player in the way, with one slot more visited:
\* ask[n] is what comes of a call when fewer than n slots are left to visit.
TryAssign(p, m, slots) ==
  LET ask[n \in 0 .. Len(slots)] ==
        [c \in Players \X Searches(slots) |->
           IF n = 0 THEN [c[2] EXCEPT !.found = FALSE]
           ELSE TrySlots(ask[n - 1], c[1], c[2], slots)]
  IN  TrySlots(ask[Len(slots)], p, m, slots)

\* The loop over the players: feasible when each of them found a place.
Feasible(players, slots) ==
  LET so[k \in 0 .. Len(players)] ==
        IF k = 0 THEN NothingAssigned(slots)
        ELSE LET tried == TryAssign(players[k], [so[k - 1] EXCEPT !.visited = {}], slots)
             IN  [tried EXCEPT !.found = @ /\ so[k - 1].found]
  IN  so[Len(players)].found

\* The player to add: p is there twice when the team holds it already.
Again(t, p) == IF p \in room.roster[t] THEN <<p, p>> ELSE <<p>>

\* The list of the others with the player put in at each place of it.
Inserts(others, again) ==
  {SubSeq(others, 1, n) \o again \o SubSeq(others, n + 1, Len(others)) : n \in 0 .. Len(others)}

\* The roster with p added, in every order the ids may sort.
Rosters(t, p) ==
  UNION {Inserts(others, Again(t, p)) : others \in SetToSeqs(room.roster[t] \ {p})}

\* The matching finds a place for everybody exactly when there is one, in every
\* room a draft reaches, for every team, every player and every order of ids: a
\* player is never refused that would fit, nor one taken that does not.
MatchingDecidesFit ==
  \A t \in Teams, p \in Players :
    \A slots \in SetToSeqs(RosterSlots[t]), players \in Rosters(t, p) :
      Feasible(players, slots) <=> CanRoster(room, t, p)
=============================================================================
