----------------------- MODULE YahooConnectionProofs -----------------------
(***************************************************************************)
(* The rotation of a refresh token is safe for any number of workers and   *)
(* tokens, and any number of outages, lost answers, crashes and sign-ins.  *)
(***************************************************************************)
EXTENDS YahooConnection, TLAPS

(***************************************************************************)
(* The row lock.  Between the lock and the commit of an exchange its       *)
(* worker holds the row, and began with the token that is stored in it.    *)
(***************************************************************************)
AtTheExchange(w) == At(w, "exchange") \/ At(w, "commit")

ExchangesHoldTheRow ==
    \A w \in Workers : AtTheExchange(w) => lock = w

ExchangesSpendTheStoredToken ==
    \A w \in Workers : At(w, "exchange") => work[w].token = row.token

(***************************************************************************)
(* The tokens.  Yahoo takes every token that somebody is yet to store or   *)
(* to spend, unless it was lost; a token waiting to be stored by a sign-in *)
(* is nobody else's, so no exchange uses it up.                            *)
(***************************************************************************)
Good(token) == token \in accepted \cup lost

TokensWereIssued ==
    /\ accepted \cup lost \subseteq 1 .. issued /\ grant <= issued
    /\ row # None => row.token <= issued
    /\ \A w \in Workers : At(w, "commit") => work[w].token <= issued

GrantIsItsOwn ==
    grant # 0 =>
        /\ Good(grant)
        /\ row # None => row.token # grant
        /\ \A w \in Workers : At(w, "commit") => work[w].token # grant

\* The stored token is good but while its rotation waits to be committed; then
\* the new one is.
StoredIsGood ==
    row # None /\ (\A w \in Workers : ~At(w, "commit")) => Good(row.token)

RotatedIsGood == \A w \in Workers : At(w, "commit") => Good(work[w].token)

TokenInv ==
    /\ ExchangesHoldTheRow /\ ExchangesSpendTheStoredToken
    /\ TokensWereIssued /\ GrantIsItsOwn
    /\ StoredIsGood /\ RotatedIsGood
    /\ NeverSpentTwice

ConnInv == TypeOK /\ TokenInv

\* A new connection satisfies the invariant.
LEMMA ConnInvInit == Init => ConnInv
<1> SUFFICES ASSUME Init PROVE ConnInv
  OBVIOUS
<1>1. Fresh(1) \in Rows
  BY ConnectionAssumption DEF Fresh, Rows, Healths
<1>2. TypeOK
  BY <1>1, ConnectionAssumption DEF Init, TypeOK, Resting, Places, Workers
<1>3. TokenInv
  <2>1. row.token = 1
    BY DEF Init, Fresh
  <2>2. \A w \in Workers : At(w, "idle")
    BY DEF Init, Resting, At
  <2>3. QED
    BY <2>1, <2>2 DEF Init, At, TokenInv, AtTheExchange, ExchangesHoldTheRow,
       ExchangesSpendTheStoredToken, Good, TokensWereIssued, GrantIsItsOwn,
       StoredIsGood, RotatedIsGood, NeverSpentTwice
<1>4. QED
  BY <1>2, <1>3 DEF ConnInv

-----------------------------------------------------------------------------
(***************************************************************************)
(* The types.                                                              *)
(***************************************************************************)

LEMMA StepsOfAWorker ==
  ASSUME Next
  PROVE  \/ \E w \in Workers :
              \/ Start(w) \/ GetAccessToken(w) \/ Lock(w) \/ Reuse(w)
              \/ Exchange(w) \/ ExchangeLost(w) \/ ExchangeRefused(w)
              \/ Commit(w) \/ CommitFails(w) \/ Condemn(w)
              \/ Read(w) \/ Persist(w) \/ PersistFails(w)
              \/ RecordSuccess(w) \/ MarkDiscoverySuccess(w)
              \/ MarkThrottle(w) \/ MarkFailure(w) \/ RecordFailure(w) \/ OpenCircuit(w)
              \/ Crash(w)
         \/ SignIn \/ Revoke \/ Complete \/ Disconnect \/ CooldownEnds \/ RankChanges
BY SMTT(30) DEF Next, Step

\* An update of the row keeps the type of its columns.
LEMMA WritesKeepTypes ==
  ASSUME TypeOK, row # None
  PROVE  /\ \A cooling \in BOOLEAN : [row EXCEPT !.cooling = cooling] \in Rows
         /\ \A health \in Healths :
              /\ [row EXCEPT !.health = health] \in Rows
              /\ [row EXCEPT !.cooling = TRUE, !.health = health] \in Rows
              /\ [row EXCEPT !.failures = 0, !.cooling = FALSE, !.health = health] \in Rows
              /\ \A failures \in 0 .. Threshold :
                   [row EXCEPT !.failures = failures, !.health = health] \in Rows
              /\ \A token \in 1 .. MaxTokens, version \in Nat :
                   [row EXCEPT !.token = token, !.version = version, !.health = health] \in Rows
<1>1. row \in Rows /\ Threshold \in Nat
  BY ConnectionAssumption DEF TypeOK
<1>2. ASSUME NEW cooling \in BOOLEAN PROVE [row EXCEPT !.cooling = cooling] \in Rows
  BY <1>1 DEF Rows
<1>3. ASSUME NEW health \in Healths
      PROVE  /\ [row EXCEPT !.health = health] \in Rows
             /\ [row EXCEPT !.cooling = TRUE, !.health = health] \in Rows
             /\ [row EXCEPT !.failures = 0, !.cooling = FALSE, !.health = health] \in Rows
  <2>1. 0 \in 0 .. Threshold
    BY <1>1
  <2>2. QED
    BY <1>1, <2>1 DEF Rows
<1>4. ASSUME NEW health \in Healths, NEW failures \in 0 .. Threshold
      PROVE  [row EXCEPT !.failures = failures, !.health = health] \in Rows
  BY <1>1 DEF Rows
<1>5. ASSUME NEW health \in Healths, NEW token \in 1 .. MaxTokens, NEW version \in Nat
      PROVE  [row EXCEPT !.token = token, !.version = version, !.health = health] \in Rows
  BY <1>1 DEF Rows
<1>6. QED
  BY <1>2, <1>3, <1>4, <1>5

\* Whatever the steps of the members and of their workers write is a row.
LEMMA RowStep == ConnInv /\ [Next]_vars => row' \in {None} \cup Rows
<1> SUFFICES ASSUME TypeOK, TokenInv, [Next]_vars, row' # row, row' # None PROVE row' \in Rows
  BY DEF ConnInv, TypeOK
<1> USE ConnectionAssumption DEF yahoo
<1>1. row # None => row \in Rows
  BY DEF TypeOK
<1>2. row # None => /\ row.token \in 1 .. MaxTokens /\ row.version + 1 \in Nat
                    /\ row.health \in Healths /\ row.failures \in 0 .. Threshold
  BY <1>1 DEF Rows
<1>3. /\ {"healthy", "degraded", "reauthorize"} \subseteq Healths /\ 1 \in Nat
      /\ 0 \in 0 .. Threshold /\ TRUE \in BOOLEAN /\ FALSE \in BOOLEAN
  BY SMTT(30) DEF Healths
<1>4. ASSUME NEW w \in Workers, Commit(w) PROVE row' \in Rows
  <2>1. row # None /\ work[w].token \in 1 .. MaxTokens
    BY <1>4, SMTT(30) DEF Commit, Write, TypeOK, TokenInv, RotatedIsGood, Good
  <2>2. QED
    BY <1>2, <1>3, <1>4, <2>1, WritesKeepTypes DEF Commit, Write
<1>5. ASSUME NEW w \in Workers,
             Condemn(w) \/ Persist(w) \/ MarkFailure(w)
      PROVE  row' \in Rows
  <2>1. row # None /\ \E h \in Healths : row' = [row EXCEPT !.health = h]
    BY <1>2, <1>3, <1>5, SMTT(30) DEF Condemn, Persist, MarkFailure, Write
  <2>2. QED
    BY <1>2, <1>3, <2>1, WritesKeepTypes, ZenonT(40)
<1>6. ASSUME NEW w \in Workers, RecordSuccess(w) \/ MarkDiscoverySuccess(w)
      PROVE  row' \in Rows
  <2>1. row # None /\ \E h \in Healths :
           row' = [row EXCEPT !.failures = 0, !.cooling = FALSE, !.health = h]
    BY <1>2, <1>3, <1>6, ZenonT(40) DEF RecordSuccess, MarkDiscoverySuccess, Write
  <2>2. QED
    BY <1>2, <1>3, <2>1, WritesKeepTypes, ZenonT(40)
<1>7. ASSUME NEW w \in Workers, MarkThrottle(w) PROVE row' \in Rows
  <2>1. row # None /\ \E h \in Healths :
           row' = [row EXCEPT !.cooling = TRUE, !.health = h]
    BY <1>2, <1>3, <1>7, ZenonT(40) DEF MarkThrottle, Write
  <2>2. QED
    BY <1>2, <1>3, <2>1, WritesKeepTypes, ZenonT(40)
<1>8. ASSUME NEW w \in Workers, RecordFailure(w) PROVE row' \in Rows
  <2>1. row # None /\ OneMore(row.failures) \in 0 .. Threshold
    BY <1>2, <1>8, SMTT(30) DEF RecordFailure, Write, OneMore
  <2>2. QED
    BY <1>2, <1>3, <1>8, <2>1, WritesKeepTypes DEF RecordFailure, Write
<1>9. ASSUME NEW w \in Workers, OpenCircuit(w) PROVE row' \in Rows
  BY <1>2, <1>3, <1>9, WritesKeepTypes DEF OpenCircuit, Write
<1>10. CASE Complete
  <2>1. grant \in 1 .. MaxTokens
    BY <1>10 DEF Complete, TypeOK
  <2>2. CASE row = None
    BY <1>10, <2>1, <2>2, SMTT(30) DEF Complete, Fresh, Rows, Healths
  <2>3. CASE row # None
    BY <1>2, <1>3, <1>10, <2>1, <2>3, WritesKeepTypes, ZenonT(40) DEF Complete
  <2>4. QED
    BY <2>2, <2>3
<1>11. CASE CooldownEnds
  BY <1>2, <1>3, <1>11, WritesKeepTypes DEF CooldownEnds
<1>12. ASSUME NEW w \in Workers,
              \/ Start(w) \/ GetAccessToken(w) \/ Lock(w) \/ Reuse(w)
              \/ Exchange(w) \/ ExchangeLost(w) \/ ExchangeRefused(w)
              \/ CommitFails(w) \/ Read(w) \/ PersistFails(w) \/ Crash(w)
       PROVE  FALSE
  BY <1>12 DEF Start, GetAccessToken, Lock, Reuse, Exchange, ExchangeLost, ExchangeRefused,
               CommitFails, Read, PersistFails, Crash
<1>13. CASE SignIn \/ Revoke \/ Disconnect \/ RankChanges \/ UNCHANGED vars
  BY <1>13 DEF SignIn, Revoke, Disconnect, RankChanges, vars
<1>14. QED
  BY <1>4, <1>5, <1>6, <1>7, <1>8, <1>9, <1>10, <1>11, <1>12, <1>13, StepsOfAWorker

\* The sweep chooses this connection, though degraded, or does not.
LEMMA ChosenStep == TypeOK /\ [Next]_vars => chosen' \in BOOLEAN
<1> SUFFICES ASSUME TypeOK, [Next]_vars, ~RankChanges PROVE UNCHANGED chosen
  BY DEF RankChanges, TypeOK
<1>1. ASSUME NEW w \in Workers, Start(w) \/ Step(w) \/ Crash(w) PROVE UNCHANGED chosen
  BY <1>1 DEF Start, Step, Crash
<1>2. CASE SignIn \/ Revoke \/ Complete \/ Disconnect \/ CooldownEnds
  BY <1>2 DEF SignIn, Revoke, Complete, Disconnect, CooldownEnds
<1>3. QED
  BY <1>1, <1>2 DEF Next, vars

\* Every step of a user or a refresh keeps the types.
LEMMA TypeStep == ConnInv /\ [Next]_vars => TypeOK'
<1> SUFFICES ASSUME TypeOK, TokenInv, [Next]_vars PROVE TypeOK'
  BY DEF ConnInv
<1>0. row' \in {None} \cup Rows /\ chosen' \in BOOLEAN
  BY RowStep, ChosenStep DEF ConnInv
<1> DEFINE Held == [at : Places, forced : BOOLEAN, seen : Nat, token : 0 .. MaxTokens]
<1> USE ConnectionAssumption DEF TypeOK, At, Go, Rest, Resting, Places, yahoo, NoMishap, Mishap, Unlocked
<1>1. ASSUME NEW w \in Workers, Start(w) PROVE TypeOK'
  BY <1>0, <1>1 DEF Start
<1>2. ASSUME NEW w \in Workers, GetAccessToken(w) PROVE TypeOK'
  BY <1>0, <1>2 DEF GetAccessToken, Authorized, Rows
<1>3. ASSUME NEW w \in Workers, Lock(w) PROVE TypeOK'
  BY <1>0, <1>3 DEF Lock, Rows, Workers
<1>4. ASSUME NEW w \in Workers, Reuse(w) PROVE TypeOK'
  BY <1>0, <1>4 DEF Reuse
<1>5. ASSUME NEW w \in Workers, Exchange(w) PROVE TypeOK'
  <2>1. PICK next \in 1 .. MaxTokens :
          /\ Rotate(w, next)
          /\ work' = [work EXCEPT ![w].at = "commit", ![w].token = next]
    BY <1>5 DEF Exchange
  <2>2. accepted' \subseteq 1 .. MaxTokens
    BY <2>1 DEF Rotate
  <2>5. issued' \in 1 .. MaxTokens
    BY <2>1 DEF Rotate
  <2>3. work' \in [Workers -> Held] /\ \A v \in Workers : v # w => work'[v] = work[v]
    <3>1. next \in 0 .. MaxTokens
      OBVIOUS
    <3>2. QED
      BY <2>1, <3>1, ZenonT(40)
  <2>4. work'[w].at = "commit"
    BY <2>1
  <2>6. QED
    BY <1>0, <1>5, <2>2, <2>3, <2>4, <2>5 DEF Exchange
<1>6. ASSUME NEW w \in Workers, ExchangeLost(w) PROVE TypeOK'
  BY <1>0, <1>6 DEF ExchangeLost, Rotate
<1>7. ASSUME NEW w \in Workers, ExchangeRefused(w) PROVE TypeOK'
  BY <1>0, <1>7 DEF ExchangeRefused
<1>8. ASSUME NEW w \in Workers, Commit(w) PROVE TypeOK'
  BY <1>0, <1>8 DEF Commit
<1>9. ASSUME NEW w \in Workers, CommitFails(w) PROVE TypeOK'
  BY <1>0, <1>9 DEF CommitFails, Superseded, Rows
<1>10. ASSUME NEW w \in Workers, Condemn(w) PROVE TypeOK'
  BY <1>0, <1>10 DEF Condemn
<1>11. ASSUME NEW w \in Workers, Read(w) PROVE TypeOK'
  <2>1. work' \in [Workers -> Held] /\ \A v \in Workers : v # w => work'[v] = work[v]
    <3>1. \/ \E place \in {"persist", "persisted", "throttled", "failed"} : Go(w, place)
          \/ Rest(w)
          \/ work' = [work EXCEPT ![w].at = "token", ![w].forced = TRUE]
      BY <1>11 DEF Read
    <3>2. ASSUME NEW place \in {"persist", "persisted", "throttled", "failed"}, Go(w, place)
          PROVE  /\ work' \in [Workers -> Held]
                 /\ \A v \in Workers : v # w => work'[v] = work[v]
      <4>1. place \in Places
        OBVIOUS
      <4> HIDE DEF Places
      <4>2. QED
        BY <3>2, <4>1, ZenonT(40)
    <3>3. CASE Rest(w)
      BY <3>3
    <3>4. CASE work' = [work EXCEPT ![w].at = "token", ![w].forced = TRUE]
      BY <3>4, ZenonT(40)
    <3>5. QED
      BY <3>1, <3>2, <3>3, <3>4
  <2>2. lock # w
    BY <1>11 DEF Read, Workers
  <2>3. UNCHANGED <<lock, grant, accepted, issued, lost>> /\ faults' \in 0 .. MaxFaults
    BY <1>11 DEF Read
  <2>4. lock' # None => row' # None /\ work'[lock'].at \in {"exchange", "commit"}
    BY <1>11, <2>1, <2>2, <2>3 DEF Read
  <2>5. QED
    BY <1>0, <2>1, <2>3, <2>4
<1>12. ASSUME NEW w \in Workers, Persist(w) PROVE TypeOK'
  BY <1>0, <1>12 DEF Persist
<1>13. ASSUME NEW w \in Workers, PersistFails(w) PROVE TypeOK'
  BY <1>0, <1>13 DEF PersistFails
<1>14. ASSUME NEW w \in Workers, RecordSuccess(w) PROVE TypeOK'
  BY <1>0, <1>14 DEF RecordSuccess
<1>15. ASSUME NEW w \in Workers, MarkDiscoverySuccess(w) PROVE TypeOK'
  BY <1>0, <1>15 DEF MarkDiscoverySuccess
<1>16. ASSUME NEW w \in Workers, MarkThrottle(w) PROVE TypeOK'
  BY <1>0, <1>16 DEF MarkThrottle
<1>17. ASSUME NEW w \in Workers, MarkFailure(w) PROVE TypeOK'
  <2>1. work' \in [Workers -> Held]
    <3>1. CASE Go(w, "count")
      BY <3>1
    <3>2. CASE Rest(w)
      BY <3>2
    <3>3. QED
      BY <1>17, <3>1, <3>2 DEF MarkFailure
  <2>2. QED
    BY <1>0, <1>17, <2>1 DEF MarkFailure
<1>18. ASSUME NEW w \in Workers, RecordFailure(w) PROVE TypeOK'
  <2>1. work' \in [Workers -> Held]
    <3>1. CASE Go(w, "open")
      BY <3>1
    <3>2. CASE Rest(w)
      BY <3>2
    <3>3. QED
      BY <1>18, <3>1, <3>2 DEF RecordFailure
  <2>2. QED
    BY <1>0, <1>18, <2>1 DEF RecordFailure
<1>19. ASSUME NEW w \in Workers, OpenCircuit(w) PROVE TypeOK'
  BY <1>0, <1>19 DEF OpenCircuit
<1>20. ASSUME NEW w \in Workers, Crash(w) PROVE TypeOK'
  <2>1. work' \in [Workers -> Held] /\ \A v \in Workers : v # w => work'[v] = work[v]
    BY <1>20 DEF Crash
  <2>2. lost' \subseteq 1 .. MaxTokens
    BY <1>20 DEF Crash, Superseded, Rows
  <2>3. lock' # None => lock' = lock /\ lock # w
    BY <1>20 DEF Crash
  <2>4. QED
    BY <1>0, <1>20, <2>1, <2>2, <2>3 DEF Crash
<1>21. CASE SignIn
  <2>1. issued + 1 \in 1 .. MaxTokens
    BY <1>21 DEF SignIn
  <2>2. issued + 1 \in 0 .. MaxTokens
    BY <2>1
  <2>3. accepted' \subseteq 1 .. MaxTokens /\ lost' \subseteq 1 .. MaxTokens
    BY <1>21, <2>1 DEF SignIn
  <2>4. QED
    BY <1>0, <1>21, <2>1, <2>2, <2>3 DEF SignIn
<1>22. CASE Revoke
  BY <1>0, <1>22 DEF Revoke
<1>23. CASE Complete
  BY <1>0, <1>23 DEF Complete
<1>24. CASE Disconnect
  BY <1>0, <1>24 DEF Disconnect
<1>25. CASE CooldownEnds
  <2>1. row' \in Rows
    BY <1>25, WritesKeepTypes DEF CooldownEnds
  <2>2. QED
    BY <1>0, <1>25, <2>1 DEF CooldownEnds
<1>26. CASE UNCHANGED vars
  BY <1>0, <1>26 DEF vars
<1>27. CASE RankChanges
  BY <1>0, <1>27 DEF RankChanges
<1>28. QED
  BY <1>1, <1>2, <1>3, <1>4, <1>5, <1>6, <1>7, <1>8, <1>9, <1>10, <1>11, <1>12, <1>13,
     <1>14, <1>15, <1>16, <1>17, <1>18, <1>19, <1>20, <1>21, <1>22, <1>23, <1>24, <1>25,
     <1>26, <1>27, StepsOfAWorker

-----------------------------------------------------------------------------
(***************************************************************************)
(* The tokens.                                                             *)
(***************************************************************************)

\* A step that leaves alone the tokens, the lock and whoever is between the lock
\* and the end of an exchange leaves the tokens safe.
LEMMA BookkeepingKeepsTheTokens ==
  ASSUME TypeOK, TypeOK', TokenInv, UNCHANGED <<lock, grant, accepted, issued, lost>>,
         row' # None => row # None /\ row'.token = row.token,
         \A w \in Workers :
           \/ work'[w] = work[w]
           \/ /\ work[w].at \notin {"exchange", "commit"}
              /\ work'[w].at \notin {"exchange", "commit", "refused"}
  PROVE  TokenInv'
<1>1. ExchangesHoldTheRow'
  BY DEF TokenInv, ExchangesHoldTheRow, AtTheExchange, At
<1>2. ExchangesSpendTheStoredToken'
  <2>1. ASSUME NEW w \in Workers, At(w, "exchange")' PROVE row' # None
    BY <1>1, <2>1, ConnectionAssumption DEF ExchangesHoldTheRow, AtTheExchange, TypeOK, Workers
  <2>2. QED
    BY <2>1 DEF TokenInv, ExchangesSpendTheStoredToken, At
<1>3. TokensWereIssued'
  BY DEF TokenInv, TokensWereIssued, At
<1>4. GrantIsItsOwn'
  BY DEF TokenInv, GrantIsItsOwn, Good, At
<1>5. StoredIsGood'
  BY DEF TokenInv, StoredIsGood, Good, At
<1>6. RotatedIsGood'
  BY DEF TokenInv, RotatedIsGood, Good, At
<1>7. NeverSpentTwice'
  BY DEF TokenInv, NeverSpentTwice, At
<1>8. QED
  BY <1>1, <1>2, <1>3, <1>4, <1>5, <1>6, <1>7 DEF TokenInv

\* A worker at its exchange is the only one, has the row and the token in it.
LEMMA OneExchange ==
  ASSUME TypeOK, TokenInv, NEW w \in Workers, AtTheExchange(w)
  PROVE  /\ lock = w /\ row # None
         /\ \A v \in Workers : v # w => ~AtTheExchange(v)
         /\ At(w, "exchange") => work[w].token = row.token
BY ConnectionAssumption
   DEF TypeOK, TokenInv, ExchangesHoldTheRow, ExchangesSpendTheStoredToken, Workers

\* With the row unlocked no exchange is under way, and the stored token is good.
LEMMA NoExchange ==
  ASSUME TypeOK, TokenInv, lock = None
  PROVE  /\ \A w \in Workers : ~AtTheExchange(w)
         /\ row # None => Good(row.token)
BY ConnectionAssumption
   DEF TokenInv, ExchangesHoldTheRow, StoredIsGood, AtTheExchange, Workers

\* Every step of a user or a refresh keeps what is stored of the token sound.
LEMMA TokenStep == ConnInv /\ TypeOK' /\ [Next]_vars => TokenInv'
<1> SUFFICES ASSUME TypeOK, TypeOK', TokenInv, [Next]_vars PROVE TokenInv'
  BY DEF ConnInv
<1>1. ASSUME NEW w \in Workers,
             \/ Start(w) \/ GetAccessToken(w) \/ Reuse(w) \/ Condemn(w)
             \/ Read(w) \/ Persist(w) \/ PersistFails(w)
             \/ RecordSuccess(w) \/ MarkDiscoverySuccess(w)
             \/ MarkThrottle(w) \/ MarkFailure(w) \/ RecordFailure(w) \/ OpenCircuit(w)
      PROVE  TokenInv'
  <2>1. UNCHANGED <<lock, grant, accepted, issued, lost>>
    BY <1>1 DEF Start, GetAccessToken, Reuse, Condemn, Read, Persist, PersistFails,
                RecordSuccess, MarkDiscoverySuccess, MarkThrottle, MarkFailure,
                RecordFailure, OpenCircuit, yahoo
  <2>2. row' # None => row # None /\ row'.token = row.token
    <3>1. row # None => row \in Rows
      BY DEF TypeOK
    <3>2. CASE Start(w) \/ GetAccessToken(w) \/ Reuse(w) \/ Read(w) \/ PersistFails(w)
      BY <3>2 DEF Start, GetAccessToken, Reuse, Read, PersistFails
    <3>3. CASE Condemn(w) \/ Persist(w) \/ MarkFailure(w) \/ OpenCircuit(w)
      BY <3>1, <3>3 DEF Condemn, Persist, MarkFailure, OpenCircuit, Write, Rows
    <3>4. CASE \/ RecordSuccess(w) \/ MarkDiscoverySuccess(w)
               \/ MarkThrottle(w) \/ RecordFailure(w)
      BY <3>1, <3>4 DEF RecordSuccess, MarkDiscoverySuccess, MarkThrottle, RecordFailure,
                        Write, Rows
    <3>5. QED
      BY <1>1, <3>2, <3>3, <3>4
  <2>3. ASSUME NEW v \in Workers, work'[v] # work[v]
        PROVE  /\ work[v].at \notin {"exchange", "commit"}
               /\ work'[v].at \notin {"exchange", "commit", "refused"}
    <3> USE DEF At, Go, Rest, Resting, TypeOK
    <3>1. CASE Start(w) \/ GetAccessToken(w) \/ Reuse(w) \/ Condemn(w)
      BY <2>3, <3>1 DEF Start, GetAccessToken, Reuse, Condemn
    <3>2. CASE Read(w) \/ Persist(w) \/ PersistFails(w)
      BY <2>3, <3>2 DEF Read, Persist, PersistFails
    <3>3. CASE RecordSuccess(w) \/ MarkDiscoverySuccess(w) \/ MarkThrottle(w) \/ OpenCircuit(w)
      BY <2>3, <3>3 DEF RecordSuccess, MarkDiscoverySuccess, MarkThrottle, OpenCircuit
    <3>4. CASE MarkFailure(w) \/ RecordFailure(w)
      <4>1. \/ Go(w, "count") \/ Go(w, "open") \/ Rest(w)
        BY <3>4 DEF MarkFailure, RecordFailure
      <4>2. At(w, "failed") \/ At(w, "count")
        BY <3>4 DEF MarkFailure, RecordFailure
      <4>3. QED
        BY <2>3, <4>1, <4>2
    <3>5. QED
      BY <1>1, <3>1, <3>2, <3>3, <3>4
  <2>4. QED
    BY <2>1, <2>2, <2>3, BookkeepingKeepsTheTokens
<1> DEFINE Alone(w) == \A v \in Workers : v # w => ~At(v, "exchange") /\ ~At(v, "commit")
<1>2. ASSUME NEW w \in Workers, NEW v \in Workers, v # w,
             \/ Lock(w) \/ Exchange(w) \/ ExchangeLost(w) \/ ExchangeRefused(w)
             \/ Commit(w) \/ CommitFails(w) \/ Crash(w)
      PROVE  work'[v] = work[v]
  BY <1>2 DEF Lock, Exchange, ExchangeLost, ExchangeRefused, Commit, CommitFails, Crash,
              Go, Rest, TypeOK
<1>3. ASSUME NEW w \in Workers, At(w, "exchange") \/ At(w, "commit")
      PROVE  /\ Alone(w) /\ lock = w /\ row # None /\ row \in Rows
             /\ At(w, "exchange") => work[w].token = row.token
             /\ At(w, "exchange") => Good(row.token)
             /\ At(w, "commit") => Good(work[w].token)
  <2>1. /\ Alone(w) /\ lock = w /\ row # None
        /\ At(w, "exchange") => work[w].token = row.token
    BY <1>3, OneExchange DEF AtTheExchange
  <2>2. At(w, "exchange") => \A v \in Workers : ~At(v, "commit")
    BY <2>1 DEF At
  <2>3. QED
    BY <2>1, <2>2 DEF TokenInv, StoredIsGood, RotatedIsGood, TypeOK
<1>4. ASSUME NEW w \in Workers, At(w, "exchange") \/ At(w, "commit"),
             \A v \in Workers : v # w => work'[v] = work[v],
             ~At(w, "exchange")', ~At(w, "commit")', lock' = None
      PROVE  /\ \A v \in Workers : ~At(v, "exchange")' /\ ~At(v, "commit")'
             /\ ExchangesHoldTheRow' /\ ExchangesSpendTheStoredToken' /\ RotatedIsGood'
  <2>1. ASSUME NEW v \in Workers PROVE ~At(v, "exchange")' /\ ~At(v, "commit")'
    BY <1>3, <1>4 DEF At
  <2>2. QED
    BY <2>1 DEF ExchangesHoldTheRow, AtTheExchange, ExchangesSpendTheStoredToken, RotatedIsGood
<1> USE DEF TokenInv
<1>5. ASSUME NEW w \in Workers, Lock(w) PROVE TokenInv'
  <2>1. \A v \in Workers : ~At(v, "exchange") /\ ~At(v, "commit")
    BY <1>5, NoExchange DEF Lock, Unlocked, AtTheExchange
  <2>2. /\ lock' = w /\ work'[w].at = "exchange" /\ work'[w].token = row.token
        /\ UNCHANGED <<row, grant, accepted, issued, lost>>
        /\ row # None /\ Good(row.token)
    BY <1>5, NoExchange DEF Lock, Unlocked, TypeOK, yahoo
  <2>3. \A v \in Workers : v # w => work'[v] = work[v]
    BY <1>2, <1>5
  <2>4. ExchangesHoldTheRow' /\ ExchangesSpendTheStoredToken'
    BY <2>1, <2>2, <2>3 DEF ExchangesHoldTheRow, AtTheExchange, ExchangesSpendTheStoredToken, At
  <2>5. \A v \in Workers : ~At(v, "commit")'
    BY <2>1, <2>2, <2>3 DEF At
  <2>6. TokensWereIssued' /\ GrantIsItsOwn' /\ StoredIsGood' /\ RotatedIsGood'
    BY <2>2, <2>5 DEF TokensWereIssued, GrantIsItsOwn, StoredIsGood, RotatedIsGood, Good
  <2>7. NeverSpentTwice'
    BY <2>2, <2>3 DEF NeverSpentTwice, At
  <2>8. QED
    BY <2>4, <2>6, <2>7
<1>6. ASSUME NEW w \in Workers, Exchange(w) PROVE TokenInv'
  <2>1. PICK next \in 1 .. MaxTokens :
          /\ Rotate(w, next)
          /\ work' = [work EXCEPT ![w].at = "commit", ![w].token = next]
    BY <1>6 DEF Exchange
  <2>2. /\ work'[w].at = "commit" /\ work'[w].token = next /\ At(w, "exchange")
        /\ UNCHANGED <<row, lock, grant, lost>>
    BY <1>6, <2>1 DEF Exchange, TypeOK
  <2>3. /\ Alone(w) /\ lock = w /\ row # None /\ work[w].token = row.token
    BY <1>3, <2>2
  <2>4. \A v \in Workers : v # w => work'[v] = work[v]
    BY <1>2, <1>6
  <2>5. /\ accepted' = (accepted \ {row.token}) \cup {next}
        /\ next \in accepted' /\ next <= issued' /\ issued <= issued'
        /\ next = row.token \/ next = issued + 1
    <3>1. row.token <= issued /\ issued \in Nat /\ next \in Nat
      BY <2>3 DEF TokensWereIssued, TypeOK
    <3>2. QED
      BY <2>1, <2>3, <3>1 DEF Rotate
  <2>6. ExchangesHoldTheRow' /\ ExchangesSpendTheStoredToken' /\ NeverSpentTwice'
    BY <2>2, <2>3, <2>4
       DEF ExchangesHoldTheRow, AtTheExchange, ExchangesSpendTheStoredToken, NeverSpentTwice, At
  <2>7. StoredIsGood' /\ RotatedIsGood'
    BY <2>2, <2>3, <2>4, <2>5 DEF StoredIsGood, RotatedIsGood, Good, At
  <2>8. TokensWereIssued'
    <3>1. issued \in Nat /\ issued' \in Nat /\ grant \in Nat
      BY ConnectionAssumption DEF TypeOK
    <3>2. (accepted \cup lost)' \subseteq 1 .. issued'
      BY <2>1, <2>2, <2>5, <3>1 DEF TokensWereIssued
    <3>3. grant' <= issued' /\ row'.token <= issued'
      <4>1. row.token \in Nat
        BY <2>3 DEF TypeOK, Rows
      <4>2. QED
        BY <2>2, <2>3, <2>5, <3>1, <4>1 DEF TokensWereIssued
    <3>4. \A v \in Workers : At(v, "commit")' => work'[v].token <= issued'
      BY <2>2, <2>3, <2>4, <2>5 DEF At
    <3>5. QED
      BY <3>2, <3>3, <3>4 DEF TokensWereIssued
  <2>9. GrantIsItsOwn'
    <3>1. CASE grant # 0
      <4>1. grant # row.token /\ Good(grant) /\ grant <= issued /\ grant \in Nat /\ issued \in Nat
        BY <2>3, <3>1 DEF GrantIsItsOwn, TokensWereIssued, TypeOK
      <4>2. grant # next
        BY <2>5, <4>1
      <4>3. Good(grant)'
        BY <2>2, <2>5, <4>1 DEF Good
      <4>4. QED
        BY <2>2, <2>3, <2>4, <4>1, <4>2, <4>3 DEF GrantIsItsOwn, At
    <3>2. QED
      BY <2>2, <3>1 DEF GrantIsItsOwn
  <2>10. QED
    BY <2>6, <2>7, <2>8, <2>9
<1>7. ASSUME NEW w \in Workers, ExchangeRefused(w) PROVE TokenInv'
  <2>1. /\ At(w, "exchange") /\ work[w].token \notin accepted
        /\ work'[w].at = "refused" /\ work'[w].token = work[w].token
        /\ lock' = None /\ UNCHANGED <<row, grant, accepted, issued, lost>>
    BY <1>7 DEF ExchangeRefused, Go, TypeOK, yahoo
  <2>2. \A v \in Workers : v # w => work'[v] = work[v]
    BY <1>2, <1>7
  <2>3. work[w].token = row.token /\ Good(row.token) /\ row # None
    BY <1>3, <2>1
  <2>4. /\ \A v \in Workers : ~At(v, "commit")'
        /\ ExchangesHoldTheRow' /\ ExchangesSpendTheStoredToken' /\ RotatedIsGood'
    BY <1>4, <2>1, <2>2 DEF At
  <2>5. TokensWereIssued' /\ GrantIsItsOwn' /\ StoredIsGood'
    BY <2>1, <2>3, <2>4 DEF TokensWereIssued, GrantIsItsOwn, StoredIsGood, Good
  <2>6. NeverSpentTwice'
    BY <2>1, <2>2, <2>3 DEF NeverSpentTwice, Good, At
  <2>7. QED
    BY <2>4, <2>5, <2>6
<1>8. ASSUME NEW w \in Workers, ExchangeLost(w) PROVE TokenInv'
  <2>1. /\ At(w, "exchange") /\ work'[w].at = "failed"
        /\ lock' = None /\ UNCHANGED <<row, grant>>
    BY <1>8 DEF ExchangeLost, Go, TypeOK
  <2>2. \A v \in Workers : v # w => work'[v] = work[v]
    BY <1>2, <1>8
  <2>3. work[w].token = row.token /\ Good(row.token) /\ row # None /\ row \in Rows
    BY <1>3, <2>1
  <2>4. /\ \A v \in Workers : ~At(v, "commit")'
        /\ ExchangesHoldTheRow' /\ ExchangesSpendTheStoredToken' /\ RotatedIsGood'
    BY <1>4, <2>1, <2>2 DEF At
  <2>5. /\ issued <= issued' /\ (accepted \cup lost)' \subseteq 1 .. issued'
        /\ \A token \in accepted \cup lost : Good(token)' /\ lost \subseteq lost'
    <3>1. issued \in Nat /\ row.token <= issued /\ row.token \in 1 .. MaxTokens
      BY <2>3 DEF TypeOK, TokensWereIssued, Rows
    <3>2. CASE UNCHANGED yahoo
      BY <3>1, <3>2 DEF yahoo, TokensWereIssued, Good
    <3>3. ASSUME NEW next \in 1 .. MaxTokens, Rotate(w, next), next # work[w].token,
                 lost' = lost \cup {work[w].token}
          PROVE  /\ issued <= issued' /\ (accepted \cup lost)' \subseteq 1 .. issued'
                 /\ \A token \in accepted \cup lost : Good(token)' /\ lost \subseteq lost'
      <4>1. next = issued + 1 /\ issued' = issued + 1
        BY <3>1, <3>3 DEF Rotate
      <4>2. accepted' = (accepted \ {row.token}) \cup {next} /\ lost' = lost \cup {row.token}
        BY <2>3, <3>3 DEF Rotate
      <4>3. accepted \cup lost \subseteq 1 .. issued
        BY DEF TokensWereIssued
      <4>4. (accepted \cup lost)' \subseteq 1 .. issued'
        BY <3>1, <4>1, <4>2, <4>3
      <4>5. QED
        BY <3>1, <4>1, <4>2, <4>4 DEF Good
    <3>4. QED
      BY <1>8, <3>2, <3>3 DEF ExchangeLost
  <2>6. TokensWereIssued'
    <3>1. issued \in Nat /\ issued' \in Nat /\ grant \in Nat /\ row.token \in Nat
      BY <2>3, ConnectionAssumption DEF TypeOK, Rows
    <3>2. grant' <= issued' /\ row'.token <= issued'
      BY <2>1, <2>3, <2>5, <3>1 DEF TokensWereIssued
    <3>3. QED
      BY <2>4, <2>5, <3>2 DEF TokensWereIssued
  <2>7. GrantIsItsOwn' /\ StoredIsGood'
    BY <2>1, <2>3, <2>4, <2>5 DEF GrantIsItsOwn, StoredIsGood, Good
  <2>8. NeverSpentTwice'
    BY <2>1, <2>2, <2>5 DEF NeverSpentTwice, At
  <2>9. QED
    BY <2>4, <2>6, <2>7, <2>8
<1>9. ASSUME NEW w \in Workers, Commit(w) PROVE TokenInv'
  <2>1. /\ At(w, "commit") /\ work'[w].at = "reading" /\ lock' = None
        /\ UNCHANGED <<grant, accepted, issued, lost>>
    BY <1>9 DEF Commit, Go, TypeOK, yahoo
  <2>2. \A v \in Workers : v # w => work'[v] = work[v]
    BY <1>2, <1>9
  <2>3. Good(work[w].token) /\ row # None /\ row \in Rows
    BY <1>3, <2>1
  <2>4. row'.token = work[w].token
    BY <1>9, <2>3 DEF Commit, Write, Rows
  <2>5. /\ \A v \in Workers : ~At(v, "commit")'
        /\ ExchangesHoldTheRow' /\ ExchangesSpendTheStoredToken' /\ RotatedIsGood'
    BY <1>4, <2>1, <2>2 DEF At
  <2>6. TokensWereIssued' /\ GrantIsItsOwn' /\ StoredIsGood'
    BY <2>1, <2>3, <2>4, <2>5 DEF TokensWereIssued, GrantIsItsOwn, StoredIsGood, Good
  <2>7. NeverSpentTwice'
    BY <2>1, <2>2 DEF NeverSpentTwice, At
  <2>8. QED
    BY <2>5, <2>6, <2>7
<1>10. ASSUME NEW w \in Workers,
              CommitFails(w) \/ (Crash(w) /\ (At(w, "exchange") \/ At(w, "commit")))
       PROVE  TokenInv'
  \* The stored token is given up when the exchange had replaced it.
  <2>1. /\ At(w, "exchange") \/ At(w, "commit")
        /\ work'[w].at \in {"failed", "idle"}
        /\ lost' = lost \cup Superseded(w)
        /\ UNCHANGED <<row, grant, accepted, issued>>
    BY <1>10 DEF CommitFails, Crash, Go, Rest, Resting, TypeOK
  <2>2. \A v \in Workers : v # w => work'[v] = work[v]
    BY <1>2, <1>10
  <2>3. /\ lock = w /\ row # None /\ row \in Rows
        /\ At(w, "exchange") => Good(row.token)
        /\ At(w, "commit") => Good(work[w].token)
    BY <1>3, <2>1
  <2>4. lock' = None
    BY <1>10, <2>3 DEF CommitFails, Crash
  <2>5. /\ \A v \in Workers : ~At(v, "commit")'
        /\ ExchangesHoldTheRow' /\ ExchangesSpendTheStoredToken' /\ RotatedIsGood'
    BY <1>4, <2>1, <2>2, <2>4 DEF At
  <2>6. Superseded(w) \subseteq {row.token} /\ lost \subseteq lost'
    BY <2>1 DEF Superseded
  <2>7. Good(row.token)'
    BY <2>1, <2>3 DEF Superseded, Good
  <2>8. TokensWereIssued'
    <3>1. row.token \in 1 .. issued /\ issued \in Nat
      BY <2>3 DEF TokensWereIssued, Rows, TypeOK
    <3>2. QED
      BY <2>1, <2>3, <2>5, <2>6, <3>1 DEF TokensWereIssued
  <2>9. GrantIsItsOwn' /\ StoredIsGood'
    BY <2>1, <2>5, <2>6, <2>7 DEF GrantIsItsOwn, StoredIsGood, Good
  <2>10. NeverSpentTwice'
    BY <2>1, <2>2, <2>6 DEF NeverSpentTwice, At
  <2>11. QED
    BY <2>5, <2>8, <2>9, <2>10
<1>11. ASSUME NEW w \in Workers, Crash(w), ~At(w, "exchange"), ~At(w, "commit") PROVE TokenInv'
  <2>1. lock' = lock
    BY <1>11, ConnectionAssumption DEF Crash, TypeOK, At
  <2>2. lost' = lost /\ UNCHANGED <<row, grant, accepted, issued>>
    BY <1>11 DEF Crash, Superseded
  <2>3. work'[w].at = "idle"
    BY <1>11 DEF Crash, Rest, Resting, TypeOK
  <2>4. \A v \in Workers : v # w => work'[v] = work[v]
    BY <1>2, <1>11
  <2>5. QED
    BY <1>11, <2>1, <2>2, <2>3, <2>4, BookkeepingKeepsTheTokens DEF At
<1>12. CASE SignIn
  <2>1. /\ grant = 0 /\ grant' = issued + 1 /\ issued' = issued + 1
        /\ UNCHANGED <<row, lock, work>> /\ issued \in Nat
        /\ grant' \in accepted' /\ lost \subseteq lost'
        /\ accepted' \subseteq accepted \cup {issued + 1} /\ lost' \subseteq lost \cup accepted
        /\ \A token \in accepted \cup lost : Good(token)'
    BY <1>12 DEF SignIn, Good, TypeOK
  <2>2. \A w \in Workers : work[w].token \in Nat
    BY ConnectionAssumption DEF TypeOK
  <2>3. row # None => row.token \in Nat
    BY DEF TypeOK, Rows
  <2>4. TokensWereIssued'
    <3>1. accepted \cup lost \subseteq 1 .. issued /\ 1 .. issued \subseteq 1 .. issued'
      BY <2>1 DEF TokensWereIssued
    <3>2. (accepted \cup lost)' \subseteq 1 .. issued'
      <4>1. issued + 1 \in 1 .. issued'
        BY <2>1
      <4>2. QED
        BY <2>1, <3>1, <4>1
    <3>3. QED
      BY <2>1, <2>2, <2>3, <3>2 DEF TokensWereIssued, At
  <2>5. GrantIsItsOwn'
    BY <2>1, <2>2, <2>3 DEF GrantIsItsOwn, TokensWereIssued, Good, At
  <2>6. /\ ExchangesHoldTheRow' /\ ExchangesSpendTheStoredToken'
        /\ StoredIsGood' /\ RotatedIsGood' /\ NeverSpentTwice'
    BY <2>1 DEF ExchangesHoldTheRow, AtTheExchange, ExchangesSpendTheStoredToken,
                StoredIsGood, RotatedIsGood, NeverSpentTwice, Good, At
  <2>7. QED
    BY <2>4, <2>5, <2>6
<1>13. CASE Revoke
  <2>1. /\ accepted' = {} /\ lost' = lost \cup accepted
        /\ UNCHANGED <<row, lock, work, grant, issued>>
    BY <1>13 DEF Revoke
  <2>2. QED
    BY <2>1 DEF ExchangesHoldTheRow, AtTheExchange, ExchangesSpendTheStoredToken, TokensWereIssued,
                GrantIsItsOwn, StoredIsGood, RotatedIsGood, NeverSpentTwice, Good, At
<1>14. CASE Complete
  <2>1. /\ lock = None /\ grant # 0 /\ grant' = 0
        /\ UNCHANGED <<lock, work, accepted, issued, lost>>
    BY <1>14 DEF Complete, Unlocked, yahoo
  <2>2. row'.token = grant
    BY <1>14 DEF Complete, Fresh, TypeOK, Rows
  <2>3. \A w \in Workers : ~At(w, "exchange") /\ ~At(w, "commit")
    BY <2>1, NoExchange DEF AtTheExchange
  <2>4. Good(grant) /\ grant <= issued
    BY <2>1 DEF GrantIsItsOwn, TokensWereIssued
  <2>5. grant' <= issued'
    BY <2>1, ConnectionAssumption DEF TypeOK
  <2>6. QED
    BY <2>1, <2>2, <2>3, <2>4, <2>5
       DEF ExchangesHoldTheRow, AtTheExchange, ExchangesSpendTheStoredToken, TokensWereIssued,
           GrantIsItsOwn, StoredIsGood, RotatedIsGood, NeverSpentTwice, Good, At
<1>15. CASE Disconnect
  <2>1. lock = None /\ row' = None /\ UNCHANGED <<lock, work, grant, accepted, issued, lost>>
    BY <1>15 DEF Disconnect, Unlocked, yahoo
  <2>2. QED
    BY <2>1, BookkeepingKeepsTheTokens
<1>16. CASE CooldownEnds
  <2>1. /\ row # None /\ row'.token = row.token
        /\ UNCHANGED <<lock, work, grant, accepted, issued, lost>>
    BY <1>16 DEF CooldownEnds, TypeOK, Rows, yahoo
  <2>2. QED
    BY <2>1, BookkeepingKeepsTheTokens
<1>17. CASE UNCHANGED vars
  <2>1. UNCHANGED <<row, lock, work, grant, accepted, issued, lost>>
    BY <1>17 DEF vars
  <2>2. QED
    BY <2>1, BookkeepingKeepsTheTokens
<1>18. CASE RankChanges
  <2>1. UNCHANGED <<row, lock, work, grant, accepted, issued, lost>>
    BY <1>18 DEF RankChanges, yahoo
  <2>2. QED
    BY <2>1, BookkeepingKeepsTheTokens
<1>19. QED
  BY <1>1, <1>5, <1>6, <1>7, <1>8, <1>9, <1>10, <1>11, <1>12, <1>13, <1>14, <1>15, <1>16,
     <1>17, <1>18, StepsOfAWorker

\* The invariant holds in every state of the connection.
THEOREM ConnectionInvariant == Spec => []ConnInv
<1>1. ConnInv /\ [Next]_vars => ConnInv'
  BY TypeStep, TokenStep DEF ConnInv
<1>2. QED
  BY ConnInvInit, <1>1, PTL DEF Spec

\* The row, its lock, the workers and Yahoo's tokens keep their types; a lock is
\* held on a row that is there, by a worker at its exchange.
THEOREM ConnectionTypeCorrect == Spec => []TypeOK
<1>1. ConnInv => TypeOK
  BY DEF ConnInv
<1>2. QED
  BY <1>1, ConnectionInvariant, PTL

\* Nobody spends a refresh token that another worker has spent, and nothing but a
\* lost answer or the member makes the stored one stale.
THEOREM TokenAlwaysSafe == Spec => []TokenIsSafe
<1>1. ConnInv => TokenIsSafe
  BY NoExchange DEF ConnInv, TokenInv, TokenIsSafe, StoredTokenIsCurrent, Good
<1>2. QED
  BY <1>1, ConnectionInvariant, PTL
=============================================================================
