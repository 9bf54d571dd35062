---------------------------- MODULE Pairing_proofs ----------------------------
(***************************************************************************)
(* Proofs about Pairing, for any number of sessions, keys and requests and *)
(* for any bounds: type correctness, the safety invariants the runs check, *)
(* the append-only audit row, and the refinement of PairingLatch.          *)
(***************************************************************************)
EXTENDS Pairing, TLAPS

-----------------------------------------------------------------------------
(* The conversions between the two stores stay in Nat.                      *)

\* The truncated expiry of the Redis hash (time.Unix) is a time.
LEMMA TruncatedType == ASSUME NEW t \in Nat PROVE Truncated(t) \in Nat
<1>1. t \div TicksPerSecond \in Nat
  BY ConstantsAssumption
<1> QED
  BY <1>1, ConstantsAssumption DEF Truncated

\* The TTL a join reads from Redis is a time.
LEMMA RoundedTTLType == ASSUME NEW d \in Nat PROVE RoundedTTL(d) \in Nat
<1>1. TicksPerSecond \div 2 \in Nat
  BY ConstantsAssumption
<1>2. (d + TicksPerSecond \div 2) \div TicksPerSecond \in Nat
  BY <1>1, ConstantsAssumption
<1> QED
  BY <1>2, ConstantsAssumption DEF RoundedTTL

\* What a reader of a session gets (combined.GetPairingSession): an error
\* code, or a key and an expiry.
LEMMA ReadType ==
    ASSUME TypeOK, NEW s \in Sessions
    PROVE  /\ ReadErr(s) \in Results
           /\ Live(s) \in Card
BY DEF TypeOK, ReadErr, Live, Card, Results, PgRow, RdHash

\* Reading a session may flip its row to expired and nothing else.
LEMMA LazyExpireType ==
    ASSUME TypeOK, NEW s \in Sessions, LazyExpire(s)
    PROVE  pg' \in [Sessions -> PgRow]
BY DEF TypeOK, LazyExpire, PgRow, PgStatus

\* The empty hash, and a hash after each of the field writes of redis.go.
LEMMA HashType ==
    /\ NoHash \in RdHash
    /\ \A h \in RdHash :
          /\ \A st \in RdStatus : [h EXCEPT !.status = st] \in RdHash
          /\ \A t \in Nat : [h EXCEPT !.exp = t] \in RdHash
          /\ \A t \in Nat : [h EXCEPT !.kill = t] \in RdHash
          /\ \A k \in KeyOrNone : [h EXCEPT !.joinPub = k] \in RdHash
          /\ [h EXCEPT !.joinReq = TRUE] \in RdHash
BY DEF NoHash, RdHash, RdStatus, KeyOrNone

\* Every step but Init preserves the types.
LEMMA TypeStep == TypeOK /\ [Next]_vars => TypeOK'
<1> SUFFICES ASSUME TypeOK, [Next]_vars PROVE TypeOK'
  OBVIOUS
<1> USE ConstantsAssumption
<1>1. ASSUME NEW s \in Sessions, PairingCreate(s) PROVE TypeOK'
  <2>1. now + PairingTTL \in Nat /\ Truncated(now + PairingTTL) \in Nat
    BY TruncatedType DEF TypeOK
  <2>2. pg' \in [Sessions -> PgRow]
    BY <1>1, <2>1 DEF TypeOK, PairingCreate, PgRow, PgStatus, KeyOrNone
  <2>3. rd' \in [Sessions -> RdHash] /\ offered' \subseteq Sessions
    <3> DEFINE opened == [NoHash EXCEPT !.status = "pending"]
               whole == [NoHash EXCEPT !.status = "pending",
                                       !.exp = Truncated(now + PairingTTL)]
               timed == [whole EXCEPT !.kill = now + PairingTTL]
    <3>1. opened \in RdHash /\ whole \in RdHash /\ timed \in RdHash
      BY <2>1 DEF RdHash, RdStatus, KeyOrNone, NoHash
    <3>2. \/ rd' = rd
          \/ rd' = [rd EXCEPT ![s] = opened]
          \/ rd' = [rd EXCEPT ![s] = whole]
          \/ rd' = [rd EXCEPT ![s] = timed]
      BY <1>1 DEF PairingCreate
    <3> HIDE DEF opened, whole, timed
    <3>3. rd' \in [Sessions -> RdHash]
      BY <3>1, <3>2 DEF TypeOK
    <3> QED BY <1>1, <3>3 DEF TypeOK, PairingCreate
  <2> QED BY <1>1, <2>2, <2>3 DEF TypeOK, PairingCreate
<1>2. ASSUME NEW s \in Sessions, PairingGet(s) PROVE TypeOK'
  <2>1. pg' \in [Sessions -> PgRow]
    BY <1>2, LazyExpireType DEF PairingGet
  <2>2. card' \in [Sessions -> Card]
    BY <1>2, ReadType DEF TypeOK, PairingGet
  <2> QED BY <1>2, <2>1, <2>2 DEF TypeOK, PairingGet
<1>3. ASSUME NEW s \in Sessions, RedisLoses(s) PROVE TypeOK'
  BY <1>3, HashType DEF TypeOK, RedisLoses, ledger
<1>4. ASSUME NEW r \in Requests, JoinStart(r) PROVE TypeOK'
  BY <1>4 DEF TypeOK, JoinStart, Go, stores, ledger, Arg, Ops, Pcs
<1>5. ASSUME NEW r \in Requests, DecideStart(r) PROVE TypeOK'
  BY <1>5 DEF TypeOK, DecideStart, Go, stores, ledger, Arg, Ops, Pcs, Card
<1>6. ASSUME NEW r \in Requests, JoinGet(r) PROVE TypeOK'
  <2>1. arg[r].s \in Sessions
    BY <1>6 DEF TypeOK, JoinGet, Arg
  <2>2. pg' \in [Sessions -> PgRow]
    BY <1>6, <2>1, LazyExpireType DEF JoinGet
  <2>3. pc' \in [Requests -> Pcs] /\ res' \in [Requests -> Results]
    BY <1>6, <2>1, ReadType DEF TypeOK, JoinGet, Go, Finish, Pcs, Results
  <2>4. \A q \in Requests : pc'[q] # "idle" => arg[q] \in Arg
    BY <1>6 DEF TypeOK, JoinGet, Go, Finish
  <2> QED BY <1>6, <2>2, <2>3, <2>4 DEF TypeOK, JoinGet, ledger
<1>7. ASSUME NEW r \in Requests, MarkRequest(r) PROVE TypeOK'
  BY <1>7 DEF TypeOK, MarkRequest, Go, Finish, stores, Arg, Pcs, Results
<1>8. ASSUME NEW r \in Requests, RedisJoinRead(r) PROVE TypeOK'
  BY <1>8 DEF TypeOK, RedisJoinRead, Go, Finish, stores, ledger, Pcs, Results
<1>9. ASSUME NEW r \in Requests, RedisJoinClaim(r) PROVE TypeOK'
  <2>1. arg[r].s \in Sessions
    BY <1>9 DEF TypeOK, RedisJoinClaim, Arg
  <2>2. rd' \in [Sessions -> RdHash]
    <3>1. rd' = rd \/ rd' = [rd EXCEPT ![arg[r].s] = [rd[arg[r].s] EXCEPT !.joinReq = TRUE]]
      BY <1>9 DEF RedisJoinClaim
    <3>2. [rd[arg[r].s] EXCEPT !.joinReq = TRUE] \in RdHash
      BY <2>1, HashType DEF TypeOK
    <3> QED BY <3>1, <3>2 DEF TypeOK
  <2> QED BY <1>9, <2>2 DEF TypeOK, RedisJoinClaim, Go, Finish, ledger, Pcs, Results
<1>10. ASSUME NEW r \in Requests, RedisJoinTTL(r) PROVE TypeOK'
  <2>1. arg[r].s \in Sessions
    BY <1>10 DEF TypeOK, RedisJoinTTL, Arg
  <2>2. rd[arg[r].s].kill \in Nat
    BY <2>1 DEF TypeOK, RdHash
  <2>3. ttl' \in [Requests -> Nat]
    <3>1. CASE rd[arg[r].s].kill > now
      <4>1. rd[arg[r].s].kill - now \in Nat
        BY <2>2, <3>1 DEF TypeOK
      <4> QED BY <1>10, <3>1, <4>1, RoundedTTLType DEF TypeOK, RedisJoinTTL
    <3>2. CASE ~(rd[arg[r].s].kill > now)
      BY <1>10, <3>2 DEF TypeOK, RedisJoinTTL
    <3> QED BY <3>1, <3>2
  <2> QED BY <1>10, <2>3 DEF TypeOK, RedisJoinTTL, Go, stores, ledger, Pcs
<1>11. ASSUME NEW r \in Requests, RedisJoinFields(r) PROVE TypeOK'
  <2>1. arg[r].key \in Keys /\ arg[r].s \in Sessions
    BY <1>11 DEF TypeOK, RedisJoinFields, Arg
  <2>2. rd' \in [Sessions -> RdHash]
    <3> DEFINE h == [rd[arg[r].s] EXCEPT !.joinPub = arg[r].key]
               kept == [h EXCEPT !.kill = now + ttl[r]]
    <3>1. h \in RdHash
      BY <2>1, HashType DEF TypeOK, KeyOrNone
    <3>2. kept \in RdHash
      <4>1. now + ttl[r] \in Nat
        BY DEF TypeOK
      <4> HIDE DEF h
      <4> QED BY <3>1, <4>1, HashType
    <3>3. rd' = [rd EXCEPT ![arg[r].s] = h] \/ rd' = [rd EXCEPT ![arg[r].s] = kept]
      BY <1>11, <2>1 DEF TypeOK, RedisJoinFields
    <3> HIDE DEF h, kept
    <3> QED BY <2>1, <3>1, <3>2, <3>3 DEF TypeOK
  <2> QED BY <1>11, <2>2 DEF TypeOK, RedisJoinFields, Go, ledger, Pcs
<1>12. ASSUME NEW r \in Requests, PgJoin(r) PROVE TypeOK'
  <2>1. arg[r].key \in Keys /\ arg[r].s \in Sessions
    BY <1>12 DEF TypeOK, PgJoin, Arg
  <2>2. PgSubmitJoinRequest(arg[r].s, arg[r].key) \in [Sessions -> PgRow]
    BY <2>1 DEF TypeOK, PgSubmitJoinRequest, PgJoinOutcome, PgRow, PgStatus, KeyOrNone
  <2>3. PgJoinOutcome(arg[r].s) \in Results
    BY DEF PgJoinOutcome, Results
  <2>4. pc' \in [Requests -> Pcs] /\ res' \in [Requests -> Results]
    BY <1>12, <2>3 DEF TypeOK, PgJoin, Go, Finish, Pcs, Results
  <2>5. \A q \in Requests : pc'[q] # "idle" => arg[q] \in Arg
    BY <1>12 DEF TypeOK, PgJoin, Go, Finish
  <2>6. pg' \in [Sessions -> PgRow]
    BY <1>12, <2>2 DEF TypeOK, PgJoin
  <2> QED BY <1>12, <2>4, <2>5, <2>6 DEF TypeOK, PgJoin, ledger
<1>13. ASSUME NEW r \in Requests, DecideGet(r) PROVE TypeOK'
  <2>1. arg[r].s \in Sessions
    BY <1>13 DEF TypeOK, DecideGet, Arg
  <2>2. pg' \in [Sessions -> PgRow]
    BY <1>13, <2>1, LazyExpireType DEF DecideGet
  <2>3. pc' \in [Requests -> Pcs] /\ res' \in [Requests -> Results]
    BY <1>13, <2>1, ReadType DEF TypeOK, DecideGet, Go, Finish, Pcs, Results
  <2>4. \A q \in Requests : pc'[q] # "idle" => arg[q] \in Arg
    BY <1>13 DEF TypeOK, DecideGet, Go, Finish
  <2> QED BY <1>13, <2>2, <2>3, <2>4 DEF TypeOK, DecideGet, ledger
<1>14. ASSUME NEW r \in Requests, RegisterComputer(r) PROVE TypeOK'
  BY <1>14 DEF TypeOK, RegisterComputer, Go, stores, Arg, Pcs
<1>15. ASSUME NEW r \in Requests, CheckPairingLive(r) PROVE TypeOK'
  BY <1>15 DEF TypeOK, CheckPairingLive, Go, Finish, stores, ledger, Pcs, Results
<1>16. ASSUME NEW r \in Requests, PgDecide(r) PROVE TypeOK'
  <2>1. arg[r].key \in Keys /\ arg[r].s \in Sessions
    BY <1>16 DEF TypeOK, PgDecide, Arg
  <2>2. DecidedRow(r) \in PgStatus /\ PgDecideOutcome(r) \in Results
    BY <2>1 DEF TypeOK, DecidedRow, PgDecideOutcome, PgRow, PgStatus, Results
  <2>3. GrantOf(r) \subseteq Sessions \X Keys \X Requests
    BY <2>1 DEF GrantOf
  <2>4. pg' \in [Sessions -> PgRow]
    BY <1>16, <2>1, <2>2 DEF TypeOK, PgDecide, PgRow
  <2>5. grants' \subseteq Sessions \X Keys \X Requests
    BY <1>16, <2>3 DEF TypeOK, PgDecide
  <2>6. pc' \in [Requests -> Pcs] /\ res' \in [Requests -> Results]
    BY <1>16, <2>2 DEF TypeOK, PgDecide, Go, Finish, Pcs, Results
  <2>7. \A q \in Requests : pc'[q] # "idle" => arg[q] \in Arg
    BY <1>16 DEF TypeOK, PgDecide, Go, Finish
  <2> QED BY <1>16, <2>4, <2>5, <2>6, <2>7 DEF TypeOK, PgDecide
<1>17. ASSUME NEW r \in Requests, RedisMark(r) PROVE TypeOK'
  <2>1. rd' \in [Sessions -> RdHash]
    <3> DEFINE h == [rd[arg[r].s] EXCEPT !.status = LatchStatus(r)]
               kept == [h EXCEPT !.kill = now + ConsumedKeep]
    <3>0. arg[r].s \in Sessions /\ LatchStatus(r) \in RdStatus
      BY <1>17 DEF TypeOK, RedisMark, LatchStatus, Arg, RdStatus
    <3>1. h \in RdHash
      BY <3>0, HashType DEF TypeOK
    <3>2. kept \in RdHash
      <4>1. now + ConsumedKeep \in Nat
        BY DEF TypeOK
      <4> HIDE DEF h
      <4> QED BY <3>1, <4>1, HashType
    <3>3. rd' = [rd EXCEPT ![arg[r].s] = kept] \/ rd' = [rd EXCEPT ![arg[r].s] = h]
          \/ rd' = rd
      BY <1>17, <3>0 DEF TypeOK, RedisMark, MarkPairingConsumed
    <3> HIDE DEF h, kept
    <3> QED BY <3>0, <3>1, <3>2, <3>3 DEF TypeOK
  <2> QED BY <1>17, <2>1 DEF TypeOK, RedisMark, Go, ledger, Pcs
<1>18. ASSUME NEW r \in Requests, Abort(r) PROVE TypeOK'
  <2>1. res' \in [Requests -> Results]
    BY <1>18 DEF TypeOK, Abort, Results
  <2>2. pc' \in [Requests -> Pcs] /\ \A q \in Requests : pc'[q] # "idle" => arg[q] \in Arg
    BY <1>18 DEF TypeOK, Abort, Pcs
  <2> QED BY <1>18, <2>1, <2>2 DEF TypeOK, Abort, stores, ledger
<1>19. CASE Tick
  BY <1>19, HashType DEF TypeOK, Tick, ledger
<1>20. CASE UNCHANGED vars
  BY <1>20 DEF TypeOK, vars
<1> QED
  BY <1>1, <1>2, <1>3, <1>4, <1>5, <1>6, <1>7, <1>8, <1>9, <1>10, <1>11, <1>12,
     <1>13, <1>14, <1>15, <1>16, <1>17, <1>18, <1>19, <1>20
  DEF Next, RequestStep

\* Type correctness of the whole protocol, for every value of the constants.
THEOREM TypeCorrect == Spec => []TypeOK
<1>1. Init => TypeOK
  <2>1. NoRow \in PgRow /\ NoHash \in RdHash /\ NoCard \in Card
    BY HashType DEF NoRow, NoCard, PgRow, PgStatus, Card, KeyOrNone
  <2>2. "idle" \in Pcs /\ "none" \in Results
    BY DEF Pcs, Results
  <2> QED BY <2>1, <2>2 DEF Init, TypeOK
<1> QED
  BY <1>1, TypeStep, PTL DEF Spec

-----------------------------------------------------------------------------
(* What a step can do to the audit rows and the grants.  The proofs about   *)
(* Postgres state rest on this classification alone.                        *)

RowCreated(s) ==
    /\ pg[s] = NoRow
    /\ \E e \in Nat :
          pg' = [pg EXCEPT ![s] = [status |-> "pending", exp |-> e, join |-> NoKey]]
    /\ grants' = grants

RowJoined(s) ==
    /\ pg[s].status = "pending" /\ pg[s].join = NoKey
    /\ \E k \in Keys : pg' = [pg EXCEPT ![s].join = k]
    /\ grants' = grants

RowClosed(s) ==
    /\ pg[s].status = "pending"
    /\ \E v \in {"expired", "rejected"} : pg' = [pg EXCEPT ![s].status = v]
    /\ grants' = grants

RowApproved(s) ==
    /\ pg[s].status = "pending" /\ pg[s].join \in Keys
    /\ pg' = [pg EXCEPT ![s].status = "approved"]
    /\ \E r \in Requests : grants' = grants \cup {<<s, pg[s].join, r>>}

RowStep ==
    \/ UNCHANGED <<pg, grants>>
    \/ \E s \in Sessions : RowCreated(s) \/ RowJoined(s) \/ RowClosed(s) \/ RowApproved(s)

\* Every step of the protocol is one of these five.
LEMMA StepIsRowStep == TypeOK /\ [Next]_vars => RowStep
<1> SUFFICES ASSUME TypeOK, [Next]_vars PROVE RowStep
  OBVIOUS
<1> USE ConstantsAssumption
<1>0. ASSUME NEW s \in Sessions, LazyExpire(s), grants' = grants PROVE RowStep
  BY <1>0 DEF LazyExpire, RowStep, RowClosed
<1>1. ASSUME NEW s \in Sessions, PairingCreate(s) PROVE RowStep
  <2>1. now + PairingTTL \in Nat
    BY DEF TypeOK
  <2>2. RowCreated(s)
    BY <1>1, <2>1 DEF PairingCreate, RowCreated
  <2> QED BY <2>2 DEF RowStep
<1>2. ASSUME NEW s \in Sessions, PairingGet(s) PROVE RowStep
  BY <1>0, <1>2 DEF PairingGet
<1>3. ASSUME NEW r \in Requests, JoinGet(r) PROVE RowStep
  BY <1>0, <1>3 DEF TypeOK, JoinGet, Arg, ledger
<1>4. ASSUME NEW r \in Requests, DecideGet(r) PROVE RowStep
  BY <1>0, <1>4 DEF TypeOK, DecideGet, Arg, ledger
<1>5. ASSUME NEW r \in Requests, PgJoin(r) PROVE RowStep
  <2>1. arg[r].s \in Sessions /\ arg[r].key \in Keys
    BY <1>5 DEF TypeOK, PgJoin, Arg
  <2>2. grants' = grants
    BY <1>5 DEF PgJoin, ledger
  <2>3. pg' = pg \/ pg' = PgSubmitJoinRequest(arg[r].s, arg[r].key)
    BY <1>5 DEF PgJoin
  <2>4. CASE pg' = pg
    BY <2>2, <2>4 DEF RowStep
  <2>5. CASE pg' = PgSubmitJoinRequest(arg[r].s, arg[r].key)
    <3>1. CASE PgJoinOutcome(arg[r].s) = "ok"
      <4>1. RowJoined(arg[r].s)
        BY <2>1, <2>2, <2>5, <3>1 DEF PgSubmitJoinRequest, PgJoinOutcome, RowJoined
      <4> QED BY <2>1, <4>1 DEF RowStep
    <3>2. CASE PgJoinOutcome(arg[r].s) = "expired"
      <4>1. pg' = pg \/ RowClosed(arg[r].s)
        BY <2>1, <2>2, <2>5, <3>2 DEF PgSubmitJoinRequest, RowClosed
      <4> QED BY <2>1, <2>2, <4>1 DEF RowStep
    <3>3. CASE PgJoinOutcome(arg[r].s) \notin {"ok", "expired"}
      <4>1. pg' = pg
        BY <2>5, <3>3 DEF PgSubmitJoinRequest
      <4> QED BY <2>2, <4>1 DEF RowStep
    <3> QED BY <3>1, <3>2, <3>3
  <2> QED BY <2>3, <2>4, <2>5
<1>6. ASSUME NEW r \in Requests, PgDecide(r) PROVE RowStep
  <2> DEFINE s == arg[r].s
  <2>1. s \in Sessions /\ arg[r].key \in Keys /\ arg[r].op \in Ops
    BY <1>6 DEF TypeOK, PgDecide, Arg
  <2>2. \/ UNCHANGED <<pg, grants>>
        \/ /\ pg' = [pg EXCEPT ![s].status = DecidedRow(r)]
           /\ grants' = grants \cup GrantOf(r)
    BY <1>6 DEF PgDecide
  <2>3. CASE UNCHANGED <<pg, grants>>
    BY <2>3 DEF RowStep
  <2>4. CASE /\ pg' = [pg EXCEPT ![s].status = DecidedRow(r)]
             /\ grants' = grants \cup GrantOf(r)
    <3>1. CASE PgDecideOutcome(r) = "ok" /\ arg[r].op = "approve"
      <4>1. pg[s].status = "pending" /\ pg[s].join = arg[r].key
        BY <3>1 DEF PgDecideOutcome
      <4>2. DecidedRow(r) = "approved" /\ GrantOf(r) = {<<s, pg[s].join, r>>}
        BY <3>1, <4>1 DEF DecidedRow, GrantOf
      <4>3. RowApproved(s)
        BY <2>1, <2>4, <4>1, <4>2 DEF RowApproved
      <4> QED BY <2>1, <4>3 DEF RowStep
    <3>2. CASE PgDecideOutcome(r) = "ok" /\ arg[r].op # "approve"
      <4>1. pg[s].status = "pending" /\ DecidedRow(r) = "rejected" /\ GrantOf(r) = {}
        BY <3>2 DEF PgDecideOutcome, DecidedRow, GrantOf
      <4>2. RowClosed(s)
        BY <2>4, <4>1 DEF RowClosed
      <4> QED BY <2>1, <4>2 DEF RowStep
    <3>3. CASE PgDecideOutcome(r) = "expired"
      <4>1. pg[s].status = "pending" /\ DecidedRow(r) = "expired" /\ GrantOf(r) = {}
        BY <3>3 DEF PgDecideOutcome, DecidedRow, GrantOf
      <4>2. RowClosed(s)
        BY <2>4, <4>1 DEF RowClosed
      <4> QED BY <2>1, <4>2 DEF RowStep
    <3>4. CASE PgDecideOutcome(r) \notin {"ok", "expired"}
      <4>1. DecidedRow(r) = pg[s].status /\ GrantOf(r) = {}
        BY <3>4 DEF DecidedRow, GrantOf
      <4>2. pg' = pg /\ grants' = grants
        BY <2>1, <2>4, <4>1 DEF TypeOK, PgRow
      <4> QED BY <4>2 DEF RowStep
    <3> QED BY <3>1, <3>2, <3>3, <3>4
  <2> QED BY <2>2, <2>3, <2>4
<1>7. ASSUME NEW s \in Sessions, RedisLoses(s) PROVE RowStep
  BY <1>7 DEF RedisLoses, ledger, RowStep
<1>8. ASSUME NEW r \in Requests,
             \/ JoinStart(r) \/ DecideStart(r) \/ MarkRequest(r) \/ RedisJoinRead(r)
             \/ RedisJoinClaim(r) \/ RedisJoinTTL(r) \/ RedisJoinFields(r)
             \/ RegisterComputer(r) \/ CheckPairingLive(r) \/ RedisMark(r) \/ Abort(r)
      PROVE  RowStep
  BY <1>8 DEF JoinStart, DecideStart, MarkRequest, RedisJoinRead, RedisJoinClaim,
     RedisJoinTTL, RedisJoinFields, RegisterComputer, CheckPairingLive, RedisMark,
     Abort, stores, ledger, RowStep
<1>9. CASE Tick \/ UNCHANGED vars
  BY <1>9 DEF Tick, vars, ledger, RowStep
<1> QED
  BY <1>1, <1>2, <1>3, <1>4, <1>5, <1>6, <1>7, <1>8, <1>9 DEF Next, RequestStep

\* A row step keeps what is decided, keeps a join, and only adds grants.
LEMMA RowStepAppends ==
    ASSUME TypeOK, RowStep
    PROVE  /\ \A s \in Sessions :
                /\ pg[s].status \notin {"absent", "pending"} => pg'[s] = pg[s]
                /\ pg[s].join # NoKey => pg'[s].join = pg[s].join
           /\ grants \subseteq grants'
<1>1. CASE UNCHANGED <<pg, grants>>
  BY <1>1
<1>2. ASSUME NEW s \in Sessions, RowCreated(s)
      PROVE  /\ \A u \in Sessions :
                   /\ pg[u].status \notin {"absent", "pending"} => pg'[u] = pg[u]
                   /\ pg[u].join # NoKey => pg'[u].join = pg[u].join
             /\ grants \subseteq grants'
  BY <1>2 DEF TypeOK, RowCreated, NoRow, PgRow
<1>3. ASSUME NEW s \in Sessions, RowJoined(s) \/ RowClosed(s) \/ RowApproved(s)
      PROVE  /\ \A u \in Sessions :
                   /\ pg[u].status \notin {"absent", "pending"} => pg'[u] = pg[u]
                   /\ pg[u].join # NoKey => pg'[u].join = pg[u].join
             /\ grants \subseteq grants'
  BY <1>3 DEF TypeOK, RowJoined, RowClosed, RowApproved, PgRow
<1> QED BY <1>1, <1>2, <1>3 DEF RowStep

\* The audit trail is append-only (0003_trust.sql), for every step.
THEOREM AuditAppendOnly == Spec => AuditIsAppendOnly
<1>1. TypeOK /\ [Next]_vars =>
        [/\ \A s \in Sessions :
              /\ pg[s].status \notin {"absent", "pending"} => pg'[s] = pg[s]
              /\ pg[s].join # NoKey => pg'[s].join = pg[s].join
         /\ grants \subseteq grants']_vars
  BY StepIsRowStep, RowStepAppends
<1> QED BY <1>1, TypeCorrect, PTL DEF Spec, AuditIsAppendOnly

-----------------------------------------------------------------------------
(* One grant per session.                                                   *)

\* A row step keeps grants and approved rows in step, one for one.
LEMMA SingleGrantStep == TypeOK /\ SingleGrant /\ RowStep => SingleGrant'
<1> SUFFICES ASSUME TypeOK, SingleGrant, RowStep PROVE SingleGrant'
  OBVIOUS
<1>0. \A g \in grants : g[1] \in Sessions
  BY DEF TypeOK
<1>1. CASE UNCHANGED <<pg, grants>>
  BY <1>1 DEF SingleGrant
<1>2. ASSUME NEW s \in Sessions, RowCreated(s) PROVE SingleGrant'
  BY <1>0, <1>2 DEF TypeOK, SingleGrant, RowCreated, NoRow, PgRow
<1>3. ASSUME NEW s \in Sessions, RowJoined(s) PROVE SingleGrant'
  BY <1>0, <1>3 DEF TypeOK, SingleGrant, RowJoined, PgRow
<1>4. ASSUME NEW s \in Sessions, RowClosed(s) PROVE SingleGrant'
  BY <1>0, <1>4 DEF TypeOK, SingleGrant, RowClosed, PgRow
<1>5. ASSUME NEW s \in Sessions, RowApproved(s) PROVE SingleGrant'
  <2>1. PICK r \in Requests : grants' = grants \cup {<<s, pg[s].join, r>>}
    BY <1>5 DEF RowApproved
  <2>2. \A g \in grants : g[1] # s
    BY <1>5 DEF RowApproved, SingleGrant
  <2>3. /\ pg' = [pg EXCEPT ![s].status = "approved"]
        /\ pg'[s].status = "approved" /\ pg'[s].join = pg[s].join
        /\ \A u \in Sessions : u # s => pg'[u] = pg[u]
    BY <1>5 DEF RowApproved, TypeOK, PgRow
  <2>4. \A g, h \in grants' : g[1] = h[1] => g = h
    BY <2>1, <2>2 DEF SingleGrant
  <2>5. \A g \in grants' : pg'[g[1]].status = "approved" /\ pg'[g[1]].join = g[2]
    BY <1>0, <2>1, <2>2, <2>3 DEF SingleGrant
  <2>6. \A u \in Sessions : pg'[u].status = "approved" => \E g \in grants' : g[1] = u
    <3> TAKE u \in Sessions
    <3>1. CASE u = s
      <4>1. <<s, pg[s].join, r>> \in grants' /\ <<s, pg[s].join, r>>[1] = s
        BY <2>1
      <4> QED BY <3>1, <4>1
    <3>2. CASE u # s
      BY <2>1, <2>3, <3>2 DEF SingleGrant
    <3> QED BY <3>1, <3>2
  <2> QED BY <2>4, <2>5, <2>6 DEF SingleGrant
<1> QED BY <1>1, <1>2, <1>3, <1>4, <1>5 DEF RowStep

\* Single use of a session, for every number of requests: at most one grant,
\* exactly where the row says approved, for the key that joined.
THEOREM SingleGrantHolds == Spec => []SingleGrant
<1>1. Init => SingleGrant
  BY DEF Init, SingleGrant, NoRow
<1>2. TypeOK /\ SingleGrant /\ [Next]_vars => SingleGrant'
  BY StepIsRowStep, SingleGrantStep
<1> QED BY <1>1, <1>2, TypeCorrect, PTL DEF Spec

-----------------------------------------------------------------------------
(* Answers and the latch.  AnsweredDecisionStands alone is not inductive:   *)
(* one must know that a request that has not started has no outcome, and    *)
(* that only the two decision requests reach the decide.                    *)

HandlerInv ==
    \A r \in Requests :
        /\ pc[r] = "idle" => res[r] = "none"
        /\ pc[r] \in {"rd_join", "rd_nx", "rd_ttl", "rd_fields", "pg_join", "pg_only"}
              => arg[r].op = "join"
        /\ pc[r] \in {"register", "rd_live", "pg_decide"} => arg[r].op # "join"

Verdict(r) == IF arg[r].op = "approve" THEN "approved" ELSE "rejected"

\* What a step of one handler may do to the outcomes and the phase.
OutcomeStep ==
    \A r \in Requests :
        /\ pc[r] # "idle" => arg'[r] = arg[r] /\ pc'[r] # "idle"
        /\ res'[r] = "ok" /\ arg'[r].op # "join" =>
              \/ res[r] = "ok" /\ pc[r] # "idle"
              \/ pg'[arg[r].s].status = Verdict(r) /\ pc[r] # "idle"

\* Phases and requests match, whatever the stores answer.
LEMMA HandlerStep == TypeOK /\ HandlerInv /\ [Next]_vars => HandlerInv'
<1> SUFFICES ASSUME TypeOK, HandlerInv, [Next]_vars PROVE HandlerInv'
  OBVIOUS
<1>1. ASSUME NEW s \in Sessions, PairingCreate(s) \/ PairingGet(s) \/ RedisLoses(s)
      PROVE  HandlerInv'
  BY <1>1 DEF TypeOK, HandlerInv, PairingCreate, PairingGet, RedisLoses
<1>2. ASSUME NEW r \in Requests, JoinStart(r) PROVE HandlerInv'
  BY <1>2 DEF TypeOK, HandlerInv, JoinStart, Go, Arg
<1>3. ASSUME NEW r \in Requests, DecideStart(r) PROVE HandlerInv'
  BY <1>3 DEF TypeOK, HandlerInv, DecideStart, Go, Arg
<1>4. ASSUME NEW r \in Requests, JoinGet(r) PROVE HandlerInv'
  BY <1>4 DEF TypeOK, HandlerInv, JoinGet, Go, Finish, ReadErr
<1>5. ASSUME NEW r \in Requests, MarkRequest(r) PROVE HandlerInv'
  BY <1>5 DEF TypeOK, HandlerInv, MarkRequest, Go, Finish
<1>6. ASSUME NEW r \in Requests, RedisJoinRead(r) PROVE HandlerInv'
  BY <1>6 DEF TypeOK, HandlerInv, RedisJoinRead, Go, Finish
<1>7. ASSUME NEW r \in Requests, RedisJoinClaim(r) PROVE HandlerInv'
  BY <1>7 DEF TypeOK, HandlerInv, RedisJoinClaim, Go, Finish
<1>8. ASSUME NEW r \in Requests, RedisJoinTTL(r) PROVE HandlerInv'
  BY <1>8 DEF TypeOK, HandlerInv, RedisJoinTTL, Go
<1>9. ASSUME NEW r \in Requests, RedisJoinFields(r) PROVE HandlerInv'
  BY <1>9 DEF TypeOK, HandlerInv, RedisJoinFields, Go
<1>10. ASSUME NEW r \in Requests, DecideGet(r) PROVE HandlerInv'
  BY <1>10 DEF TypeOK, HandlerInv, DecideGet, Go, Finish, ReadErr
<1>11. ASSUME NEW r \in Requests, RegisterComputer(r) PROVE HandlerInv'
  BY <1>11 DEF TypeOK, HandlerInv, RegisterComputer, Go
<1>12. ASSUME NEW r \in Requests, CheckPairingLive(r) PROVE HandlerInv'
  BY <1>12 DEF TypeOK, HandlerInv, CheckPairingLive, Go, Finish
<1>13. ASSUME NEW r \in Requests, RedisMark(r) PROVE HandlerInv'
  BY <1>13 DEF TypeOK, HandlerInv, RedisMark, Go
<1>14. ASSUME NEW r \in Requests, PgJoin(r) PROVE HandlerInv'
  BY <1>14 DEF TypeOK, HandlerInv, PgJoin, Go, Finish
<1>15. ASSUME NEW r \in Requests, PgDecide(r) PROVE HandlerInv'
  BY <1>15 DEF TypeOK, HandlerInv, PgDecide, Go, Finish
<1>16. ASSUME NEW r \in Requests, Abort(r) PROVE HandlerInv'
  BY <1>16 DEF TypeOK, HandlerInv, Abort
<1>17. CASE Tick \/ UNCHANGED vars
  BY <1>17 DEF HandlerInv, Tick, vars
<1> QED
  BY <1>1, <1>2, <1>3, <1>4, <1>5, <1>6, <1>7, <1>8, <1>9, <1>10,
     <1>11, <1>12, <1>13, <1>14, <1>15, <1>16, <1>17
  DEF Next, RequestStep

\* A decision is answered "ok" only by the transaction that recorded it.
LEMMA StepIsOutcomeStep == TypeOK /\ HandlerInv /\ [Next]_vars => OutcomeStep
<1> SUFFICES ASSUME TypeOK, HandlerInv, [Next]_vars PROVE OutcomeStep
  OBVIOUS
<1>1. ASSUME NEW s \in Sessions, PairingCreate(s) \/ PairingGet(s) \/ RedisLoses(s)
      PROVE  OutcomeStep
  BY <1>1 DEF TypeOK, HandlerInv, OutcomeStep, PairingCreate, PairingGet, RedisLoses
<1>2. ASSUME NEW r \in Requests, JoinStart(r) PROVE OutcomeStep
  BY <1>2 DEF TypeOK, HandlerInv, OutcomeStep, JoinStart, Go, Arg
<1>3. ASSUME NEW r \in Requests, DecideStart(r) PROVE OutcomeStep
  BY <1>3 DEF TypeOK, HandlerInv, OutcomeStep, DecideStart, Go, Arg
<1>4. ASSUME NEW r \in Requests, JoinGet(r) PROVE OutcomeStep
  BY <1>4 DEF TypeOK, HandlerInv, OutcomeStep, JoinGet, Go, Finish, ReadErr
<1>5. ASSUME NEW r \in Requests, MarkRequest(r) PROVE OutcomeStep
  BY <1>5 DEF TypeOK, HandlerInv, OutcomeStep, MarkRequest, Go, Finish
<1>6. ASSUME NEW r \in Requests, RedisJoinRead(r) PROVE OutcomeStep
  BY <1>6 DEF TypeOK, HandlerInv, OutcomeStep, RedisJoinRead, Go, Finish
<1>7. ASSUME NEW r \in Requests, RedisJoinClaim(r) PROVE OutcomeStep
  BY <1>7 DEF TypeOK, HandlerInv, OutcomeStep, RedisJoinClaim, Go, Finish
<1>8. ASSUME NEW r \in Requests, RedisJoinTTL(r) PROVE OutcomeStep
  BY <1>8 DEF TypeOK, HandlerInv, OutcomeStep, RedisJoinTTL, Go
<1>9. ASSUME NEW r \in Requests, RedisJoinFields(r) PROVE OutcomeStep
  BY <1>9 DEF TypeOK, HandlerInv, OutcomeStep, RedisJoinFields, Go
<1>10. ASSUME NEW r \in Requests, DecideGet(r) PROVE OutcomeStep
  BY <1>10 DEF TypeOK, HandlerInv, OutcomeStep, DecideGet, Go, Finish, ReadErr
<1>11. ASSUME NEW r \in Requests, RegisterComputer(r) PROVE OutcomeStep
  BY <1>11 DEF TypeOK, HandlerInv, OutcomeStep, RegisterComputer, Go
<1>12. ASSUME NEW r \in Requests, CheckPairingLive(r) PROVE OutcomeStep
  BY <1>12 DEF TypeOK, HandlerInv, OutcomeStep, CheckPairingLive, Go, Finish
<1>13. ASSUME NEW r \in Requests, RedisMark(r) PROVE OutcomeStep
  BY <1>13 DEF TypeOK, HandlerInv, OutcomeStep, RedisMark, Go
<1>14. ASSUME NEW r \in Requests, PgJoin(r) PROVE OutcomeStep
  BY <1>14 DEF TypeOK, HandlerInv, OutcomeStep, PgJoin, Go, Finish
<1>15. ASSUME NEW r \in Requests, PgDecide(r) PROVE OutcomeStep
  <2>1. arg[r].s \in Sessions /\ arg[r].op # "join" /\ pc[r] # "idle"
    BY <1>15 DEF TypeOK, HandlerInv, PgDecide, Arg
  <2>2. arg' = arg /\ \A q \in Requests : q # r => res'[q] = res[q] /\ pc'[q] = pc[q]
    BY <1>15 DEF TypeOK, PgDecide, Go, Finish
  <2>3. pc'[r] # "idle"
    BY <1>15 DEF TypeOK, PgDecide, Go, Finish
  <2>4. res'[r] = "ok" => pg'[arg[r].s].status = Verdict(r)
    <3>1. SUFFICES ASSUME res'[r] = "ok" PROVE pg'[arg[r].s].status = Verdict(r)
      OBVIOUS
    <3>2. PgDecideOutcome(r) = "ok" /\ pg' = [pg EXCEPT ![arg[r].s].status = DecidedRow(r)]
      BY <1>15, <3>1 DEF TypeOK, PgDecide, Go, Finish
    <3>3. DecidedRow(r) = Verdict(r)
      BY <3>2 DEF DecidedRow, Verdict
    <3> QED BY <2>1, <3>2, <3>3 DEF TypeOK, PgRow
  <2> QED BY <2>1, <2>2, <2>3, <2>4 DEF HandlerInv, OutcomeStep
<1>16. ASSUME NEW r \in Requests, Abort(r) PROVE OutcomeStep
  BY <1>16 DEF TypeOK, HandlerInv, OutcomeStep, Abort
<1>17. CASE Tick \/ UNCHANGED vars
  BY <1>17 DEF HandlerInv, OutcomeStep, Tick, vars
<1> QED
  BY <1>1, <1>2, <1>3, <1>4, <1>5, <1>6, <1>7, <1>8, <1>9, <1>10,
     <1>11, <1>12, <1>13, <1>14, <1>15, <1>16, <1>17
  DEF Next, RequestStep

\* What two racing deciders need: the types, the phases, and both properties
\* together, because the latch is stamped from the outcome.
VerdictInv == HandlerInv /\ AnsweredDecisionStands /\ LatchVerdictIsDurable

\* A recorded verdict never moves, so no answer is ever contradicted.
LEMMA AnsweredStep ==
    TypeOK /\ HandlerInv /\ AnsweredDecisionStands /\ [Next]_vars => AnsweredDecisionStands'
<1> SUFFICES ASSUME TypeOK, HandlerInv, AnsweredDecisionStands, [Next]_vars,
                    NEW r \in Requests, res'[r] = "ok", arg'[r].op # "join"
             PROVE  pg'[arg'[r].s].status =
                       IF arg'[r].op = "approve" THEN "approved" ELSE "rejected"
  BY DEF AnsweredDecisionStands
<1>1. OutcomeStep
  BY StepIsOutcomeStep
<1>2. pc[r] # "idle" /\ arg'[r] = arg[r]
  BY <1>1 DEF OutcomeStep
<1>3. arg[r].s \in Sessions
  BY <1>2 DEF TypeOK, Arg
<1>4. CASE pg'[arg[r].s].status = Verdict(r)
  BY <1>2, <1>4 DEF Verdict
<1>5. CASE res[r] = "ok"
  <2>1. pg[arg[r].s].status = Verdict(r)
    BY <1>2, <1>5 DEF AnsweredDecisionStands, Verdict
  <2>2. pg[arg[r].s].status \notin {"absent", "pending"}
    BY <2>1 DEF Verdict
  <2>3. pg'[arg[r].s] = pg[arg[r].s]
    BY <1>3, <2>2, StepIsRowStep, RowStepAppends
  <2> QED BY <1>2, <2>1, <2>3 DEF Verdict
<1> QED BY <1>1, <1>4, <1>5 DEF OutcomeStep

\* Only RedisMark writes a verdict into the hash, and it writes the row's.
LEMMA LatchStep ==
    TypeOK /\ VerdictInv /\ [Next]_vars => LatchVerdictIsDurable'
<1> SUFFICES ASSUME TypeOK, VerdictInv, [Next]_vars,
                    NEW s \in Sessions, rd'[s].status \in {"approved", "rejected"}
             PROVE  rd'[s].status = pg'[s].status
  BY DEF LatchVerdictIsDurable
<1> DEFINE Same == rd'[s].status = rd[s].status
<1>1. Same => rd'[s].status = pg'[s].status
  <2> SUFFICES ASSUME Same PROVE rd'[s].status = pg'[s].status
    OBVIOUS
  <2>1. rd[s].status = pg[s].status
    BY DEF VerdictInv, LatchVerdictIsDurable
  <2>2. pg'[s] = pg[s]
    BY <2>1, StepIsRowStep, RowStepAppends
  <2> QED BY <2>1, <2>2
<1>2. ASSUME NEW u \in Sessions, PairingCreate(u) PROVE Same
  BY <1>2 DEF TypeOK, PairingCreate, RdHash, NoHash
<1>3. ASSUME NEW u \in Sessions, PairingGet(u) PROVE Same
  BY <1>3 DEF PairingGet
<1>4. ASSUME NEW u \in Sessions, RedisLoses(u) PROVE Same
  BY <1>4 DEF TypeOK, RedisLoses, NoHash
<1>5. ASSUME NEW r \in Requests,
             \/ JoinStart(r) \/ DecideStart(r) \/ JoinGet(r) \/ MarkRequest(r)
             \/ RedisJoinRead(r) \/ RedisJoinTTL(r) \/ PgJoin(r) \/ DecideGet(r)
             \/ RegisterComputer(r) \/ CheckPairingLive(r) \/ PgDecide(r) \/ Abort(r)
      PROVE  Same
  BY <1>5 DEF JoinStart, DecideStart, JoinGet, MarkRequest, RedisJoinRead,
     RedisJoinTTL, PgJoin, DecideGet, RegisterComputer, CheckPairingLive, PgDecide,
     Abort, stores
<1>6. ASSUME NEW r \in Requests, RedisJoinClaim(r) PROVE Same
  BY <1>6 DEF TypeOK, RedisJoinClaim, RdHash
<1>7. ASSUME NEW r \in Requests, RedisJoinFields(r) PROVE Same
  <2> DEFINE written == [rd EXCEPT ![arg[r].s].joinPub = arg[r].key]
  <2>1. arg[r].s \in Sessions
    BY <1>7 DEF TypeOK, RedisJoinFields, Arg
  <2>2. rd' = written \/ rd' = [written EXCEPT ![arg[r].s].kill = now + ttl[r]]
    BY <1>7 DEF RedisJoinFields
  <2>3. DOMAIN rd = Sessions /\ \A u \in Sessions : rd[u] \in RdHash
    BY DEF TypeOK
  <2>4. DOMAIN written = Sessions /\ written[s].status = rd[s].status
    BY <2>1, <2>3 DEF RdHash
  <2>5. \A t : [written EXCEPT ![arg[r].s].kill = t][s].status = written[s].status
    BY <2>1, <2>3 DEF RdHash
  <2> HIDE DEF written
  <2> QED BY <2>2, <2>4, <2>5
<1>8. ASSUME NEW r \in Requests, RedisMark(r) PROVE rd'[s].status = pg'[s].status
  <2>1. arg[r].s \in Sessions /\ pg' = pg
    BY <1>8 DEF TypeOK, RedisMark, Arg
  <2>2. Same \/ (arg[r].s = s /\ rd'[s].status = LatchStatus(r))
    BY <1>8, <2>1 DEF TypeOK, RedisMark, MarkPairingConsumed, RdHash
  <2>3. CASE arg[r].s = s /\ rd'[s].status = LatchStatus(r)
    <3>1. res[r] = "ok" /\ arg[r].op # "join" /\ LatchStatus(r) = Verdict(r)
      BY <2>3 DEF LatchStatus, Verdict
    <3>2. pg[s].status = Verdict(r)
      BY <2>3, <3>1 DEF VerdictInv, AnsweredDecisionStands, Verdict
    <3> QED BY <2>1, <2>3, <3>1, <3>2
  <2> QED BY <1>1, <2>2, <2>3
<1>9. CASE Tick
  <2>1. Same
    BY <1>9 DEF TypeOK, Tick, NoHash
  <2> QED BY <1>1, <2>1
<1>10. CASE UNCHANGED vars
  BY <1>1, <1>10 DEF vars
<1> QED
  BY <1>1, <1>2, <1>3, <1>4, <1>5, <1>6, <1>7, <1>8, <1>9, <1>10
  DEF Next, RequestStep

\* "First outcome stands" (api/pairing.go) and the Redis latch tells only
\* recorded verdicts, for any number of racing, dying and retried requests.
LEMMA VerdictInvariant == Spec => []VerdictInv
<1>1. Init => VerdictInv
  <2> SUFFICES ASSUME Init PROVE VerdictInv
    OBVIOUS
  <2>1. HandlerInv /\ AnsweredDecisionStands
    BY DEF Init, HandlerInv, AnsweredDecisionStands
  <2>2. \A s \in Sessions : rd[s].status = ""
    BY DEF Init, NoHash
  <2>3. LatchVerdictIsDurable
    BY <2>2 DEF LatchVerdictIsDurable
  <2> QED BY <2>1, <2>3 DEF VerdictInv
<1>2. TypeOK /\ VerdictInv /\ [Next]_vars => VerdictInv'
  BY HandlerStep, AnsweredStep, LatchStep DEF VerdictInv
<1> QED BY <1>1, <1>2, TypeCorrect, PTL DEF Spec

\* No two callers are told different verdicts about one session.
THEOREM AnsweredDecisionsStand == Spec => []AnsweredDecisionStands
<1>1. VerdictInv => AnsweredDecisionStands
  BY DEF VerdictInv
<1> QED BY <1>1, VerdictInvariant, PTL

\* The Redis hash never shows a verdict that the audit row does not hold.
THEOREM LatchVerdictsAreDurable == Spec => []LatchVerdictIsDurable
<1>1. VerdictInv => LatchVerdictIsDurable
  BY DEF VerdictInv
<1> QED BY <1>1, VerdictInvariant, PTL

-----------------------------------------------------------------------------
(* Refinement of the single-use latch.                                      *)

\* The empty stores are the latch before any session.
LEMMA InitRefines == Init => Latch!Init
<1> SUFFICES ASSUME Init PROVE Latch!Init
  OBVIOUS
<1>1. [s \in Sessions |-> pg[s].status] = [s \in Sessions |-> "absent"]
  BY DEF Init, NoRow
<1>2. [s \in Sessions |-> pg[s].join] = [s \in Sessions |-> NoKey]
  BY DEF Init, NoRow
<1>3. {<<g[1], g[2]>> : g \in grants} = {}
  BY DEF Init
<1> QED BY <1>1, <1>2, <1>3 DEF Latch!Init

\* A step on the audit rows is a step of the latch.
LEMMA RowStepRefines == TypeOK /\ RowStep => [Latch!Next]_(Latch!vars)
<1> SUFFICES ASSUME TypeOK, RowStep PROVE [Latch!Next]_(Latch!vars)
  OBVIOUS
<1> DEFINE State == [s \in Sessions |-> pg[s].status]
           Joined == [s \in Sessions |-> pg[s].join]
           Granted == {<<g[1], g[2]>> : g \in grants}
<1>0. grants' = grants => Granted' = Granted
  OBVIOUS
<1>1. CASE UNCHANGED <<pg, grants>>
  <2>1. State' = State /\ Joined' = Joined /\ Granted' = Granted
    BY <1>1
  <2> QED BY <2>1 DEF Latch!vars
<1>2. ASSUME NEW s \in Sessions, RowCreated(s) PROVE Latch!Next
  <2>0. PICK e \in Nat :
          pg' = [pg EXCEPT ![s] = [status |-> "pending", exp |-> e, join |-> NoKey]]
    BY <1>2 DEF RowCreated
  <2>01. pg[s].status = "absent" /\ pg[s].join = NoKey
    BY <1>2 DEF RowCreated, NoRow
  <2>02. /\ pg'[s].status = "pending" /\ pg'[s].join = NoKey
         /\ \A u \in Sessions : u # s => pg'[u] = pg[u]
    BY <2>0 DEF TypeOK
  <2>1. State[s] = "absent" /\ State' = [State EXCEPT ![s] = "pending"] /\ Joined' = Joined
    BY <2>01, <2>02
  <2>2. Granted' = Granted
    BY <1>2 DEF RowCreated
  <2>3. Latch!Create(s)
    BY <2>1, <2>2 DEF Latch!Create
  <2> QED BY <2>3 DEF Latch!Next
<1>3. ASSUME NEW s \in Sessions, RowJoined(s) PROVE Latch!Next
  <2>1. PICK k \in Keys : pg' = [pg EXCEPT ![s].join = k]
    BY <1>3 DEF RowJoined
  <2>11. /\ pg'[s].status = pg[s].status /\ pg'[s].join = k
         /\ \A u \in Sessions : u # s => pg'[u] = pg[u]
    BY <2>1 DEF TypeOK, PgRow
  <2>2. /\ State[s] = "pending" /\ Joined[s] = NoKey
        /\ State' = State /\ Joined' = [Joined EXCEPT ![s] = k]
    BY <1>3, <2>11 DEF RowJoined
  <2>3. Granted' = Granted
    BY <1>3 DEF RowJoined
  <2>4. Latch!Join(s, k)
    BY <2>2, <2>3 DEF Latch!Join
  <2> QED BY <2>4 DEF Latch!Next
<1>4. ASSUME NEW s \in Sessions, RowClosed(s) PROVE Latch!Next
  <2>1. PICK v \in {"expired", "rejected"} : pg' = [pg EXCEPT ![s].status = v]
    BY <1>4 DEF RowClosed
  <2>2. /\ State[s] = "pending"
        /\ State' = [State EXCEPT ![s] = v] /\ Joined' = Joined
    <3>1. /\ pg \in [Sessions -> PgRow] /\ pg[s].status = "pending"
      BY <1>4 DEF TypeOK, RowClosed
    <3>2. \A u \in Sessions : /\ pg'[u].join = pg[u].join
                              /\ pg'[u].status = IF u = s THEN v ELSE pg[u].status
      BY <2>1, <3>1 DEF PgRow
    <3> QED BY <3>1, <3>2
  <2>3. Granted' = Granted
    BY <1>4 DEF RowClosed
  <2>4. Latch!Close(s, v)
    BY <2>2, <2>3 DEF Latch!Close
  <2> QED BY <2>4 DEF Latch!Next
<1>5. ASSUME NEW s \in Sessions, RowApproved(s) PROVE Latch!Next
  <2>1. PICK r \in Requests : grants' = grants \cup {<<s, pg[s].join, r>>}
    BY <1>5 DEF RowApproved
  <2>2. /\ State[s] = "pending" /\ Joined[s] # NoKey
        /\ State' = [State EXCEPT ![s] = "approved"] /\ Joined' = Joined
    BY <1>5, ConstantsAssumption DEF TypeOK, RowApproved, PgRow
  <2>3. Granted' = Granted \cup {<<s, Joined[s]>>}
    <3>1. <<s, pg[s].join, r>>[1] = s /\ <<s, pg[s].join, r>>[2] = Joined[s]
      OBVIOUS
    <3>2. Granted' = {<<g[1], g[2]>> : g \in grants \cup {<<s, pg[s].join, r>>}}
      BY <2>1
    <3> HIDE DEF Joined
    <3> QED BY <3>1, <3>2
  <2>4. Latch!Approve(s)
    BY <2>2, <2>3 DEF Latch!Approve
  <2> QED BY <2>4 DEF Latch!Next
<1> QED BY <1>1, <1>2, <1>3, <1>4, <1>5 DEF RowStep

\* The two-store protocol implements the single-use latch: every behaviour
\* is, step by step, one of PairingLatch or a stutter.
THEOREM RefinesLatch == Spec => ImplementsLatch
<1>1. TypeOK /\ [Next]_vars => [Latch!Next]_(Latch!vars)
  BY StepIsRowStep, RowStepRefines
<1> QED BY <1>1, InitRefines, TypeCorrect, PTL DEF Spec, ImplementsLatch, Latch!Spec

-----------------------------------------------------------------------------
(* The key the Owner is shown and the key the grant names.  A hash that     *)
(* still has the fields of its creation (exp # 0) was never lost, so its    *)
(* HSetNX claim admitted one join: the one that wrote join_pub, and the     *)
(* only one that may reach the audit row while the hash is there.           *)

\* Nobody works on a session before its row is there.
KnownInv ==
    /\ \A s \in offered : pg[s].status # "absent"
    /\ \A s \in Sessions : card[s].key # NoKey => pg[s].status # "absent"
    /\ \A r \in Requests : pc[r] # "idle" => pg[arg[r].s].status # "absent"

Claiming == {"rd_ttl", "rd_fields"}
Writing  == {"pg_join", "pg_only"}

HashFits(s) ==
    /\ pg[s].status # "absent" /\ rd[s].status # ""
    /\ ~rd[s].joinReq => rd[s].joinPub = NoKey
    /\ pg[s].join # NoKey => rd[s].joinPub = pg[s].join

JoinFits(r) ==
    /\ pc[r] \in Claiming => rd[arg[r].s].joinReq /\ rd[arg[r].s].joinPub = NoKey
    /\ pc[r] \in Writing  => pc[r] = "pg_join" /\ rd[arg[r].s].joinPub = arg[r].key

KeyInv ==
    /\ \A s \in Sessions : rd[s].exp # 0 => HashFits(s)
    /\ \A r \in Requests : pc[r] # "idle" /\ rd[arg[r].s].exp # 0 => JoinFits(r)
    /\ \A r, q \in Requests :
          /\ pc[r] \in Claiming /\ pc[q] \in Claiming
          /\ arg[r].s = arg[q].s /\ rd[arg[r].s].exp # 0
          => r = q

\* A row, once there, stays, and its join changes only by PgJoin.
LEMMA RowsStay ==
    ASSUME TypeOK, RowStep
    PROVE  \A s \in Sessions : pg[s].status # "absent" => pg'[s].status # "absent"
<1>1. CASE UNCHANGED <<pg, grants>>
  BY <1>1
<1>2. ASSUME NEW s \in Sessions,
             RowCreated(s) \/ RowJoined(s) \/ RowClosed(s) \/ RowApproved(s)
      PROVE  \A u \in Sessions : pg[u].status # "absent" => pg'[u].status # "absent"
  BY <1>2 DEF TypeOK, RowCreated, RowJoined, RowClosed, RowApproved, PgRow
<1> QED BY <1>1, <1>2 DEF RowStep

\* Offers, cards and requests only ever name sessions with a row.
LEMMA KnownStep == TypeOK /\ HandlerInv /\ KnownInv /\ [Next]_vars => KnownInv'
<1> SUFFICES ASSUME TypeOK, HandlerInv, KnownInv, [Next]_vars PROVE KnownInv'
  OBVIOUS
<1> USE DEF stores, ledger
<1>1. \A s \in Sessions : pg[s].status # "absent" => pg'[s].status # "absent"
  BY StepIsRowStep, RowsStay
<1>2. \A r \in Requests : pc[r] # "idle" => arg[r].s \in Sessions
  BY DEF TypeOK, Arg
<1>3. CASE /\ UNCHANGED <<offered, card>>
           /\ \A r \in Requests : pc'[r] # "idle" => pc[r] # "idle" /\ arg'[r] = arg[r]
  BY <1>1, <1>2, <1>3 DEF KnownInv, TypeOK
<1>4. ASSUME NEW s \in Sessions, PairingCreate(s) PROVE KnownInv'
  <2>1. pg'[s].status = "pending" /\ offered' \subseteq offered \cup {s}
        /\ UNCHANGED <<card, pc, arg>>
    BY <1>4 DEF PairingCreate, TypeOK
  <2> QED BY <1>1, <1>2, <2>1 DEF KnownInv, TypeOK
<1>5. ASSUME NEW s \in Sessions, PairingGet(s) PROVE KnownInv'
  <2>1. /\ s \in offered /\ UNCHANGED <<offered, pc, arg>>
        /\ \A u \in Sessions : u # s => card'[u] = card[u]
    BY <1>5 DEF PairingGet, TypeOK
  <2> QED BY <1>1, <1>2, <2>1 DEF KnownInv, TypeOK
<1>6. ASSUME NEW r \in Requests, JoinStart(r) \/ DecideStart(r) PROVE KnownInv'
  <2>1. UNCHANGED <<offered, card, pg>> /\ pc[r] = "idle"
        /\ \A q \in Requests : q # r => pc'[q] = pc[q] /\ arg'[q] = arg[q]
    BY <1>6 DEF JoinStart, DecideStart, Go, TypeOK
  <2>2. PICK u \in Sessions : arg'[r].s = u /\ (u \in offered \/ card[u].key # NoKey)
    BY <1>6 DEF JoinStart, DecideStart, TypeOK
  <2> QED BY <2>1, <2>2 DEF KnownInv
<1>7. ASSUME NEW r \in Requests, RequestStep(r) \/ Abort(r) PROVE KnownInv'
  <2>1. pc[r] # "idle" /\ UNCHANGED <<offered, card, arg>>
    BY <1>7 DEF RequestStep, JoinGet, MarkRequest, RedisJoinRead, RedisJoinClaim,
       RedisJoinTTL, RedisJoinFields, PgJoin, DecideGet, RegisterComputer,
       CheckPairingLive, PgDecide, RedisMark, Abort
  <2>2. \E p : pc' = [pc EXCEPT ![r] = p]
    BY <1>7 DEF RequestStep, JoinGet, MarkRequest, RedisJoinRead, RedisJoinClaim,
       RedisJoinTTL, RedisJoinFields, PgJoin, DecideGet, RegisterComputer,
       CheckPairingLive, PgDecide, RedisMark, Abort, Go, Finish
  <2> QED BY <1>3, <2>1, <2>2 DEF TypeOK
<1>8. CASE (\E s \in Sessions : RedisLoses(s)) \/ Tick \/ UNCHANGED vars
  <2>1. UNCHANGED <<offered, card, pc, arg>>
    BY <1>8 DEF RedisLoses, Tick, vars
  <2> QED BY <1>3, <2>1
<1> QED
  BY <1>4, <1>5, <1>6, <1>7, <1>8 DEF Next

\* A step that leaves the claims alone: no hash is given its fields or a
\* join, no row a join, and no request enters the claiming or writing phases.
Calm ==
    /\ \A s \in Sessions : rd'[s].exp # 0 =>
          /\ rd[s].exp # 0 /\ rd'[s].status # ""
          /\ rd'[s].joinReq = rd[s].joinReq /\ rd'[s].joinPub = rd[s].joinPub
    /\ \A s \in Sessions : pg'[s].join = pg[s].join
    /\ \A r \in Requests : pc'[r] \in Claiming \cup Writing =>
          /\ arg'[r] = arg[r]
          /\ pc'[r] \in Claiming <=> pc[r] \in Claiming
          /\ pc'[r] \in Writing => pc'[r] = pc[r]

\* A calm step keeps the agreement of the keys.
LEMMA CalmKeeps ==
    ASSUME TypeOK, RowStep, KeyInv, Calm
    PROVE  KeyInv'
<1>1. \A s \in Sessions : pg[s].status # "absent" => pg'[s].status # "absent"
  BY RowsStay
<1>2. \A r \in Requests : pc'[r] \in Claiming \cup Writing =>
         pc[r] # "idle" /\ arg[r].s \in Sessions /\ arg'[r] = arg[r]
  <2> SUFFICES ASSUME NEW r \in Requests, pc'[r] \in Claiming \cup Writing
               PROVE  pc[r] # "idle" /\ arg[r].s \in Sessions /\ arg'[r] = arg[r]
    OBVIOUS
  <2>1. pc[r] \in Claiming \cup Writing /\ arg'[r] = arg[r]
    BY DEF Calm
  <2>2. pc[r] # "idle"
    BY <2>1 DEF Claiming, Writing
  <2> QED BY <2>1, <2>2 DEF TypeOK, Arg
<1>3. ASSUME NEW s \in Sessions, rd'[s].exp # 0 PROVE HashFits(s)'
  <2>1. /\ rd[s].exp # 0 /\ rd'[s].status # "" /\ pg'[s].join = pg[s].join
        /\ rd'[s].joinReq = rd[s].joinReq /\ rd'[s].joinPub = rd[s].joinPub
    BY <1>3 DEF Calm
  <2>2. HashFits(s)
    BY <2>1 DEF KeyInv
  <2> QED BY <1>1, <2>1, <2>2 DEF HashFits
<1>4. \A r \in Requests : pc'[r] # "idle" /\ rd'[arg'[r].s].exp # 0 => JoinFits(r)'
  <2> SUFFICES ASSUME NEW r \in Requests, rd'[arg'[r].s].exp # 0,
                      pc'[r] \in Claiming \cup Writing
               PROVE  JoinFits(r)'
    BY DEF JoinFits
  <2>1. pc[r] # "idle" /\ arg[r].s \in Sessions /\ arg'[r] = arg[r]
    BY <1>2
  <2>2. JoinFits(r) /\ rd[arg[r].s].exp # 0
    BY <2>1 DEF KeyInv, Calm
  <2> QED BY <2>1, <2>2 DEF Calm, JoinFits
<1>5. \A r, q \in Requests :
          /\ pc'[r] \in Claiming /\ pc'[q] \in Claiming
          /\ arg'[r].s = arg'[q].s /\ rd'[arg'[r].s].exp # 0
          => r = q
  <2> SUFFICES ASSUME NEW r \in Requests, NEW q \in Requests,
                      pc'[r] \in Claiming, pc'[q] \in Claiming,
                      arg'[r].s = arg'[q].s, rd'[arg'[r].s].exp # 0
               PROVE  r = q
    OBVIOUS
  <2>1. /\ arg[r].s \in Sessions /\ arg'[r] = arg[r] /\ arg'[q] = arg[q]
        /\ pc[r] \in Claiming /\ pc[q] \in Claiming
    BY <1>2 DEF Calm
  <2>2. rd[arg[r].s].exp # 0
    BY <2>1 DEF Calm
  <2> QED BY <2>1, <2>2 DEF KeyInv
<1> QED BY <1>3, <1>4, <1>5 DEF KeyInv

\* Creating a session gives it a fresh hash, which nobody works on yet.
LEMMA CreateKeeps ==
    ASSUME TypeOK, KnownInv, KeyInv, NEW s \in Sessions, PairingCreate(s)
    PROVE  KeyInv'
<1>1. /\ pg[s] = NoRow /\ pg'[s].status = "pending" /\ pg'[s].join = NoKey
      /\ \A u \in Sessions : u # s => pg'[u] = pg[u] /\ rd'[u] = rd[u]
      /\ UNCHANGED <<pc, arg>>
  BY DEF PairingCreate, TypeOK
<1>2. rd'[s] = rd[s] \/ (rd'[s].status = "pending" /\ rd'[s].joinPub = NoKey)
  BY DEF PairingCreate, TypeOK, NoHash
<1>3. pg[s].status = "absent"
  BY <1>1 DEF NoRow
<1>4. rd[s].exp = 0
  BY <1>3 DEF KeyInv, HashFits
<1>5. \A r \in Requests : pc[r] # "idle" => arg[r].s \in Sessions \ {s}
  BY <1>3 DEF KnownInv, TypeOK, Arg
<1>6. \A u \in Sessions : rd'[u].exp # 0 => HashFits(u)'
  <2> SUFFICES ASSUME NEW u \in Sessions, rd'[u].exp # 0 PROVE HashFits(u)'
    OBVIOUS
  <2>1. CASE u = s
    BY <1>1, <1>2, <1>4, <2>1 DEF HashFits
  <2>2. CASE u # s
    BY <1>1, <2>2 DEF KeyInv, HashFits
  <2> QED BY <2>1, <2>2
<1>7. \A r \in Requests : pc'[r] # "idle" /\ rd'[arg'[r].s].exp # 0 => JoinFits(r)'
  BY <1>1, <1>5 DEF KeyInv, JoinFits
<1>8. \A r \in Requests : pc[r] \in Claiming => pc[r] # "idle"
  BY DEF Claiming
<1>9. \A r, q \in Requests :
          /\ pc'[r] \in Claiming /\ pc'[q] \in Claiming
          /\ arg'[r].s = arg'[q].s /\ rd'[arg'[r].s].exp # 0
          => r = q
  BY <1>1, <1>5, <1>8 DEF KeyInv
<1> QED BY <1>6, <1>7, <1>9 DEF KeyInv

\* HSetNX admits one claim to a hash that has its fields.
LEMMA ClaimKeeps ==
    ASSUME TypeOK, RowStep, KeyInv, NEW r \in Requests, RedisJoinClaim(r)
    PROVE  KeyInv'
<1> DEFINE s == arg[r].s
<1>1. /\ pc[r] = "rd_nx" /\ s \in Sessions /\ UNCHANGED <<pg, arg>>
      /\ \A q \in Requests : q # r => pc'[q] = pc[q]
  BY DEF RedisJoinClaim, TypeOK, Arg, Go, Finish
<1>2. CASE rd[s].joinReq
  <2>1. rd' = rd /\ pc'[r] = "done"
    BY <1>1, <1>2 DEF RedisJoinClaim, Finish, TypeOK
  <2>2. Calm
    BY <1>1, <2>1 DEF Calm, KeyInv, HashFits, Claiming, Writing
  <2> QED BY <2>2, CalmKeeps
<1>3. CASE ~rd[s].joinReq
  <2>1. /\ \A u \in Sessions : u # s => rd'[u] = rd[u]
        /\ rd'[s].joinReq /\ rd'[s].exp = rd[s].exp
        /\ rd'[s].joinPub = rd[s].joinPub /\ rd'[s].status = rd[s].status
        /\ pc'[r] = "rd_ttl"
    BY <1>1, <1>3 DEF RedisJoinClaim, Go, TypeOK, RdHash
  <2>2. rd[s].exp # 0 => rd[s].joinPub = NoKey
    BY <1>1, <1>3 DEF KeyInv, HashFits
  <2>3. \A q \in Requests : pc[q] \in Claiming /\ rd[s].exp # 0 => arg[q].s # s
    BY <1>1, <1>3 DEF KeyInv, JoinFits, Claiming
  <2>4. \A u \in Sessions : rd'[u].exp # 0 => HashFits(u)'
    <3> SUFFICES ASSUME NEW u \in Sessions, rd'[u].exp # 0 PROVE HashFits(u)'
      OBVIOUS
    <3>1. HashFits(u)
      BY <2>1 DEF KeyInv
    <3> QED BY <1>1, <2>1, <3>1 DEF HashFits
  <2>5. \A q \in Requests : pc[q] # "idle" => arg[q].s \in Sessions
    BY DEF TypeOK, Arg
  <2>6. ASSUME NEW q \in Requests, pc'[q] # "idle", rd'[arg[q].s].exp # 0
        PROVE  JoinFits(q)'
    <3>1. CASE q = r
      BY <1>1, <2>1, <2>2, <2>6, <3>1 DEF JoinFits, Claiming, Writing
    <3>2. CASE q # r
      <4>1. JoinFits(q) /\ arg[q].s \in Sessions
        BY <1>1, <2>1, <2>5, <2>6, <3>2 DEF KeyInv
      <4> QED BY <1>1, <2>1, <3>2, <4>1 DEF JoinFits
    <3> QED BY <3>1, <3>2
  <2>7. ASSUME NEW p \in Requests, NEW q \in Requests, pc'[p] \in Claiming,
               pc'[q] \in Claiming, arg[p].s = arg[q].s, rd'[arg[p].s].exp # 0
        PROVE  p = q
    <3>1. CASE arg[p].s = s
      BY <1>1, <2>1, <2>3, <2>7, <3>1 DEF Claiming
    <3>2. CASE arg[p].s # s
      <4>1. pc[p] \in Claiming /\ pc[q] \in Claiming
        BY <1>1, <2>7, <3>2
      <4>2. arg[p].s \in Sessions
        BY <2>5, <4>1 DEF Claiming
      <4> QED BY <2>1, <2>7, <3>2, <4>1, <4>2 DEF KeyInv
    <3> QED BY <3>1, <3>2
  <2> QED BY <1>1, <2>4, <2>6, <2>7 DEF KeyInv
<1> QED BY <1>2, <1>3

\* The one that claimed writes its key into the hash, before the row has one.
LEMMA FieldsKeep ==
    ASSUME TypeOK, RowStep, KeyInv, NEW r \in Requests, RedisJoinFields(r)
    PROVE  KeyInv'
<1> DEFINE s == arg[r].s
<1>1. /\ pc[r] = "rd_fields" /\ pc'[r] = "pg_join"
      /\ s \in Sessions /\ arg[r].key \in Keys /\ UNCHANGED <<pg, arg>>
      /\ \A q \in Requests : q # r => pc'[q] = pc[q]
  BY DEF RedisJoinFields, TypeOK, Arg, Go, ledger
<1>2. /\ \A u \in Sessions : u # s => rd'[u] = rd[u]
      /\ rd'[s].joinReq = rd[s].joinReq /\ rd'[s].exp = rd[s].exp
      /\ rd'[s].joinPub = arg[r].key /\ rd'[s].status = rd[s].status
  BY <1>1 DEF RedisJoinFields, TypeOK, RdHash
<1>3. rd[s].exp # 0 => rd[s].joinReq /\ rd[s].joinPub = NoKey /\ HashFits(s)
  BY <1>1 DEF KeyInv, JoinFits, Claiming
<1>4. rd[s].exp # 0 => pg[s].join = NoKey
  BY <1>3 DEF HashFits
<1>5. \A q \in Requests : pc[q] # "idle" => arg[q].s \in Sessions /\ arg[q].key \in Keys
  BY DEF TypeOK, Arg
<1>6. ASSUME NEW q \in Requests, q # r, pc[q] \in Claiming \cup Writing, rd[s].exp # 0
      PROVE  arg[q].s # s
  <2>1. pc[q] # "idle" /\ pc[r] \in Claiming
    BY <1>1, <1>6 DEF Claiming, Writing
  <2>2. CASE pc[q] \in Claiming
    BY <1>6, <2>1, <2>2 DEF KeyInv
  <2>3. CASE pc[q] \in Writing
    <3>1. arg[q].s = s => rd[s].joinPub = arg[q].key
      BY <1>6, <2>1, <2>3 DEF KeyInv, JoinFits
    <3> QED BY <1>3, <1>5, <1>6, <2>1, <3>1, ConstantsAssumption
  <2> QED BY <1>6, <2>2, <2>3
<1>7. \A u \in Sessions : rd'[u].exp # 0 => HashFits(u)'
  <2> SUFFICES ASSUME NEW u \in Sessions, rd'[u].exp # 0 PROVE HashFits(u)'
    OBVIOUS
  <2>1. HashFits(u)
    BY <1>2 DEF KeyInv
  <2> QED BY <1>1, <1>2, <1>3, <1>4, <2>1 DEF HashFits
<1>8. ASSUME NEW q \in Requests, pc'[q] # "idle", rd'[arg[q].s].exp # 0
      PROVE  JoinFits(q)'
  <2>1. CASE q = r
    BY <1>1, <1>2, <2>1 DEF JoinFits, Claiming, Writing
  <2>2. CASE q # r /\ pc[q] \in Claiming \cup Writing
    <3>1. arg[q].s \in Sessions /\ arg[q].s # s
      BY <1>1, <1>2, <1>5, <1>6, <1>8, <2>2
    <3>2. JoinFits(q)
      BY <1>1, <1>2, <1>8, <2>2, <3>1 DEF KeyInv
    <3> QED BY <1>1, <1>2, <2>2, <3>1, <3>2 DEF JoinFits
  <2>3. CASE q # r /\ pc[q] \notin Claiming \cup Writing
    BY <1>1, <2>3 DEF JoinFits
  <2> QED BY <2>1, <2>2, <2>3
<1>9. ASSUME NEW p \in Requests, NEW q \in Requests, pc'[p] \in Claiming,
             pc'[q] \in Claiming, arg[p].s = arg[q].s, rd'[arg[p].s].exp # 0
      PROVE  p = q
  <2>1. p # r /\ q # r
    BY <1>1, <1>9 DEF Claiming
  <2>2. pc[p] \in Claiming /\ pc[q] \in Claiming
    BY <1>1, <1>9, <2>1
  <2>3. arg[p].s \in Sessions
    BY <1>5, <2>2 DEF Claiming
  <2> QED BY <1>2, <1>9, <2>2, <2>3 DEF KeyInv
<1> QED BY <1>1, <1>7, <1>8, <1>9 DEF KeyInv

\* A join reaches the row only with the key of the hash, if the hash is there.
LEMMA PgJoinKeeps ==
    ASSUME TypeOK, RowStep, KeyInv, NEW r \in Requests, PgJoin(r)
    PROVE  KeyInv'
<1> DEFINE s == arg[r].s
<1>1. /\ pc[r] \in Writing /\ pc'[r] \in {"rd_mark", "done"} /\ s \in Sessions
      /\ UNCHANGED <<rd, arg>>
      /\ \A q \in Requests : q # r => pc'[q] = pc[q]
  BY DEF PgJoin, TypeOK, Arg, Go, Finish, Writing
<1>2. \A u \in Sessions : pg'[u].join = pg[u].join \/ (u = s /\ pg'[u].join = arg[r].key)
  BY <1>1 DEF PgJoin, PgSubmitJoinRequest, TypeOK, PgRow
<1>3. rd[s].exp # 0 => rd[s].joinPub = arg[r].key
  BY <1>1 DEF KeyInv, JoinFits, Writing
<1>4. \A u \in Sessions : rd'[u].exp # 0 => HashFits(u)'
  <2> SUFFICES ASSUME NEW u \in Sessions, rd[u].exp # 0 PROVE HashFits(u)'
    BY <1>1
  <2>1. HashFits(u)
    BY DEF KeyInv
  <2>2. pg'[u].status # "absent"
    BY <2>1, RowsStay DEF HashFits
  <2> QED BY <1>1, <1>2, <1>3, <2>1, <2>2 DEF HashFits
<1>5. ASSUME NEW q \in Requests, pc'[q] # "idle", rd[arg[q].s].exp # 0
      PROVE  JoinFits(q)'
  <2>1. CASE q = r
    BY <1>1, <2>1 DEF JoinFits, Claiming, Writing
  <2>2. CASE q # r
    BY <1>1, <1>5, <2>2 DEF KeyInv, JoinFits
  <2> QED BY <2>1, <2>2
<1>6. \A q \in Requests : pc'[q] \in Claiming => pc[q] \in Claiming
  BY <1>1 DEF Claiming
<1> QED BY <1>1, <1>4, <1>5, <1>6 DEF KeyInv

\* Only a join whose hash has vanished goes to the row on its own.
LEMMA JoinReadKeeps ==
    ASSUME TypeOK, RowStep, KeyInv, NEW r \in Requests, RedisJoinRead(r)
    PROVE  KeyInv'
<1>1. /\ pc[r] = "rd_join" /\ arg[r].s \in Sessions /\ UNCHANGED <<pg, rd, arg>>
      /\ \A q \in Requests : q # r => pc'[q] = pc[q]
      /\ pc'[r] \in {"pg_only", "done", "rd_nx"}
  BY DEF RedisJoinRead, TypeOK, Arg, Go, Finish, stores
<1>2. pc'[r] = "pg_only" => rd[arg[r].s].exp = 0
  <2>1. pc'[r] = "pg_only" => rd[arg[r].s].status = ""
    BY DEF RedisJoinRead, TypeOK, Go, Finish, Exists
  <2> QED BY <1>1, <2>1 DEF KeyInv, HashFits
<1>3. \A u \in Sessions : rd'[u].exp # 0 => HashFits(u)'
  BY <1>1 DEF KeyInv, HashFits
<1>4. ASSUME NEW q \in Requests, pc'[q] # "idle", rd[arg[q].s].exp # 0
      PROVE  JoinFits(q)'
  <2>1. CASE q = r
    BY <1>1, <1>2, <1>4, <2>1 DEF JoinFits, Claiming, Writing
  <2>2. CASE q # r
    BY <1>1, <1>4, <2>2 DEF KeyInv, JoinFits
  <2> QED BY <2>1, <2>2
<1>5. \A q \in Requests : pc'[q] \in Claiming => pc[q] \in Claiming
  BY <1>1 DEF Claiming
<1> QED BY <1>1, <1>3, <1>4, <1>5 DEF KeyInv

\* Every other step leaves the claims alone.
LEMMA OtherStepsCalm ==
    ASSUME TypeOK, KeyInv,
           \/ \E s \in Sessions : PairingGet(s) \/ RedisLoses(s)
           \/ \E r \in Requests :
                \/ JoinStart(r) \/ DecideStart(r) \/ JoinGet(r) \/ MarkRequest(r)
                \/ RedisJoinTTL(r) \/ DecideGet(r) \/ RegisterComputer(r)
                \/ CheckPairingLive(r) \/ PgDecide(r) \/ RedisMark(r) \/ Abort(r)
           \/ Tick \/ UNCHANGED vars
    PROVE  Calm
<1> USE DEF stores, ledger
<1> DEFINE RdCalm == \A s \in Sessions : rd'[s].exp # 0 =>
                       /\ rd[s].exp # 0 /\ rd'[s].status # ""
                       /\ rd'[s].joinReq = rd[s].joinReq /\ rd'[s].joinPub = rd[s].joinPub
           PgCalm == \A s \in Sessions : pg'[s].join = pg[s].join
           PcCalm == \A r \in Requests : pc'[r] \in Claiming \cup Writing =>
                       /\ arg'[r] = arg[r]
                       /\ pc'[r] \in Claiming <=> pc[r] \in Claiming
                       /\ pc'[r] \in Writing => pc'[r] = pc[r]
<1>1. rd' = rd => RdCalm
  BY DEF KeyInv, HashFits
<1>2. pg' = pg => PgCalm
  OBVIOUS
<1>3. UNCHANGED <<pc, arg>> => PcCalm
  BY DEF Claiming, Writing
<1>4. ASSUME NEW s \in Sessions, LazyExpire(s) PROVE PgCalm
  BY <1>4 DEF LazyExpire, TypeOK, PgRow
<1>5. ASSUME NEW r \in Requests, NEW p, pc' = [pc EXCEPT ![r] = p], arg' = arg,
             \/ p \notin Claiming \cup Writing
             \/ p \in Claiming /\ pc[r] \in Claiming
      PROVE  PcCalm
  BY <1>5 DEF TypeOK, Claiming, Writing
<1>6. ASSUME NEW s \in Sessions, PairingGet(s) PROVE Calm
  <2>1. LazyExpire(s) /\ UNCHANGED <<rd, pc, arg>>
    BY <1>6 DEF PairingGet
  <2> QED BY <1>1, <1>3, <1>4, <2>1 DEF Calm
<1>7. ASSUME NEW s \in Sessions, RedisLoses(s) PROVE Calm
  <2>1. UNCHANGED <<pg, pc, arg>> /\ rd' = [rd EXCEPT ![s] = NoHash]
    BY <1>7 DEF RedisLoses
  <2>2. RdCalm
    BY <2>1 DEF TypeOK, NoHash, KeyInv, HashFits
  <2> QED BY <1>2, <1>3, <2>1, <2>2 DEF Calm
<1>8. ASSUME NEW r \in Requests, JoinStart(r) \/ DecideStart(r) PROVE Calm
  <2>1. /\ UNCHANGED <<pg, rd>> /\ pc'[r] \in {"get", "mark_id"}
        /\ \A q \in Requests : q # r => pc'[q] = pc[q] /\ arg'[q] = arg[q]
    BY <1>8 DEF JoinStart, DecideStart, Go, TypeOK
  <2>2. PcCalm
    BY <2>1 DEF Claiming, Writing
  <2> QED BY <1>1, <1>2, <2>1, <2>2 DEF Calm
<1>9. ASSUME NEW r \in Requests, JoinGet(r) \/ DecideGet(r) PROVE Calm
  <2>1. /\ LazyExpire(arg[r].s) /\ arg[r].s \in Sessions /\ UNCHANGED <<rd, arg>>
    BY <1>9 DEF JoinGet, DecideGet, TypeOK, Arg
  <2>2. PICK p \in {"done", "mark_id", "rd_live", "register"} : pc' = [pc EXCEPT ![r] = p]
    BY <1>9 DEF JoinGet, DecideGet, Go, Finish
  <2>3. PcCalm
    BY <1>5, <2>1, <2>2 DEF Claiming, Writing
  <2> QED BY <1>1, <1>4, <2>1, <2>3 DEF Calm
<1>10. ASSUME NEW r \in Requests,
              \/ MarkRequest(r) \/ RedisJoinTTL(r) \/ RegisterComputer(r)
              \/ CheckPairingLive(r) \/ Abort(r)
       PROVE  Calm
  <2>1. UNCHANGED <<pg, rd, arg>>
    BY <1>10 DEF MarkRequest, RedisJoinTTL, RegisterComputer, CheckPairingLive, Abort
  <2>2. PICK p \in {"done", "rd_join", "get", "rd_live", "pg_decide", "rd_fields"} :
            pc' = [pc EXCEPT ![r] = p] /\ (p = "rd_fields" => pc[r] = "rd_ttl")
    BY <1>10 DEF MarkRequest, RedisJoinTTL, RegisterComputer, CheckPairingLive, Abort,
       Go, Finish
  <2>3. PcCalm
    BY <1>5, <2>1, <2>2 DEF Claiming, Writing
  <2> QED BY <1>1, <1>2, <2>1, <2>3 DEF Calm
<1>11. ASSUME NEW r \in Requests, PgDecide(r) PROVE Calm
  <2>1. arg[r].s \in Sessions /\ UNCHANGED <<rd, arg>>
    BY <1>11 DEF PgDecide, TypeOK, Arg
  <2>2. PICK p \in {"done", "rd_mark"} : pc' = [pc EXCEPT ![r] = p]
    BY <1>11 DEF PgDecide, Go, Finish
  <2>3. PcCalm
    BY <1>5, <2>1, <2>2 DEF Claiming, Writing
  <2>4. PgCalm
    BY <1>11, <2>1 DEF PgDecide, TypeOK, PgRow
  <2> QED BY <1>1, <2>1, <2>3, <2>4 DEF Calm
<1>12. ASSUME NEW r \in Requests, RedisMark(r) PROVE Calm
  <2>1. arg[r].s \in Sessions /\ UNCHANGED <<pg, arg>> /\ pc' = [pc EXCEPT ![r] = "done"]
    BY <1>12 DEF RedisMark, TypeOK, Arg, Go
  <2>2. PcCalm
    BY <1>5, <2>1 DEF Claiming, Writing
  <2>3. LatchStatus(r) # ""
    BY DEF LatchStatus
  <2>4. \/ rd' = rd
        \/ /\ \A u \in Sessions : u # arg[r].s => rd'[u] = rd[u]
           /\ rd'[arg[r].s].status = LatchStatus(r)
           /\ rd'[arg[r].s].exp = rd[arg[r].s].exp
           /\ rd'[arg[r].s].joinReq = rd[arg[r].s].joinReq
           /\ rd'[arg[r].s].joinPub = rd[arg[r].s].joinPub
    BY <1>12, <2>1 DEF RedisMark, MarkPairingConsumed, TypeOK, RdHash
  <2>5. \A u \in Sessions : rd[u].exp # 0 => rd[u].status # ""
    BY DEF KeyInv, HashFits
  <2>6. RdCalm
    BY <1>1, <2>1, <2>3, <2>4, <2>5
  <2> QED BY <1>2, <2>1, <2>2, <2>6 DEF Calm
<1>13. CASE Tick
  <2>1. UNCHANGED <<pg, pc, arg>>
    BY <1>13 DEF Tick
  <2>2. \A s \in Sessions : rd'[s] = NoHash \/ rd'[s] = rd[s]
    BY <1>13 DEF Tick
  <2>3. NoHash.exp = 0 /\ \A u \in Sessions : rd[u].exp # 0 => rd[u].status # ""
    BY DEF NoHash, KeyInv, HashFits
  <2>4. RdCalm
    BY <2>2, <2>3
  <2> QED BY <1>2, <1>3, <2>1, <2>4 DEF Calm
<1>14. CASE UNCHANGED vars
  BY <1>1, <1>2, <1>3, <1>14 DEF Calm, vars
<1> QED
  BY <1>6, <1>7, <1>8, <1>9, <1>10, <1>11, <1>12, <1>13, <1>14

\* No step breaks the agreement of the keys.
LEMMA KeyStep == TypeOK /\ KnownInv /\ KeyInv /\ [Next]_vars => KeyInv'
<1> SUFFICES ASSUME TypeOK, KnownInv, KeyInv, [Next]_vars PROVE KeyInv'
  OBVIOUS
<1>1. RowStep
  BY StepIsRowStep
<1> QED
  BY <1>1, CreateKeeps, ClaimKeeps, FieldsKeep, PgJoinKeeps, JoinReadKeeps,
     OtherStepsCalm, CalmKeeps
  DEF Next, RequestStep

\* The key shown from a hash that has its fields is the key of the audit row,
\* however joins, losses of the hash and dying handlers interleave.
THEOREM KeysAgree == Spec => []JoinedKeysAgree
<1>1. Init => HandlerInv /\ KnownInv /\ KeyInv
  <2> SUFFICES ASSUME Init PROVE HandlerInv /\ KnownInv /\ KeyInv
    OBVIOUS
  <2>1. \A r \in Requests : pc[r] = "idle" /\ res[r] = "none"
    BY DEF Init
  <2>2. \A s \in Sessions : rd[s].exp = 0 /\ card[s].key = NoKey
    BY DEF Init, NoHash, NoCard
  <2>3. HandlerInv
    BY <2>1 DEF HandlerInv
  <2>4. KnownInv
    BY <2>1, <2>2 DEF KnownInv, Init
  <2>5. KeyInv
    BY <2>1, <2>2 DEF KeyInv, Claiming
  <2> QED BY <2>3, <2>4, <2>5
<1>2. TypeOK /\ HandlerInv /\ KnownInv /\ KeyInv /\ [Next]_vars
        => HandlerInv' /\ KnownInv' /\ KeyInv'
  BY HandlerStep, KnownStep, KeyStep
<1>3. KeyInv => JoinedKeysAgree
  BY DEF KeyInv, HashFits, JoinedKeysAgree
<1> QED BY <1>1, <1>2, <1>3, TypeCorrect, PTL DEF Spec

=============================================================================
