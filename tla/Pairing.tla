------------------------------- MODULE Pairing -------------------------------
(***************************************************************************)
(* Device pairing in the control plane (backend/api/pairing.go over        *)
(* backend/store/combined.go): a phone creates a session, one computer     *)
(* joins it, the Owner approves or rejects the join.  Every session lives  *)
(* twice, as a Postgres audit row (pg) and as a Redis hash with a TTL (rd),*)
(* and a handler touches the two in separate round trips.  Each action     *)
(* below is one such round trip (one Redis command, one Postgres           *)
(* transaction), so handlers interleave, and may die, between them.        *)
(*                                                                         *)
(* Time is counted in ticks, TicksPerSecond to a second: Postgres keeps    *)
(* expires_at in full, Redis keeps whole seconds.                          *)
(***************************************************************************)
EXTENDS Naturals, FiniteSets

CONSTANTS
    Sessions,       \* session ids (fresh UUIDs in the code)
    Keys,           \* computer public keys
    NoKey,          \* the empty join_pubkey column / join_pub field
    Requests,       \* HTTP request executions (a retry is another one)
    RequestIds,     \* client-chosen idempotency keys
    PairingTTL,     \* session lifetime, ticks
    ConsumedKeep,   \* lifetime of a decided Redis tombstone, ticks
    TicksPerSecond, \* resolution lost by the Redis copy of expires_at
    MaxNow,         \* bound: the clock stops here
    MaxRedisLosses  \* bound: Redis hashes lost to a restart or an eviction

ASSUME ConstantsAssumption ==
    /\ PairingTTL \in Nat \ {0}
    /\ ConsumedKeep \in Nat \ {0}
    /\ TicksPerSecond \in Nat \ {0}
    /\ MaxNow \in Nat
    /\ MaxRedisLosses \in Nat
    /\ NoKey \notin Keys

VARIABLES
    now,      \* wall clock, from 1 so that a missing expires_at (0) is past
    pg,       \* [Sessions -> audit row]
    rd,       \* [Sessions -> live Redis hash]
    offered,  \* sessions whose creation was answered 201
    card,     \* [Sessions -> join the phone displays, from handlePairingGet]
    marked,   \* idempotency keys recorded by CheckAndMarkRequest
    devices,  \* keys with a computer row in the devices table
    grants,   \* trust_grants rows: <<session, key, deciding request>>
    pc,       \* [Requests -> next round trip of the handler]
    arg,      \* [Requests -> decoded body of the request]
    res,      \* [Requests -> outcome, "none" while undecided]
    ttl,      \* [Requests -> TTL a join read before writing join_pub]
    losses    \* Redis hashes lost so far

stores == <<pg, rd>>
ledger == <<offered, card, marked, devices, grants>>
vars == <<now, pg, rd, offered, card, marked, devices, grants,
          pc, arg, res, ttl, losses>>

PgStatus == {"absent", "pending", "approved", "rejected", "expired"}
RdStatus == {"", "pending", "approved", "rejected", "consumed"}
Ops      == {"join", "approve", "reject"}
Results  == {"none", "ok", "gone", "expired", "notfound", "conflict",
             "mismatch", "badsig", "forbidden", "replayed", "error"}
Pcs      == {"idle", "mark_id", "get", "rd_join", "rd_nx", "rd_ttl",
             "rd_fields", "pg_join", "pg_only", "register", "rd_live",
             "pg_decide", "rd_mark", "done"}

KeyOrNone == Keys \cup {NoKey}

PgRow  == [status: PgStatus, exp: Nat, join: KeyOrNone]
RdHash == [status: RdStatus, exp: Nat, joinReq: BOOLEAN,
           joinPub: KeyOrNone, kill: Nat]
Card   == [key: KeyOrNone, exp: Nat]
Arg    == [op: Ops, s: Sessions, key: Keys, exp: Nat, id: RequestIds]

NoRow  == [status |-> "absent", exp |-> 0, join |-> NoKey]
NoHash == [status |-> "", exp |-> 0, joinReq |-> FALSE,
           joinPub |-> NoKey, kill |-> 0]
NoCard == [key |-> NoKey, exp |-> 0]
NoArg  == [op |-> "none", s |-> NoKey, key |-> NoKey, exp |-> 0, id |-> NoKey]

TypeOK ==
    /\ now \in Nat
    /\ pg \in [Sessions -> PgRow]
    /\ rd \in [Sessions -> RdHash]
    /\ offered \subseteq Sessions
    /\ card \in [Sessions -> Card]
    /\ marked \subseteq RequestIds
    /\ devices \subseteq Keys
    /\ grants \subseteq Sessions \X Keys \X Requests
    /\ pc \in [Requests -> Pcs]
    /\ arg \in [Requests -> Arg \cup {NoArg}]
    /\ \A r \in Requests : pc[r] # "idle" => arg[r] \in Arg
    /\ res \in [Requests -> Results]
    /\ ttl \in [Requests -> Nat]
    /\ losses \in Nat

Init ==
    /\ now = 1
    /\ pg = [s \in Sessions |-> NoRow]
    /\ rd = [s \in Sessions |-> NoHash]
    /\ offered = {}
    /\ card = [s \in Sessions |-> NoCard]
    /\ marked = {}
    /\ devices = {}
    /\ grants = {}
    /\ pc = [r \in Requests |-> "idle"]
    /\ arg = [r \in Requests |-> NoArg]
    /\ res = [r \in Requests |-> "none"]
    /\ ttl = [r \in Requests |-> 0]
    /\ losses = 0

-----------------------------------------------------------------------------
(* The Redis hash.  It exists as long as some field does; status and the    *)
(* HSet of user_id, created_by, expires_at and qr_nonce are separate        *)
(* writes, so exp = 0 stands for a hash in which those fields are missing.  *)

Exists(h) == h.status # "" \/ h.joinReq \/ h.joinPub # NoKey

\* time.Unix(ExpiresAt.Unix()): the fraction of the second is dropped.
Truncated(t) == (t \div TicksPerSecond) * TicksPerSecond

\* Redis TTL answers in whole seconds, rounded to the nearest.
RoundedTTL(d) ==
    ((d + TicksPerSecond \div 2) \div TicksPerSecond) * TicksPerSecond

\* sessionTTL(expiresAt) <= 0
Past(t) == t <= now

\* combined.GetPairingSession: the Redis hash wins, the row is the fallback.
ReadErr(s) ==
    IF Exists(rd[s])
    THEN IF rd[s].status = "pending" /\ Past(rd[s].exp) THEN "expired" ELSE "none"
    ELSE IF pg[s].status = "absent" THEN "notfound" ELSE "none"

Live(s) ==
    IF Exists(rd[s]) THEN [key |-> rd[s].joinPub, exp |-> rd[s].exp]
                     ELSE [key |-> pg[s].join, exp |-> pg[s].exp]

\* postgres.GetPairingSession flips a pending row past its expiry.
LazyExpire(s) ==
    pg' = IF ~Exists(rd[s]) /\ pg[s].status = "pending" /\ Past(pg[s].exp)
          THEN [pg EXCEPT ![s].status = "expired"]
          ELSE pg

\* redis.MarkPairingConsumed: HSet status, then a best-effort Expire.  The
\* outcome of either command may be an ignored error.
MarkPairingConsumed(s, status) ==
    \/ rd' = [rd EXCEPT ![s].status = status, ![s].kill = now + ConsumedKeep]
    \/ rd' = [rd EXCEPT ![s].status = status]
    \/ rd' = rd

Go(r, to) == pc' = [pc EXCEPT ![r] = to]

Finish(r, outcome) ==
    /\ pc' = [pc EXCEPT ![r] = "done"]
    /\ res' = [res EXCEPT ![r] = outcome]

-----------------------------------------------------------------------------
(* handlePairingCreate.  The id is a fresh UUID nobody knows before the     *)
(* answer, so the round trips of creation meet no other request: one action *)
(* with the four prefixes at which it may stop.  Only a full run is         *)
(* answered 201.                                                            *)

PairingCreate(s) ==
    LET expires == now + PairingTTL
        whole == [NoHash EXCEPT !.status = "pending", !.exp = Truncated(expires)]
    IN
    /\ pg[s] = NoRow
    /\ pg' = [pg EXCEPT ![s] = [status |-> "pending", exp |-> expires, join |-> NoKey]]
    /\ \/ \* Redis refuses the session, or the handler dies before it is asked
          rd' = rd /\ offered' = offered
       \/ \* dies after HSetNX
          /\ rd' = [rd EXCEPT ![s] = [NoHash EXCEPT !.status = "pending"]]
          /\ offered' = offered
       \/ \* dies before Expire
          rd' = [rd EXCEPT ![s] = whole] /\ offered' = offered
       \/ /\ rd' = [rd EXCEPT ![s] = [whole EXCEPT !.kill = expires]]
          /\ offered' = offered \cup {s}
    /\ UNCHANGED <<now, card, marked, devices, grants,
                   pc, arg, res, ttl, losses>>

\* handlePairingGet, polled by the creating phone: it displays the join.
PairingGet(s) ==
    /\ s \in offered
    /\ LazyExpire(s)
    /\ IF ReadErr(s) = "none" /\ Live(s).key # NoKey /\ Live(s).exp # 0
       THEN card' = [card EXCEPT ![s] = Live(s)]
       ELSE card' = card
    /\ UNCHANGED <<now, rd, offered, marked, devices, grants,
                   pc, arg, res, ttl, losses>>

-----------------------------------------------------------------------------
(* handlePairingJoin: the unauthenticated computer call.                    *)

JoinStart(r) ==
    /\ pc[r] = "idle"
    /\ \E s \in offered, k \in Keys, i \in RequestIds :
          arg' = [arg EXCEPT ![r] = [op |-> "join", s |-> s, key |-> k,
                                     exp |-> 0, id |-> i]]
    /\ Go(r, "get")
    /\ UNCHANGED <<now, stores, ledger, res, ttl, losses>>

\* GetPairingSession, the expiry check and the QR nonce check.  A hash that
\* lost its fields has expires_at 0 and answers PAIRING_EXPIRED; a computer
\* that did not scan this session's QR answers QR_MISMATCH.
JoinGet(r) ==
    LET s == arg[r].s IN
    /\ pc[r] = "get" /\ arg[r].op = "join"
    /\ LazyExpire(s)
    /\ IF ReadErr(s) # "none" THEN Finish(r, ReadErr(s))
       ELSE IF now > Live(s).exp THEN Finish(r, "expired")
       ELSE \/ Go(r, "mark_id") /\ UNCHANGED res
            \/ Finish(r, "mismatch")
    /\ UNCHANGED <<now, rd, ledger, arg, ttl, losses>>

\* CheckAndMarkRequest on the body's request_id, in either handler.
MarkRequest(r) ==
    /\ pc[r] = "mark_id"
    /\ IF arg[r].id \in marked
       THEN Finish(r, "replayed") /\ UNCHANGED marked
       ELSE /\ marked' = marked \cup {arg[r].id}
            /\ Go(r, IF arg[r].op = "join" THEN "rd_join" ELSE "get")
            /\ UNCHANGED res
    /\ UNCHANGED <<now, stores, offered, card, devices, grants,
                   arg, ttl, losses>>

\* redis.SubmitJoinRequest reads the hash and checks it is open ...
RedisJoinRead(r) ==
    LET h == rd[arg[r].s] IN
    /\ pc[r] = "rd_join"
    /\ IF ~Exists(h) THEN Go(r, "pg_only") /\ UNCHANGED res
       ELSE IF h.status # "pending" THEN Finish(r, "gone")
       ELSE IF Past(h.exp) THEN Finish(r, "expired")
       ELSE IF h.joinReq THEN Finish(r, "gone")
       ELSE Go(r, "rd_nx") /\ UNCHANGED res
    /\ UNCHANGED <<now, stores, ledger, arg, ttl, losses>>

\* Mutant: HSet instead of HSetNX, the last claim wins.
RedisJoinClaim_Overwrite(r) ==
    /\ pc[r] = "rd_nx"
    /\ rd' = [rd EXCEPT ![arg[r].s].joinReq = TRUE]
    /\ Go(r, "rd_ttl")
    /\ UNCHANGED <<now, pg, ledger, arg, res, ttl, losses>>

\* ... claims the join with HSetNX join_req (which recreates a hash that
\* vanished meanwhile) ...
RedisJoinClaim(r) ==
    LET s == arg[r].s IN
    /\ pc[r] = "rd_nx"
    /\ IF rd[s].joinReq
       THEN Finish(r, "gone") /\ UNCHANGED rd
       ELSE /\ rd' = [rd EXCEPT ![s].joinReq = TRUE]
            /\ Go(r, "rd_ttl")
            /\ UNCHANGED res
    /\ UNCHANGED <<now, pg, ledger, arg, ttl, losses>>

\* ... reads the TTL ...
RedisJoinTTL(r) ==
    LET h == rd[arg[r].s] IN
    /\ pc[r] = "rd_ttl"
    /\ ttl' = [ttl EXCEPT ![r] = IF h.kill > now THEN RoundedTTL(h.kill - now) ELSE 0]
    /\ Go(r, "rd_fields")
    /\ UNCHANGED <<now, stores, ledger, arg, res, losses>>

\* ... and writes join_pub, then restores the TTL it read, best effort.  (The
\* handler has no further use for it.)
RedisJoinFields(r) ==
    LET s == arg[r].s
        written == [rd EXCEPT ![s].joinPub = arg[r].key]
    IN
    /\ pc[r] = "rd_fields"
    /\ \/ rd' = written
       \/ ttl[r] > 0 /\ rd' = [written EXCEPT ![s].kill = now + ttl[r]]
    /\ Go(r, "pg_join")
    /\ ttl' = [ttl EXCEPT ![r] = 0]
    /\ UNCHANGED <<now, pg, ledger, arg, res, losses>>

\* postgres.SubmitJoinRequest: one transaction whose UPDATE re-checks what
\* the SELECT saw.
PgJoinOutcome(s) ==
    IF pg[s].status # "pending" THEN "gone"
    ELSE IF Past(pg[s].exp) THEN "expired"
    ELSE IF pg[s].join # NoKey THEN "gone"
    ELSE "ok"

PgSubmitJoinRequest(s, k) ==
    CASE PgJoinOutcome(s) = "ok"      -> [pg EXCEPT ![s].join = k]
      [] PgJoinOutcome(s) = "expired" -> IF pg[s].status = "pending"
                                         THEN [pg EXCEPT ![s].status = "expired"] ELSE pg
      [] OTHER                        -> pg

\* combined.SubmitJoinRequest, Postgres leg.  A failure after Redis accepted
\* the join goes on to consume the latch; on the pg_only path it does not.
\* A lost commit answer is a failure although the row changed.
PgJoin(r) ==
    LET s == arg[r].s
        after(outcome) == IF outcome # "ok" /\ pc[r] = "pg_join"
                          THEN Go(r, "rd_mark") /\ res' = [res EXCEPT ![r] = outcome]
                          ELSE Finish(r, outcome)
    IN
    /\ pc[r] \in {"pg_join", "pg_only"}
    /\ \/ pg' = PgSubmitJoinRequest(s, arg[r].key) /\ after(PgJoinOutcome(s))
       \/ pg' = PgSubmitJoinRequest(s, arg[r].key) /\ after("error")
       \/ pg' = pg /\ after("error")
    /\ UNCHANGED <<now, rd, ledger, arg, ttl, losses>>

-----------------------------------------------------------------------------
(* handlePairingDecision: the Owner's approve or reject.                    *)

\* The Owner decides on a displayed card; the signature binds its expiry
\* (requestedAtProxy), the key travels in the body.
DecideStart(r) ==
    /\ pc[r] = "idle"
    /\ \E s \in Sessions, k \in Keys, i \in RequestIds, o \in {"approve", "reject"} :
          /\ card[s].key # NoKey
          /\ arg' = [arg EXCEPT ![r] = [op |-> o, s |-> s, key |-> k,
                                        exp |-> card[s].exp, id |-> i]]
    /\ Go(r, "mark_id")
    /\ UNCHANGED <<now, stores, ledger, res, ttl, losses>>

\* GetPairingSession and the checks on what it returned.  A hash without its
\* fields has an empty user id: 403.  Approving verifies the signature over
\* the context hash, hence over the expiry the phone saw.
DecideGet(r) ==
    LET s == arg[r].s IN
    /\ pc[r] = "get" /\ arg[r].op # "join"
    /\ LazyExpire(s)
    /\ IF ReadErr(s) # "none" THEN Finish(r, ReadErr(s))
       ELSE IF Live(s).exp = 0 THEN Finish(r, "forbidden")
       ELSE IF now > Live(s).exp THEN Finish(r, "expired")
       ELSE IF Live(s).key = NoKey THEN Finish(r, "conflict")
       ELSE IF Live(s).key # arg[r].key THEN Finish(r, "mismatch")
       ELSE IF arg[r].op = "reject" THEN Go(r, "rd_live") /\ UNCHANGED res
       ELSE IF arg[r].exp # Live(s).exp THEN Finish(r, "badsig")
       ELSE Go(r, "register") /\ UNCHANGED res
    /\ UNCHANGED <<now, rd, ledger, arg, ttl, losses>>

\* RegisterDevice before the decide; ErrConflict means already known.
RegisterComputer(r) ==
    /\ pc[r] = "register"
    /\ devices' = devices \cup {arg[r].key}
    /\ Go(r, "rd_live")
    /\ UNCHANGED <<now, stores, offered, card, marked, grants,
                   arg, res, ttl, losses>>

\* combined.DecidePairingSession: redis.CheckPairingLive.
CheckPairingLive(r) ==
    LET h == rd[arg[r].s] IN
    /\ pc[r] = "rd_live"
    /\ IF ~Exists(h) THEN Go(r, "pg_decide") /\ UNCHANGED res
       ELSE IF h.status # "pending" THEN Finish(r, "gone")
       ELSE IF Past(h.exp) THEN Finish(r, "expired")
       ELSE Go(r, "pg_decide") /\ UNCHANGED res
    /\ UNCHANGED <<now, stores, ledger, arg, ttl, losses>>

\* Mutant: approval trusts the Redis join and skips the audit row's key.
PgDecideOutcome_NoKeyMatch(r) ==
    LET row == pg[arg[r].s] IN
    IF row.status # "pending" THEN "gone"
    ELSE IF Past(row.exp) THEN "expired" ELSE "ok"

\* postgres.DecidePairingSession: the row is re-read FOR UPDATE, so the
\* checks, the grant and the new status are one transaction.
PgDecideOutcome(r) ==
    LET row == pg[arg[r].s] IN
    IF row.status # "pending" THEN "gone"
    ELSE IF Past(row.exp) THEN "expired"
    ELSE IF arg[r].op = "approve" /\ row.join # arg[r].key THEN "conflict"
    ELSE "ok"

\* Mutant: the verdict variable keeps its initial value.
DecidedRow_AlwaysRejected(r) ==
    CASE PgDecideOutcome(r) = "expired" -> "expired"
      [] PgDecideOutcome(r) = "ok" -> "rejected"
      [] OTHER -> pg[arg[r].s].status

DecidedRow(r) ==
    CASE PgDecideOutcome(r) = "expired" -> "expired"
      [] PgDecideOutcome(r) = "ok" /\ arg[r].op = "approve" -> "approved"
      [] PgDecideOutcome(r) = "ok" /\ arg[r].op # "approve" -> "rejected"
      [] OTHER -> pg[arg[r].s].status

GrantOf(r) ==
    IF PgDecideOutcome(r) = "ok" /\ arg[r].op = "approve"
    THEN {<<arg[r].s, arg[r].key, r>>} ELSE {}

\* Only terminal outcomes go on to the latch; ErrConflict and infrastructure
\* errors (a lost commit answer included) return with the latch untouched.
PgDecide(r) ==
    /\ pc[r] = "pg_decide"
    /\ \/ /\ pg' = [pg EXCEPT ![arg[r].s].status = DecidedRow(r)]
          /\ grants' = grants \cup GrantOf(r)
          /\ \/ IF PgDecideOutcome(r) \in {"ok", "gone", "expired"}
                THEN /\ Go(r, "rd_mark")
                     /\ res' = [res EXCEPT ![r] = PgDecideOutcome(r)]
                ELSE Finish(r, PgDecideOutcome(r))
             \/ Finish(r, "error")
       \/ Finish(r, "error") /\ UNCHANGED <<pg, grants>>
    /\ UNCHANGED <<now, rd, offered, card, marked, devices,
                   arg, ttl, losses>>

\* Mutant: the latch is stamped with what was asked, not what was decided.
LatchStatus_AsAsked(r) ==
    IF arg[r].op = "join" THEN "consumed"
    ELSE IF arg[r].op = "approve" THEN "approved" ELSE "rejected"

\* The status the latch is stamped with.
LatchStatus(r) ==
    IF arg[r].op = "join" \/ res[r] # "ok" THEN "consumed"
    ELSE IF arg[r].op = "approve" THEN "approved" ELSE "rejected"

RedisMark(r) ==
    /\ pc[r] = "rd_mark"
    /\ MarkPairingConsumed(arg[r].s, LatchStatus(r))
    /\ Go(r, "done")
    /\ UNCHANGED <<now, pg, ledger, arg, res, ttl, losses>>

-----------------------------------------------------------------------------
(* Environment: dying handlers, Redis and the clock.                        *)

\* A Redis error, the 10 s context deadline or a crash ends the handler
\* between two round trips.
Abort(r) ==
    /\ pc[r] \notin {"idle", "done"}
    /\ pc' = [pc EXCEPT ![r] = "done"]
    /\ res' = [res EXCEPT ![r] = IF @ = "none" THEN "error" ELSE @]
    /\ UNCHANGED <<now, stores, ledger, arg, ttl, losses>>

RedisLoses(s) ==
    /\ losses < MaxRedisLosses
    /\ Exists(rd[s])
    /\ losses' = losses + 1
    /\ rd' = [rd EXCEPT ![s] = NoHash]
    /\ UNCHANGED <<now, pg, ledger, pc, arg, res, ttl>>

\* Redis drops the keys whose TTL ran out.
Tick ==
    /\ now < MaxNow
    /\ now' = now + 1
    /\ rd' = [s \in Sessions |->
                 IF rd[s].kill # 0 /\ rd[s].kill <= now + 1 THEN NoHash ELSE rd[s]]
    /\ UNCHANGED <<pg, ledger, pc, arg, res, ttl, losses>>

RequestStep(r) ==
    \/ JoinGet(r) \/ MarkRequest(r) \/ RedisJoinRead(r) \/ RedisJoinClaim(r)
    \/ RedisJoinTTL(r) \/ RedisJoinFields(r) \/ PgJoin(r)
    \/ DecideGet(r) \/ RegisterComputer(r)
    \/ CheckPairingLive(r) \/ PgDecide(r) \/ RedisMark(r)

Next ==
    \/ \E s \in Sessions : PairingCreate(s) \/ PairingGet(s) \/ RedisLoses(s)
    \/ \E r \in Requests : JoinStart(r) \/ DecideStart(r) \/ RequestStep(r) \/ Abort(r)
    \/ Tick

Spec == Init /\ [][Next]_vars

-----------------------------------------------------------------------------
(* Properties.                                                              *)

\* Single use of a session (docs/trust/pairing-spec.md section 4): whatever
\* decisions race, are retried or are cut short, a session yields at most one
\* grant, and a grant exists exactly where the audit row says approved, for
\* the one key that joined (postgres.DecidePairingSession).
SingleGrant ==
    /\ \A g, h \in grants : g[1] = h[1] => g = h
    /\ \A g \in grants : pg[g[1]].status = "approved" /\ pg[g[1]].join = g[2]
    /\ \A s \in Sessions :
          pg[s].status = "approved" => \E g \in grants : g[1] = s

\* handlePairingDecision: "first outcome stands".  Every caller that was
\* answered 200 was told what the audit row still says, so no two callers
\* were ever told different things about one session.
AnsweredDecisionStands ==
    \A r \in Requests : res[r] = "ok" /\ arg[r].op # "join" =>
        pg[arg[r].s].status =
            IF arg[r].op = "approve" THEN "approved" ELSE "rejected"

\* The Redis latch never claims a verdict Postgres did not record, whatever
\* the order in which racing deciders stamp it (combined.DecidePairingSession).
LatchVerdictIsDurable ==
    \A s \in Sessions : rd[s].status \in {"approved", "rejected"} =>
        rd[s].status = pg[s].status

\* The Owner is shown the join of the Redis hash and the grant is bound to
\* the join of the audit row: a hash that still has its fields never names
\* another key than the row (redis and postgres SubmitJoinRequest racing).
JoinedKeysAgree ==
    \A s \in Sessions :
        rd[s].exp # 0 /\ rd[s].joinPub # NoKey /\ pg[s].join # NoKey =>
            rd[s].joinPub = pg[s].join

\* Nothing rewrites history: a decided row never changes, the first join of
\* a row is its only join, and grants are append-only
\* (store/migrations/0003_trust.sql: rows are never updated or deleted).
AuditIsAppendOnly ==
    [][/\ \A s \in Sessions :
            /\ pg[s].status \notin {"absent", "pending"} => pg'[s] = pg[s]
            /\ pg[s].join # NoKey => pg'[s].join = pg[s].join
       /\ grants \subseteq grants']_vars

\* "the backend recomputes the same proxy at decision time" (api/pairing.go):
\* an Owner who signs the context the backend displayed is never answered
\* BAD_SIGNATURE.
SameProxy ==
    \A r \in Requests : res[r] # "badsig"

\* "Every key carries a TTL so crashes fail to offline, unconsumed, and
\* logged-out instead of stuck" (store/redis/redis.go): once no handler works
\* on a session, its hash has a TTL.
EveryKeyHasTTL ==
    \A s \in Sessions :
        (\A r \in Requests : pc[r] \in {"idle", "done"} \/ arg[r].s # s)
        => (Exists(rd[s]) => rd[s].kill # 0)

-----------------------------------------------------------------------------
(* Refinement: the audit row and the grants implement the single-use latch. *)

Latch == INSTANCE PairingLatch WITH
    state <- [s \in Sessions |-> pg[s].status],
    joined <- [s \in Sessions |-> pg[s].join],
    granted <- {<<g[1], g[2]>> : g \in grants}

\* Every interleaving of the two-store protocol is a run of the latch.
ImplementsLatch == Latch!Spec

=============================================================================
