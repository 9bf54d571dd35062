-------------------------------- MODULE Auth --------------------------------
(***************************************************************************)
(* Identity and credentials of one user (backend/api/server.go over        *)
(* store/postgres and store/redis): challenge and signature, access and    *)
(* refresh tokens, device registration and revocation.  Device rows live   *)
(* in Postgres, challenges, tokens and their per-device indexes in Redis.  *)
(* One action is one round trip of a handler, so handlers interleave, and  *)
(* may die, between any two of them.                                       *)
(***************************************************************************)
EXTENDS Naturals

CONSTANTS
    Devices,        \* device ids the clients use
    None,           \* no device
    Requests,       \* executions of handlers (a retry is another one)
    RequestIds,     \* X-Request-ID values
    Operations,     \* the operations the clients of this instance call
    Starts,         \* populations a run may start from (a user's devices and tokens)
    ChallengeTTL,   \* redis.challengeTTL, minutes
    Advertised,     \* api.ChallengeExpiresIn, minutes
    MayExpire,      \* bound: tokens whose TTL may run out
    MaxTokens,      \* bound: tokens ever minted, of both kinds
    MaxChallenges,  \* bound: challenges ever issued
    MaxNow          \* bound: the clock stops here, minutes

ASSUME AuthAssumption ==
    /\ ChallengeTTL \in Nat /\ Advertised \in Nat
    /\ MaxTokens \in Nat /\ MaxChallenges \in Nat /\ MaxNow \in Nat
    /\ Operations \subseteq {"verify", "refresh", "call", "revoke", "register"}
    /\ None \notin Devices
    /\ Starts \subseteq
         [role: [Devices -> {"absent", "owner", "phone", "computer"}], \* device rows
          revoked: SUBSET Devices,              \* rows with the flag set
          acc: [Devices -> 0..MaxTokens],       \* access token held, or 0
          rfr: [Devices -> 0..MaxTokens],       \* refresh token held, or 0
          minted: 0..MaxTokens]                 \* tokens minted before
    /\ \A seed \in Starts : \A d \in Devices :
          seed.acc[d] <= seed.minted /\ seed.rfr[d] <= seed.minted

VARIABLES
    now,
    devs,     \* [Devices -> devices row]
    chal,     \* [Devices -> challenge key in Redis]
    nextCh,   \* challenges issued so far; the newest has this number
    issued,   \* [challenge -> minute of its answer]
    acc,      \* [Tokens -> device of the live access token, or None]
    rfr,      \* [Tokens -> device of the live refresh token, or None]
    accIdx,   \* [Devices -> index set of access tokens]
    rfrIdx,   \* [Devices -> index set of refresh tokens]
    nextTok,  \* tokens minted so far
    heldA,    \* access tokens answered to their client
    heldR,    \* refresh tokens answered to their client
    marked,   \* request ids recorded by CheckAndMarkRequest
    pc,       \* [Requests -> next round trip]
    arg,      \* [Requests -> what the client sent]
    mem,      \* [Requests -> what the handler remembers between round trips]
    res,      \* [Requests -> outcome]
    late,     \* [Requests -> its device was revoked before it started]
    spent,    \* history: <<refresh token, request that consumed it>>
    passed    \* history: <<challenge, request whose consume succeeded, minute>>

pgvars  == <<devs>>
chvars  == <<chal, nextCh, issued, passed>>
tokvars == <<acc, rfr, accIdx, rfrIdx, nextTok, heldA, heldR, spent>>
vars == <<now, devs, chal, nextCh, issued, acc, rfr, accIdx, rfrIdx, nextTok,
          heldA, heldR, marked, pc, arg, mem, res, late, spent, passed>>

Tokens     == 1..MaxTokens
Challenges == 1..MaxChallenges
Roles      == {"absent", "owner", "phone", "computer"}
DevOrNone  == Devices \cup {None}

Pcs == {"idle", "mark", "resolve", "dev", "rev", "ch_get", "ch_del", "consume",
        "acc_new", "acc_idx", "rfr_new", "rfr_idx", "target", "rv_pg", "rv_acc",
        "rv_rfr", "rv_del", "rv_idx", "lookup", "owner", "insert", "done"}
Results == {"none", "ok", "unknown", "revoked", "unauthorized", "forbidden",
            "badchallenge", "badsig", "replayed", "conflict", "mismatch", "error"}

DeviceRow == [role: Roles, revoked: BOOLEAN]
ChalKey   == [val: Challenges \cup {0}, exp: Nat]
Arg == [op: {"none", "verify", "refresh", "call", "revoke", "register"},
        dev: DevOrNone, tok: Tokens \cup {0}, val: Challenges \cup {0},
        sig: BOOLEAN, target: DevOrNone, role: Roles, id: RequestIds \cup {None}]
Mem == [dev: DevOrNone, role: Roles, a: Tokens \cup {0}, r: Tokens \cup {0},
        toks: SUBSET Tokens, rfrs: SUBSET Tokens]

NoArg == [op |-> "none", dev |-> None, tok |-> 0, val |-> 0, sig |-> FALSE,
          target |-> None, role |-> "absent", id |-> None]
NoMem == [dev |-> None, role |-> "absent", a |-> 0, r |-> 0, toks |-> {}, rfrs |-> {}]

TypeOK ==
    /\ now \in Nat
    /\ devs \in [Devices -> DeviceRow]
    /\ chal \in [Devices -> ChalKey]
    /\ nextCh \in 0..MaxChallenges
    /\ issued \in [Challenges -> Nat]
    /\ acc \in [Tokens -> DevOrNone] /\ rfr \in [Tokens -> DevOrNone]
    /\ accIdx \in [Devices -> SUBSET Tokens] /\ rfrIdx \in [Devices -> SUBSET Tokens]
    /\ nextTok \in 0..MaxTokens
    /\ heldA \subseteq Tokens /\ heldR \subseteq Tokens
    /\ marked \subseteq RequestIds
    /\ pc \in [Requests -> Pcs]
    /\ arg \in [Requests -> Arg]
    /\ mem \in [Requests -> Mem]
    /\ res \in [Requests -> Results]
    /\ late \in [Requests -> BOOLEAN]
    /\ spent \subseteq Tokens \X Requests
    /\ passed \subseteq Challenges \X Requests \X Nat

\* A device whose row exists may have verified before the run starts.
Seeded(seed) == {t \in Tokens : \E d \in Devices : seed[d] = t}
SeedDev(seed, t) == IF t \in Seeded(seed) THEN CHOOSE d \in Devices : seed[d] = t ELSE None
SeedIdx(seed) == [d \in Devices |-> {t \in Tokens : seed[d] = t}]

StartFrom(seed) ==
    /\ now = 0
    /\ devs = [d \in Devices |-> [role |-> seed.role[d], revoked |-> d \in seed.revoked]]
    /\ chal = [d \in Devices |-> [val |-> 0, exp |-> 0]]
    /\ nextCh = 0
    /\ issued = [c \in Challenges |-> 0]
    /\ acc = [t \in Tokens |-> SeedDev(seed.acc, t)]
    /\ rfr = [t \in Tokens |-> SeedDev(seed.rfr, t)]
    /\ accIdx = SeedIdx(seed.acc) /\ rfrIdx = SeedIdx(seed.rfr)
    /\ nextTok = seed.minted
    /\ heldA = Seeded(seed.acc) /\ heldR = Seeded(seed.rfr)
    /\ marked = {}
    /\ pc = [r \in Requests |-> "idle"]
    /\ arg = [r \in Requests |-> NoArg]
    /\ mem = [r \in Requests |-> NoMem]
    /\ res = [r \in Requests |-> "none"]
    /\ late = [r \in Requests |-> FALSE]
    /\ spent = {} /\ passed = {}

Init == \E seed \in Starts : StartFrom(seed)

Go(r, to) == pc' = [pc EXCEPT ![r] = to] /\ UNCHANGED res

Finish(r, outcome) ==
    /\ pc' = [pc EXCEPT ![r] = "done"]
    /\ res' = [res EXCEPT ![r] = outcome]

-----------------------------------------------------------------------------
(* Bootstrap and challenges.  Neither needs a token, and each has one write *)
(* that another handler can see.                                            *)

\* handleBootstrap: a fresh user and its first Owner phone.
Bootstrap(d) ==
    /\ \A e \in Devices : devs[e].role = "absent"
    /\ devs' = [devs EXCEPT ![d].role = "owner"]
    /\ UNCHANGED <<now, chvars, tokvars, marked, pc, arg, mem, res, late>>

\* handleChallenge: any registered device, revoked ones included; a new
\* challenge replaces the pending one.
Challenge(d) ==
    /\ devs[d].role # "absent"
    /\ nextCh < MaxChallenges
    /\ nextCh' = nextCh + 1
    /\ chal' = [chal EXCEPT ![d] = [val |-> nextCh + 1, exp |-> now + ChallengeTTL]]
    /\ issued' = [issued EXCEPT ![nextCh + 1] = now]
    /\ UNCHANGED <<now, devs, passed, tokvars, marked, pc, arg, mem, res, late>>

-----------------------------------------------------------------------------
(* Starting a handler: what the client sends.                               *)

Begin(r, a, first, caller) ==
    /\ pc[r] = "idle"
    /\ a.op \in Operations
    /\ arg' = [arg EXCEPT ![r] = a]
    /\ late' = [late EXCEPT ![r] = devs[caller].revoked]
    /\ Go(r, first)
    /\ UNCHANGED <<now, pgvars, chvars, tokvars, marked, mem>>

\* A verify answers a challenge with a signature that is good or is not.
StartVerify(r) ==
    \E d \in Devices, c \in 1..nextCh, good \in BOOLEAN :
        Begin(r, [NoArg EXCEPT !.op = "verify", !.dev = d, !.val = c, !.sig = good],
              "dev", d)

\* A refresh may carry the wrong device_id.
StartRefresh(r) ==
    \E d \in Devices, t \in heldR, i \in RequestIds :
        Begin(r, [NoArg EXCEPT !.op = "refresh", !.dev = d, !.tok = t, !.id = i],
              "mark", d)

\* Behind authed(): the device is whoever the token was minted for.
StartAuthed(r) ==
    \E t \in heldA, i \in RequestIds, op \in {"call", "revoke", "register"},
       x \in Devices, role \in {"owner", "phone", "computer"} :
        /\ acc[t] # None
        /\ op = "call" => x = acc[t]
        /\ op # "register" => role = "computer"
        /\ Begin(r, [NoArg EXCEPT !.op = op, !.tok = t, !.target = x,
                                  !.role = role, !.id = IF op = "call" THEN None ELSE i],
                 "resolve", acc[t])

-----------------------------------------------------------------------------
(* authed(), idempotent() and the revocation checks the handlers share.     *)

\* ResolveAccessToken.
Resolve(r) ==
    LET d == acc[arg[r].tok] IN
    /\ pc[r] = "resolve"
    /\ IF d = None
       THEN Finish(r, "unauthorized") /\ UNCHANGED mem
       ELSE mem' = [mem EXCEPT ![r].dev = d] /\ Go(r, "dev")
    /\ UNCHANGED <<now, pgvars, chvars, tokvars, marked, arg, late>>

Caller(r) == IF arg[r].op \in {"verify", "refresh"} THEN arg[r].dev ELSE mem[r].dev

\* Mutant: the row's flag is not looked at, IsRevoked is relied upon.
LoadDevice_NoFlag(r) ==
    LET row == devs[Caller(r)] IN
    /\ pc[r] = "dev"
    /\ IF row.role = "absent" THEN Finish(r, "unknown") /\ UNCHANGED mem
       ELSE mem' = [mem EXCEPT ![r].role = row.role] /\ Go(r, "rev")
    /\ UNCHANGED <<now, pgvars, chvars, tokvars, marked, arg, late>>

\* GetDevice and its revoked flag.
LoadDevice(r) ==
    LET row == devs[Caller(r)] IN
    /\ pc[r] = "dev"
    /\ IF row.role = "absent" THEN Finish(r, "unknown") /\ UNCHANGED mem
       ELSE IF row.revoked THEN Finish(r, "revoked") /\ UNCHANGED mem
       ELSE mem' = [mem EXCEPT ![r].role = row.role] /\ Go(r, "rev")
    /\ UNCHANGED <<now, pgvars, chvars, tokvars, marked, arg, late>>

AfterAuth(r) ==
    CASE arg[r].op = "verify"  -> Go(r, "ch_get")
      [] arg[r].op = "refresh" -> Go(r, "consume")
      [] arg[r].op = "call"    -> Finish(r, "ok")
      [] OTHER                 -> Go(r, "mark")

\* IsRevoked: a second look; a store error counts as not revoked.
CheckRevoked(r) ==
    /\ pc[r] = "rev"
    /\ \/ IF devs[Caller(r)].revoked THEN Finish(r, "revoked") ELSE AfterAuth(r)
       \/ AfterAuth(r)
    /\ UNCHANGED <<now, pgvars, chvars, tokvars, marked, arg, mem, late>>

\* idempotent: first thing of a refresh, after authed() elsewhere.
MarkRequest(r) ==
    /\ pc[r] = "mark"
    /\ IF arg[r].id \in marked
       THEN Finish(r, "replayed") /\ UNCHANGED marked
       ELSE /\ marked' = marked \cup {arg[r].id}
            /\ Go(r, CASE arg[r].op = "refresh" -> "dev"
                       [] arg[r].op = "revoke"  -> "target"
                       [] OTHER                 -> "lookup")
    /\ UNCHANGED <<now, pgvars, chvars, tokvars, arg, mem, late>>

-----------------------------------------------------------------------------
(* handleVerify.                                                            *)

\* ConsumeChallenge, GET and compare ...
ChallengeGet(r) ==
    LET key == chal[arg[r].dev] IN
    /\ pc[r] = "ch_get"
    /\ IF key.val = arg[r].val /\ key.exp > now
       THEN Go(r, "ch_del")
       ELSE Finish(r, "badchallenge")
    /\ UNCHANGED <<now, pgvars, chvars, tokvars, marked, arg, mem, late>>

\* ... then DEL, whatever the key holds by now; then the signature.
ChallengeDel(r) ==
    /\ pc[r] = "ch_del"
    /\ chal' = [chal EXCEPT ![arg[r].dev] = [val |-> 0, exp |-> 0]]
    /\ passed' = passed \cup {<<arg[r].val, r, now>>}
    /\ IF arg[r].sig THEN Go(r, "acc_new") ELSE Finish(r, "badsig")
    /\ UNCHANGED <<now, pgvars, nextCh, issued, tokvars, marked, arg, mem, late>>

-----------------------------------------------------------------------------
(* handleRefresh.                                                           *)

\* Mutant: the token is read here and deleted with the next command.
ConsumeRefresh_Late(r) ==
    LET t == arg[r].tok IN
    /\ pc[r] = "consume"
    /\ IF rfr[t] # arg[r].dev
       THEN Finish(r, "unauthorized") /\ UNCHANGED spent
       ELSE spent' = spent \cup {<<t, r>>} /\ Go(r, "acc_new")
    /\ UNCHANGED <<now, pgvars, chvars, acc, rfr, accIdx, rfrIdx, nextTok, heldA, heldR,
                   marked, arg, mem, late>>

\* consumeRefreshLua: one atomic script; only a device match deletes.
ConsumeRefresh(r) ==
    LET t == arg[r].tok IN
    /\ pc[r] = "consume"
    /\ IF rfr[t] # arg[r].dev
       THEN Finish(r, "unauthorized") /\ UNCHANGED <<rfr, rfrIdx, spent>>
       ELSE /\ rfr' = [rfr EXCEPT ![t] = None]
            /\ rfrIdx' = [rfrIdx EXCEPT ![arg[r].dev] = @ \ {t}]
            /\ spent' = spent \cup {<<t, r>>}
            /\ Go(r, "acc_new")
    /\ UNCHANGED <<now, pgvars, chvars, acc, accIdx, nextTok, heldA, heldR,
                   marked, arg, mem, late>>

-----------------------------------------------------------------------------
(* IssueAccessToken then IssueRefreshToken: the hash, then the index.       *)

AccessHash(r) ==
    /\ pc[r] = "acc_new"
    /\ nextTok < MaxTokens
    /\ nextTok' = nextTok + 1
    /\ acc' = [acc EXCEPT ![nextTok + 1] = arg[r].dev]
    /\ mem' = [mem EXCEPT ![r].a = nextTok + 1]
    /\ Go(r, "acc_idx")
    /\ UNCHANGED <<now, pgvars, chvars, rfr, accIdx, rfrIdx, heldA, heldR, spent,
                   marked, arg, late>>

AccessIndex(r) ==
    /\ pc[r] = "acc_idx"
    /\ accIdx' = [accIdx EXCEPT ![arg[r].dev] = @ \cup {mem[r].a}]
    /\ Go(r, "rfr_new")
    /\ UNCHANGED <<now, pgvars, chvars, acc, rfr, rfrIdx, nextTok, heldA, heldR, spent,
                   marked, arg, mem, late>>

RefreshHash(r) ==
    /\ pc[r] = "rfr_new"
    /\ nextTok < MaxTokens
    /\ nextTok' = nextTok + 1
    /\ rfr' = [rfr EXCEPT ![nextTok + 1] = arg[r].dev]
    /\ mem' = [mem EXCEPT ![r].r = nextTok + 1]
    /\ Go(r, "rfr_idx")
    /\ UNCHANGED <<now, pgvars, chvars, acc, accIdx, rfrIdx, heldA, heldR, spent,
                   marked, arg, late>>

\* ... and the answer hands both to the client.
RefreshIndex(r) ==
    /\ pc[r] = "rfr_idx"
    /\ rfrIdx' = [rfrIdx EXCEPT ![arg[r].dev] = @ \cup {mem[r].r}]
    /\ heldA' = heldA \cup {mem[r].a}
    /\ heldR' = heldR \cup {mem[r].r}
    /\ Finish(r, "ok")
    /\ UNCHANGED <<now, pgvars, chvars, acc, rfr, accIdx, nextTok, spent,
                   marked, arg, mem, late>>

-----------------------------------------------------------------------------
(* handleDeviceRevoke.                                                      *)

\* The caller's role, as authed() read it, and the target's row.
RevokeTarget(r) ==
    /\ pc[r] = "target"
    /\ IF mem[r].role # "owner" THEN Finish(r, "forbidden")
       ELSE IF devs[arg[r].target].role = "absent" THEN Finish(r, "unknown")
       ELSE Go(r, "rv_pg")
    /\ UNCHANGED <<now, pgvars, chvars, tokvars, marked, arg, mem, late>>

\* RevokeDevice: record and flag in one transaction.
RevokeRow(r) ==
    /\ pc[r] = "rv_pg"
    /\ devs' = [devs EXCEPT ![arg[r].target].revoked = TRUE]
    /\ Go(r, "rv_acc")
    /\ UNCHANGED <<now, chvars, tokvars, marked, arg, mem, late>>

\* RevokeDeviceTokens: read the two indexes, delete what they named, then
\* the indexes (a pipeline, not a transaction).
RevokeReadAccess(r) ==
    /\ pc[r] = "rv_acc"
    /\ mem' = [mem EXCEPT ![r].toks = accIdx[arg[r].target]]
    /\ Go(r, "rv_rfr")
    /\ UNCHANGED <<now, pgvars, chvars, tokvars, marked, arg, late>>

RevokeReadRefresh(r) ==
    /\ pc[r] = "rv_rfr"
    /\ mem' = [mem EXCEPT ![r].rfrs = rfrIdx[arg[r].target]]
    /\ Go(r, "rv_del")
    /\ UNCHANGED <<now, pgvars, chvars, tokvars, marked, arg, late>>

RevokeDelTokens(r) ==
    /\ pc[r] = "rv_del"
    /\ acc' = [t \in Tokens |-> IF t \in mem[r].toks THEN None ELSE acc[t]]
    /\ rfr' = [t \in Tokens |-> IF t \in mem[r].rfrs THEN None ELSE rfr[t]]
    /\ Go(r, "rv_idx")
    /\ UNCHANGED <<now, pgvars, chvars, accIdx, rfrIdx, nextTok, heldA, heldR, spent,
                   marked, arg, mem, late>>

RevokeDelIndex(r) ==
    /\ pc[r] = "rv_idx"
    /\ accIdx' = [accIdx EXCEPT ![arg[r].target] = {}]
    /\ rfrIdx' = [rfrIdx EXCEPT ![arg[r].target] = {}]
    /\ Finish(r, "ok")
    /\ UNCHANGED <<now, pgvars, chvars, acc, rfr, nextTok, heldA, heldR, spent,
                   marked, arg, mem, late>>

-----------------------------------------------------------------------------
(* handleDevicesRegister.                                                   *)

\* GetDevice: a known device only changes its display name, and only with
\* its own key.
RegisterLookup(r) ==
    /\ pc[r] = "lookup"
    /\ IF devs[arg[r].target].role # "absent"
       THEN Finish(r, "ok") \/ Finish(r, "mismatch")
       ELSE Go(r, IF arg[r].role = "owner" THEN "owner" ELSE "insert")
    /\ UNCHANGED <<now, pgvars, chvars, tokvars, marked, arg, mem, late>>

HasOwner == \E d \in Devices : devs[d].role = "owner" /\ ~devs[d].revoked

\* userHasOwner.
RegisterOwner(r) ==
    /\ pc[r] = "owner"
    /\ IF HasOwner THEN Finish(r, "forbidden") ELSE Go(r, "insert")
    /\ UNCHANGED <<now, pgvars, chvars, tokvars, marked, arg, mem, late>>

\* Mutant: the insert became an upsert.
RegisterInsert_Upsert(r) ==
    /\ pc[r] = "insert"
    /\ devs' = [devs EXCEPT ![arg[r].target] = [role |-> arg[r].role, revoked |-> FALSE]]
    /\ Finish(r, "ok")
    /\ UNCHANGED <<now, chvars, tokvars, marked, arg, mem, late>>

\* RegisterDevice inserts; a duplicate id is ErrConflict.
RegisterInsert(r) ==
    /\ pc[r] = "insert"
    /\ IF devs[arg[r].target].role # "absent"
       THEN Finish(r, "conflict") /\ UNCHANGED devs
       ELSE /\ devs' = [devs EXCEPT ![arg[r].target].role = arg[r].role]
            /\ Finish(r, "ok")
    /\ UNCHANGED <<now, chvars, tokvars, marked, arg, mem, late>>

-----------------------------------------------------------------------------
(* Environment.                                                             *)

\* A store error, the 10 s deadline or a crash; answered retryable, if at all.
Abort(r) ==
    /\ pc[r] \notin {"idle", "done"}
    /\ Finish(r, "error")
    /\ UNCHANGED <<now, pgvars, chvars, tokvars, marked, arg, mem, late>>

\* A token's TTL runs out.  (Its index entry stays; the index outlives it.)
TokenExpires(t) ==
    /\ t \in MayExpire
    /\ acc[t] # None \/ rfr[t] # None
    /\ acc' = [acc EXCEPT ![t] = None]
    /\ rfr' = [rfr EXCEPT ![t] = None]
    /\ UNCHANGED <<now, pgvars, chvars, accIdx, rfrIdx, nextTok, heldA, heldR, spent,
                   marked, pc, arg, mem, res, late>>

Tick ==
    /\ now < MaxNow
    /\ now' = now + 1
    /\ UNCHANGED <<pgvars, chvars, tokvars, marked, pc, arg, mem, res, late>>

Start(r) == StartVerify(r) \/ StartRefresh(r) \/ StartAuthed(r)

Step(r) ==
    \/ Resolve(r) \/ LoadDevice(r) \/ CheckRevoked(r) \/ MarkRequest(r)
    \/ ChallengeGet(r) \/ ChallengeDel(r) \/ ConsumeRefresh(r)
    \/ AccessHash(r) \/ AccessIndex(r) \/ RefreshHash(r) \/ RefreshIndex(r)
    \/ RevokeTarget(r) \/ RevokeRow(r) \/ RevokeReadAccess(r) \/ RevokeReadRefresh(r)
    \/ RevokeDelTokens(r) \/ RevokeDelIndex(r)
    \/ RegisterLookup(r) \/ RegisterOwner(r) \/ RegisterInsert(r)

Next ==
    \/ \E d \in Devices : Bootstrap(d) \/ Challenge(d)
    \/ \E r \in Requests : Start(r) \/ Step(r) \/ Abort(r)
    \/ \E t \in Tokens : TokenExpires(t)
    \/ Tick

Spec == Init /\ [][Next]_vars

-----------------------------------------------------------------------------
(* Properties.                                                              *)

\* Enforcement (docs/trust/pairing-spec.md section 10, authed, handleVerify,
\* handleRefresh): once a revocation is committed, no request its device
\* starts is served, whatever tokens it still holds, whatever revocation
\* cleanup is under way, and even when IsRevoked fails.
RevokedIsRefused ==
    \A r \in Requests : late[r] => res[r] # "ok"

\* A refresh token rotates at most once, however many requests present it
\* (handleRefresh: "the first use wins, every replay fails").
RefreshIsSingleUse ==
    \A u, v \in spent : u[1] = v[1] => u = v

\* "Revoker must be an active Owner Device": whoever flips a row is an Owner
\* that was not itself revoked when it asked (handleDeviceRevoke).
RevokerWasActiveOwner ==
    \A r \in Requests : pc[r] \in {"rv_pg", "rv_acc", "rv_rfr", "rv_del", "rv_idx"} =>
        devs[mem[r].dev].role = "owner" /\ ~late[r]

\* An identity is written once (handleDevicesRegister "Keys are immutable",
\* postgres.RevokeDevice "there is no un-revoke path"): whatever handlers race
\* on a device id, its role never changes and its revocation is never undone.
IdentityIsPermanent ==
    [][\A d \in Devices : devs[d].role # "absent" =>
          /\ devs'[d].role = devs[d].role
          /\ devs[d].revoked => devs'[d].revoked]_vars

\* "Single use: a second consume reports ErrNotFound" (redis.ConsumeChallenge):
\* two requests never both consume one challenge.
ChallengeIsSingleUse ==
    \A u, v \in passed : u[1] = v[1] => u[2] = v[2]

\* "the store enforces the real 2-minute TTL" (api/server.go, and docs/slos.md
\* "Challenges live 2 minutes"): no challenge is accepted past its advertised
\* lifetime.
ChallengeLivesAsAdvertised ==
    \A u \in passed : u[3] <= issued[u[1]] + Advertised

\* "RevokeDeviceTokens drops every live access and refresh token for a device"
\* (redis.go): when a revoke has been answered, none of its target's tokens
\* resolves.
RevokeDropsEveryToken ==
    \A r \in Requests : arg[r].op = "revoke" /\ res[r] = "ok" =>
        \A t \in Tokens : acc[t] # arg[r].target /\ rfr[t] # arg[r].target

\* "Second Owner registration is rejected with 403 (P2 invariant I1)"
\* (userHasOwner): a user never has two active Owner phones.
SingleOwner ==
    \A d, e \in Devices :
        /\ devs[d].role = "owner" /\ ~devs[d].revoked
        /\ devs[e].role = "owner" /\ ~devs[e].revoked
        => d = e

\* "Retries reuse the same idempotency_key and are deduped to one effect"
\* (docs/trust/pairing-spec.md section 9): a refused replay means that some
\* request with its id did not end in a retryable error.
ReplayMeansDone ==
    \A r \in Requests : res[r] = "replayed" =>
        \E q \in Requests : q # r /\ arg[q].id = arg[r].id /\ res[q] # "error"

=============================================================================
