----------------------------- MODULE Auth_proofs -----------------------------
(***************************************************************************)
(* Proofs about Auth, for any devices, requests, tokens, challenges and    *)
(* starting populations: type correctness, that a revoked device is        *)
(* refused, that only an active Owner revokes, that a refresh token rotates *)
(* once, and that identities are permanent.                                *)
(***************************************************************************)
EXTENDS Auth, TLAPS

Revoking == {"rv_pg", "rv_acc", "rv_rfr", "rv_del", "rv_idx"}
Minting  == {"acc_new", "acc_idx", "rfr_new", "rfr_idx"}
Unauthed == {"verify", "refresh"}

-----------------------------------------------------------------------------
(* The inductive invariant, one part per fact a handler relies on.          *)

\* What a request carries fits its operation (the decoders of server.go).
ArgFits(r) ==
    /\ arg[r].op \in Unauthed => arg[r].dev \in Devices
    /\ arg[r].op = "verify" => arg[r].val \in Challenges
    /\ arg[r].op \notin {"none", "verify"} => arg[r].tok \in Tokens
    /\ arg[r].op \in {"revoke", "register"} => arg[r].target \in Devices
    /\ arg[r].op \in {"refresh", "revoke", "register"} => arg[r].id \in RequestIds

\* Where a handler is says which operation it serves and what it remembers.
PcFits(r) ==
    /\ pc[r] # "done" => res[r] = "none"
    /\ pc[r] \in {"ch_get", "ch_del"} => arg[r].op = "verify"
    /\ pc[r] = "consume" => arg[r].op = "refresh"
    /\ pc[r] \in Minting => arg[r].op \in Unauthed
    /\ pc[r] \in Minting \ {"acc_new"} => mem[r].a \in Tokens
    /\ pc[r] = "rfr_idx" => mem[r].r \in Tokens
    /\ pc[r] = "resolve" => /\ arg[r].op \in {"call", "revoke", "register"}
                            /\ arg[r].tok <= nextTok
    /\ pc[r] = "mark" => arg[r].op \in {"refresh", "revoke", "register"}
    /\ pc[r] \in {"dev", "rev"} => arg[r].op # "none" /\ Caller(r) \in Devices
    /\ pc[r] \in {"target"} \cup Revoking => arg[r].op = "revoke"
    /\ pc[r] \in {"lookup", "owner", "insert"} => arg[r].op = "register"

\* The role a handler goes by is still the caller's.
RoleFits(r) ==
    /\ pc[r] \in {"rev", "mark", "target"} \cup Revoking /\ arg[r].op \notin Unauthed =>
          /\ mem[r].dev \in Devices
          /\ mem[r].role # "absent"
          /\ devs[mem[r].dev].role = mem[r].role
    /\ pc[r] \in Revoking => mem[r].role = "owner"

\* A request of a revoked device is before the check that refuses it, or over.
LateFits(r) ==
    late[r] =>
        /\ pc[r] \in {"resolve", "mark", "dev", "done"}
        /\ res[r] # "ok"
        /\ pc[r] = "mark" => arg[r].op = "refresh"
        /\ pc[r] \in {"mark", "dev"} => devs[Caller(r)].revoked
        /\ pc[r] = "resolve" /\ acc[arg[r].tok] # None =>
              devs[acc[arg[r].tok]].revoked

HandlerInv(r) == ArgFits(r) /\ PcFits(r) /\ RoleFits(r) /\ LateFits(r)

\* Tokens to come are nobody's, and a spent refresh token is gone.
TokenInv ==
    /\ \A t \in Tokens : t > nextTok => acc[t] = None /\ rfr[t] = None
    /\ \A u \in spent : u[1] <= nextTok /\ rfr[u[1]] = None
    /\ RefreshIsSingleUse

IInv == TypeOK /\ TokenInv /\ \A r \in Requests : HandlerInv(r)

-----------------------------------------------------------------------------
(* What a step does to the requests it is not about.                        *)

Same(q) ==
    /\ pc'[q] = pc[q] /\ arg'[q] = arg[q] /\ mem'[q] = mem[q]
    /\ res'[q] = res[q] /\ late'[q] = late[q]

\* Device rows are written once and revocations stay (postgres.go).
RowsStay ==
    \A d \in Devices :
        /\ devs[d].role # "absent" => devs'[d].role = devs[d].role
        /\ devs[d].revoked => devs'[d].revoked

\* A minted token is its device's until it is nobody's (redis.go).
TokensStay ==
    /\ nextTok <= nextTok'
    /\ \A t \in Tokens : t <= nextTok => acc'[t] \in {acc[t], None}

\* Rows and tokens that stay keep the facts of every request that stays.
LEMMA SameKeeps ==
    ASSUME IInv, TypeOK', RowsStay, TokensStay, NEW q \in Requests, Same(q)
    PROVE  HandlerInv(q)'
<1> USE AuthAssumption
<1>1. HandlerInv(q) /\ TypeOK
  BY DEF IInv
<1>2. nextTok \in Nat /\ nextTok' \in Nat /\ arg[q] \in Arg /\ mem[q] \in Mem
  BY <1>1 DEF TypeOK
<1>3. Caller(q)' = Caller(q)
  BY DEF Same, Caller
<1>4. ArgFits(q)'
  BY <1>1 DEF HandlerInv, ArgFits, Same
<1>5. PcFits(q)'
  BY <1>1, <1>2, <1>3 DEF HandlerInv, PcFits, Same, TokensStay, ArgFits, Tokens
<1>6. RoleFits(q)'
  BY <1>1 DEF HandlerInv, RoleFits, Same, RowsStay
<1>7. LateFits(q)'
  <2> SUFFICES ASSUME late'[q] PROVE LateFits(q)'
    BY DEF LateFits
  <2>1. late[q]
    BY DEF Same
  <2>2. /\ pc'[q] \in {"resolve", "mark", "dev", "done"}
        /\ res'[q] # "ok"
        /\ pc'[q] = "mark" => arg'[q].op = "refresh"
    BY <1>1, <2>1 DEF HandlerInv, LateFits, Same
  <2>3. ASSUME pc[q] \in {"mark", "dev"} PROVE devs'[Caller(q)].revoked
    <3>1. Caller(q) \in Devices
      BY <1>1, <2>1, <2>3 DEF HandlerInv, LateFits, PcFits, ArgFits, Caller, Unauthed
    <3> QED BY <1>1, <2>1, <2>3, <3>1 DEF HandlerInv, LateFits, RowsStay
  <2>4. ASSUME pc[q] = "resolve", acc'[arg[q].tok] # None
        PROVE  devs'[acc'[arg[q].tok]].revoked
    <3>1. arg[q].tok \in Tokens /\ arg[q].tok <= nextTok
      BY <1>1, <2>4 DEF HandlerInv, PcFits, ArgFits
    <3>2. acc'[arg[q].tok] = acc[arg[q].tok] /\ acc[arg[q].tok] \in Devices
      BY <1>1, <2>4, <3>1 DEF TokensStay, TypeOK, DevOrNone
    <3> QED BY <1>1, <2>1, <2>4, <3>2 DEF HandlerInv, LateFits, RowsStay
  <2> QED BY <1>3, <2>2, <2>3, <2>4 DEF LateFits, Same
<1> QED BY <1>4, <1>5, <1>6, <1>7 DEF HandlerInv

-----------------------------------------------------------------------------
(* Going on and finishing.                                                  *)

\* Go and Finish move one request.
LEMMA GoStep ==
    ASSUME TypeOK, NEW r \in Requests, NEW to \in Pcs, Go(r, to)
    PROVE  /\ pc' \in [Requests -> Pcs] /\ pc'[r] = to /\ res' = res
           /\ \A q \in Requests \ {r} : pc'[q] = pc[q]
BY DEF TypeOK, Go

\* Finish ends one request with its outcome.
LEMMA FinishStep ==
    ASSUME TypeOK, NEW r \in Requests, NEW out \in Results, Finish(r, out)
    PROVE  /\ pc' \in [Requests -> Pcs] /\ res' \in [Requests -> Results]
           /\ pc'[r] = "done" /\ res'[r] = out
           /\ \A q \in Requests \ {r} : pc'[q] = pc[q] /\ res'[q] = res[q]
BY DEF TypeOK, Finish, Pcs

\* A step of one request, rows and tokens staying: only its own facts are left
\* to show.
LEMMA OneRequest ==
    ASSUME IInv, NEW r \in Requests, TypeOK', RowsStay, TokensStay, TokenInv',
           \A q \in Requests \ {r} : Same(q), HandlerInv(r)'
    PROVE  IInv'
<1>1. \A q \in Requests \ {r} : HandlerInv(q)'
  BY SameKeeps
<1> QED BY <1>1 DEF IInv

\* Rows and tokens stay when nothing is written.
LEMMA Untouched ==
    ASSUME IInv, UNCHANGED <<pgvars, tokvars>>
    PROVE  RowsStay /\ TokensStay /\ TokenInv'
BY DEF IInv, pgvars, tokvars, RowsStay, TokensStay, TokenInv, RefreshIsSingleUse,
   TypeOK

\* The starting populations satisfy the invariant.
LEMMA InitIInv == Init => IInv
<1> SUFFICES ASSUME NEW seed \in Starts, StartFrom(seed) PROVE IInv
  BY DEF Init
<1> USE AuthAssumption
<1>1. /\ seed.role \in [Devices -> Roles] /\ seed.revoked \subseteq Devices
      /\ seed.acc \in [Devices -> 0..MaxTokens] /\ seed.rfr \in [Devices -> 0..MaxTokens]
      /\ seed.minted \in 0..MaxTokens
      /\ \A d \in Devices : seed.acc[d] <= seed.minted /\ seed.rfr[d] <= seed.minted
  BY DEF Roles
<1>2. ASSUME NEW sd \in [Devices -> 0..MaxTokens], NEW t \in Tokens
      PROVE  /\ SeedDev(sd, t) \in DevOrNone
             /\ (\A d \in Devices : sd[d] <= seed.minted) /\ t > seed.minted
                  => SeedDev(sd, t) = None
  <2>1. CASE t \in Seeded(sd)
    <3>1. \E d \in Devices : sd[d] = t
      BY <2>1 DEF Seeded
    <3>2. SeedDev(sd, t) \in Devices
      BY <2>1, <3>1 DEF SeedDev
    <3>3. ~((\A d \in Devices : sd[d] <= seed.minted) /\ t > seed.minted)
      BY <1>1, <3>1 DEF Tokens
    <3> QED BY <3>2, <3>3 DEF DevOrNone
  <2>2. CASE t \notin Seeded(sd)
    BY <2>2 DEF SeedDev, DevOrNone
  <2> QED BY <2>1, <2>2
<1>3. acc \in [Tokens -> DevOrNone] /\ rfr \in [Tokens -> DevOrNone]
  BY <1>1, <1>2 DEF StartFrom
<1>4. /\ accIdx \in [Devices -> SUBSET Tokens] /\ rfrIdx \in [Devices -> SUBSET Tokens]
      /\ heldA \subseteq Tokens /\ heldR \subseteq Tokens
  BY DEF StartFrom, SeedIdx, Seeded
<1>5. devs \in [Devices -> DeviceRow]
  BY <1>1 DEF StartFrom, DeviceRow
<1>6. /\ now \in Nat /\ nextCh \in 0..MaxChallenges /\ nextTok \in 0..MaxTokens
      /\ chal \in [Devices -> ChalKey] /\ issued \in [Challenges -> Nat]
      /\ marked \subseteq RequestIds
      /\ spent \subseteq Tokens \X Requests
      /\ passed \subseteq Challenges \X Requests \X Nat
  BY <1>1 DEF StartFrom, ChalKey
<1>7. /\ NoArg \in Arg /\ NoMem \in Mem
  BY DEF NoArg, NoMem, Arg, Mem, DevOrNone, Roles
<1>8. /\ pc \in [Requests -> Pcs] /\ arg \in [Requests -> Arg]
      /\ mem \in [Requests -> Mem] /\ res \in [Requests -> Results]
      /\ late \in [Requests -> BOOLEAN]
  BY <1>7 DEF StartFrom, Pcs, Results
<1>9. TypeOK
  BY <1>3, <1>4, <1>5, <1>6, <1>8 DEF TypeOK
<1>10. TokenInv
  <2>1. \A t \in Tokens : t > nextTok => acc[t] = None /\ rfr[t] = None
    BY <1>1, <1>2 DEF StartFrom
  <2> QED BY <2>1 DEF StartFrom, TokenInv, RefreshIsSingleUse
<1>11. ASSUME NEW r \in Requests PROVE HandlerInv(r)
  <2>1. pc[r] = "idle" /\ arg[r].op = "none" /\ res[r] = "none" /\ late[r] = FALSE
    BY DEF StartFrom, NoArg
  <2> QED BY <2>1 DEF HandlerInv, ArgFits, PcFits, RoleFits, LateFits, Revoking,
                      Minting, Unauthed
<1> QED BY <1>9, <1>10, <1>11 DEF IInv

-----------------------------------------------------------------------------
(* The steps that are no request's.                                         *)

\* A step that moves no request keeps every request's facts.
LEMMA NoRequest ==
    ASSUME IInv, TypeOK', RowsStay, TokensStay, TokenInv', \A q \in Requests : Same(q)
    PROVE  IInv'
<1>1. \A q \in Requests : HandlerInv(q)'
  BY SameKeeps
<1> QED BY <1>1 DEF IInv

\* Bootstrap writes the first row, a challenge one key, a TTL drops one token.
LEMMA EnvironmentStep ==
    ASSUME IInv,
           \/ \E d \in Devices : Bootstrap(d) \/ Challenge(d)
           \/ \E t \in Tokens : TokenExpires(t)
           \/ Tick
    PROVE  IInv' /\ RowsStay
<1> USE AuthAssumption
<1>0. TypeOK /\ TokenInv
  BY DEF IInv
<1>1. ASSUME NEW d \in Devices, Bootstrap(d) PROVE IInv' /\ RowsStay
  <2>1. devs' \in [Devices -> DeviceRow] /\ RowsStay
    BY <1>0, <1>1 DEF Bootstrap, TypeOK, DeviceRow, Roles, RowsStay
  <2>2. TypeOK'
    BY <1>0, <1>1, <2>1 DEF Bootstrap, TypeOK, chvars, tokvars
  <2>3. TokensStay /\ TokenInv'
    BY <1>0, <1>1 DEF Bootstrap, tokvars, TokensStay, TokenInv, RefreshIsSingleUse, TypeOK
  <2>4. \A q \in Requests : Same(q)
    BY <1>1 DEF Bootstrap, Same
  <2> QED BY <2>1, <2>2, <2>3, <2>4, NoRequest
<1>2. ASSUME NEW d \in Devices, Challenge(d) PROVE IInv' /\ RowsStay
  <2>1. /\ nextCh' \in 0..MaxChallenges /\ nextCh' \in Challenges
        /\ issued' \in [Challenges -> Nat]
    BY <1>0, <1>2 DEF Challenge, TypeOK, Challenges
  <2>2. chal' \in [Devices -> ChalKey]
    BY <1>0, <1>2, <2>1 DEF Challenge, TypeOK, ChalKey
  <2>3. TypeOK'
    BY <1>0, <1>2, <2>1, <2>2 DEF Challenge, TypeOK, tokvars
  <2>4. RowsStay /\ TokensStay /\ TokenInv'
    BY <1>2, Untouched DEF Challenge, pgvars
  <2>5. \A q \in Requests : Same(q)
    BY <1>2 DEF Challenge, Same
  <2> QED BY <2>3, <2>4, <2>5, NoRequest
<1>3. ASSUME NEW t \in Tokens, TokenExpires(t) PROVE IInv' /\ RowsStay
  <2>1. /\ acc' \in [Tokens -> DevOrNone] /\ rfr' \in [Tokens -> DevOrNone]
        /\ \A x \in Tokens : acc'[x] \in {acc[x], None} /\ rfr'[x] \in {rfr[x], None}
    BY <1>0, <1>3 DEF TokenExpires, TypeOK, DevOrNone
  <2>2. TypeOK'
    BY <1>0, <1>3, <2>1 DEF TokenExpires, TypeOK, pgvars, chvars
  <2>3. RowsStay
    BY <1>3 DEF TokenExpires, pgvars, RowsStay
  <2>4. nextTok' = nextTok /\ spent' = spent
    BY <1>3 DEF TokenExpires
  <2>5. TokensStay
    BY <1>0, <2>1, <2>4 DEF TokensStay, TypeOK
  <2>6. TokenInv'
    <3>1. \A x \in Tokens : x > nextTok' => acc'[x] = None /\ rfr'[x] = None
      BY <1>0, <2>1, <2>4 DEF TokenInv
    <3>2. ASSUME NEW u \in spent' PROVE u[1] <= nextTok' /\ rfr'[u[1]] = None
      <4>1. u[1] \in Tokens
        BY <1>0, <2>4 DEF TypeOK
      <4> QED BY <1>0, <2>1, <2>4, <4>1 DEF TokenInv
    <3> QED BY <1>0, <2>4, <3>1, <3>2 DEF TokenInv, RefreshIsSingleUse
  <2>7. \A q \in Requests : Same(q)
    BY <1>3 DEF TokenExpires, Same
  <2> QED BY <2>2, <2>3, <2>5, <2>6, <2>7, NoRequest
<1>4. CASE Tick
  <2>1. TypeOK'
    BY <1>0, <1>4 DEF Tick, TypeOK, pgvars, chvars, tokvars
  <2>2. RowsStay /\ TokensStay /\ TokenInv'
    BY <1>4, Untouched DEF Tick
  <2>3. \A q \in Requests : Same(q)
    BY <1>4 DEF Tick, Same
  <2> QED BY <2>1, <2>2, <2>3, NoRequest
<1> QED BY <1>1, <1>2, <1>3, <1>4

-----------------------------------------------------------------------------
(* The steps of a request.                                                  *)

\* A request starts: what it carries fits, and it is late exactly if its
\* device is revoked.
LEMMA StartStep ==
    ASSUME IInv, NEW r \in Requests, Start(r)
    PROVE  IInv' /\ RowsStay
<1> USE AuthAssumption
<1>0. TypeOK /\ TokenInv /\ HandlerInv(r)
  BY DEF IInv
<1>1. ASSUME NEW a \in Arg, NEW first \in {"dev", "mark", "resolve"}, NEW caller \in Devices,
             Begin(r, a, first, caller),
             a.op \in Unauthed => a.dev \in Devices /\ caller = a.dev,
             a.op = "verify" => a.val \in Challenges /\ first = "dev",
             a.op = "refresh" => a.tok \in Tokens /\ first = "mark" /\ a.id \in RequestIds,
             a.op \notin Unauthed =>
                 /\ first = "resolve" /\ a.tok \in Tokens /\ acc[a.tok] = caller
                 /\ a.op \in {"call", "revoke", "register"}
                 /\ a.op # "call" => a.target \in Devices /\ a.id \in RequestIds
      PROVE  IInv' /\ RowsStay
  <2>1. first \in Pcs /\ Go(r, first) /\ pc[r] = "idle"
    BY <1>1 DEF Begin, Pcs
  <2>2. /\ pc' \in [Requests -> Pcs] /\ pc'[r] = first /\ res' = res
        /\ \A q \in Requests \ {r} : pc'[q] = pc[q]
    BY <1>0, <2>1, GoStep
  <2>3. /\ arg' \in [Requests -> Arg] /\ arg'[r] = a
        /\ \A q \in Requests \ {r} : arg'[q] = arg[q]
    BY <1>0, <1>1 DEF Begin, TypeOK
  <2>4. /\ late' \in [Requests -> BOOLEAN] /\ late'[r] = devs[caller].revoked
        /\ \A q \in Requests \ {r} : late'[q] = late[q]
    BY <1>0, <1>1 DEF Begin, TypeOK, DeviceRow
  <2>5. UNCHANGED <<now, pgvars, chvars, tokvars, marked, mem>>
    BY <1>1 DEF Begin
  <2>6. TypeOK'
    BY <1>0, <2>2, <2>3, <2>4, <2>5 DEF TypeOK, pgvars, chvars, tokvars
  <2>7. RowsStay /\ TokensStay /\ TokenInv'
    BY <2>5, Untouched
  <2>8. \A q \in Requests \ {r} : Same(q)
    BY <2>2, <2>3, <2>4, <2>5 DEF Same
  <2>9. res'[r] = "none" /\ devs' = devs /\ acc' = acc /\ nextTok' = nextTok
    BY <1>0, <2>1, <2>2, <2>5 DEF HandlerInv, PcFits, pgvars, tokvars
  <2>10. ArgFits(r)'
    BY <1>1, <2>3 DEF ArgFits, Unauthed
  <2>11. a.op \notin Unauthed => a.tok <= nextTok
    <3> SUFFICES ASSUME a.op \notin Unauthed PROVE a.tok <= nextTok
      OBVIOUS
    <3>1. a.tok \in Tokens /\ acc[a.tok] # None
      BY <1>1
    <3> QED BY <1>0, <3>1 DEF TokenInv, Tokens, TypeOK
  <2>12. Caller(r)' = caller \/ a.op \notin Unauthed
    BY <1>1, <2>3 DEF Caller, Unauthed
  <2>13. PcFits(r)'
    BY <1>1, <2>2, <2>3, <2>9, <2>11, <2>12 DEF PcFits, Unauthed, Minting, Revoking
  <2>14. RoleFits(r)'
    BY <1>1, <2>2, <2>3 DEF RoleFits, Unauthed, Revoking
  <2>15. LateFits(r)'
    BY <1>1, <2>2, <2>3, <2>4, <2>9, <2>12 DEF LateFits, Unauthed
  <2> QED
    BY <2>6, <2>7, <2>8, <2>10, <2>13, <2>14, <2>15, OneRequest DEF HandlerInv
<1>2. CASE StartVerify(r)
  <2> PICK d \in Devices, c \in 1..nextCh, good \in BOOLEAN :
        Begin(r, [NoArg EXCEPT !.op = "verify", !.dev = d, !.val = c, !.sig = good],
              "dev", d)
    BY <1>2 DEF StartVerify
  <2> DEFINE a == [NoArg EXCEPT !.op = "verify", !.dev = d, !.val = c, !.sig = good]
  <2>1. c \in Challenges
    BY <1>0 DEF TypeOK, Challenges
  <2>2. a \in Arg /\ a.op = "verify" /\ a.dev = d /\ a.val = c
    BY <2>1 DEF NoArg, Arg, DevOrNone, Roles
  <2>3. Begin(r, a, "dev", d)
    OBVIOUS
  <2> HIDE DEF a
  <2> QED BY <1>1, <2>1, <2>2, <2>3 DEF Unauthed
<1>3. CASE StartRefresh(r)
  <2> PICK d \in Devices, t \in heldR, i \in RequestIds :
        Begin(r, [NoArg EXCEPT !.op = "refresh", !.dev = d, !.tok = t, !.id = i],
              "mark", d)
    BY <1>3 DEF StartRefresh
  <2> DEFINE a == [NoArg EXCEPT !.op = "refresh", !.dev = d, !.tok = t, !.id = i]
  <2>1. t \in Tokens
    BY <1>0 DEF TypeOK
  <2>2. a \in Arg /\ a.op = "refresh" /\ a.dev = d /\ a.tok = t /\ a.id = i
    BY <2>1 DEF NoArg, Arg, DevOrNone, Roles
  <2>3. Begin(r, a, "mark", d)
    OBVIOUS
  <2> HIDE DEF a
  <2> QED BY <1>1, <2>1, <2>2, <2>3 DEF Unauthed
<1>4. CASE StartAuthed(r)
  <2> PICK t \in heldA, i \in RequestIds, op \in {"call", "revoke", "register"},
           x \in Devices, role \in {"owner", "phone", "computer"} :
        /\ acc[t] # None
        /\ op = "call" => x = acc[t]
        /\ op # "register" => role = "computer"
        /\ Begin(r, [NoArg EXCEPT !.op = op, !.tok = t, !.target = x,
                                  !.role = role, !.id = IF op = "call" THEN None ELSE i],
                 "resolve", acc[t])
    BY ONLY <1>4, Zenon DEF StartAuthed
  <2> DEFINE id == IF op = "call" THEN None ELSE i
             a == [NoArg EXCEPT !.op = op, !.tok = t, !.target = x, !.role = role, !.id = id]
  <2>1. t \in Tokens /\ acc[t] \in Devices
    BY <1>0 DEF TypeOK, DevOrNone
  <2>2. id \in RequestIds \cup {None} /\ (op # "call" => id \in RequestIds)
    OBVIOUS
  <2>3. Begin(r, a, "resolve", acc[t])
    OBVIOUS
  <2> HIDE DEF id
  <2>4. a \in Arg /\ a.op = op /\ a.tok = t /\ a.target = x /\ a.id = id
    BY <2>1, <2>2 DEF NoArg, Arg, DevOrNone, Roles
  <2> HIDE DEF a
  <2> QED BY <1>1, <2>1, <2>2, <2>3, <2>4 DEF Unauthed
<1> QED BY <1>2, <1>3, <1>4 DEF Start


\* One request is moved, to its next round trip or to its end.
Moves(r) ==
    /\ pc' \in [Requests -> Pcs] /\ res' \in [Requests -> Results]
    /\ \A q \in Requests \ {r} : pc'[q] = pc[q] /\ res'[q] = res[q]

\* A handler that ends keeps its facts, if a late one does not end well.
LEMMA EndStep ==
    ASSUME IInv, NEW r \in Requests, NEW out \in Results, Finish(r, out),
           arg' = arg, late' = late, late[r] => out # "ok"
    PROVE  Moves(r) /\ HandlerInv(r)'
<1>1. TypeOK /\ HandlerInv(r)
  BY DEF IInv
<1>2. /\ pc' \in [Requests -> Pcs] /\ res' \in [Requests -> Results]
      /\ pc'[r] = "done" /\ res'[r] = out
      /\ \A q \in Requests \ {r} : pc'[q] = pc[q] /\ res'[q] = res[q]
  BY <1>1, FinishStep
<1>3. ArgFits(r)'
  BY <1>1 DEF HandlerInv, ArgFits
<1>4. PcFits(r)' /\ RoleFits(r)' /\ LateFits(r)'
  BY <1>2 DEF PcFits, RoleFits, LateFits, Revoking, Minting
<1> QED BY <1>2, <1>3, <1>4 DEF Moves, HandlerInv

\* A handler that goes on moves one request.
LEMMA OnStep ==
    ASSUME IInv, NEW r \in Requests, NEW to \in Pcs, Go(r, to)
    PROVE  Moves(r) /\ pc'[r] = to /\ res'[r] = res[r]
<1>1. TypeOK
  BY DEF IInv
<1> QED BY <1>1, GoStep DEF Moves, TypeOK

\* A handler's read: rows, challenges and tokens stay.
LEMMA QuietStep ==
    ASSUME IInv, NEW r \in Requests, Moves(r),
           UNCHANGED <<now, pgvars, chvars, tokvars, arg, late>>,
           marked' \subseteq RequestIds,
           mem' \in [Requests -> Mem], \A q \in Requests \ {r} : mem'[q] = mem[q],
           HandlerInv(r)'
    PROVE  IInv' /\ RowsStay
<1>1. TypeOK
  BY DEF IInv
<1>2. TypeOK'
  BY <1>1 DEF TypeOK, Moves, pgvars, chvars, tokvars
<1>3. RowsStay /\ TokensStay /\ TokenInv'
  BY Untouched
<1>4. \A q \in Requests \ {r} : Same(q)
  BY DEF Same, Moves
<1> QED BY <1>2, <1>3, <1>4, OneRequest

\* authed() and idempotent(): the token, the row, the flag, the request id.
LEMMA AuthStep ==
    ASSUME IInv, NEW r \in Requests,
           Resolve(r) \/ LoadDevice(r) \/ CheckRevoked(r) \/ MarkRequest(r)
    PROVE  IInv' /\ RowsStay
<1> USE AuthAssumption
<1>0. /\ TypeOK /\ HandlerInv(r) /\ arg[r] \in Arg /\ mem[r] \in Mem
      /\ marked \subseteq RequestIds /\ mem \in [Requests -> Mem]
  BY DEF IInv, TypeOK
<1>1. CASE Resolve(r)
  <2> DEFINE d == acc[arg[r].tok]
  <2>1. arg[r].tok \in Tokens /\ d \in DevOrNone /\ pc[r] = "resolve"
    BY <1>0, <1>1 DEF Resolve, HandlerInv, PcFits, ArgFits, TypeOK
  <2>2. UNCHANGED <<now, pgvars, chvars, tokvars, marked, arg, late>>
    BY <1>1 DEF Resolve
  <2>3. CASE d = None
    <3>1. Finish(r, "unauthorized") /\ mem' = mem
      BY <1>1, <2>3 DEF Resolve
    <3>2. Moves(r) /\ HandlerInv(r)'
      BY <2>2, <3>1, EndStep DEF Results
    <3> QED BY <1>0, <2>2, <3>1, <3>2, QuietStep
  <2>4. CASE d # None
    <3>1. mem' = [mem EXCEPT ![r].dev = d] /\ Go(r, "dev") /\ d \in Devices
      BY <1>1, <2>1, <2>4 DEF Resolve, DevOrNone
    <3>2. Moves(r) /\ pc'[r] = "dev" /\ res'[r] = res[r]
      BY <3>1, OnStep DEF Pcs
    <3>3. /\ mem' \in [Requests -> Mem] /\ mem'[r].dev = d
          /\ \A q \in Requests \ {r} : mem'[q] = mem[q]
      BY <1>0, <2>1, <3>1 DEF Mem
    <3>4. arg[r].op \in {"call", "revoke", "register"} /\ res[r] = "none"
      BY <1>0, <2>1 DEF HandlerInv, PcFits
    <3>5. Caller(r)' = d
      BY <2>2, <3>3, <3>4 DEF Caller
    <3>6. ArgFits(r)' /\ PcFits(r)' /\ RoleFits(r)'
      BY <1>0, <2>2, <3>1, <3>2, <3>4, <3>5
         DEF HandlerInv, ArgFits, PcFits, RoleFits, Minting, Revoking
    <3>7. LateFits(r)'
      BY <1>0, <2>1, <2>2, <2>4, <3>2, <3>4, <3>5 DEF HandlerInv, LateFits, pgvars
    <3> QED BY <2>2, <1>0, <3>2, <3>3, <3>6, <3>7, QuietStep DEF HandlerInv
  <2> QED BY <2>3, <2>4
<1>2. CASE LoadDevice(r)
  <2> DEFINE row == devs[Caller(r)]
  <2>1. /\ pc[r] = "dev" /\ Caller(r) \in Devices /\ row \in DeviceRow
        /\ res[r] = "none" /\ arg[r].op # "none"
    BY <1>0, <1>2 DEF LoadDevice, HandlerInv, PcFits, TypeOK
  <2>2. UNCHANGED <<now, pgvars, chvars, tokvars, marked, arg, late>>
    BY <1>2 DEF LoadDevice
  <2>3. CASE row.role = "absent" \/ row.revoked
    <3>1. (Finish(r, "unknown") \/ Finish(r, "revoked")) /\ mem' = mem
      BY <1>2, <2>3 DEF LoadDevice
    <3>2. Moves(r) /\ HandlerInv(r)'
      BY <2>2, <3>1, EndStep DEF Results
    <3> QED BY <1>0, <2>2, <3>1, <3>2, QuietStep
  <2>4. CASE ~(row.role = "absent" \/ row.revoked)
    <3>1. mem' = [mem EXCEPT ![r].role = row.role] /\ Go(r, "rev")
      BY <1>2, <2>4 DEF LoadDevice
    <3>2. Moves(r) /\ pc'[r] = "rev" /\ res'[r] = res[r]
      BY <3>1, OnStep DEF Pcs
    <3>3. /\ mem' \in [Requests -> Mem] /\ mem'[r].role = row.role
          /\ mem'[r].dev = mem[r].dev
          /\ \A q \in Requests \ {r} : mem'[q] = mem[q]
      BY <1>0, <2>1, <3>1 DEF Mem, DeviceRow
    <3>4. ~late[r]
      BY <1>0, <2>1, <2>4 DEF HandlerInv, LateFits
    <3>5. Caller(r)' = Caller(r)
      BY <2>2, <3>3 DEF Caller
    <3>6. ArgFits(r)' /\ PcFits(r)' /\ LateFits(r)'
      BY <1>0, <2>1, <2>2, <3>2, <3>4, <3>5
         DEF HandlerInv, ArgFits, PcFits, LateFits, Minting, Revoking
    <3>7. RoleFits(r)'
      BY <2>1, <2>2, <2>4, <3>2, <3>3 DEF RoleFits, Caller, Unauthed, Revoking, pgvars
    <3> QED BY <2>2, <1>0, <3>2, <3>3, <3>6, <3>7, QuietStep DEF HandlerInv
  <2> QED BY <2>3, <2>4
<1>3. CASE CheckRevoked(r)
  <2>1. /\ pc[r] = "rev" /\ ~late[r] /\ res[r] = "none"
        /\ arg[r].op \in {"verify", "refresh", "call", "revoke", "register"}
    BY <1>0, <1>3 DEF CheckRevoked, HandlerInv, PcFits, LateFits, Arg
  <2>2. UNCHANGED <<now, pgvars, chvars, tokvars, marked, arg, mem, late>>
    BY <1>3 DEF CheckRevoked
  <2>3. \/ Finish(r, "revoked") \/ Finish(r, "ok")
        \/ arg[r].op = "verify" /\ Go(r, "ch_get")
        \/ arg[r].op = "refresh" /\ Go(r, "consume")
        \/ arg[r].op \in {"revoke", "register"} /\ Go(r, "mark")
    BY <1>3, <2>1 DEF CheckRevoked, AfterAuth
  <2>4. CASE Finish(r, "revoked") \/ Finish(r, "ok")
    <3>1. Moves(r) /\ HandlerInv(r)'
      BY <2>1, <2>2, <2>4, EndStep DEF Results
    <3> QED BY <1>0, <2>2, <3>1, QuietStep
  <2>5. ASSUME NEW to \in {"ch_get", "consume", "mark"}, Go(r, to),
               to = "ch_get" => arg[r].op = "verify",
               to = "consume" => arg[r].op = "refresh",
               to = "mark" => arg[r].op \in {"revoke", "register"}
        PROVE  IInv' /\ RowsStay
    <3>1. Moves(r) /\ pc'[r] = to /\ res'[r] = res[r]
      BY <2>5, OnStep DEF Pcs
    <3>2. ArgFits(r)' /\ PcFits(r)' /\ LateFits(r)'
      BY <1>0, <2>1, <2>2, <2>5, <3>1
         DEF HandlerInv, ArgFits, PcFits, LateFits, Minting, Revoking
    <3>3. RoleFits(r)'
      BY <1>0, <2>1, <2>2, <2>5, <3>1 DEF HandlerInv, RoleFits, Unauthed, Revoking, pgvars
    <3> QED BY <1>0, <2>2, <3>1, <3>2, <3>3, QuietStep DEF HandlerInv
  <2> QED BY <2>3, <2>4, <2>5
<1>4. CASE MarkRequest(r)
  <2>1. /\ pc[r] = "mark" /\ res[r] = "none"
        /\ arg[r].op \in {"refresh", "revoke", "register"} /\ arg[r].id \in RequestIds
    BY <1>0, <1>4 DEF MarkRequest, HandlerInv, PcFits, ArgFits
  <2>2. UNCHANGED <<now, pgvars, chvars, tokvars, arg, mem, late>>
    BY <1>4 DEF MarkRequest
  <2>3. marked' \subseteq RequestIds
    BY <1>0, <1>4, <2>1 DEF MarkRequest
  <2>4. \/ Finish(r, "replayed")
        \/ arg[r].op = "refresh" /\ Go(r, "dev")
        \/ arg[r].op = "revoke" /\ Go(r, "target")
        \/ arg[r].op = "register" /\ Go(r, "lookup")
    BY <1>4, <2>1 DEF MarkRequest
  <2>5. CASE Finish(r, "replayed")
    <3>1. Moves(r) /\ HandlerInv(r)'
      BY <2>2, <2>5, EndStep DEF Results
    <3> QED BY <1>0, <2>2, <2>3, <3>1, QuietStep
  <2>6. ASSUME NEW to \in {"dev", "target", "lookup"}, Go(r, to),
               to = "dev" => arg[r].op = "refresh",
               to = "target" => arg[r].op = "revoke",
               to = "lookup" => arg[r].op = "register"
        PROVE  IInv' /\ RowsStay
    <3>1. Moves(r) /\ pc'[r] = to /\ res'[r] = res[r]
      BY <2>6, OnStep DEF Pcs
    <3>2. Caller(r)' = Caller(r) /\ (to = "dev" => Caller(r) \in Devices)
      BY <1>0, <2>2, <2>6 DEF Caller, HandlerInv, ArgFits, Unauthed
    <3>3. ArgFits(r)' /\ PcFits(r)'
      BY <1>0, <2>1, <2>2, <2>6, <3>1, <3>2
         DEF HandlerInv, ArgFits, PcFits, Minting, Revoking
    <3>4. RoleFits(r)'
      BY <1>0, <2>1, <2>2, <2>6, <3>1 DEF HandlerInv, RoleFits, Unauthed, Revoking, pgvars
    <3>5. LateFits(r)'
      BY <1>0, <2>1, <2>2, <2>6, <3>1, <3>2 DEF HandlerInv, LateFits, pgvars
    <3> QED BY <1>0, <2>2, <2>3, <3>1, <3>3, <3>4, <3>5, QuietStep DEF HandlerInv
  <2> QED BY <2>4, <2>5, <2>6
<1> QED BY <1>1, <1>2, <1>3, <1>4

\* handleVerify's challenge and handleRefresh's token: a spent token is gone.
LEMMA ProofStep ==
    ASSUME IInv, NEW r \in Requests,
           ChallengeGet(r) \/ ChallengeDel(r) \/ ConsumeRefresh(r)
    PROVE  IInv' /\ RowsStay
<1> USE AuthAssumption
<1>0. /\ TypeOK /\ TokenInv /\ HandlerInv(r) /\ arg[r] \in Arg
      /\ marked \subseteq RequestIds /\ mem \in [Requests -> Mem]
  BY DEF IInv, TypeOK
<1>1. ASSUME NEW to \in {"ch_del", "acc_new"}, Go(r, to), arg' = arg, late' = late,
             to = "ch_del" => arg[r].op = "verify",
             arg[r].op \in Unauthed,
             pc[r] \in {"ch_get", "ch_del", "consume"}
      PROVE  Moves(r) /\ HandlerInv(r)'
  <2>1. Moves(r) /\ pc'[r] = to /\ res'[r] = res[r]
    BY <1>1, OnStep DEF Pcs
  <2>2. ~late[r] /\ res[r] = "none"
    BY <1>0, <1>1 DEF HandlerInv, LateFits, PcFits
  <2>3. ArgFits(r)' /\ PcFits(r)' /\ RoleFits(r)' /\ LateFits(r)'
    BY <1>0, <1>1, <2>1, <2>2
       DEF HandlerInv, ArgFits, PcFits, RoleFits, LateFits, Minting, Revoking
  <2> QED BY <2>1, <2>3 DEF HandlerInv
<1>2. CASE ChallengeGet(r)
  <2>1. UNCHANGED <<now, pgvars, chvars, tokvars, marked, arg, mem, late>>
    BY <1>2 DEF ChallengeGet
  <2>2. pc[r] = "ch_get" /\ arg[r].op = "verify"
    BY <1>0, <1>2 DEF ChallengeGet, HandlerInv, PcFits
  <2>3. Go(r, "ch_del") \/ Finish(r, "badchallenge")
    BY <1>2 DEF ChallengeGet
  <2>4. Moves(r) /\ HandlerInv(r)'
    BY <1>1, <2>1, <2>2, <2>3, EndStep DEF Results, Unauthed
  <2> QED BY <1>0, <2>1, <2>4, QuietStep
<1>3. CASE ChallengeDel(r)
  <2>1. UNCHANGED <<now, pgvars, nextCh, issued, tokvars, marked, arg, mem, late>>
    BY <1>3 DEF ChallengeDel
  <2>2. /\ pc[r] = "ch_del" /\ arg[r].op = "verify" /\ arg[r].val \in Challenges
        /\ arg[r].dev \in Devices
    BY <1>0, <1>3 DEF ChallengeDel, HandlerInv, PcFits, ArgFits, Unauthed
  <2>3. Go(r, "acc_new") \/ Finish(r, "badsig")
    BY <1>3 DEF ChallengeDel
  <2>4. Moves(r) /\ HandlerInv(r)'
    BY <1>1, <2>1, <2>2, <2>3, EndStep DEF Results, Unauthed
  <2>5. chal' \in [Devices -> ChalKey] /\ passed' \subseteq Challenges \X Requests \X Nat
    <3>1. [val |-> 0, exp |-> 0] \in ChalKey
      BY DEF ChalKey
    <3>2. <<arg[r].val, r, now>> \in Challenges \X Requests \X Nat
      BY <1>0, <2>2 DEF TypeOK
    <3> QED BY <1>0, <1>3, <3>1, <3>2 DEF ChallengeDel, TypeOK
  <2>6. TypeOK'
    BY <1>0, <2>1, <2>4, <2>5 DEF TypeOK, Moves, pgvars, tokvars
  <2>7. RowsStay /\ TokensStay /\ TokenInv'
    BY <2>1, Untouched
  <2>8. \A q \in Requests \ {r} : Same(q)
    BY <2>1, <2>4 DEF Same, Moves
  <2> QED BY <2>4, <2>6, <2>7, <2>8, OneRequest
<1>4. CASE ConsumeRefresh(r)
  <2> DEFINE t == arg[r].tok
  <2>1. UNCHANGED <<now, pgvars, chvars, acc, accIdx, nextTok, heldA, heldR,
                    marked, arg, mem, late>>
    BY <1>4 DEF ConsumeRefresh
  <2>2. /\ pc[r] = "consume" /\ arg[r].op = "refresh" /\ t \in Tokens
        /\ arg[r].dev \in Devices
    BY <1>0, <1>4 DEF ConsumeRefresh, HandlerInv, PcFits, ArgFits, Unauthed
  <2>3. CASE rfr[t] # arg[r].dev
    <3>1. Finish(r, "unauthorized") /\ UNCHANGED <<rfr, rfrIdx, spent>>
      BY <1>4, <2>3 DEF ConsumeRefresh
    <3>2. Moves(r) /\ HandlerInv(r)'
      BY <2>1, <3>1, EndStep DEF Results
    <3> QED BY <1>0, <2>1, <3>1, <3>2, QuietStep DEF tokvars
  <2>4. CASE rfr[t] = arg[r].dev
    <3>1. /\ rfr' = [rfr EXCEPT ![t] = None] /\ Go(r, "acc_new")
          /\ rfrIdx' = [rfrIdx EXCEPT ![arg[r].dev] = @ \ {t}]
          /\ spent' = spent \cup {<<t, r>>}
      BY <1>4, <2>4 DEF ConsumeRefresh
    <3>2. Moves(r) /\ HandlerInv(r)'
      BY <1>1, <2>1, <2>2, <3>1 DEF Unauthed
    <3>3. /\ rfr' \in [Tokens -> DevOrNone] /\ rfrIdx' \in [Devices -> SUBSET Tokens]
          /\ spent' \subseteq Tokens \X Requests
      BY <1>0, <2>2, <3>1 DEF TypeOK, DevOrNone
    <3>4. TypeOK'
      BY <1>0, <2>1, <3>2, <3>3 DEF TypeOK, Moves, pgvars, chvars
    <3>5. RowsStay /\ TokensStay
      BY <1>0, <2>1 DEF RowsStay, TokensStay, TypeOK, pgvars
    <3>6. t <= nextTok
      BY <1>0, <2>2, <2>4 DEF TokenInv, TypeOK, Tokens
    <3>7. \A u \in spent : u[1] # t
      BY <1>0, <2>2, <2>4 DEF TokenInv
    <3>8. TokenInv'
      <4>1. \A x \in Tokens : x > nextTok' => acc'[x] = None /\ rfr'[x] = None
        BY <1>0, <2>1, <2>2, <3>1 DEF TokenInv, TypeOK
      <4>2. ASSUME NEW u \in spent' PROVE u[1] <= nextTok' /\ rfr'[u[1]] = None
        <5>1. CASE u \in spent
          <6>1. u[1] \in Tokens
            BY <1>0, <5>1 DEF TypeOK
          <6> QED BY <1>0, <2>1, <2>2, <3>1, <5>1, <6>1 DEF TokenInv, TypeOK
        <5>2. CASE u = <<t, r>>
          BY <1>0, <2>1, <2>2, <3>1, <3>6, <5>2 DEF TypeOK
        <5> QED BY <3>1, <5>1, <5>2
      <4>3. RefreshIsSingleUse'
        BY <1>0, <3>1, <3>7 DEF TokenInv, RefreshIsSingleUse
      <4> QED BY <4>1, <4>2, <4>3 DEF TokenInv
    <3>9. \A q \in Requests \ {r} : Same(q)
      BY <2>1, <3>2 DEF Same, Moves
    <3> QED BY <3>2, <3>4, <3>5, <3>8, <3>9, OneRequest
  <2> QED BY <2>3, <2>4
<1> QED BY <1>2, <1>3, <1>4

\* Minting and indexing: a fresh token is one no request has named.
LEMMA MintStep ==
    ASSUME IInv, NEW r \in Requests,
           AccessHash(r) \/ AccessIndex(r) \/ RefreshHash(r) \/ RefreshIndex(r)
    PROVE  IInv' /\ RowsStay
<1> USE AuthAssumption
<1>0. /\ TypeOK /\ TokenInv /\ HandlerInv(r) /\ arg[r] \in Arg /\ mem[r] \in Mem
      /\ pc[r] \in Minting
  BY DEF IInv, TypeOK, AccessHash, AccessIndex, RefreshHash, RefreshIndex, Minting
<1>1. /\ ~late[r] /\ res[r] = "none" /\ arg[r].op \in Unauthed /\ arg[r].dev \in Devices
      /\ pc[r] # "acc_new" => mem[r].a \in Tokens
      /\ pc[r] = "rfr_idx" => mem[r].r \in Tokens
  BY <1>0 DEF HandlerInv, LateFits, PcFits, ArgFits, Minting
<1>2. ASSUME NEW to \in Minting, Go(r, to), arg' = arg, late' = late,
             to # "acc_new" => mem'[r].a \in Tokens, to = "rfr_idx" => mem'[r].r \in Tokens
      PROVE  Moves(r) /\ HandlerInv(r)'
  <2>1. Moves(r) /\ pc'[r] = to /\ res'[r] = res[r]
    BY <1>2, OnStep DEF Pcs, Minting
  <2>2. ArgFits(r)' /\ PcFits(r)' /\ RoleFits(r)' /\ LateFits(r)'
    BY <1>0, <1>1, <1>2, <2>1
       DEF HandlerInv, ArgFits, PcFits, RoleFits, LateFits, Minting, Revoking
  <2> QED BY <2>1, <2>2 DEF HandlerInv
<1>3. nextTok < MaxTokens => /\ nextTok + 1 \in Tokens /\ nextTok + 1 \in 0..MaxTokens
                             /\ \A u \in spent : u[1] # nextTok + 1
  BY <1>0 DEF TypeOK, Tokens, TokenInv
<1>4. CASE AccessHash(r)
  <2>1. /\ UNCHANGED <<now, pgvars, chvars, rfr, accIdx, rfrIdx, heldA, heldR, spent,
                       marked, arg, late>>
        /\ nextTok < MaxTokens /\ nextTok' = nextTok + 1 /\ Go(r, "acc_idx")
        /\ acc' = [acc EXCEPT ![nextTok + 1] = arg[r].dev]
        /\ mem' = [mem EXCEPT ![r].a = nextTok + 1]
    BY <1>4 DEF AccessHash
  <2>2. /\ acc' \in [Tokens -> DevOrNone]
        /\ \A x \in Tokens : x # nextTok + 1 => acc'[x] = acc[x]
    BY <1>0, <1>1, <1>3, <2>1 DEF TypeOK, DevOrNone
  <2>3. /\ mem' \in [Requests -> Mem] /\ mem'[r].a = nextTok + 1
        /\ \A q \in Requests \ {r} : mem'[q] = mem[q]
    BY <1>0, <1>3, <2>1 DEF TypeOK, Mem
  <2>4. Moves(r) /\ HandlerInv(r)'
    BY <1>2, <1>3, <2>1, <2>3 DEF Minting
  <2>5. TypeOK'
    BY <1>0, <1>3, <2>1, <2>2, <2>3, <2>4 DEF TypeOK, Moves, pgvars, chvars
  <2>6. RowsStay
    BY <2>1 DEF RowsStay, pgvars
  <2>7. TokensStay
    BY <1>0, <2>1, <2>2 DEF TokensStay, TypeOK, Tokens
  <2>8. TokenInv'
    <3>1. \A x \in Tokens : x > nextTok' => acc'[x] = None /\ rfr'[x] = None
      BY <1>0, <2>1, <2>2 DEF TokenInv, TypeOK, Tokens
    <3>2. ASSUME NEW u \in spent' PROVE u[1] <= nextTok' /\ rfr'[u[1]] = None
      <4>1. u[1] \in Tokens
        BY <1>0, <2>1 DEF TypeOK
      <4> QED BY <1>0, <2>1, <4>1 DEF TokenInv, TypeOK, Tokens
    <3> QED BY <1>0, <2>1, <3>1, <3>2 DEF TokenInv, RefreshIsSingleUse
  <2>9. \A q \in Requests \ {r} : Same(q)
    BY <2>1, <2>3, <2>4 DEF Same, Moves
  <2> QED BY <2>4, <2>5, <2>6, <2>7, <2>8, <2>9, OneRequest
<1>5. CASE AccessIndex(r)
  <2>1. /\ UNCHANGED <<now, pgvars, chvars, acc, rfr, rfrIdx, nextTok, heldA, heldR, spent,
                       marked, arg, mem, late>>
        /\ pc[r] = "acc_idx" /\ Go(r, "rfr_new")
        /\ accIdx' = [accIdx EXCEPT ![arg[r].dev] = @ \cup {mem[r].a}]
    BY <1>5 DEF AccessIndex
  <2>2. accIdx' \in [Devices -> SUBSET Tokens]
    BY <1>0, <1>1, <2>1 DEF TypeOK
  <2>3. Moves(r) /\ HandlerInv(r)'
    BY <1>1, <1>2, <2>1 DEF Minting
  <2>4. TypeOK'
    BY <1>0, <2>1, <2>2, <2>3 DEF TypeOK, Moves, pgvars, chvars
  <2>5. RowsStay /\ TokensStay /\ TokenInv'
    BY <1>0, <2>1 DEF RowsStay, TokensStay, TokenInv, RefreshIsSingleUse, TypeOK, pgvars
  <2>6. \A q \in Requests \ {r} : Same(q)
    BY <2>1, <2>3 DEF Same, Moves
  <2> QED BY <2>3, <2>4, <2>5, <2>6, OneRequest
<1>6. CASE RefreshHash(r)
  <2>1. /\ UNCHANGED <<now, pgvars, chvars, acc, accIdx, rfrIdx, heldA, heldR, spent,
                       marked, arg, late>>
        /\ nextTok < MaxTokens /\ nextTok' = nextTok + 1 /\ Go(r, "rfr_idx")
        /\ rfr' = [rfr EXCEPT ![nextTok + 1] = arg[r].dev] /\ pc[r] = "rfr_new"
        /\ mem' = [mem EXCEPT ![r].r = nextTok + 1]
    BY <1>6 DEF RefreshHash
  <2>2. /\ rfr' \in [Tokens -> DevOrNone]
        /\ \A x \in Tokens : x # nextTok + 1 => rfr'[x] = rfr[x]
    BY <1>0, <1>1, <1>3, <2>1 DEF TypeOK, DevOrNone
  <2>3. /\ mem' \in [Requests -> Mem] /\ mem'[r].r = nextTok + 1 /\ mem'[r].a = mem[r].a
        /\ \A q \in Requests \ {r} : mem'[q] = mem[q]
    BY <1>0, <1>3, <2>1 DEF TypeOK, Mem
  <2>4. Moves(r) /\ HandlerInv(r)'
    BY <1>1, <1>2, <1>3, <2>1, <2>3 DEF Minting
  <2>5. TypeOK'
    BY <1>0, <1>3, <2>1, <2>2, <2>3, <2>4 DEF TypeOK, Moves, pgvars, chvars
  <2>6. RowsStay
    BY <2>1 DEF RowsStay, pgvars
  <2>7. TokensStay
    BY <1>0, <2>1 DEF TokensStay, TypeOK, Tokens
  <2>8. TokenInv'
    <3>1. \A x \in Tokens : x > nextTok' => acc'[x] = None /\ rfr'[x] = None
      BY <1>0, <2>1, <2>2 DEF TokenInv, TypeOK, Tokens
    <3>2. ASSUME NEW u \in spent' PROVE u[1] <= nextTok' /\ rfr'[u[1]] = None
      <4>1. u[1] \in Tokens /\ u[1] # nextTok + 1
        BY <1>0, <1>3, <2>1 DEF TypeOK
      <4> QED BY <1>0, <2>1, <2>2, <4>1 DEF TokenInv, TypeOK, Tokens
    <3> QED BY <1>0, <2>1, <3>1, <3>2 DEF TokenInv, RefreshIsSingleUse
  <2>9. \A q \in Requests \ {r} : Same(q)
    BY <2>1, <2>3, <2>4 DEF Same, Moves
  <2> QED BY <2>4, <2>5, <2>6, <2>7, <2>8, <2>9, OneRequest
<1>7. CASE RefreshIndex(r)
  <2>1. /\ UNCHANGED <<now, pgvars, chvars, acc, rfr, accIdx, nextTok, spent,
                       marked, arg, mem, late>>
        /\ pc[r] = "rfr_idx" /\ Finish(r, "ok")
        /\ rfrIdx' = [rfrIdx EXCEPT ![arg[r].dev] = @ \cup {mem[r].r}]
        /\ heldA' = heldA \cup {mem[r].a} /\ heldR' = heldR \cup {mem[r].r}
    BY <1>7 DEF RefreshIndex
  <2>2. rfrIdx' \in [Devices -> SUBSET Tokens] /\ heldA' \subseteq Tokens /\ heldR' \subseteq Tokens
    BY <1>0, <1>1, <2>1 DEF TypeOK
  <2>3. Moves(r) /\ HandlerInv(r)'
    BY <1>1, <2>1, EndStep DEF Results
  <2>4. TypeOK'
    BY <1>0, <2>1, <2>2, <2>3 DEF TypeOK, Moves, pgvars, chvars
  <2>5. RowsStay /\ TokensStay /\ TokenInv'
    BY <1>0, <2>1 DEF RowsStay, TokensStay, TokenInv, RefreshIsSingleUse, TypeOK, pgvars
  <2>6. \A q \in Requests \ {r} : Same(q)
    BY <2>1, <2>3 DEF Same, Moves
  <2> QED BY <2>3, <2>4, <2>5, <2>6, OneRequest
<1> QED BY <1>4, <1>5, <1>6, <1>7

\* handleDeviceRevoke: past the check of the role, the caller is an Owner.
LEMMA RevokeStep ==
    ASSUME IInv, NEW r \in Requests,
           \/ RevokeTarget(r) \/ RevokeRow(r) \/ RevokeReadAccess(r) \/ RevokeReadRefresh(r)
           \/ RevokeDelTokens(r) \/ RevokeDelIndex(r)
    PROVE  IInv' /\ RowsStay
<1> USE AuthAssumption
<1>0. /\ TypeOK /\ TokenInv /\ HandlerInv(r) /\ arg[r] \in Arg /\ mem[r] \in Mem
      /\ mem \in [Requests -> Mem] /\ marked \subseteq RequestIds
      /\ pc[r] \in {"target"} \cup Revoking
  BY DEF IInv, TypeOK, RevokeTarget, RevokeRow, RevokeReadAccess, RevokeReadRefresh,
     RevokeDelTokens, RevokeDelIndex, Revoking
<1>1. /\ ~late[r] /\ res[r] = "none" /\ arg[r].op = "revoke" /\ arg[r].target \in Devices
      /\ mem[r].dev \in Devices /\ devs[mem[r].dev].role = mem[r].role
      /\ mem[r].role # "absent" /\ (pc[r] \in Revoking => mem[r].role = "owner")
  BY <1>0 DEF HandlerInv, LateFits, PcFits, ArgFits, RoleFits, Revoking, Unauthed
<1>2. ASSUME NEW to \in Revoking, Go(r, to), arg' = arg, late' = late, RowsStay,
             mem'[r].dev = mem[r].dev, mem'[r].role = "owner", mem[r].role = "owner"
      PROVE  Moves(r) /\ HandlerInv(r)'
  <2>1. Moves(r) /\ pc'[r] = to /\ res'[r] = res[r]
    BY <1>2, OnStep DEF Pcs, Revoking
  <2>2. ArgFits(r)' /\ PcFits(r)' /\ LateFits(r)'
    BY <1>0, <1>1, <1>2, <2>1
       DEF HandlerInv, ArgFits, PcFits, LateFits, Minting, Revoking
  <2>3. RoleFits(r)'
    BY <1>1, <1>2, <2>1 DEF RoleFits, RowsStay, Revoking
  <2> QED BY <2>1, <2>2, <2>3 DEF HandlerInv
<1>3. ASSUME UNCHANGED pgvars PROVE RowsStay
  BY <1>3 DEF pgvars, RowsStay
<1>4. CASE RevokeTarget(r)
  <2>1. UNCHANGED <<now, pgvars, chvars, tokvars, marked, arg, mem, late>>
    BY <1>4 DEF RevokeTarget
  <2>2. \/ Finish(r, "forbidden") \/ Finish(r, "unknown")
        \/ mem[r].role = "owner" /\ Go(r, "rv_pg")
    BY <1>4 DEF RevokeTarget
  <2>3. CASE Finish(r, "forbidden") \/ Finish(r, "unknown")
    <3>1. Moves(r) /\ HandlerInv(r)'
      BY <2>1, <2>3, EndStep DEF Results
    <3> QED BY <1>0, <2>1, <3>1, QuietStep
  <2>4. CASE mem[r].role = "owner" /\ Go(r, "rv_pg")
    <3>1. Moves(r) /\ HandlerInv(r)'
      BY <1>2, <1>3, <2>1, <2>4 DEF Revoking
    <3> QED BY <1>0, <2>1, <3>1, QuietStep
  <2> QED BY <2>2, <2>3, <2>4
<1>5. CASE RevokeRow(r)
  <2>1. /\ UNCHANGED <<now, chvars, tokvars, marked, arg, mem, late>>
        /\ pc[r] = "rv_pg" /\ Go(r, "rv_acc")
        /\ devs' = [devs EXCEPT ![arg[r].target].revoked = TRUE]
    BY <1>5 DEF RevokeRow
  <2>2. devs' \in [Devices -> DeviceRow] /\ RowsStay
    <3>1. devs \in [Devices -> DeviceRow]
      BY <1>0 DEF TypeOK
    <3>2. devs' \in [Devices -> DeviceRow]
      BY <1>1, <2>1, <3>1 DEF DeviceRow
    <3>3. RowsStay
      BY <1>1, <2>1, <3>1 DEF DeviceRow, RowsStay
    <3> QED BY <3>2, <3>3
  <2>3. Moves(r) /\ HandlerInv(r)'
    BY <1>1, <1>2, <2>1, <2>2 DEF Revoking
  <2>4. TypeOK'
    BY <1>0, <2>1, <2>2, <2>3 DEF TypeOK, Moves, chvars, tokvars
  <2>5. TokensStay /\ TokenInv'
    BY <1>0, <2>1 DEF TokensStay, TokenInv, RefreshIsSingleUse, TypeOK, tokvars
  <2>6. \A q \in Requests \ {r} : Same(q)
    BY <2>1, <2>3 DEF Same, Moves
  <2> QED BY <2>2, <2>3, <2>4, <2>5, <2>6, OneRequest
<1>6. ASSUME RevokeReadAccess(r) \/ RevokeReadRefresh(r)
      PROVE  IInv' /\ RowsStay
  <2>1. /\ UNCHANGED <<now, pgvars, chvars, tokvars, marked, arg, late>>
        /\ pc[r] \in Revoking /\ (Go(r, "rv_rfr") \/ Go(r, "rv_del"))
    BY <1>6 DEF RevokeReadAccess, RevokeReadRefresh, Revoking
  <2>2. /\ mem' \in [Requests -> Mem]
        /\ mem'[r].dev = mem[r].dev /\ mem'[r].role = mem[r].role
        /\ \A q \in Requests \ {r} : mem'[q] = mem[q]
    <3>1. CASE RevokeReadAccess(r)
      <4>1. accIdx[arg[r].target] \subseteq Tokens
        BY <1>0, <1>1 DEF TypeOK
      <4> QED BY <1>0, <3>1, <4>1 DEF RevokeReadAccess, Mem
    <3>2. CASE RevokeReadRefresh(r)
      <4>1. rfrIdx[arg[r].target] \subseteq Tokens
        BY <1>0, <1>1 DEF TypeOK
      <4> QED BY <1>0, <3>2, <4>1 DEF RevokeReadRefresh, Mem
    <3> QED BY <1>6, <3>1, <3>2
  <2>3. Moves(r) /\ HandlerInv(r)'
    BY <1>1, <1>2, <1>3, <2>1, <2>2 DEF Revoking
  <2> QED BY <1>0, <2>1, <2>2, <2>3, QuietStep
<1>7. CASE RevokeDelTokens(r)
  <2>1. /\ UNCHANGED <<now, pgvars, chvars, accIdx, rfrIdx, nextTok, heldA, heldR, spent,
                       marked, arg, mem, late>>
        /\ pc[r] = "rv_del" /\ Go(r, "rv_idx")
        /\ acc' = [t \in Tokens |-> IF t \in mem[r].toks THEN None ELSE acc[t]]
        /\ rfr' = [t \in Tokens |-> IF t \in mem[r].rfrs THEN None ELSE rfr[t]]
    BY <1>7 DEF RevokeDelTokens
  <2>2. \A x \in Tokens : acc'[x] \in {acc[x], None} /\ rfr'[x] \in {rfr[x], None}
    BY <2>1
  <2>3. acc' \in [Tokens -> DevOrNone] /\ rfr' \in [Tokens -> DevOrNone]
    BY <1>0, <2>1 DEF TypeOK, DevOrNone
  <2>4. Moves(r) /\ HandlerInv(r)'
    BY <1>1, <1>2, <1>3, <2>1 DEF Revoking
  <2>5. TypeOK'
    BY <1>0, <2>1, <2>3, <2>4 DEF TypeOK, Moves, pgvars, chvars
  <2>6. RowsStay /\ TokensStay
    BY <1>0, <1>3, <2>1, <2>2 DEF TokensStay, TypeOK
  <2>7. TokenInv'
    <3>1. \A x \in Tokens : x > nextTok' => acc'[x] = None /\ rfr'[x] = None
      BY <1>0, <2>1, <2>2 DEF TokenInv
    <3>2. ASSUME NEW u \in spent' PROVE u[1] <= nextTok' /\ rfr'[u[1]] = None
      <4>1. u[1] \in Tokens
        BY <1>0, <2>1 DEF TypeOK
      <4> QED BY <1>0, <2>1, <2>2, <4>1 DEF TokenInv
    <3> QED BY <1>0, <2>1, <3>1, <3>2 DEF TokenInv, RefreshIsSingleUse
  <2>8. \A q \in Requests \ {r} : Same(q)
    BY <2>1, <2>4 DEF Same, Moves
  <2> QED BY <2>4, <2>5, <2>6, <2>7, <2>8, OneRequest
<1>8. CASE RevokeDelIndex(r)
  <2>1. /\ UNCHANGED <<now, pgvars, chvars, acc, rfr, nextTok, heldA, heldR, spent,
                       marked, arg, mem, late>>
        /\ Finish(r, "ok")
        /\ accIdx' = [accIdx EXCEPT ![arg[r].target] = {}]
        /\ rfrIdx' = [rfrIdx EXCEPT ![arg[r].target] = {}]
    BY <1>8 DEF RevokeDelIndex
  <2>2. accIdx' \in [Devices -> SUBSET Tokens] /\ rfrIdx' \in [Devices -> SUBSET Tokens]
    BY <1>0, <2>1 DEF TypeOK
  <2>3. Moves(r) /\ HandlerInv(r)'
    BY <1>1, <2>1, EndStep DEF Results
  <2>4. TypeOK'
    BY <1>0, <2>1, <2>2, <2>3 DEF TypeOK, Moves, pgvars, chvars
  <2>5. RowsStay /\ TokensStay /\ TokenInv'
    BY <1>0, <1>3, <2>1 DEF TokensStay, TokenInv, RefreshIsSingleUse, TypeOK
  <2>6. \A q \in Requests \ {r} : Same(q)
    BY <2>1, <2>3 DEF Same, Moves
  <2> QED BY <2>3, <2>4, <2>5, <2>6, OneRequest
<1> QED BY <1>4, <1>5, <1>6, <1>7, <1>8

\* handleDevicesRegister writes only a row that is not there, and any handler
\* may break off.
LEMMA RegisterOrAbortStep ==
    ASSUME IInv, NEW r \in Requests,
           RegisterLookup(r) \/ RegisterOwner(r) \/ RegisterInsert(r) \/ Abort(r)
    PROVE  IInv' /\ RowsStay
<1> USE AuthAssumption
<1>0. /\ TypeOK /\ TokenInv /\ HandlerInv(r) /\ arg[r] \in Arg
      /\ mem \in [Requests -> Mem] /\ marked \subseteq RequestIds
  BY DEF IInv, TypeOK
<1>1. CASE Abort(r)
  <2>1. UNCHANGED <<now, pgvars, chvars, tokvars, marked, arg, mem, late>> /\ Finish(r, "error")
    BY <1>1 DEF Abort
  <2>2. Moves(r) /\ HandlerInv(r)'
    BY <2>1, EndStep DEF Results
  <2> QED BY <1>0, <2>1, <2>2, QuietStep
<1>2. ASSUME pc[r] \in {"lookup", "owner", "insert"}
      PROVE  ~late[r] /\ res[r] = "none" /\ arg[r].op = "register" /\ arg[r].target \in Devices
  BY <1>0, <1>2 DEF HandlerInv, LateFits, PcFits, ArgFits
<1>3. ASSUME RegisterLookup(r) \/ RegisterOwner(r) PROVE IInv' /\ RowsStay
  <2>1. /\ UNCHANGED <<now, pgvars, chvars, tokvars, marked, arg, mem, late>>
        /\ pc[r] \in {"lookup", "owner"}
    BY <1>3 DEF RegisterLookup, RegisterOwner
  <2>2. \/ \E out \in {"ok", "mismatch", "forbidden"} : Finish(r, out)
        \/ Go(r, "owner") \/ Go(r, "insert")
    BY <1>3 DEF RegisterLookup, RegisterOwner
  <2>3. ASSUME NEW out \in {"ok", "mismatch", "forbidden"}, Finish(r, out)
        PROVE  IInv' /\ RowsStay
    <3>1. Moves(r) /\ HandlerInv(r)'
      BY <1>2, <2>1, <2>3, EndStep DEF Results
    <3> QED BY <1>0, <2>1, <3>1, QuietStep
  <2>4. ASSUME NEW to \in {"owner", "insert"}, Go(r, to)
        PROVE  IInv' /\ RowsStay
    <3>1. Moves(r) /\ pc'[r] = to /\ res'[r] = res[r]
      BY <2>4, OnStep DEF Pcs
    <3>2. ArgFits(r)' /\ PcFits(r)' /\ RoleFits(r)' /\ LateFits(r)'
      BY <1>0, <1>2, <2>1, <3>1
         DEF HandlerInv, ArgFits, PcFits, RoleFits, LateFits, Minting, Revoking
    <3> QED BY <1>0, <2>1, <3>1, <3>2, QuietStep DEF HandlerInv
  <2> QED BY <2>2, <2>3, <2>4
<1>4. CASE RegisterInsert(r)
  <2>1. UNCHANGED <<now, chvars, tokvars, marked, arg, mem, late>> /\ pc[r] = "insert"
    BY <1>4 DEF RegisterInsert
  <2>2. (Finish(r, "ok") \/ Finish(r, "conflict"))
    BY <1>4 DEF RegisterInsert
  <2>3. Moves(r) /\ HandlerInv(r)'
    BY <1>2, <2>1, <2>2, EndStep DEF Results
  <2>4. devs' \in [Devices -> DeviceRow] /\ RowsStay
    <3>1. devs \in [Devices -> DeviceRow] /\ arg[r].target \in Devices /\ arg[r].role \in Roles
      BY <1>0, <1>2, <2>1 DEF TypeOK, Arg
    <3>2. CASE devs[arg[r].target].role # "absent"
      BY <1>4, <3>1, <3>2 DEF RegisterInsert, RowsStay
    <3>3. CASE devs[arg[r].target].role = "absent"
      <4>1. devs' = [devs EXCEPT ![arg[r].target].role = arg[r].role]
        BY <1>4, <3>3 DEF RegisterInsert
      <4>2. devs' \in [Devices -> DeviceRow]
        BY <3>1, <4>1 DEF DeviceRow
      <4>3. RowsStay
        BY <3>1, <3>3, <4>1 DEF DeviceRow, RowsStay
      <4> QED BY <4>2, <4>3
    <3> QED BY <3>2, <3>3
  <2>5. TypeOK'
    BY <1>0, <2>1, <2>3, <2>4 DEF TypeOK, Moves, chvars, tokvars
  <2>6. TokensStay /\ TokenInv'
    BY <1>0, <2>1 DEF TokensStay, TokenInv, RefreshIsSingleUse, TypeOK, tokvars
  <2>7. \A q \in Requests \ {r} : Same(q)
    BY <2>1, <2>3 DEF Same, Moves
  <2> QED BY <2>3, <2>4, <2>5, <2>6, <2>7, OneRequest
<1> QED BY <1>1, <1>3, <1>4

-----------------------------------------------------------------------------
(* The theorems.                                                            *)

\* Every step keeps the invariant, and the rows.
LEMMA NextStep == IInv /\ [Next]_vars => IInv' /\ RowsStay
<1> SUFFICES ASSUME IInv, [Next]_vars PROVE IInv' /\ RowsStay
  OBVIOUS
<1>1. CASE UNCHANGED vars
  <2>1. UNCHANGED <<pgvars, tokvars>> /\ TypeOK'
    BY <1>1 DEF vars, pgvars, tokvars, IInv, TypeOK
  <2>2. \A q \in Requests : Same(q)
    BY <1>1 DEF vars, Same
  <2> QED BY <2>1, <2>2, Untouched, NoRequest
<1>2. ASSUME NEW r \in Requests, Start(r) \/ Step(r) \/ Abort(r)
      PROVE  IInv' /\ RowsStay
  BY <1>2, StartStep, AuthStep, ProofStep, MintStep, RevokeStep, RegisterOrAbortStep DEF Step
<1> QED BY <1>1, <1>2, EnvironmentStep DEF Next

\* The strengthening holds throughout.
THEOREM Inductive == Spec => []IInv
<1>1. Init => IInv
  BY InitIInv
<1>2. IInv /\ [Next]_vars => IInv'
  BY NextStep
<1> QED BY <1>1, <1>2, PTL DEF Spec

\* Type correctness of the credential store and of every handler's memory.
THEOREM TypeCorrect == Spec => []TypeOK
<1>1. IInv => TypeOK
  BY DEF IInv
<1> QED BY <1>1, Inductive, PTL

\* authed, handleVerify and handleRefresh: a request that starts after its
\* device's revocation committed is never served, however many requests,
\* tokens and revocations are in flight.
THEOREM RevokedRefused == Spec => []RevokedIsRefused
<1>1. IInv => RevokedIsRefused
  BY DEF IInv, HandlerInv, LateFits, RevokedIsRefused
<1> QED BY <1>1, Inductive, PTL

\* handleDeviceRevoke: whoever revokes is an Owner, not revoked when it asked.
THEOREM RevokerActiveOwner == Spec => []RevokerWasActiveOwner
<1>1. IInv => RevokerWasActiveOwner
  BY DEF IInv, HandlerInv, LateFits, RoleFits, PcFits, Revoking, Unauthed,
     RevokerWasActiveOwner
<1> QED BY <1>1, Inductive, PTL

\* consumeRefreshLua: no refresh token is consumed twice.
THEOREM RefreshSingleUse == Spec => []RefreshIsSingleUse
<1>1. IInv => RefreshIsSingleUse
  BY DEF IInv, TokenInv
<1> QED BY <1>1, Inductive, PTL

\* handleDevicesRegister and RevokeDevice: no step rewrites a device's role or
\* undoes its revocation.
THEOREM IdentityPermanent == Spec => IdentityIsPermanent
<1>1. IInv /\ [Next]_vars =>
        [\A d \in Devices : devs[d].role # "absent" =>
            /\ devs'[d].role = devs[d].role
            /\ devs[d].revoked => devs'[d].revoked]_vars
  BY NextStep DEF RowsStay
<1> QED BY <1>1, Inductive, PTL DEF Spec, IdentityIsPermanent

=============================================================================
