------------------------ MODULE AgentRequests_proofs -------------------------
(***************************************************************************)
(* Proofs about AgentRequests, for any servers, inputs, approvals and      *)
(* devices, and any number of calls, crashes and clock ticks: type         *)
(* correctness, that an input's command starts at most once, that one      *)
(* verdict per approval is applied, in time, and stays, that what a        *)
(* snapshot shows is in the store, and that settled rows never change.     *)
(***************************************************************************)
EXTENDS AgentRequests, TLAPS

Answer == [key: Approvals, by: Servers \cup {"manager"}, now: 0..MaxClock, say: Verdicts]

-----------------------------------------------------------------------------
(* The inductive invariant.                                                 *)

\* What a request being handled is about: an input while it is claimed or run,
\* an approval with its verdict while it expires; a resolve is of either.
Input(h)    == h.op \in {"claimed", "resolve", "run"} /\ h.key \in Inputs
Approval(h) == h.op \in {"expire", "resolve", "list"} /\ h.key \in Approvals /\ h.say \in Verdicts
Resting(h)  == h \in {Idle, Saving("save"), Saving("write")}
Places ==
    /\ \A s \in Servers : Resting(srv[s]) \/ Input(srv[s]) \/ Approval(srv[s])
    /\ pm = Idle \/ (pm.op = "track" /\ pm.key \in Approvals) \/ Approval(pm)

\* A command that runs, or is about to, was delivered by the one request that
\* found the row pending.
RunsFit ==
    /\ \A i \in Inputs : ran[i] <= 1 /\ (ran[i] = 1 => req[i].st = "resolved")
    /\ \A s \in Servers : srv[s].op = "run" =>
          req[srv[s].key].st = "resolved" /\ ran[srv[s].key] = 0
    /\ \A s, t \in Servers :
          srv[s].op = "run" /\ srv[t].op = "run" /\ srv[s].key = srv[t].key => s = t

TypeInv == TypeOK /\ Places

-----------------------------------------------------------------------------
(* Types.                                                                   *)

USE RequestsAssumption

\* Rows keep their type through the two statements of a resolve.
LEMMA RowTypes ==
    ASSUME TypeOK
    PROVE  /\ \A now, K : Expired(now, K) \in [Keys -> Row]
           /\ \A k \in Keys, say \in Verdicts \cup {None} : Resolved(k, say) \in [Keys -> Row]
           /\ \A k \in Keys, until \in 0..Forever : Inserted(k, until) => req' \in [Keys -> Row]
<1>1. req \in [Keys -> Row]
  BY DEF TypeOK
<1>2. ASSUME NEW now, NEW K
      PROVE  Expired(now, K) \in [Keys -> Row]
  BY <1>1 DEF Expired, Row
<1>3. ASSUME NEW k \in Keys, NEW say \in Verdicts \cup {None}
      PROVE  Resolved(k, say) \in [Keys -> Row]
  BY <1>1 DEF Resolved, Row
<1>4. ASSUME NEW k \in Keys, NEW until \in 0..Forever, Inserted(k, until)
      PROVE  req' \in [Keys -> Row]
  BY <1>1, <1>4 DEF Inserted, Row
<1> QED BY <1>2, <1>3, <1>4

\* An empty table, and no one handling a request.
LEMMA InitType == Init => TypeInv
BY DEF Init, TypeInv, TypeOK, Places, Resting, NoRow, Row, Idle, Keys, Verdicts, Forever

Request == {Idle, Saving("save"), Saving("write")}
           \cup Handling({"claimed", "expire", "resolve", "list", "run"})
Managed == {Idle} \cup Handling({"track", "expire", "resolve"})

\* The handlers set aside, the rest of the state.
RestType ==
    /\ req \in [Keys -> Row]
    /\ bound \in [Approvals -> Devices \cup {None}]
    /\ settled \subseteq Approvals
    /\ listing \in [Servers -> SUBSET Shown] /\ sidecar \in SUBSET Shown
    /\ clock \in 0..MaxClock /\ calls \in 0..MaxCalls /\ crashes \in 0..MaxCrashes
    /\ ran \in [Inputs -> Nat] /\ dup \subseteq Inputs
    /\ applied \subseteq Answer

\* The same types, with the requests named.
LEMMA TypeParts == TypeOK <=> RestType /\ srv \in [Servers -> Request] /\ pm \in Managed
BY DEF TypeOK, RestType, Answer, Request, Managed

\* A server's request takes another form.
LEMMA ServeType ==
    ASSUME TypeInv, NEW s \in Servers, NEW h \in Request,
           Resting(h) \/ Input(h) \/ Approval(h),
           srv' = [srv EXCEPT ![s] = h], pm' = pm, RestType'
    PROVE  TypeInv'
BY TypeParts DEF TypeInv, TypeOK, Places, Input, Approval, Resting, RestType, Request,
   Managed, Answer

\* The manager's request takes another form.
LEMMA ManageType ==
    ASSUME TypeInv, NEW h \in Managed,
           h = Idle \/ (h.op = "track" /\ h.key \in Approvals) \/ Approval(h),
           pm' = h, srv' = srv, RestType'
    PROVE  TypeInv'
BY TypeParts DEF TypeInv, TypeOK, Places, Input, Approval, Resting, RestType, Request,
   Managed, Answer

\* Neither server nor manager changes its request.
LEMMA HandlersStay ==
    ASSUME TypeInv, srv' = srv, pm' = pm, RestType'
    PROVE  TypeInv'
<1>1. srv' \in [Servers -> Request] /\ pm' \in Managed
  BY TypeParts DEF TypeInv
<1>2. TypeOK'
  BY <1>1 DEF TypeOK, RestType, Request, Managed, Answer
<1>3. Places'
  BY DEF TypeInv, Places, Input, Approval, Resting
<1> QED BY <1>2, <1>3 DEF TypeInv

\* Every step keeps the types.
LEMMA StepType == TypeInv /\ [Next]_vars => TypeInv'
<1> SUFFICES ASSUME TypeInv, [Next]_vars
             PROVE  TypeInv'
  OBVIOUS
<1>0. /\ TypeOK /\ Places /\ RestType
      /\ srv \in [Servers -> Request] /\ pm \in Managed
  BY TypeParts DEF TypeInv
<1> DEFINE H(op, k, say) == [op |-> op, key |-> k, now |-> clock, say |-> say]
<1>a. \A op \in {"claimed", "expire", "resolve", "run"}, k \in Keys, say \in Verdicts \cup {None} :
         H(op, k, say) \in Request
  BY <1>0 DEF Request, Handling, RestType
<1>b. \A op \in {"track", "expire", "resolve"}, k \in Keys, say \in Verdicts \cup {None} :
         H(op, k, say) \in Managed
  BY <1>0 DEF Managed, Handling, RestType
<1>c. /\ Idle \in Request /\ Idle \in Managed /\ Saving("save") \in Request
      /\ Saving("write") \in Request
      /\ Resting(Idle) /\ Resting(Saving("save")) /\ Resting(Saving("write"))
  BY DEF Request, Managed, Resting
<1>d. Inputs \subseteq Keys /\ Approvals \subseteq Keys
  BY DEF Keys
<1>1. ASSUME NEW s \in Servers, NEW i \in Inputs, PostInput(s, i)
      PROVE  TypeInv'
  <2>1. req' \in [Keys -> Row]
    BY <1>0, <1>1, <1>d, RowTypes DEF PostInput, TypeOK, Forever
  <2>2. RestType'
    BY <1>0, <1>1, <2>1 DEF PostInput, RestType, Call
  <2>3. PICK op \in {"claimed", "resolve"} : srv' = [srv EXCEPT ![s] = H(op, i, None)]
    BY <1>1 DEF PostInput, Serve
  <2>4. H(op, i, None) \in Request
    BY <1>a, <1>d
  <2>5. Input(H(op, i, None))
    BY DEF Input
  <2>6. pm' = pm
    BY <1>1 DEF PostInput
  <2> HIDE DEF H
  <2> QED BY <2>2, <2>3, <2>4, <2>5, <2>6, ServeType
<1>2. ASSUME NEW s \in Servers, NEW i \in Inputs, Confirm(s, i)
      PROVE  TypeInv'
  <2>1. req' \in [Keys -> Row]
    BY <1>0, <1>2, <1>d, RowTypes DEF Confirm
  <2>2. RestType'
    BY <1>0, <1>2, <2>1 DEF Confirm, RestType
  <2>3. srv' = [srv EXCEPT ![s] = H("run", i, None)] /\ pm' = pm
    BY <1>2 DEF Confirm, Serve
  <2>4. H("run", i, None) \in Request
    BY <1>a, <1>d
  <2>5. Input(H("run", i, None))
    BY DEF Input
  <2> HIDE DEF H
  <2> QED BY <2>2, <2>3, <2>4, <2>5, ServeType
<1>3. ASSUME NEW s \in Servers, NEW i \in Inputs, Refuse(s, i)
      PROVE  TypeInv'
  <2>1. RestType' /\ pm' = pm
    BY <1>0, <1>3 DEF Refuse, RestType
  <2>2. PICK h \in {Idle, Saving("save")} : srv' = [srv EXCEPT ![s] = h]
    BY <1>3 DEF Refuse, Done, Save
  <2> QED BY <1>c, <2>1, <2>2, ServeType
<1>4. ASSUME NEW s \in Servers, NEW i \in Inputs, Run(s, i)
      PROVE  TypeInv'
  <2>1. RestType' /\ pm' = pm
    BY <1>0, <1>4 DEF Run, RestType
  <2>2. PICK h \in {Idle, Saving("save")} : srv' = [srv EXCEPT ![s] = h]
    BY <1>4 DEF Run, Done, Save
  <2> QED BY <1>c, <2>1, <2>2, ServeType
<1>5. ASSUME NEW s \in Servers, NEW a \in Approvals, NEW v \in Verdicts, PostApproval(s, a, v)
      PROVE  TypeInv'
  <2>1. RestType' /\ srv' = [srv EXCEPT ![s] = H("expire", a, v)] /\ pm' = pm
    BY <1>0, <1>5 DEF PostApproval, RestType, Serve, Call
  <2>2. H("expire", a, v) \in Request
    BY <1>a, <1>d
  <2>3. Approval(H("expire", a, v))
    BY DEF Approval
  <2> HIDE DEF H
  <2> QED BY <2>1, <2>2, <2>3, ServeType
<1>6. ASSUME NEW s \in Servers, ApprovalExpire(s)
      PROVE  TypeInv'
  <2> DEFINE h == [srv[s] EXCEPT !.op = "resolve"]
  <2>1. req' \in [Keys -> Row]
    BY <1>0, <1>6, RowTypes DEF ApprovalExpire
  <2>2. RestType' /\ pm' = pm
    BY <1>0, <1>6, <2>1 DEF ApprovalExpire, RestType
  <2>3. srv' = [srv EXCEPT ![s] = h]
    BY <1>0, <1>6 DEF ApprovalExpire
  <2>4. srv[s] \in Handling({"claimed", "expire", "resolve", "list", "run"}) /\ Approval(srv[s])
    BY <1>0, <1>6 DEF ApprovalExpire, Request, Idle, Saving, Resting, Places, Input
  <2>5. h \in Request /\ Approval(h)
    BY <2>4 DEF Request, Handling, Approval
  <2> HIDE DEF h
  <2> QED BY <2>2, <2>3, <2>5, ServeType
<1>7. ASSUME NEW s \in Servers, NEW a \in Approvals, ApprovalResolve(s, a)
      PROVE  TypeInv'
  <2>1. srv[s] \in Handling({"claimed", "expire", "resolve", "list", "run"}) /\ Approval(srv[s])
    BY <1>0, <1>7 DEF ApprovalResolve, Request, Idle, Saving, Resting, Places, Input, Approval
  <2>2. srv[s].say \in Verdicts /\ srv[s].now \in 0..MaxClock
    BY <2>1 DEF Approval, Handling
  <2> DEFINE h == [srv[s] EXCEPT !.op = "list"]
  <2>3. h \in Request /\ Approval(h)
    BY <2>1 DEF Request, Handling, Approval
  <2>4. pm' = pm /\ (srv' = [srv EXCEPT ![s] = h] \/ srv' = [srv EXCEPT ![s] = Idle])
    BY <1>0, <1>7 DEF ApprovalResolve, Done
  <2>5. req' \in [Keys -> Row]
    BY <1>0, <1>7, <1>d, <2>2, RowTypes DEF ApprovalResolve, RestType
  <2>6. applied' \subseteq Answer
    BY <1>0, <1>7, <2>2 DEF ApprovalResolve, RestType, Answer
  <2>7. RestType'
    BY <1>0, <1>7, <2>5, <2>6 DEF ApprovalResolve, RestType
  <2> HIDE DEF h
  <2> QED BY <1>c, <2>3, <2>4, <2>7, ServeType
<1>18. ASSUME NEW s \in Servers, ApprovalList(s)
       PROVE  TypeInv'
  <2>1. srv[s] \in Handling({"claimed", "expire", "resolve", "list", "run"}) /\ Approval(srv[s])
    BY <1>0, <1>18 DEF ApprovalList, Request, Idle, Saving, Places, Resting, Input
  <2>2. Listed(s, srv[s].key, srv[s].say) \in SUBSET Shown
    BY <1>0, <2>1 DEF Listed, RestType, Shown, Approval
  <2>3. RestType' /\ srv' = [srv EXCEPT ![s] = Saving("save")] /\ pm' = pm
    BY <1>0, <1>18, <2>2 DEF ApprovalList, RestType, Save
  <2> QED BY <1>c, <2>3, ServeType
<1>19. ASSUME NEW s \in Servers, GetSnapshot(s) \/ SaveTruncate(s) \/ SaveWrite(s) \/ Fail(s)
       PROVE  TypeInv'
  <2>1. RestType' /\ pm' = pm
    BY <1>0, <1>19 DEF GetSnapshot, SaveTruncate, SaveWrite, Fail, RestType, Call
  <2>2. PICK h \in {Idle, Saving("save"), Saving("write")} : srv' = [srv EXCEPT ![s] = h]
    BY <1>19 DEF GetSnapshot, SaveTruncate, SaveWrite, Fail, Done, Save
  <2> QED BY <1>c, <2>1, <2>2, ServeType
<1>8. ASSUME NEW a \in Approvals, ManagerRequest(a)
      PROVE  TypeInv'
  <2>1. clock + TTL \in 0..Forever
    BY <1>0 DEF RestType, Forever
  <2>2. req' \in [Keys -> Row]
    BY <1>0, <1>8, <1>d, <2>1, RowTypes DEF ManagerRequest
  <2>3. RestType' /\ srv' = srv /\ pm' = H("track", a, None)
    BY <1>0, <1>8, <2>2 DEF ManagerRequest, RestType, Call, Manage
  <2>4. H("track", a, None) \in Managed
    BY <1>b, <1>d
  <2>5. H("track", a, None).op = "track" /\ H("track", a, None).key = a
    OBVIOUS
  <2> HIDE DEF H
  <2> QED BY <2>3, <2>4, <2>5, ManageType
<1>9. ASSUME NEW d \in Devices, ManagerTrack(d)
      PROVE  TypeInv'
  <2>1. pm.key \in Approvals
    BY <1>0, <1>9 DEF ManagerTrack, Places, Idle, Approval
  <2>2. RestType' /\ srv' = srv /\ pm' = Idle
    BY <1>0, <1>9, <2>1 DEF ManagerTrack, RestType
  <2> QED BY <1>c, <2>2, ManageType
<1>10. ASSUME NEW a \in Approvals, NEW d \in Devices, NEW v \in Verdicts, ManagerResolve(a, d, v)
       PROVE  TypeInv'
  <2>1. RestType' /\ srv' = srv /\ pm' = H("expire", a, v)
    BY <1>0, <1>10 DEF ManagerResolve, RestType, Call, Manage
  <2>2. H("expire", a, v) \in Managed
    BY <1>b, <1>d
  <2>3. Approval(H("expire", a, v))
    BY DEF Approval
  <2> HIDE DEF H
  <2> QED BY <2>1, <2>2, <2>3, ManageType
<1>11. ASSUME ManagerExpire
       PROVE  TypeInv'
  <2> DEFINE h == [pm EXCEPT !.op = "resolve"]
  <2>1. req' \in [Keys -> Row]
    BY <1>0, <1>11, RowTypes DEF ManagerExpire
  <2>2. RestType' /\ srv' = srv /\ pm' = h
    BY <1>0, <1>11, <2>1 DEF ManagerExpire, RestType
  <2>3. pm \in Handling({"track", "expire", "resolve"}) /\ Approval(pm)
    BY <1>0, <1>11 DEF ManagerExpire, Managed, Idle, Places
  <2>4. h \in Managed /\ Approval(h)
    BY <2>3 DEF Managed, Handling, Approval
  <2> HIDE DEF h
  <2> QED BY <2>2, <2>4, ManageType
<1>12. ASSUME ManagerApply
       PROVE  TypeInv'
  <2>1. pm \in Handling({"track", "expire", "resolve"}) /\ Approval(pm)
    BY <1>0, <1>12 DEF ManagerApply, Managed, Idle, Places
  <2>2. pm.key \in Approvals /\ pm.say \in Verdicts /\ pm.now \in 0..MaxClock
    BY <2>1 DEF Approval, Handling
  <2>3. req' \in [Keys -> Row]
    BY <1>0, <1>12, <1>d, <2>2, RowTypes DEF ManagerApply, RestType
  <2>4. applied' \subseteq Answer
    BY <1>0, <1>12, <2>2 DEF ManagerApply, RestType, Answer
  <2>5. RestType' /\ srv' = srv /\ pm' = Idle
    BY <1>0, <1>12, <2>2, <2>3, <2>4 DEF ManagerApply, RestType
  <2> QED BY <1>c, <2>5, ManageType
<1>13. ASSUME SweepExpired
       PROVE  TypeInv'
  <2>1. req' \in [Keys -> Row]
    BY <1>0, <1>13, RowTypes DEF SweepExpired
  <2>2. RestType' /\ srv' = srv /\ pm' = pm
    BY <1>0, <1>13, <2>1 DEF SweepExpired, RestType
  <2> QED BY <2>2, HandlersStay
<1>14. ASSUME Tick
       PROVE  TypeInv'
  <2>1. RestType' /\ srv' = srv /\ pm' = pm
    BY <1>0, <1>14 DEF Tick, RestType
  <2> QED BY <2>1, HandlersStay
<1>15. ASSUME NEW s \in Servers, CrashServer(s)
       PROVE  TypeInv'
  <2>1. RestType' /\ srv' = [srv EXCEPT ![s] = Idle] /\ pm' = pm
    BY <1>0, <1>15 DEF CrashServer, RestType, Done
  <2> QED BY <1>c, <2>1, ServeType
<1>16. ASSUME CrashManager \/ ManagerFail
       PROVE  TypeInv'
  <2>1. RestType' /\ srv' = srv /\ pm' = Idle
    BY <1>0, <1>16 DEF CrashManager, ManagerFail, RestType
  <2> QED BY <1>c, <2>1, ManageType
<1>17. CASE UNCHANGED vars
  BY <1>0, <1>17 DEF vars, TypeInv, TypeOK, Places, Input, Approval, Resting
<1> QED
  BY <1>1, <1>2, <1>3, <1>4, <1>5, <1>6, <1>7, <1>8, <1>9, <1>10, <1>11, <1>12, <1>13,
     <1>14, <1>15, <1>16, <1>17, <1>18, <1>19 DEF Next

-----------------------------------------------------------------------------
(* The life of a row.                                                       *)

\* One step of a row: it stays, is inserted, expires, or is resolved with a
\* payload; its deadline is set once, and a settled row never changes.
Life(k) ==
    \/ req'[k] = req[k]
    \/ /\ req[k].st = "none" /\ req'[k].st = "pending"
       /\ k \in Approvals => req'[k].until = clock + TTL
    \/ /\ req[k].st = "pending" /\ req'[k].st \in {"resolved", "expired"}
       /\ req'[k].until = req[k].until

\* The three statements on the table are steps of a row's life.
LEMMA StatementLife ==
    ASSUME TypeInv
    PROVE  /\ \A now, K : req' = Expired(now, K) => \A k \in Keys : Life(k)
           /\ \A i \in Keys : \A say : Resolvable(i) /\ req' = Resolved(i, say)
                                   => \A k \in Keys : Life(k)
           /\ \A i \in Inputs : Inserted(i, Forever) => \A k \in Keys : Life(k)
           /\ \A a \in Approvals : Inserted(a, clock + TTL) => \A k \in Keys : Life(k)
<1>1. req \in [Keys -> Row] /\ Inputs \subseteq Keys /\ Approvals \subseteq Keys
  BY DEF TypeInv, TypeOK, Keys
<1>2. ASSUME NEW now, NEW K, req' = Expired(now, K), NEW k \in Keys
      PROVE  Life(k)
  BY <1>1, <1>2 DEF Expired, Overdue, Life, Row
<1>3. ASSUME NEW i \in Keys, NEW say, Resolvable(i), req' = Resolved(i, say), NEW k \in Keys
      PROVE  Life(k)
  BY <1>1, <1>3 DEF Resolved, Resolvable, Life, Row
<1>4. ASSUME NEW i \in Inputs, Inserted(i, Forever), NEW k \in Keys
      PROVE  Life(k)
  BY <1>1, <1>4 DEF Inserted, Life
<1>5. ASSUME NEW a \in Approvals, Inserted(a, clock + TTL), NEW k \in Keys
      PROVE  Life(k)
  BY <1>1, <1>5 DEF Inserted, Life
<1> QED BY <1>2, <1>3, <1>4, <1>5

\* Every step of the system is a step of every row's life.
LEMMA RowStep == TypeInv /\ [Next]_vars => \A k \in Keys : Life(k)
<1> SUFFICES ASSUME TypeInv, [Next]_vars
             PROVE  \A k \in Keys : Life(k)
  OBVIOUS
<1>0. Inputs \subseteq Keys /\ Approvals \subseteq Keys
  BY DEF Keys
<1>a. req' = req => \A k \in Keys : Life(k)
  BY DEF Life
<1>1. ASSUME NEW s \in Servers, NEW i \in Inputs, PostInput(s, i)
      PROVE  \A k \in Keys : Life(k)
  BY <1>1, <1>a, StatementLife DEF PostInput
<1>2. ASSUME NEW s \in Servers, NEW i \in Inputs, Confirm(s, i)
      PROVE  \A k \in Keys : Life(k)
  BY <1>0, <1>2, StatementLife DEF Confirm
<1>3. ASSUME NEW s \in Servers, ApprovalExpire(s)
      PROVE  \A k \in Keys : Life(k)
  BY <1>3, StatementLife DEF ApprovalExpire
<1>4. ASSUME NEW s \in Servers, NEW a \in Approvals, ApprovalResolve(s, a)
      PROVE  \A k \in Keys : Life(k)
  BY <1>0, <1>4, <1>a, StatementLife DEF ApprovalResolve
<1>5. ASSUME NEW a \in Approvals, ManagerRequest(a)
      PROVE  \A k \in Keys : Life(k)
  BY <1>5, StatementLife DEF ManagerRequest
<1>6. ASSUME ManagerExpire
      PROVE  \A k \in Keys : Life(k)
  BY <1>6, StatementLife DEF ManagerExpire
<1>7. ASSUME ManagerApply
      PROVE  \A k \in Keys : Life(k)
  <2>1. pm.key \in Keys
    BY <1>0, <1>7 DEF ManagerApply, TypeInv, Places, Idle, Approval
  <2> QED BY <1>7, <1>a, <2>1, StatementLife DEF ManagerApply
<1>8. ASSUME SweepExpired
      PROVE  \A k \in Keys : Life(k)
  BY <1>8, StatementLife DEF SweepExpired
<1> QED
  BY <1>1, <1>2, <1>3, <1>4, <1>5, <1>6, <1>7, <1>8, <1>a
     DEF Next, vars, Refuse, Run, PostApproval, ApprovalList, GetSnapshot, SaveTruncate,
         SaveWrite, Fail, CrashServer, ManagerResolve, ManagerTrack, ManagerFail,
         CrashManager, Tick

-----------------------------------------------------------------------------
(* An input runs at most once.                                              *)

\* A step in which no command starts and no server comes to the point of
\* starting one keeps the invariant: resolved rows stay resolved.
LEMMA RunsFrame ==
    ASSUME TypeInv, RunsFit, \A k \in Keys : Life(k), ran' = ran,
           \A s \in Servers : srv'[s].op = "run" => srv'[s] = srv[s]
    PROVE  RunsFit'
<1>1. \A s \in Servers : srv[s].op = "run" => srv[s].key \in Inputs
  BY DEF TypeInv, Places, Resting, Idle, Saving, Input, Approval
<1>2. \A k \in Keys : req[k].st = "resolved" => req'[k].st = "resolved"
  BY DEF Life
<1> QED BY <1>1, <1>2 DEF RunsFit, Keys

\* The row that is resolved was pending: no one else was told to run its
\* command, and a resolved row is never found pending again.
LEMMA RunsStep ==
    ASSUME TypeInv, RunsFit, [Next]_vars
    PROVE  RunsFit'
<1>0. /\ \A k \in Keys : Life(k)
      /\ req \in [Keys -> Row] /\ srv \in [Servers -> Request] /\ ran \in [Inputs -> Nat]
      /\ \A s \in Servers : srv[s].op = "run" => srv[s].key \in Inputs
      /\ Inputs \subseteq Keys
  BY RowStep, TypeParts DEF TypeInv, TypeOK, Places, Resting, Idle, Saving, Input, Approval, Keys
<1>1. ASSUME NEW s \in Servers, NEW i \in Inputs, Confirm(s, i)
      PROVE  RunsFit'
  <2>1. /\ req[i].st = "pending" /\ req'[i].st = "resolved" /\ ran' = ran
        /\ \A k \in Keys : req[k].st = "resolved" => req'[k].st = "resolved"
    BY <1>0, <1>1 DEF Confirm, Resolvable, Resolved, Row, Life
  <2>2. /\ srv'[s].op = "run" /\ srv'[s].key = i
        /\ \A t \in Servers \ {s} : srv'[t] = srv[t]
    BY <1>0, <1>1 DEF Confirm, Serve
  <2>3. ran[i] = 0 /\ \A t \in Servers : srv[t].op = "run" => srv[t].key # i
    BY <1>0, <2>1 DEF RunsFit
  <2> QED BY <1>0, <2>1, <2>2, <2>3 DEF RunsFit
<1>2. ASSUME NEW s \in Servers, NEW i \in Inputs, Run(s, i)
      PROVE  RunsFit'
  <2>1. /\ srv[s].op = "run" /\ srv[s].key = i /\ req' = req
        /\ \A t \in Servers : srv'[t].op = "run" => t # s /\ srv'[t] = srv[t]
    BY <1>0, <1>2 DEF Run, Done, Save, Idle, Saving
  <2>2. ran' \in [Inputs -> Nat] /\ ran'[i] \in {0, 1} /\ \A j \in Inputs \ {i} : ran'[j] = ran[j]
    BY <1>0, <1>2, <2>1 DEF Run, RunsFit
  <2> QED BY <1>0, <2>1, <2>2 DEF RunsFit
<1>3. ASSUME \/ \E s \in Servers, i \in Inputs : PostInput(s, i) \/ Refuse(s, i)
             \/ \E s \in Servers, a \in Approvals, v \in Verdicts : PostApproval(s, a, v)
             \/ \E s \in Servers, a \in Approvals : ApprovalResolve(s, a)
             \/ \E s \in Servers : ApprovalExpire(s) \/ ApprovalList(s) \/ GetSnapshot(s)
                   \/ SaveTruncate(s) \/ SaveWrite(s) \/ Fail(s) \/ CrashServer(s)
      PROVE  RunsFit'
  <2>1. ran' = ran
    BY <1>3 DEF PostInput, Refuse, PostApproval, ApprovalResolve, ApprovalExpire, ApprovalList,
       GetSnapshot, SaveTruncate, SaveWrite, Fail, CrashServer
  <2>2. \E s \in Servers : \E h : srv' = [srv EXCEPT ![s] = h] /\ h.op # "run"
    <3>1. ASSUME NEW s \in Servers, ApprovalExpire(s)
          PROVE  \E h : srv' = [srv EXCEPT ![s] = h] /\ h.op # "run"
      <4>1. srv[s] \in Request /\ srv[s].op = "expire"
        BY <1>0, <3>1 DEF ApprovalExpire
      <4>2. [srv[s] EXCEPT !.op = "resolve"].op = "resolve"
        BY <4>1 DEF Request, Handling, Idle, Saving
      <4> QED BY <1>0, <3>1, <4>2 DEF ApprovalExpire
    <3>2. ASSUME NEW s \in Servers, NEW a \in Approvals, ApprovalResolve(s, a)
          PROVE  \E h : srv' = [srv EXCEPT ![s] = h] /\ h.op # "run"
      <4>1. srv[s] \in Request /\ srv[s].op = "resolve"
        BY <1>0, <3>2 DEF ApprovalResolve
      <4>2. [srv[s] EXCEPT !.op = "list"].op = "list"
        BY <4>1 DEF Request, Handling, Idle, Saving
      <4> QED BY <1>0, <3>2, <4>2 DEF ApprovalResolve, Done, Idle
    <3> QED
      BY <1>3, <3>1, <3>2 DEF PostInput, Refuse, PostApproval, ApprovalList, GetSnapshot,
         SaveTruncate, SaveWrite, Fail, CrashServer, Serve, Save, Done, Idle, Saving
  <2>3. \A t \in Servers : srv'[t].op = "run" => srv'[t] = srv[t]
    BY <1>0, <2>2
  <2> QED BY <1>0, <2>1, <2>3, RunsFrame
<1>4. ASSUME \/ \E a \in Approvals, d \in Devices, v \in Verdicts : ManagerResolve(a, d, v)
             \/ \E a \in Approvals : ManagerRequest(a)
             \/ \E d \in Devices : ManagerTrack(d)
             \/ ManagerExpire \/ ManagerApply \/ ManagerFail \/ SweepExpired \/ CrashManager
             \/ Tick \/ UNCHANGED vars
      PROVE  RunsFit'
  <2>1. ran' = ran /\ srv' = srv
    BY <1>4 DEF ManagerResolve, ManagerRequest, ManagerTrack, ManagerExpire, ManagerApply,
       ManagerFail, SweepExpired, CrashManager, Tick, vars
  <2> QED BY <1>0, <2>1, RunsFrame
<1> QED BY <1>1, <1>2, <1>3, <1>4 DEF Next

-----------------------------------------------------------------------------
(* One verdict per approval, in time, and for good.                         *)

\* A request between its two statements that would still find the row pending
\* read the clock before the deadline.  No request is ahead of the clock.
InTime ==
    /\ pm.now <= clock
    /\ pm.op = "resolve" /\ req[pm.key].st = "pending" => pm.now < req[pm.key].until
    /\ \A s \in Servers :
          /\ srv[s].now <= clock
          /\ srv[s].op = "resolve" /\ srv[s].key \in Approvals /\ req[srv[s].key].st = "pending"
             => srv[s].now < req[srv[s].key].until

\* A request that does not move is still in time: the row it is about stays, or
\* was inserted only now, with a deadline ahead of the clock.
LEMMA StillInTime ==
    ASSUME TypeInv, InTime, TTL > 0, clock' \in 0..MaxClock, clock <= clock',
           \A k \in Keys : Life(k)
    PROVE  /\ pm' = pm => pm'.now <= clock' /\ (pm'.op = "resolve" /\ req'[pm'.key].st = "pending"
                                                => pm'.now < req'[pm'.key].until)
           /\ \A s \in Servers : srv'[s] = srv[s] =>
                /\ srv'[s].now <= clock'
                /\ srv'[s].op = "resolve" /\ srv'[s].key \in Approvals
                      /\ req'[srv'[s].key].st = "pending"
                   => srv'[s].now < req'[srv'[s].key].until
<1>0. /\ clock \in Nat /\ clock' \in Nat /\ req \in [Keys -> Row]
      /\ Approvals \subseteq Keys
      /\ \A k \in Keys : req[k].until \in Nat
  BY DEF TypeInv, TypeOK, Keys, Row, Forever
<1>1. pm.now \in Nat /\ \A s \in Servers : srv[s].now \in Nat
  <2>1. \A h \in Request \cup Managed : h.now \in Nat
    BY DEF Request, Managed, Handling, Idle, Saving
  <2> QED BY <2>1, TypeParts DEF TypeInv
<1>2. \A k \in Approvals, n \in Nat :
         n <= clock /\ (req[k].st = "pending" => n < req[k].until) /\ req'[k].st = "pending"
         => n < req'[k].until
  BY <1>0 DEF Life
<1>3. pm.op = "resolve" => pm.key \in Approvals
  BY DEF TypeInv, Places, Idle, Approval
<1> QED BY <1>0, <1>1, <1>2, <1>3 DEF InTime

\* A server's request moves and the others stay.
LEMMA ServeInTime ==
    ASSUME TypeInv, InTime, TTL > 0, clock' = clock, \A k \in Keys : Life(k), pm' = pm,
           NEW s \in Servers, NEW h, srv' = [srv EXCEPT ![s] = h], h.now <= clock,
           h.op = "resolve" /\ h.key \in Approvals /\ req'[h.key].st = "pending"
           => h.now < req'[h.key].until
    PROVE  InTime'
<1>1. srv \in [Servers -> Request] /\ clock' \in 0..MaxClock /\ clock <= clock'
  BY TypeParts DEF TypeInv, TypeOK
<1>2. srv'[s] = h /\ \A t \in Servers \ {s} : srv'[t] = srv[t]
  BY <1>1
<1> QED BY <1>1, <1>2, StillInTime DEF InTime

\* The manager's request moves and the others stay.
LEMMA ManageInTime ==
    ASSUME TypeInv, InTime, TTL > 0, clock' = clock, \A k \in Keys : Life(k), srv' = srv,
           pm'.now <= clock,
           pm'.op = "resolve" /\ req'[pm'.key].st = "pending" => pm'.now < req'[pm'.key].until
    PROVE  InTime'
<1>1. clock' \in 0..MaxClock /\ clock <= clock'
  BY DEF TypeInv, TypeOK
<1> QED BY <1>1, StillInTime DEF InTime

\* A row left pending by the first statement has its deadline ahead.
LEMMA LeftPending ==
    ASSUME TypeInv, NEW k \in Keys, NEW now \in Nat, req' = Expired(now, {k}),
           req'[k].st = "pending"
    PROVE  now < req'[k].until
<1>1. req[k] \in Row
  BY DEF TypeInv, TypeOK
<1>2. req[k].until \in Nat
  BY <1>1 DEF Row, Forever
<1> QED BY <1>1, <1>2 DEF Expired, Overdue, Row

\* Every request stays in time: the clock is read once for both statements, and
\* the first one expires the row if it is overdue at that reading.
LEMMA InTimeStep ==
    ASSUME TTL > 0, TypeInv, InTime, [Next]_vars
    PROVE  InTime'
<1>0. /\ \A k \in Keys : Life(k)
      /\ srv \in [Servers -> Request] /\ pm \in Managed /\ clock \in 0..MaxClock
      /\ Inputs \subseteq Keys /\ Approvals \subseteq Keys /\ Inputs \cap Approvals = {}
      /\ None \notin Approvals
  BY RowStep, TypeParts DEF TypeInv, TypeOK, Keys
<1>a. \A h \in {Idle, Saving("save"), Saving("write")} : h.now <= clock /\ h.op # "resolve"
  BY <1>0 DEF Idle, Saving
<1>1. ASSUME NEW s \in Servers, NEW i \in Inputs, PostInput(s, i) \/ Confirm(s, i)
      PROVE  InTime'
  <2>1. PICK op : srv' = [srv EXCEPT ![s] = [op |-> op, key |-> i, now |-> clock, say |-> None]]
    BY <1>1 DEF PostInput, Confirm, Serve
  <2> DEFINE h == [op |-> op, key |-> i, now |-> clock, say |-> None]
  <2>2. clock' = clock /\ pm' = pm
    BY <1>1 DEF PostInput, Confirm
  <2>3. h.key \notin Approvals /\ h.now <= clock
    BY <1>0
  <2>4. srv' = [srv EXCEPT ![s] = h]
    BY <2>1
  <2> HIDE DEF h
  <2> QED BY <1>0, <2>2, <2>3, <2>4, ServeInTime
<1>2. ASSUME NEW s \in Servers,
             \/ CrashServer(s) \/ \E i \in Inputs : Refuse(s, i) \/ Run(s, i)
             \/ ApprovalList(s) \/ GetSnapshot(s) \/ SaveTruncate(s) \/ SaveWrite(s) \/ Fail(s)
      PROVE  InTime'
  <2>1. PICK h \in {Idle, Saving("save"), Saving("write")} : srv' = [srv EXCEPT ![s] = h]
    BY <1>2 DEF CrashServer, Refuse, Run, ApprovalList, GetSnapshot, SaveTruncate, SaveWrite,
       Fail, Save, Done
  <2>2. clock' = clock /\ pm' = pm
    BY <1>2 DEF CrashServer, Refuse, Run, ApprovalList, GetSnapshot, SaveTruncate, SaveWrite,
       Fail
  <2> QED BY <1>0, <1>a, <2>1, <2>2, ServeInTime
<1>9. ASSUME NEW s \in Servers, NEW a \in Approvals, ApprovalResolve(s, a)
      PROVE  InTime'
  <2> DEFINE h == [srv[s] EXCEPT !.op = "list"]
  <2>1. srv[s] \in Request /\ srv[s].op = "resolve" /\ srv[s].now <= clock
    BY <1>0, <1>9 DEF ApprovalResolve, InTime
  <2>2. h.op # "resolve" /\ h.now <= clock
    BY <2>1 DEF Request, Handling, Idle, Saving
  <2>3. \/ srv' = [srv EXCEPT ![s] = h]
        \/ srv' = [srv EXCEPT ![s] = Idle]
    BY <1>0, <1>9 DEF ApprovalResolve, Done
  <2>4. clock' = clock /\ pm' = pm
    BY <1>9 DEF ApprovalResolve
  <2> HIDE DEF h
  <2> QED BY <1>0, <1>a, <2>2, <2>3, <2>4, ServeInTime
<1>3. ASSUME NEW s \in Servers, NEW a \in Approvals, NEW v \in Verdicts, PostApproval(s, a, v)
      PROVE  InTime'
  <2>1. /\ srv' = [srv EXCEPT ![s] = [op |-> "expire", key |-> a, now |-> clock, say |-> v]]
        /\ clock' = clock /\ pm' = pm
    BY <1>3 DEF PostApproval, Serve
  <2> DEFINE h == [op |-> "expire", key |-> a, now |-> clock, say |-> v]
  <2>2. h.op # "resolve" /\ h.now <= clock
    BY <1>0
  <2>3. srv' = [srv EXCEPT ![s] = h]
    BY <2>1
  <2> HIDE DEF h
  <2> QED BY <1>0, <2>1, <2>2, <2>3, ServeInTime
<1>4. ASSUME NEW s \in Servers, ApprovalExpire(s)
      PROVE  InTime'
  <2> DEFINE h == [srv[s] EXCEPT !.op = "resolve"]
  <2>1. srv[s] \in Handling({"claimed", "expire", "resolve", "list", "run"}) /\ Approval(srv[s])
    BY <1>0, <1>4 DEF ApprovalExpire, Request, Idle, Saving, Resting, TypeInv, Places, Input
  <2>2. h.key = srv[s].key /\ h.now = srv[s].now /\ h.key \in Keys /\ h.now \in Nat
    BY <2>1 DEF Handling
  <2>3. /\ srv' = [srv EXCEPT ![s] = h] /\ clock' = clock /\ pm' = pm
        /\ req' = Expired(h.now, {h.key})
    BY <1>0, <1>4, <2>2 DEF ApprovalExpire
  <2>4. h.now <= clock
    BY <2>2 DEF InTime
  <2> HIDE DEF h
  <2>5. h.op = "resolve" /\ h.key \in Approvals /\ req'[h.key].st = "pending"
        => h.now < req'[h.key].until
    BY <2>2, <2>3, LeftPending
  <2> QED BY <1>0, <2>3, <2>4, <2>5, ServeInTime
<1>5. ASSUME NEW a \in Approvals,
             ManagerRequest(a) \/ \E d \in Devices, v \in Verdicts : ManagerResolve(a, d, v)
      PROVE  InTime'
  <2>1. \E op \in {"track", "expire"} : \E say :
           pm' = [op |-> op, key |-> a, now |-> clock, say |-> say]
    BY <1>5 DEF ManagerRequest, ManagerResolve, Manage
  <2>2. pm'.op # "resolve" /\ pm'.now <= clock
    BY <1>0, <2>1
  <2>3. clock' = clock /\ srv' = srv
    BY <1>5 DEF ManagerRequest, ManagerResolve
  <2> QED BY <1>0, <2>2, <2>3, ManageInTime
<1>6. ASSUME ManagerApply \/ ManagerFail \/ CrashManager \/ \E d \in Devices : ManagerTrack(d)
      PROVE  InTime'
  <2>1. pm' = Idle /\ clock' = clock /\ srv' = srv
    BY <1>6 DEF ManagerApply, ManagerFail, CrashManager, ManagerTrack
  <2> QED BY <1>0, <1>a, <2>1, ManageInTime
<1>7. ASSUME ManagerExpire
      PROVE  InTime'
  <2>1. pm \in Handling({"track", "expire", "resolve"}) /\ Approval(pm)
    BY <1>0, <1>7 DEF ManagerExpire, Managed, Idle, TypeInv, Places
  <2>2. pm'.key = pm.key /\ pm'.now = pm.now /\ pm.key \in Keys /\ pm.now \in Nat
    BY <1>7, <2>1 DEF ManagerExpire, Handling
  <2>3. clock' = clock /\ srv' = srv /\ req' = Expired(pm.now, {pm.key})
    BY <1>7 DEF ManagerExpire
  <2>4. pm'.now <= clock
    BY <2>2 DEF InTime
  <2>5. req'[pm'.key].st = "pending" => pm'.now < req'[pm'.key].until
    BY <2>2, <2>3, LeftPending
  <2> QED BY <1>0, <2>3, <2>4, <2>5, ManageInTime
<1>8. ASSUME SweepExpired \/ Tick \/ UNCHANGED vars
      PROVE  InTime'
  <2>1. pm' = pm /\ srv' = srv /\ clock' \in 0..MaxClock /\ clock <= clock'
    BY <1>0, <1>8 DEF SweepExpired, Tick, vars
  <2> QED BY <1>0, <2>1, StillInTime DEF InTime
<1> QED BY <1>1, <1>2, <1>3, <1>4, <1>5, <1>6, <1>7, <1>8, <1>9 DEF Next

\* One more answer, for a row that was pending: no answer was given for it yet,
\* and the row holds its verdict from then on.
LEMMA VerdictGiven ==
    ASSUME TypeInv, AppliedVerdictStands, NEW x \in Answer, Resolvable(x.key),
           x.now < req[x.key].until, req' = Resolved(x.key, x.say),
           applied' = applied \cup {x}
    PROVE  AppliedVerdictStands'
<1>1. req \in [Keys -> Row] /\ x.key \in Keys /\ applied \subseteq Answer
  BY DEF TypeInv, TypeOK, Answer, Keys
<1>2. \A y \in applied : y.key # x.key /\ y.key \in Keys
  BY <1>1 DEF AppliedVerdictStands, Resolvable, Answer, Keys
<1>3. /\ req'[x.key].st = "resolved" /\ req'[x.key].payload = x.say
      /\ req'[x.key].until = req[x.key].until
      /\ \A k \in Keys \ {x.key} : req'[k] = req[k]
  BY <1>1 DEF Resolved, Row
<1> QED BY <1>1, <1>2, <1>3 DEF AppliedVerdictStands

\* No step takes a verdict back or gives a second one.
LEMMA VerdictStep ==
    ASSUME TypeInv, InTime, AppliedVerdictStands, [Next]_vars
    PROVE  AppliedVerdictStands'
<1>0. (\A k \in Keys : Life(k)) /\ \A x \in applied : x.key \in Keys
  BY RowStep DEF TypeInv, TypeOK, Keys
<1>a. ASSUME applied' = applied
      PROVE  AppliedVerdictStands'
  BY <1>0, <1>a DEF AppliedVerdictStands, Life
<1>1. ASSUME NEW s \in Servers, NEW a \in Approvals, ApprovalResolve(s, a), Resolvable(a)
      PROVE  AppliedVerdictStands'
  <2> DEFINE x == [key |-> a, by |-> s, now |-> srv[s].now, say |-> srv[s].say]
  <2>1. srv[s] \in Handling({"claimed", "expire", "resolve", "list", "run"}) /\ Approval(srv[s])
    BY <1>1, TypeParts DEF ApprovalResolve, Request, Idle, Saving, Resting, TypeInv, Places,
       Input, Approval
  <2>2. x \in Answer
    BY <2>1 DEF Answer, Approval, Handling
  <2>3. srv[s].now < req[a].until
    BY <1>1 DEF InTime, ApprovalResolve, Resolvable
  <2>4. req' = Resolved(x.key, x.say) /\ applied' = applied \cup {x} /\ Resolvable(x.key)
    BY <1>1 DEF ApprovalResolve
  <2>5. x.now < req[x.key].until
    BY <2>3
  <2> HIDE DEF x
  <2> QED BY <2>2, <2>4, <2>5, VerdictGiven
<1>2. ASSUME ManagerApply, Resolvable(pm.key)
      PROVE  AppliedVerdictStands'
  <2> DEFINE x == [key |-> pm.key, by |-> "manager", now |-> pm.now, say |-> pm.say]
  <2>1. pm \in Handling({"track", "expire", "resolve"}) /\ Approval(pm)
    BY <1>2, TypeParts DEF ManagerApply, Managed, Idle, TypeInv, Places
  <2>2. x \in Answer
    BY <2>1 DEF Answer, Approval, Handling
  <2>3. pm.now < req[pm.key].until
    BY <1>2 DEF InTime, ManagerApply, Resolvable
  <2>4. req' = Resolved(x.key, x.say) /\ applied' = applied \cup {x} /\ Resolvable(x.key)
    BY <1>2 DEF ManagerApply
  <2>5. x.now < req[x.key].until
    BY <2>3
  <2> HIDE DEF x
  <2> QED BY <2>2, <2>4, <2>5, VerdictGiven
<1> QED
  BY <1>a, <1>1, <1>2 DEF Next, vars, PostInput, Confirm, Refuse, Run, PostApproval,
     ApprovalExpire, ApprovalResolve, ApprovalList, GetSnapshot, SaveTruncate, SaveWrite, Fail,
     CrashServer, ManagerResolve, ManagerRequest, ManagerTrack, ManagerExpire, ManagerApply,
     ManagerFail, SweepExpired, CrashManager, Tick

-----------------------------------------------------------------------------
(* Snapshots.                                                               *)

\* The store holds the verdict e.
Held(e) == req[e.key].st = "resolved" /\ req[e.key].payload = e.say

\* A verdict that is about to be listed is in the store.
ListsHeld ==
    \A s \in Servers : srv[s].op = "list" =>
        req[srv[s].key].st = "resolved" /\ req[srv[s].key].payload = srv[s].say

SnapshotInv == SnapshotMatchesStore /\ ListsHeld

\* What is listed or saved was committed first, and a resolved row never
\* changes: neither an old file, nor a torn one, nor a restart shows another
\* verdict.
LEMMA SnapshotStep ==
    ASSUME TypeInv, SnapshotInv, [Next]_vars
    PROVE  SnapshotInv'
<1>0. /\ \A k \in Keys : Life(k)
      /\ listing \in [Servers -> SUBSET Shown] /\ sidecar \in SUBSET Shown
      /\ \A e \in Shown : e.key \in Keys
      /\ srv \in [Servers -> Request]
  BY RowStep, TypeParts DEF TypeInv, TypeOK, Keys, Shown
<1>1. \A e : e.key \in Keys /\ Held(e) => Held(e)'
  BY <1>0 DEF Life, Held
<1>2. \A s \in Servers : \A e \in listing[s] \cup sidecar : e \in Shown /\ Held(e)'
  BY <1>0, <1>1 DEF SnapshotInv, SnapshotMatchesStore, Held
<1>3. \A s \in Servers : srv[s].op = "list" =>
         /\ srv[s].key \in Keys
         /\ req'[srv[s].key].st = "resolved" /\ req'[srv[s].key].payload = srv[s].say
  <2>1. \A s \in Servers : srv[s].op = "list" => srv[s].key \in Keys
    BY DEF TypeInv, Places, Resting, Idle, Saving, Input, Approval, Keys
  <2> QED BY <1>0, <2>1 DEF SnapshotInv, ListsHeld, Life
<1>4. ASSUME \A s \in Servers : listing'[s] \subseteq listing[s] \cup sidecar,
             sidecar' = sidecar \/ sidecar' = {} \/ \E s \in Servers : sidecar' = listing[s]
      PROVE  SnapshotMatchesStore'
  BY <1>2, <1>4 DEF SnapshotMatchesStore, Held
<1>5. ASSUME \A s \in Servers : srv'[s].op = "list" => srv'[s] = srv[s]
      PROVE  ListsHeld'
  BY <1>3, <1>5 DEF ListsHeld
<1>6. ASSUME NEW s \in Servers, NEW a \in Approvals, ApprovalResolve(s, a)
      PROVE  SnapshotInv'
  <2>1. SnapshotMatchesStore'
    BY <1>4, <1>6 DEF ApprovalResolve
  <2>2. CASE ~Resolvable(a)
    <3>1. \A t \in Servers : srv'[t].op = "list" => srv'[t] = srv[t]
      BY <1>0, <1>6, <2>2 DEF ApprovalResolve, Done, Idle
    <3> QED BY <1>5, <2>1, <3>1 DEF SnapshotInv
  <2>3. CASE Resolvable(a)
    <3>1. req'[a].st = "resolved" /\ req'[a].payload = srv[s].say
      BY <1>6, <2>3 DEF ApprovalResolve, Resolved, TypeInv, TypeOK, Row, Keys
    <3>2. /\ srv'[s] = [srv[s] EXCEPT !.op = "list"] /\ srv[s].key = a
          /\ \A t \in Servers \ {s} : srv'[t] = srv[t]
      BY <1>0, <1>6, <2>3 DEF ApprovalResolve
    <3>3. srv'[s].key = a /\ srv'[s].say = srv[s].say
      <4>1. srv[s] \in Request
        BY <1>0
      <4> QED BY <3>2, <4>1 DEF Request, Handling, Idle, Saving
    <3>4. ListsHeld'
      <4>1. /\ req'[srv'[s].key].st = "resolved"
            /\ req'[srv'[s].key].payload = srv'[s].say
        BY <3>1, <3>3
      <4>2. \A t \in Servers \ {s} : srv'[t].op = "list" =>
               /\ req'[srv'[t].key].st = "resolved"
               /\ req'[srv'[t].key].payload = srv'[t].say
        BY <1>3, <3>2
      <4> QED BY <4>1, <4>2 DEF ListsHeld
    <3> QED BY <2>1, <3>4 DEF SnapshotInv
  <2> QED BY <2>2, <2>3
<1>7. ASSUME NEW s \in Servers, ApprovalList(s)
      PROVE  SnapshotInv'
  <2>1. \A t \in Servers : srv'[t].op = "list" => srv'[t] = srv[t]
    BY <1>0, <1>7 DEF ApprovalList, Save, Saving
  <2>2. \A e \in Listed(s, srv[s].key, srv[s].say) : req'[e.key].st = "resolved"
                                                 /\ req'[e.key].payload = e.say
    <3>1. \A e \in Listed(s, srv[s].key, srv[s].say) :
             e \in listing[s] \/ e = [key |-> srv[s].key, say |-> srv[s].say]
      BY DEF Listed
    <3>2. srv[s].op = "list"
      BY <1>7 DEF ApprovalList
    <3> QED BY <1>2, <1>3, <3>1, <3>2 DEF Held
  <2>3. /\ listing'[s] = Listed(s, srv[s].key, srv[s].say) /\ sidecar' = sidecar
        /\ \A t \in Servers \ {s} : listing'[t] = listing[t]
    BY <1>0, <1>7 DEF ApprovalList
  <2>4. SnapshotMatchesStore'
    BY <1>2, <2>2, <2>3 DEF SnapshotMatchesStore, Held
  <2> QED BY <1>5, <2>1, <2>4 DEF SnapshotInv
<1>8. ASSUME NEW s \in Servers, GetSnapshot(s) \/ SaveTruncate(s) \/ SaveWrite(s) \/ Fail(s)
                                \/ CrashServer(s)
      PROVE  SnapshotInv'
  <2>1. PICK h \in {Idle, Saving("save"), Saving("write")} : srv' = [srv EXCEPT ![s] = h]
    BY <1>8 DEF GetSnapshot, SaveTruncate, SaveWrite, Fail, CrashServer, Save, Done
  <2>2. \A t \in Servers : srv'[t].op = "list" => srv'[t] = srv[t]
    BY <1>0, <2>1 DEF Idle, Saving
  <2>3. /\ \A t \in Servers : listing'[t] \subseteq listing[t] \cup sidecar
        /\ sidecar' = sidecar \/ sidecar' = {} \/ sidecar' = listing[s]
    BY <1>0, <1>8 DEF GetSnapshot, SaveTruncate, SaveWrite, Fail, CrashServer
  <2> QED BY <1>4, <1>5, <2>2, <2>3 DEF SnapshotInv
<1>9. ASSUME \/ \E s \in Servers, i \in Inputs :
                  PostInput(s, i) \/ Confirm(s, i) \/ Refuse(s, i) \/ Run(s, i)
             \/ \E s \in Servers, a \in Approvals, v \in Verdicts : PostApproval(s, a, v)
      PROVE  SnapshotInv'
  <2>1. \E s \in Servers : \E h : srv' = [srv EXCEPT ![s] = h] /\ h.op # "list"
    BY <1>9 DEF PostInput, Confirm, Refuse, Run, PostApproval, Serve, Save, Done, Idle, Saving
  <2>2. \A t \in Servers : srv'[t].op = "list" => srv'[t] = srv[t]
    BY <1>0, <2>1
  <2>3. listing' = listing /\ sidecar' = sidecar
    BY <1>9 DEF PostInput, Confirm, Refuse, Run, PostApproval
  <2> QED BY <1>4, <1>5, <2>2, <2>3 DEF SnapshotInv
<1>10. ASSUME NEW s \in Servers, ApprovalExpire(s)
       PROVE  SnapshotInv'
  <2>1. srv' = [srv EXCEPT ![s] = [srv[s] EXCEPT !.op = "resolve"]] /\ srv[s] \in Request
    BY <1>0, <1>10 DEF ApprovalExpire
  <2>2. [srv[s] EXCEPT !.op = "resolve"].op # "list"
    BY <2>1 DEF Request, Handling, Idle, Saving
  <2>3. \A t \in Servers : srv'[t].op = "list" => srv'[t] = srv[t]
    BY <1>0, <2>1, <2>2
  <2>4. listing' = listing /\ sidecar' = sidecar
    BY <1>10 DEF ApprovalExpire
  <2> QED BY <1>4, <1>5, <2>3, <2>4 DEF SnapshotInv
<1>11. ASSUME srv' = srv, listing' = listing, sidecar' = sidecar
       PROVE  SnapshotInv'
  BY <1>4, <1>5, <1>11 DEF SnapshotInv
<1> QED
  BY <1>6, <1>7, <1>8, <1>9, <1>10, <1>11 DEF Next, vars, ManagerResolve, ManagerRequest,
     ManagerTrack, ManagerExpire, ManagerApply, ManagerFail, SweepExpired, CrashManager, Tick

-----------------------------------------------------------------------------
(* The theorems.                                                            *)

\* The state always has the types TypeOK gives it: in particular a server that
\* handles an approval always has a verdict for it.
THEOREM TypeCorrect == Spec => []TypeInv
BY InitType, StepType, PTL DEF Spec

\* "A retried send after a drop must apply at most once": whatever is repeated,
\* fails or restarts, and however many servers share the database, one request
\* at most is told to start the command.
THEOREM InputsRunOnce == Spec => []InputRunsAtMostOnce
<1>1. Init => RunsFit
  BY DEF Init, RunsFit, Idle
<1>2. TypeInv /\ RunsFit /\ [Next]_vars => RunsFit'
  BY RunsStep
<1>3. RunsFit => InputRunsAtMostOnce
  BY DEF RunsFit, InputRunsAtMostOnce, Delivered
<1> QED BY <1>1, <1>2, <1>3, TypeCorrect, PTL DEF Spec

\* "Single resolve wins": one answer per approval, never one at or after the
\* deadline, and the store holds it from then on.  A lifetime of zero is left
\* out: such a row, inserted between the two statements of a resolve, is
\* resolved at its deadline.
THEOREM VerdictsStand == ASSUME TTL > 0 PROVE Spec => []AppliedVerdictStands
<1>1. Init => InTime /\ AppliedVerdictStands
  BY DEF Init, InTime, AppliedVerdictStands, Idle
<1>2. TypeInv /\ InTime /\ [Next]_vars => InTime'
  BY InTimeStep
<1>3. TypeInv /\ InTime /\ AppliedVerdictStands /\ [Next]_vars => AppliedVerdictStands'
  BY VerdictStep
<1> QED BY <1>1, <1>2, <1>3, TypeCorrect, PTL DEF Spec

\* What a snapshot lists, before and after any restart, is in the store.
THEOREM SnapshotsMatch == Spec => []SnapshotMatchesStore
<1>1. Init => SnapshotInv
  BY DEF Init, SnapshotInv, SnapshotMatchesStore, ListsHeld, Idle
<1>2. TypeInv /\ SnapshotInv /\ [Next]_vars => SnapshotInv'
  BY SnapshotStep
<1>3. SnapshotInv => SnapshotMatchesStore
  BY DEF SnapshotInv
<1> QED BY <1>1, <1>2, <1>3, TypeCorrect, PTL DEF Spec

\* A settled row of the table never changes again, whoever asks.
THEOREM SettledRowsStay ==
    Spec => [][\A k \in Keys : req[k].st \in {"resolved", "expired"} => req'[k] = req[k]]_vars
<1>1. TypeInv /\ [Next]_vars
      => [\A k \in Keys : req[k].st \in {"resolved", "expired"} => req'[k] = req[k]]_vars
  BY RowStep DEF Life
<1> QED BY <1>1, TypeCorrect, PTL DEF Spec

=============================================================================
