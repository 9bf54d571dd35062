---------------------------- MODULE AgentRequests ----------------------------
(***************************************************************************)
(* The pending_requests table of the agent and its three users: the input  *)
(* router behind POST inputs, the approval route of the connect server,    *)
(* and the permission manager of the adapters.  A connect server handles   *)
(* one request at a time; each SQL statement commits by itself.  The phone *)
(* repeats any request any number of times, statements and commands fail   *)
(* or time out, and the process can die between two statements.  All       *)
(* servers on one database keep their registry in one file beside it.      *)
(***************************************************************************)
EXTENDS Naturals, FiniteSets

CONSTANTS
    Servers,     \* connect servers on the database: one, or two by mistake
    Inputs,      \* input ids (namespaced by workflow in storage_key)
    Approvals,   \* approval ids (namespaced by workflow in namespaced_key)
    Devices,
    None,
    TTL,         \* lifetime of an approval request
    MaxClock,    \* bound: the wall clock
    MaxCalls,    \* bound: requests taken by the servers and the manager
    MaxCrashes   \* bound: deaths of a process

ASSUME RequestsAssumption ==
    /\ TTL \in Nat /\ MaxClock \in Nat /\ MaxCalls \in Nat /\ MaxCrashes \in Nat
    /\ Inputs \cap Approvals = {}
    /\ None \notin Devices \cup Inputs \cup Approvals

VARIABLES
    req,       \* [Keys -> pending_requests row]
    srv,       \* [Servers -> request being handled]
    pm,        \* the permission manager's request being handled
    bound,     \* [Approvals -> device in the manager's map, None = not tracked]
    settled,   \* approvals whose map entry says resolved
    listing,   \* [Servers -> approvals of Registry in memory]
    sidecar,   \* approvals a load of the shared registry file gives, {} if it is torn
    clock,
    calls,
    crashes,
    ran,       \* history: [Inputs -> times the command was started]
    dup,       \* history: inputs answered "duplicate"
    applied    \* history: approvals whose verdict was committed, by whom, when, how

vars == <<req, srv, pm, bound, settled, listing, sidecar, clock, calls, crashes, ran, dup,
          applied>>

Keys     == Inputs \cup Approvals
Verdicts == {"approved", "rejected"}
Forever  == MaxClock + TTL + 1
Row      == [st: {"none", "pending", "resolved", "expired"}, until: 0..Forever,
             payload: Verdicts \cup {None}]
NoRow    == [st |-> "none", until |-> 0, payload |-> None]
Idle     == [op |-> "idle", key |-> None, now |-> 0, say |-> None]
Saving(op) == [op |-> op, key |-> None, now |-> 0, say |-> None]
Handling(ops) == [op: ops, key: Keys, now: 0..MaxClock, say: Verdicts \cup {None}]
Shown    == [key: Approvals, say: Verdicts]

TypeOK ==
    /\ req \in [Keys -> Row]
    /\ srv \in [Servers -> {Idle, Saving("save"), Saving("write")}
                          \cup Handling({"claimed", "expire", "resolve", "list", "run"})]
    /\ pm \in {Idle} \cup Handling({"track", "expire", "resolve"})
    /\ bound \in [Approvals -> Devices \cup {None}]
    /\ settled \subseteq Approvals
    /\ listing \in [Servers -> SUBSET Shown] /\ sidecar \in SUBSET Shown
    /\ clock \in 0..MaxClock /\ calls \in 0..MaxCalls /\ crashes \in 0..MaxCrashes
    /\ ran \in [Inputs -> Nat] /\ dup \subseteq Inputs
    /\ applied \subseteq [key: Approvals, by: Servers \cup {"manager"}, now: 0..MaxClock,
                          say: Verdicts]

Init ==
    /\ req = [k \in Keys |-> NoRow]
    /\ srv = [s \in Servers |-> Idle] /\ pm = Idle
    /\ bound = [a \in Approvals |-> None] /\ settled = {}
    /\ listing = [s \in Servers |-> {}] /\ sidecar = {}
    /\ clock = 0 /\ calls = 0 /\ crashes = 0
    /\ ran = [i \in Inputs |-> 0] /\ dup = {} /\ applied = {}

Call == calls < MaxCalls /\ calls' = calls + 1
Serve(s, op, k, say) == srv' = [srv EXCEPT ![s] = [op |-> op, key |-> k, now |-> clock,
                                                   say |-> say]]
Manage(op, k, say) == pm' = [op |-> op, key |-> k, now |-> clock, say |-> say]
Done(s) == srv' = [srv EXCEPT ![s] = Idle]
Save(s) == srv' = [srv EXCEPT ![s] = Saving("save")]

-----------------------------------------------------------------------------
\* create_pending_request: one insert, refused by the key of an old row.
Inserted(k, until) ==
    /\ req[k].st = "none"
    /\ req' = [req EXCEPT ![k] = [st |-> "pending", until |-> until, payload |-> None]]

(* resolve_pending_request: two statements with one reading of the clock.   *)

\* Mutant: the deadline itself still counts as in time.
Overdue_Strict(r, now) == r.st = "pending" /\ r.until < now

Overdue(r, now) == r.st = "pending" /\ r.until <= now

Expired(now, K) ==
    [k \in Keys |-> IF k \in K /\ Overdue(req[k], now) THEN [req[k] EXCEPT !.st = "expired"]
                    ELSE req[k]]

Resolvable(k) == req[k].st = "pending"

Resolved(k, say) == [req EXCEPT ![k].st = "resolved", ![k].payload = say]

-----------------------------------------------------------------------------
(* The connect server: POST inputs.                                         *)

\* deliver: the claim inserts the row, or collides, or fails; it is followed
\* by the resolve either way.  Interactive providers were answered 501 before.
PostInput(s, i) ==
    /\ srv[s] = Idle /\ Call
    /\ \/ /\ Inserted(i, Forever)
          /\ Serve(s, "claimed", i, None)
       \/ UNCHANGED req /\ Serve(s, "resolve", i, None)
    /\ UNCHANGED <<pm, bound, settled, listing, sidecar, clock, crashes, ran, dup, applied>>

\* Mutant: a row that is already resolved is taken for a half claimed one.
Confirm_Any(s, i) ==
    /\ srv[s].op \in {"claimed", "resolve"} /\ srv[s].key = i
    /\ req[i].st # "none"
    /\ req' = Resolved(i, None)
    /\ Serve(s, "run", i, None)
    /\ UNCHANGED <<pm, bound, settled, listing, sidecar, clock, calls, crashes, ran, dup,
                   applied>>

\* The row was pending: the input is Delivered.
Confirm(s, i) ==
    /\ srv[s].op \in {"claimed", "resolve"} /\ srv[s].key = i
    /\ Resolvable(i)
    /\ req' = Resolved(i, None)
    /\ Serve(s, "run", i, None)
    /\ UNCHANGED <<pm, bound, settled, listing, sidecar, clock, calls, crashes, ran, dup,
                   applied>>

\* The row was resolved: a duplicate, or an error for the one that made it.
\* Without a row the error of the claim is reported.
Refuse(s, i) ==
    /\ srv[s].op \in {"claimed", "resolve"} /\ srv[s].key = i
    /\ ~Resolvable(i)
    /\ IF srv[s].op = "resolve" /\ req[i].st # "none"
       THEN dup' = dup \cup {i} /\ Save(s)
       ELSE UNCHANGED dup /\ Done(s)
    /\ UNCHANGED <<req, pm, bound, settled, listing, sidecar, clock, calls, crashes, ran,
                   applied>>

\* run_generic and record_run: the command runs, and is recorded, or times out
\* or its record fails; or it is never spawned.
Run(s, i) ==
    /\ srv[s].op = "run" /\ srv[s].key = i
    /\ \/ ran' = [ran EXCEPT ![i] = @ + 1] /\ (Save(s) \/ Done(s))
       \/ UNCHANGED ran /\ Done(s)
    /\ UNCHANGED <<req, pm, bound, settled, listing, sidecar, clock, calls, crashes, dup,
                   applied>>

-----------------------------------------------------------------------------
(* The connect server: POST approvals.                                      *)

PostApproval(s, a, say) ==
    /\ srv[s] = Idle /\ Call
    /\ Serve(s, "expire", a, say)
    /\ UNCHANGED <<req, pm, bound, settled, listing, sidecar, clock, crashes, ran, dup,
                   applied>>

ApprovalExpire(s) ==
    /\ srv[s].op = "expire"
    /\ req' = Expired(srv[s].now, {srv[s].key})
    /\ srv' = [srv EXCEPT ![s].op = "resolve"]
    /\ UNCHANGED <<pm, bound, settled, listing, sidecar, clock, calls, crashes, ran, dup,
                   applied>>

\* record_approval replaces the entry of the same id.
Listed(s, a, say) == {e \in listing[s] : e.key # a} \cup {[key |-> a, say |-> say]}

\* Mutant: a verdict the store refused is listed as well.
ApprovalResolve_Any(s, a) ==
    /\ srv[s].op = "resolve" /\ srv[s].key = a
    /\ IF Resolvable(a) THEN req' = Resolved(a, srv[s].say) ELSE UNCHANGED req
    /\ srv' = [srv EXCEPT ![s].op = "list"]
    /\ UNCHANGED <<pm, bound, settled, listing, sidecar, clock, calls, crashes, ran, dup,
                   applied>>

\* The verdict is committed; otherwise the answer is 404, 409 or 410.
ApprovalResolve(s, a) ==
    /\ srv[s].op = "resolve" /\ srv[s].key = a
    /\ IF Resolvable(a)
       THEN /\ req' = Resolved(a, srv[s].say)
            /\ applied' = applied \cup {[key |-> a, by |-> s, now |-> srv[s].now,
                                         say |-> srv[s].say]}
            /\ srv' = [srv EXCEPT ![s].op = "list"]
       ELSE UNCHANGED <<req, applied>> /\ Done(s)
    /\ UNCHANGED <<pm, bound, settled, listing, sidecar, clock, calls, crashes, ran, dup>>

\* The registry in memory follows, and the file after it.
ApprovalList(s) ==
    /\ srv[s].op = "list"
    /\ listing' = [listing EXCEPT ![s] = Listed(s, srv[s].key, srv[s].say)]
    /\ Save(s)
    /\ UNCHANGED <<req, pm, bound, settled, sidecar, clock, calls, crashes, ran, dup, applied>>

-----------------------------------------------------------------------------
(* The registry file, shared by the servers.                                *)

\* A snapshot of a workflow remembers its id, and so saves the registry.
GetSnapshot(s) ==
    /\ srv[s] = Idle /\ Call
    /\ Save(s)
    /\ UNCHANGED <<req, pm, bound, settled, listing, sidecar, clock, crashes, ran, dup, applied>>

\* save, fs::write: the file is cut to nothing, or cannot be opened.
SaveTruncate(s) ==
    /\ srv[s].op = "save"
    /\ \/ sidecar' = {} /\ srv' = [srv EXCEPT ![s] = Saving("write")]
       \/ UNCHANGED sidecar /\ Done(s)
    /\ UNCHANGED <<req, pm, bound, settled, listing, clock, calls, crashes, ran, dup, applied>>

\* The whole list of this server is written; or only a part of it is, or it
\* ends amid the longer text of another server: neither parses.
SaveWrite(s) ==
    /\ srv[s].op = "write"
    /\ sidecar' \in {listing[s], {}}
    /\ Done(s)
    /\ UNCHANGED <<req, pm, bound, settled, listing, clock, calls, crashes, ran, dup, applied>>

\* A statement fails (the other server has the lock): the answer is 500.
Fail(s) ==
    /\ srv[s].op \in {"claimed", "expire", "resolve"}
    /\ Done(s)
    /\ UNCHANGED <<req, pm, bound, settled, listing, sidecar, clock, calls, crashes, ran, dup,
                   applied>>

-----------------------------------------------------------------------------
(* PermissionManager.                                                       *)

\* request: the row, then the map entry; a collision is an error.
ManagerRequest(a) ==
    /\ pm = Idle /\ Call
    /\ Inserted(a, clock + TTL)
    /\ Manage("track", a, None)
    /\ UNCHANGED <<srv, bound, settled, listing, sidecar, clock, crashes, ran, dup, applied>>

ManagerTrack(d) ==
    /\ pm.op = "track"
    /\ bound' = [bound EXCEPT ![pm.key] = d]
    /\ pm' = Idle
    /\ UNCHANGED <<req, srv, settled, listing, sidecar, clock, calls, crashes, ran, dup,
                   applied>>

\* resolve by the bound device; any other is answered Unknown and a settled
\* entry Duplicate, without touching the store.
ManagerResolve(a, d, say) ==
    /\ pm = Idle /\ Call
    /\ bound[a] = d /\ a \notin settled
    /\ Manage("expire", a, say)
    /\ UNCHANGED <<req, srv, bound, settled, listing, sidecar, clock, crashes, ran, dup,
                   applied>>

ManagerExpire ==
    /\ pm.op = "expire"
    /\ req' = Expired(pm.now, {pm.key})
    /\ pm' = [pm EXCEPT !.op = "resolve"]
    /\ UNCHANGED <<srv, bound, settled, listing, sidecar, clock, calls, crashes, ran, dup,
                   applied>>

ManagerApply ==
    /\ pm.op = "resolve"
    /\ IF Resolvable(pm.key)
       THEN /\ req' = Resolved(pm.key, pm.say)
            /\ applied' = applied \cup {[key |-> pm.key, by |-> "manager", now |-> pm.now,
                                         say |-> pm.say]}
       ELSE UNCHANGED <<req, applied>>
    /\ settled' = IF req'[pm.key].st = "resolved" THEN settled \cup {pm.key} ELSE settled
    /\ pm' = Idle
    /\ UNCHANGED <<srv, bound, listing, sidecar, clock, calls, crashes, ran, dup>>

\* A statement of a resolve fails: the map entry is left as it was.
ManagerFail ==
    /\ pm.op \in {"expire", "resolve"}
    /\ pm' = Idle
    /\ UNCHANGED <<req, srv, bound, settled, listing, sidecar, clock, calls, crashes, ran, dup,
                   applied>>

\* pending_for: the map is asked, not the store.
PendingFor == {a \in Approvals : bound[a] # None /\ a \notin settled /\ req[a].until > clock}

SweepExpired ==
    /\ pm = Idle
    /\ req' = Expired(clock, Keys)
    /\ UNCHANGED <<srv, pm, bound, settled, listing, sidecar, clock, calls, crashes, ran,
                   dup, applied>>

-----------------------------------------------------------------------------
Tick ==
    /\ clock < MaxClock
    /\ clock' = clock + 1
    /\ UNCHANGED <<req, srv, pm, bound, settled, listing, sidecar, calls, crashes, ran, dup,
                   applied>>

\* A server dies and restarts from the file.
CrashServer(s) ==
    /\ crashes < MaxCrashes
    /\ crashes' = crashes + 1
    /\ Done(s)
    /\ listing' = [listing EXCEPT ![s] = sidecar]
    /\ UNCHANGED <<req, pm, bound, settled, sidecar, clock, calls, ran, dup, applied>>

\* The manager's process dies: the bindings are gone, the rows stay.
CrashManager ==
    /\ crashes < MaxCrashes
    /\ crashes' = crashes + 1
    /\ pm' = Idle
    /\ bound' = [a \in Approvals |-> None] /\ settled' = {}
    /\ UNCHANGED <<req, srv, listing, sidecar, clock, calls, ran, dup, applied>>

Next ==
    \/ \E s \in Servers, i \in Inputs :
          PostInput(s, i) \/ Confirm(s, i) \/ Refuse(s, i) \/ Run(s, i)
    \/ \E s \in Servers, a \in Approvals, v \in Verdicts : PostApproval(s, a, v)
    \/ \E s \in Servers, a \in Approvals : ApprovalResolve(s, a)
    \/ \E s \in Servers : ApprovalExpire(s) \/ ApprovalList(s) \/ GetSnapshot(s)
                         \/ SaveTruncate(s) \/ SaveWrite(s) \/ Fail(s) \/ CrashServer(s)
    \/ \E a \in Approvals, d \in Devices, v \in Verdicts : ManagerResolve(a, d, v)
    \/ \E a \in Approvals : ManagerRequest(a)
    \/ \E d \in Devices : ManagerTrack(d)
    \/ ManagerExpire \/ ManagerApply \/ ManagerFail \/ SweepExpired \/ CrashManager \/ Tick

Spec == Init /\ [][Next]_vars

-----------------------------------------------------------------------------
(* Properties.                                                              *)

\* Server s was told Delivered for i and has yet to start the command.
Delivered(s, i) == srv[s].op = "run" /\ srv[s].key = i

\* "A retried send after a drop must apply at most once" (calcar-connect
\* lib.rs): over repeats, half claimed rows, failures and restarts an input's
\* command starts at most once, and of all requests for it one at most is told
\* to start it.  This holds for two servers on one database too, where the
\* router's comment fears that "both read Delivered" (router.rs failure mode
\* 6): the second UPDATE finds no pending row.
InputRunsAtMostOnce ==
    \A i \in Inputs :
        /\ ran[i] <= 1
        /\ \A s, t \in Servers : Delivered(s, i) /\ Delivered(t, i) => s = t /\ ran[i] = 0

\* "Single resolve wins" (pending_requests): whoever of the phone's two routes
\* is told that its verdict was applied, there is one such answer per
\* approval, and it is the verdict that the store holds from then on; and
\* "resolve after expiry" never is one: no verdict is applied by a request
\* that read the clock at or after the deadline.
AppliedVerdictStands ==
    /\ \A x, y \in applied : x.key = y.key => x = y
    /\ \A x \in applied : /\ req[x.key].st = "resolved" /\ req[x.key].payload = x.say
                           /\ x.now < req[x.key].until

\* The approvals a snapshot shows, after any restart and whichever server wrote
\* or tore the file last, are verdicts the store holds (Registry,
\* workflow_snapshot_body).
SnapshotMatchesStore ==
    \A s \in Servers : \A e \in listing[s] \cup sidecar :
        req[e.key].st = "resolved" /\ req[e.key].payload = e.say

\* "Settled and overdue ids are left out" of pending_for: what it would list
\* is neither settled in the store nor overdue.
PendingForIsAccurate == \A a \in PendingFor : req[a].st = "pending"

\* "The caller now owns writing the payload to the PTY exactly once"
\* (RouteOutcome::Delivered): an input whose repeat is answered "duplicate"
\* has been started, or is about to be.
DeliveredIsRun ==
    \A i \in dup : ran[i] = 1 \/ \E s \in Servers : Delivered(s, i)

=============================================================================
