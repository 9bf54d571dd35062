----------------------------- MODULE AgentStore ------------------------------
(***************************************************************************)
(* The agent's SQLite store (calcar-storage) with the workflow lifecycle   *)
(* (calcar-workflow lifecycle.rs, session.rs) on top of it: workflow rows, *)
(* session bindings, the bounded event ring with its truncation marker,    *)
(* the outbox, and restart recovery.  One process, one connection: an      *)
(* operation runs alone, but it is several commits, and the process may    *)
(* die, or a statement fail, between any two of them.                      *)
(***************************************************************************)
EXTENDS Naturals, Sequences, FiniteSets, FiniteSetsExt, Functions

CONSTANTS
    Workflows,      \* ids, ordered as the outbox orders them
    Sessions,       \* provider session ids
    None,
    Sizes,          \* approx_bytes of an event
    MaxRingEvents,  \* MAX_RING_EVENTS
    MaxRingBytes,   \* MAX_RING_BYTES
    DrainLimit,     \* limit of one outbox_drain
    RingReadLimit,  \* RING_READ_LIMIT
    ActivityCap,    \* ACTIVITY_CAP
    MayMove,        \* bound: states a transition is asked for
    MaxLog,         \* bound: events ever appended to a workflow
    MaxClock,       \* bound: the wall clock, now_millis
    ClockSteps,     \* bound: how far now_millis moves, back steps included
    MaxCrashes      \* bound: process deaths

ASSUME StoreAssumption ==
    /\ Workflows \subseteq Nat
    /\ None \notin Sessions
    /\ Sizes \subseteq Nat
    /\ MaxRingEvents \in Nat \ {0} /\ MaxRingBytes \in Nat
    /\ DrainLimit \in Nat \ {0}
    /\ ActivityCap \in Nat /\ RingReadLimit \in Nat /\ RingReadLimit >= MaxRingEvents
    /\ MaxLog \in Nat /\ MaxClock \in Nat /\ MaxCrashes \in Nat
    /\ MayMove \subseteq {"running", "waiting_input", "waiting_approval", "completed",
                        "failed", "stopped", "disconnected_running"}
    /\ ClockSteps \subseteq {"forward", "back"}

VARIABLES
    row,        \* [Workflows -> workflows.state, "none" without a row]
    session,    \* [Workflows -> workflows.provider_session_id]
    binding,    \* [Workflows -> session_bindings.provider_session_id]
    ring,       \* [Workflows -> [seq_no -> approx_bytes]], workflow_events
    cut,        \* [Workflows -> truncated_before_seq, 0 without a marker]
    dropped,    \* [Workflows -> dropped_count]
    outbox,     \* unpublished rows
    clock,      \* now_millis
    pc,         \* what the running operation has yet to commit
    batch,      \* the drained entries: still to send, sent and to be marked
    crashes,
    log,        \* history: [Workflows -> every event ever appended, with its enqueue time]
    seen,       \* history: [Workflows -> seq_nos the consumer was given, deduplicated]
    created,    \* history: workflows whose create_workflow returned Ok with a session
    cleanFailed \* history: workflows reconcile gave up on

events == <<ring, cut, dropped, outbox, log>>
publishing == <<batch, seen>>
vars == <<row, session, binding, ring, cut, dropped, outbox, clock, pc, batch, crashes,
          log, seen, created, cleanFailed>>

Live     == {"running", "waiting_input", "waiting_approval"}
Terminal == {"completed", "failed", "stopped"}
States   == Live \cup Terminal
\* Lifecycle events are named by the state they announce.
Event    == [type: States \cup {"command"}, bytes: Sizes, at: 0..MaxClock]
Entry    == [at: 0..MaxClock, w: Workflows, seq: Nat]
Rings    == UNION {[D -> Sizes] : D \in SUBSET (1..MaxLog)}
Idle     == [op |-> "idle", w |-> None, st |-> None]

TypeOK ==
    /\ row \in [Workflows -> States \cup {"none"}]
    /\ session \in [Workflows -> Sessions \cup {None}]
    /\ binding \in [Workflows -> Sessions \cup {None}]
    /\ ring \in [Workflows -> Rings]
    /\ cut \in [Workflows -> Nat] /\ dropped \in [Workflows -> Nat]
    /\ outbox \subseteq Entry
    /\ clock \in 0..MaxClock
    /\ \/ pc = Idle
       \/ pc \in [op: {"bind", "announce", "record"}, w: Workflows, st: States]
    /\ batch \in [todo: SUBSET Entry, sent: SUBSET Entry]
    /\ crashes \in 0..MaxCrashes
    /\ log \in [Workflows -> Seq(Event)]
    /\ seen \in [Workflows -> Seq(Nat)]
    /\ created \subseteq Workflows /\ cleanFailed \subseteq Workflows

Init ==
    /\ row = [w \in Workflows |-> "none"]
    /\ session = [w \in Workflows |-> None]
    /\ binding = [w \in Workflows |-> None]
    /\ ring = [w \in Workflows |-> <<>>]
    /\ cut = [w \in Workflows |-> 0] /\ dropped = [w \in Workflows |-> 0]
    /\ outbox = {}
    /\ clock = 0
    /\ pc = Idle
    /\ batch = [todo |-> {}, sent |-> {}]
    /\ crashes = 0
    /\ log = [w \in Workflows |-> <<>>] /\ seen = [w \in Workflows |-> <<>>]
    /\ created = {} /\ cleanFailed = {}

-----------------------------------------------------------------------------
(* append_event and trim_ring, one transaction.                             *)

Newest(r) == IF DOMAIN r = {} THEN 0 ELSE Max(DOMAIN r)

Bytes(r, S) == FoldFunctionOnSet(+, 0, r, S)

\* Whether, the rows before k deleted, the ring still exceeds a bound.
NeedEvents(r, k) == Cardinality({j \in DOMAIN r : j >= k}) > MaxRingEvents
NeedBytes(r, k)  == Bytes(r, {j \in DOMAIN r : j >= k}) > MaxRingBytes

\* Mutant: the walk stops once the first of the two deficits is covered.
Walked_OneDeficit(r) ==
    {k \in DOMAIN r : k < Newest(r) /\ NeedEvents(r, k) /\ NeedBytes(r, k)}

\* The rows trim_ring walks over, oldest first, never the newest one.
Walked(r) == {k \in DOMAIN r : k < Newest(r) /\ (NeedEvents(r, k) \/ NeedBytes(r, k))}

\* The outbox row names the event; it holds none of it, and outlives its row.
Enqueued(w, n) == outbox \cup {[at |-> clock, w |-> w, seq |-> n]}

AppendEvent(w, type, bytes) ==
    LET n == Newest(ring[w]) + 1
        inserted == [k \in DOMAIN ring[w] \cup {n} |-> IF k = n THEN bytes ELSE ring[w][k]]
        trimmed == {k \in DOMAIN inserted : \E c \in Walked(inserted) : k <= c}
    IN
    /\ Len(log[w]) < MaxLog
    /\ ring' = [ring EXCEPT ![w] = Restrict(inserted, DOMAIN inserted \ trimmed)]
    /\ cut' = [cut EXCEPT ![w] = IF trimmed = {} THEN @ ELSE Max({@} \cup trimmed)]
    /\ dropped' = [dropped EXCEPT ![w] = @ + Cardinality(trimmed)]
    /\ outbox' = Enqueued(w, n)
    /\ log' = [log EXCEPT ![w] = Append(@, [type |-> type, bytes |-> bytes,
                                          at |-> clock])]

-----------------------------------------------------------------------------
(* WorkflowManager and SessionManager.                                      *)

Running(op, w, st) == [op |-> op, w |-> w, st |-> st]

\* Mutant: the binding of a new workflow is left to the first reattach.
AfterInsert_NoBind(s) == "announce"

AfterInsert(s) == IF s = None THEN "announce" ELSE "bind"

\* Storage.create_workflow: one insert, refused by the key of an old row.
InsertWorkflow(w, s) ==
    /\ row[w] = "none"
    /\ row' = [row EXCEPT ![w] = "running"]
    /\ session' = [session EXCEPT ![w] = s]

\* create_workflow: the row is inserted; binding and event are to follow.
CreateWorkflow(w, s) ==
    /\ pc = Idle
    /\ InsertWorkflow(w, s)
    /\ pc' = Running(AfterInsert(s), w, "running")
    /\ UNCHANGED <<binding, events, clock, publishing, crashes, created, cleanFailed>>

UpsertBinding ==
    /\ pc.op = "bind"
    /\ binding' = [binding EXCEPT ![pc.w] = session[pc.w]]
    /\ pc' = Running("announce", pc.w, pc.st)
    /\ UNCHANGED <<row, session, events, clock, publishing, crashes, created, cleanFailed>>

\* record: the event behind the state change; the operation then returns Ok.
Record ==
    /\ pc.op \in {"announce", "record"}
    /\ \E b \in Sizes : AppendEvent(pc.w, pc.st, b)
    /\ pc' = Idle
    /\ created' = IF pc.op = "announce" /\ session[pc.w] # None
                  THEN created \cup {pc.w} ELSE created
    /\ UNCHANGED <<row, session, binding, clock, publishing, crashes, cleanFailed>>

\* set_workflow_state: terminal rows are frozen.
Frozen(w) == row[w] \notin Live

\* check_storable, and is_persistable once more in the store.
Storable(st) == st \in States

\* transition; transition_on_disconnect differs in refusing "completed".
Transition(w, st) ==
    /\ pc = Idle /\ Storable(st) /\ ~Frozen(w)
    /\ row' = [row EXCEPT ![w] = st]
    /\ pc' = Running("record", w, st)
    /\ UNCHANGED <<session, binding, events, clock, publishing, crashes, created,
                   cleanFailed>>

\* SessionManager.bind: the row's own provider_session_id is left alone.
Bind(w, s) ==
    /\ pc = Idle /\ row[w] # "none"
    /\ binding' = [binding EXCEPT ![w] = s]
    /\ UNCHANGED <<row, session, events, clock, pc, publishing, crashes, created,
                   cleanFailed>>

\* An event of a run (record_run); late events of a finished workflow count.
CommandEvent(w) ==
    /\ pc = Idle /\ row[w] # "none"
    /\ \E b \in Sizes : AppendEvent(w, "command", b)
    /\ UNCHANGED <<row, session, binding, clock, pc, publishing, crashes, created,
                   cleanFailed>>

\* reconcile without a binding; with one it only reads.
ReconcileUnbound(w) ==
    /\ pc = Idle /\ row[w] \in Live /\ binding[w] = None
    /\ row' = [row EXCEPT ![w] = "failed"]
    /\ pc' = Running("record", w, "failed")
    /\ cleanFailed' = cleanFailed \cup {w}
    /\ UNCHANGED <<session, binding, events, clock, publishing, crashes, created>>

-----------------------------------------------------------------------------
(* What a reader is given.                                                  *)

\* events_after: strictly after a sequence number, the oldest first.
EventsAfter(w, after, limit) ==
    LET hits == {k \in DOMAIN ring[w] : k > after}
    IN  Restrict(ring[w], {k \in hits : Cardinality({j \in hits : j < k}) < limit})

\* Mutant: only as many events are read as are shown.
SnapshotEvents_Cap(w) == EventsAfter(w, 0, ActivityCap)

\* One read past the whole ring.
SnapshotEvents(w) == EventsAfter(w, 0, RingReadLimit)

\* workflow_snapshot_body: the newest events and the high-water mark.
Snapshot(w) ==
    LET read == SnapshotEvents(w)
    IN  [last     |-> Newest(read),
         activity |-> Restrict(read, {k \in DOMAIN read :
                                  Cardinality({j \in DOMAIN read : j > k}) < ActivityCap})]

-----------------------------------------------------------------------------
(* The outbox and its consumer.                                             *)

\* Mutant: entries of one instant are taken newest first.
Before_NoSeq(a, b) ==
    \/ a.at < b.at
    \/ a.at = b.at /\ a.w < b.w
    \/ a.at = b.at /\ a.w = b.w /\ a.seq > b.seq

\* ORDER BY enqueued_at_millis, workflow_id, seq_no
Before(a, b) ==
    \/ a.at < b.at
    \/ a.at = b.at /\ a.w < b.w
    \/ a.at = b.at /\ a.w = b.w /\ a.seq < b.seq

First(S) == CHOOSE e \in S : \A x \in S \ {e} : Before(e, x)

OutboxDrain ==
    /\ batch.todo = {} /\ batch.sent = {} /\ outbox # {}
    /\ batch' = [todo |-> {e \in outbox :
                             Cardinality({x \in outbox : Before(x, e)}) < DrainLimit},
                 sent |-> {}]
    /\ UNCHANGED <<row, session, binding, events, clock, pc, crashes, seen, created,
                   cleanFailed>>

\* The publisher, which is not in this repository: it sends in drain order,
\* reading each event from the ring by the key it drained; a trimmed event can
\* only be passed over.  The consumer drops what it has.
Send ==
    /\ batch.todo # {}
    /\ LET e == First(batch.todo) IN
       /\ batch' = [todo |-> batch.todo \ {e}, sent |-> batch.sent \cup {e}]
       /\ seen' = IF e.seq \notin DOMAIN ring[e.w] \/ e.seq \in Range(seen[e.w]) THEN seen
                  ELSE [seen EXCEPT ![e.w] = Append(@, e.seq)]
    /\ UNCHANGED <<row, session, binding, events, clock, pc, crashes, created, cleanFailed>>

\* Mutant: the update matches the workflow alone.
Published_Workflow(e) == {x \in outbox : x.w = e.w}

\* WHERE workflow_id = ?1 AND seq_no = ?2
Published(e) == {x \in outbox : x.w = e.w /\ x.seq = e.seq}

\* outbox_mark_published commits one entry at a time.
MarkPublished ==
    /\ batch.todo = {} /\ batch.sent # {}
    /\ LET e == First(batch.sent) IN
       /\ outbox' = outbox \ Published(e)
       /\ batch' = [batch EXCEPT !.sent = @ \ {e}]
    /\ UNCHANGED <<row, session, binding, ring, cut, dropped, log, clock, pc, crashes,
                   seen, created, cleanFailed>>

-----------------------------------------------------------------------------
Tick ==
    /\ \/ "forward" \in ClockSteps /\ clock < MaxClock /\ clock' = clock + 1
       \/ "back" \in ClockSteps /\ clock > 0 /\ clock' = clock - 1
    /\ UNCHANGED <<row, session, binding, events, pc, publishing, crashes, created,
                   cleanFailed>>

\* A statement of the running operation fails: the rest of it is skipped.
Fail ==
    /\ pc # Idle
    /\ pc' = Idle
    /\ UNCHANGED <<row, session, binding, events, clock, publishing, crashes, created,
                   cleanFailed>>

\* The process dies: committed state survives, the drained batch does not.
Crash ==
    /\ crashes < MaxCrashes
    /\ crashes' = crashes + 1
    /\ pc' = Idle
    /\ batch' = [todo |-> {}, sent |-> {}]
    /\ UNCHANGED <<row, session, binding, events, clock, seen, created, cleanFailed>>

Next ==
    \/ \E w \in Workflows, s \in Sessions \cup {None} : CreateWorkflow(w, s)
    \/ \E w \in Workflows, st \in MayMove : Transition(w, st)
    \/ \E w \in Workflows, s \in Sessions : Bind(w, s)
    \/ \E w \in Workflows : CommandEvent(w) \/ ReconcileUnbound(w)
    \/ UpsertBinding \/ Record \/ OutboxDrain \/ Send \/ MarkPublished
    \/ Tick \/ Fail \/ Crash

Spec == Init /\ [][Next]_vars

-----------------------------------------------------------------------------
(* Properties.                                                              *)

\* The reference: the longest run of newest events within both bounds, the
\* newest one always included.
Fits(w, k) ==
    /\ Len(log[w]) - k + 1 <= MaxRingEvents
    /\ FoldFunctionOnSet(+, 0, [i \in 1..Len(log[w]) |-> log[w][i].bytes], k..Len(log[w]))
         <= MaxRingBytes

KeptFrom(w) == Min({Len(log[w])} \cup {k \in 1..Len(log[w]) : Fits(w, k)})

\* However appends and trims alternate, the ring is the longest run of newest
\* events within both bounds, numbered without gap or reuse, and the marker
\* and the dropped count say what is missing (append_event, trim_ring).
RingIsLongestSuffix ==
    \A w \in Workflows : log[w] # <<>> =>
        /\ ring[w] = [k \in KeptFrom(w)..Len(log[w]) |-> log[w][k].bytes]
        /\ cut[w] = KeptFrom(w) - 1
        /\ dropped[w] = cut[w]

\* "last_seq_no is the true high-water mark even when the tail is cut"
\* (catalog.rs): after any appends, trims and deaths a snapshot names the last
\* event ever appended and shows the newest events without a gap, so a phone
\* that continues from it misses nothing.
SnapshotIsHighWater ==
    \A w \in Workflows : LET shown == Snapshot(w)
                              n     == Len(log[w]) IN
        /\ shown.last = n
        /\ log[w] # <<>> =>
              DOMAIN shown.activity = Max({KeptFrom(w), n + 1 - ActivityCap})..n

\* "A crash can never leave an event without its outbox row" (append_event):
\* an event that is still in the ring and that the consumer was not given is
\* waiting in the outbox, whatever was drained, half marked or lost with the
\* process.  An event trimmed before it was sent is lost to the consumer, and
\* lies below the truncation marker.
NothingLost ==
    \A w \in Workflows : \A n \in 1..Len(log[w]) :
        \/ n \in Range(seen[w])
        \/ \E e \in outbox : e.w = w /\ e.seq = n
        \/ n <= cut[w]

\* What the consumer is given of a workflow is in sequence, over batches,
\* half-marked batches and deaths, but for events between whose appends the
\* wall clock stepped back (outbox_drain orders by enqueued_at_millis).
SeenInOrder ==
    \A w \in Workflows : \A i, j \in 1..Len(seen[w]) : i < j =>
        \/ seen[w][i] < seen[w][j]
        \/ seen[w][i] > seen[w][j] /\ log[w][seen[w][i]].at < log[w][seen[w][j]].at

\* "Drain order is seq order per workflow" (migrations/0001_init.sql), read
\* without that exception: refuted by a step back of the clock.
SeenInSequence ==
    \A w \in Workflows : \A i, j \in 1..Len(seen[w]) : i < j => seen[w][i] < seen[w][j]

\* A workflow whose creation with a session was reported done is never given
\* up by restart recovery (create_workflow, reconcile).
CleanFailOnlyUnbound == created \cap cleanFailed = {}

\* "every state change carries its why" (transition): with no operation under
\* way, the last lifecycle event of a workflow is that of its state.
StateCarriesItsReason ==
    pc = Idle => \A w \in Workflows : row[w] # "none" =>
        \E i \in 1..Len(log[w]) :
            /\ log[w][i].type = row[w]
            /\ \A j \in (i + 1)..Len(log[w]) : log[w][j].type = "command"

=============================================================================
