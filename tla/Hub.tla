-------------------------------- MODULE Hub ---------------------------------
(***************************************************************************)
(* The signal plane (backend/ws/hub.go) for the devices of one user: a     *)
(* handler goroutine per socket that authenticates, registers and serves   *)
(* it, its read and write loops, the hub loop that fans events out and     *)
(* checks liveness, presence in Redis, and Close.  Time is counted in      *)
(* heartbeat windows (hbInterval).                                         *)
(***************************************************************************)
EXTENDS Naturals, Sequences, FiniteSets

CONSTANTS
    Devices,
    Conns,           \* upgrade requests, each at most one socket
    None,
    SendBuffer,      \* SendBufferSize
    NotifyBuffer,    \* capacity of notifyCh
    MaxMissed,       \* maxMissed
    PresenceWindows, \* presenceTTL / hbInterval
    MaxEvents,       \* bound: events ever published
    MaxWindows,      \* bound: heartbeat windows that pass
    MayRevoke,       \* bound: devices that may be revoked
    MayClose,        \* bound: whether the hub is ever closed
    PresenceFails    \* bound: whether presence writes may fail

ASSUME HubAssumption ==
    /\ SendBuffer \in Nat \ {0} /\ NotifyBuffer \in Nat \ {0}
    /\ MaxMissed \in Nat /\ PresenceWindows \in Nat \ {0}
    /\ MaxEvents \in Nat /\ MaxWindows \in Nat
    /\ MayRevoke \subseteq Devices /\ MayClose \in BOOLEAN
    /\ PresenceFails \in BOOLEAN
    /\ None \notin Devices \cup Conns
    /\ IsFiniteSet(Conns)

VARIABLES
    revoked,    \* devices whose row is revoked
    phase,      \* [Conns -> where its ServeHTTP is]
    dev,        \* [Conns -> device of its token]
    late,       \* [Conns -> the device was revoked before it dialled]
    cut,        \* [Conns -> liveConn.close has run: context cancelled]
    reader,     \* [Conns -> readLoop: "none", "run", "done"]
    writer,     \* [Conns -> writeLoop]
    age,        \* [Conns -> windows since lastSeen, up to MaxMissed + 1]
    byDevice,   \* [Devices -> registered conn, or None]
    send,       \* [Conns -> queued events]
    got,        \* [Conns -> events its client received]
    queue,      \* notifyCh
    published,  \* events published so far; events are numbered
    owed,       \* markCatchup goroutines still running
    pres,       \* [Devices -> presence key: online flag, windows left, 0 = gone]
    windows,    \* windows passed
    tick,       \* the loop's ticker has fired
    loop,       \* the hub loop runs
    hub,        \* "open", "closing" (in Close), "closed" (Close returned)
    toClose,    \* sockets Close has yet to close
    stale,      \* sockets the liveness check under way has yet to close
    kept        \* sockets of a revoked device that a liveness check left open

connvars  == <<phase, dev, late, cut, reader, writer, byDevice>>
hubvars   == <<loop, hub, toClose, stale>>
eventvars == <<queue, published, send, got, owed>>
timevars  == <<age, windows, tick, kept>>
vars == <<revoked, phase, dev, late, cut, reader, writer, age, byDevice, send, got,
          queue, published, owed, pres, windows, tick, loop, hub, toClose, stale, kept>>

Phases == {"idle", "resolve", "row", "rev", "register", "online", "spawn", "serve",
           "offline", "gone", "refused"}
\* From registration until the handler sees the cancelled context.
Registered == {"online", "spawn", "serve"}
LoopStates == {"none", "run", "done"}
Events     == [n: 1..MaxEvents, to: Devices \cup {None}]
Presence   == [online: BOOLEAN, left: 0..PresenceWindows]

TypeOK ==
    /\ revoked \subseteq Devices
    /\ phase \in [Conns -> Phases]
    /\ dev \in [Conns -> Devices \cup {None}]
    /\ late \in [Conns -> BOOLEAN] /\ cut \in [Conns -> BOOLEAN]
    /\ reader \in [Conns -> LoopStates] /\ writer \in [Conns -> LoopStates]
    /\ age \in [Conns -> 0..(MaxMissed + 1)]
    /\ byDevice \in [Devices -> Conns \cup {None}]
    /\ send \in [Conns -> Seq(1..MaxEvents)] /\ got \in [Conns -> Seq(1..MaxEvents)]
    /\ \A c \in Conns : Len(send[c]) <= SendBuffer
    /\ queue \in Seq(Events) /\ Len(queue) <= NotifyBuffer
    /\ published \in 0..MaxEvents
    /\ owed \in Nat
    /\ pres \in [Devices -> Presence]
    /\ windows \in 0..MaxWindows
    /\ tick \in BOOLEAN /\ loop \in BOOLEAN
    /\ hub \in {"open", "closing", "closed"}
    /\ toClose \subseteq Conns /\ stale \subseteq Conns /\ kept \subseteq Conns

Init ==
    /\ revoked = {}
    /\ phase = [c \in Conns |-> "idle"]
    /\ dev = [c \in Conns |-> None]
    /\ late = [c \in Conns |-> FALSE] /\ cut = [c \in Conns |-> FALSE]
    /\ reader = [c \in Conns |-> "none"] /\ writer = [c \in Conns |-> "none"]
    /\ age = [c \in Conns |-> 0]
    /\ byDevice = [d \in Devices |-> None]
    /\ send = [c \in Conns |-> <<>>] /\ got = [c \in Conns |-> <<>>]
    /\ queue = <<>> /\ published = 0 /\ owed = 0
    /\ pres = [d \in Devices |-> [online |-> FALSE, left |-> 0]]
    /\ windows = 0 /\ tick = FALSE
    /\ loop = TRUE /\ hub = "open" /\ toClose = {} /\ stale = {} /\ kept = {}

-----------------------------------------------------------------------------
(* ServeHTTP: the handshake.                                                *)

To(c, p) == phase' = [phase EXCEPT ![c] = p]

Dial(c, d) ==
    /\ phase[c] = "idle"
    /\ To(c, "resolve")
    /\ dev' = [dev EXCEPT ![c] = d]
    /\ late' = [late EXCEPT ![c] = d \in revoked]
    /\ UNCHANGED <<revoked, cut, reader, writer, byDevice, eventvars, timevars,
                   pres, hubvars>>

Handshake(c) ==
    UNCHANGED <<revoked, dev, late, cut, reader, writer, byDevice, eventvars,
                timevars, pres, hubvars>>

\* The token resolves, or it expired or was dropped by a revocation.
ResolveToken(c) ==
    /\ phase[c] = "resolve"
    /\ To(c, "row") \/ To(c, "refused")
    /\ Handshake(c)

\* Mutant: only IsRevoked is consulted, whose errors are ignored.
ReadRow_NoFlag(c) ==
    /\ phase[c] = "row"
    /\ To(c, "rev")
    /\ Handshake(c)

\* GetDevice: an unknown device, an error and the row's flag all refuse.
ReadRow(c) ==
    /\ phase[c] = "row"
    /\ \/ To(c, IF dev[c] \in revoked THEN "refused" ELSE "rev")
       \/ To(c, "refused")
    /\ Handshake(c)

\* IsRevoked: an error counts as not revoked.
ReadRevoked(c) ==
    /\ phase[c] = "rev"
    /\ \/ To(c, IF dev[c] \in revoked THEN "refused" ELSE "register")
       \/ To(c, "register")
    /\ Handshake(c)

\* The conn that a new one of the same device closes, under the mutex.
Displaced(c) == {byDevice[dev[c]]} \ {None}

\* websocket.Accept, then the registration under the mutex.
Register(c) ==
    /\ phase[c] = "register"
    /\ \/ /\ To(c, "refused")
          /\ UNCHANGED <<cut, byDevice, age>>
       \/ /\ To(c, "online")
          /\ cut' = [x \in Conns |-> cut[x] \/ x \in Displaced(c)]
          /\ byDevice' = [byDevice EXCEPT ![dev[c]] = c]
          /\ age' = [age EXCEPT ![c] = 0]
    /\ UNCHANGED <<revoked, dev, late, reader, writer, eventvars, windows, tick, kept,
                   pres, hubvars>>

\* redis.SetPresence: refused without a conn id.
SetPresence(d, online, hasConn) ==
    pres' = IF hasConn THEN [pres EXCEPT ![d] = [online |-> online, left |-> PresenceWindows]]
            ELSE pres

\* Best effort: a store error is ignored.
SetOnline(c) ==
    /\ phase[c] = "online"
    /\ \/ SetPresence(dev[c], TRUE, TRUE)
       \/ PresenceFails /\ UNCHANGED pres
    /\ To(c, "spawn")
    /\ UNCHANGED <<revoked, dev, late, cut, reader, writer, byDevice, eventvars,
                   timevars, hubvars>>

\* wg.Add(2) and the two loops.
Spawn(c) ==
    /\ phase[c] = "spawn"
    /\ To(c, "serve")
    /\ reader' = [reader EXCEPT ![c] = "run"]
    /\ writer' = [writer EXCEPT ![c] = "run"]
    /\ UNCHANGED <<revoked, dev, late, cut, byDevice, eventvars, timevars, pres, hubvars>>

\* Mutant: the registration is dropped whoever holds it.
Unregister_Always(c) == [byDevice EXCEPT ![dev[c]] = None]

Unregister(c) ==
    IF byDevice[dev[c]] = c THEN [byDevice EXCEPT ![dev[c]] = None] ELSE byDevice

\* Mutant: a replaced socket's handler finds nothing of its own to clean up.
Leave_IfMine(c) ==
    /\ phase[c] = "serve" /\ cut[c] /\ byDevice[dev[c]] = c
    /\ byDevice' = Unregister(c)
    /\ To(c, "offline")
    /\ UNCHANGED <<revoked, dev, late, cut, reader, writer, eventvars, timevars,
                   pres, hubvars>>

\* <-connCtx.Done(), then the clean-up under the mutex.
Leave(c) ==
    /\ phase[c] = "serve" /\ cut[c]
    /\ byDevice' = Unregister(c)
    /\ To(c, "offline")
    /\ UNCHANGED <<revoked, dev, late, cut, reader, writer, eventvars, timevars,
                   pres, hubvars>>

\* The offline presence carries no conn id.
SetOffline(c) ==
    /\ phase[c] = "offline"
    /\ SetPresence(dev[c], FALSE, FALSE)
    /\ To(c, "gone")
    /\ UNCHANGED <<revoked, dev, late, cut, reader, writer, byDevice, eventvars,
                   timevars, hubvars>>

-----------------------------------------------------------------------------
(* readLoop and writeLoop.                                                  *)

\* Any inbound message refreshes lastSeen.
Receive(c) ==
    /\ reader[c] = "run" /\ ~cut[c]
    /\ age' = [age EXCEPT ![c] = 0]
    /\ UNCHANGED <<revoked, connvars, eventvars, windows, tick, kept, pres, hubvars>>

\* Read fails: the client left, or the socket was closed.
ReadEnds(c) ==
    /\ reader[c] = "run"
    /\ reader' = [reader EXCEPT ![c] = "done"]
    /\ cut' = [cut EXCEPT ![c] = TRUE]
    /\ UNCHANGED <<revoked, phase, dev, late, writer, byDevice, eventvars, timevars,
                   pres, hubvars>>

WriteSignal(c) ==
    /\ writer[c] = "run" /\ ~cut[c] /\ send[c] # <<>>
    /\ got' = [got EXCEPT ![c] = Append(@, Head(send[c]))]
    /\ send' = [send EXCEPT ![c] = Tail(@)]
    /\ UNCHANGED <<revoked, connvars, queue, published, owed, timevars, pres, hubvars>>

\* A write of a signal or of a heartbeat fails, or the context is done.
WriteEnds(c) ==
    /\ writer[c] = "run"
    /\ writer' = [writer EXCEPT ![c] = "done"]
    /\ cut' = [cut EXCEPT ![c] = TRUE]
    /\ UNCHANGED <<revoked, phase, dev, late, reader, byDevice, eventvars, timevars,
                   pres, hubvars>>

-----------------------------------------------------------------------------
(* Events.                                                                  *)

\* Notify never blocks: a full queue drops the event.
Notify(to) ==
    /\ published < MaxEvents
    /\ published' = published + 1
    /\ queue' = IF Len(queue) < NotifyBuffer
                THEN Append(queue, [n |-> published + 1, to |-> to]) ELSE queue
    /\ UNCHANGED <<revoked, connvars, send, got, owed, timevars, pres, hubvars>>

\* The hub loop is in its select.
Waiting == loop /\ stale = {}

Targets(ev) ==
    {c \in Conns : \E d \in Devices : byDevice[d] = c /\ (ev.to = None \/ ev.to = d)}

Full(c) == Len(send[c]) >= SendBuffer

\* Mutant: an event some buffer has no room for goes back to the queue.
Fanout_Requeue ==
    LET ev == Head(queue) IN
    /\ Waiting /\ queue # <<>>
    /\ queue' = IF \E c \in Targets(ev) : Full(c) THEN Append(Tail(queue), ev) ELSE Tail(queue)
    /\ send' = [c \in Conns |-> IF c \in Targets(ev) /\ ~Full(c)
                                THEN Append(send[c], ev.n) ELSE send[c]]
    /\ UNCHANGED <<revoked, connvars, published, got, owed, timevars, pres, hubvars>>

\* fanout: a full send buffer drops the event and spawns markCatchup.
Fanout ==
    LET ev == Head(queue) IN
    /\ Waiting /\ queue # <<>>
    /\ queue' = Tail(queue)
    /\ send' = [c \in Conns |-> IF c \in Targets(ev) /\ ~Full(c)
                                THEN Append(send[c], ev.n) ELSE send[c]]
    /\ owed' = owed + Cardinality({c \in Targets(ev) : Full(c)})
    /\ UNCHANGED <<revoked, connvars, published, got, timevars, pres, hubvars>>

\* EnqueueAttention, whose error is ignored.
CatchupEnds ==
    /\ owed > 0
    /\ owed' = owed - 1
    /\ UNCHANGED <<revoked, connvars, queue, published, send, got, timevars, pres, hubvars>>

-----------------------------------------------------------------------------
(* Time and liveness.                                                       *)

\* A heartbeat window passes: ages grow, presence keys count down.
Window ==
    /\ windows < MaxWindows
    /\ windows' = windows + 1
    /\ tick' = TRUE
    /\ age' = [c \in Conns |-> IF age[c] <= MaxMissed THEN age[c] + 1 ELSE age[c]]
    /\ pres' = [d \in Devices |->
                  IF pres[d].left > 1 THEN [pres[d] EXCEPT !.left = @ - 1]
                  ELSE [online |-> FALSE, left |-> 0]]
    /\ UNCHANGED <<revoked, connvars, eventvars, kept, hubvars>>

\* Mutant: the cutoff is computed from one window too many.
Stale_OneMore(c) == age[c] > MaxMissed + 1

\* lastSeen < now - maxMissed * hbInterval
Stale(c) == age[c] > MaxMissed

\* The silent sockets are collected under the mutex ...
CheckLiveness ==
    LET registered == {c \in Conns : \E d \in Devices : byDevice[d] = c} IN
    /\ Waiting /\ tick
    /\ tick' = FALSE
    /\ stale' = {c \in registered : Stale(c)}
    /\ kept' = kept \cup {c \in registered : ~Stale(c) /\ ~cut[c] /\ dev[c] \in revoked}
    /\ UNCHANGED <<revoked, connvars, eventvars, age, windows, pres, loop, hub, toClose>>

\* ... and closed after it, whatever has happened to them since.
CloseStale(c) ==
    /\ c \in stale
    /\ cut' = [cut EXCEPT ![c] = TRUE]
    /\ stale' = stale \ {c}
    /\ UNCHANGED <<revoked, phase, dev, late, reader, writer, byDevice, eventvars,
                   timevars, pres, loop, hub, toClose>>

-----------------------------------------------------------------------------
(* Close, and the control plane.                                            *)

\* close(h.closed) and the snapshot of the live conns.
CloseHub ==
    /\ MayClose /\ hub = "open"
    /\ hub' = "closing"
    /\ toClose' = {c \in Conns : \E d \in Devices : byDevice[d] = c}
    /\ UNCHANGED <<revoked, connvars, eventvars, timevars, pres, loop, stale>>

CloseOne(c) ==
    /\ hub = "closing" /\ c \in toClose
    /\ cut' = [cut EXCEPT ![c] = TRUE]
    /\ toClose' = toClose \ {c}
    /\ UNCHANGED <<revoked, phase, dev, late, reader, writer, byDevice, eventvars,
                   timevars, pres, loop, hub, stale>>

LoopEnds ==
    /\ Waiting /\ hub # "open"
    /\ loop' = FALSE
    /\ UNCHANGED <<revoked, connvars, eventvars, timevars, pres, hub, toClose, stale>>

\* wg.Wait: the loop, the read and write loops, the catch-up goroutines.
CloseReturns ==
    /\ hub = "closing" /\ toClose = {}
    /\ ~loop /\ owed = 0
    /\ \A c \in Conns : reader[c] # "run" /\ writer[c] # "run"
    /\ hub' = "closed"
    /\ UNCHANGED <<revoked, connvars, eventvars, timevars, pres, loop, toClose, stale>>

\* handleDeviceRevoke commits elsewhere; the hub only hears of it by Notify.
Revoke(d) ==
    /\ d \in MayRevoke \ revoked
    /\ revoked' = revoked \cup {d}
    /\ UNCHANGED <<connvars, eventvars, timevars, pres, hubvars>>

Serve(c) ==
    \/ ResolveToken(c) \/ ReadRow(c) \/ ReadRevoked(c) \/ Register(c) \/ SetOnline(c)
    \/ Spawn(c) \/ Leave(c) \/ SetOffline(c)

Next ==
    \/ \E c \in Conns, d \in Devices : Dial(c, d)
    \/ \E c \in Conns : Serve(c) \/ Receive(c) \/ ReadEnds(c) \/ WriteSignal(c)
                        \/ WriteEnds(c) \/ CloseOne(c) \/ CloseStale(c)
    \/ \E to \in Devices \cup {None} : Notify(to)
    \/ \E d \in Devices : Revoke(d)
    \/ Fanout \/ CatchupEnds \/ Window \/ CheckLiveness
    \/ CloseHub \/ LoopEnds \/ CloseReturns

Spec == Init /\ [][Next]_vars

\* The handler goroutines, the hub loop and the ticker run: each step of the
\* server that stays possible is taken (Go schedules every goroutine, and
\* select picks fairly among ready channels).  Clients owe nothing.
Fairness ==
    /\ WF_vars(CheckLiveness) /\ WF_vars(Fanout) /\ WF_vars(Window)
    /\ \A c \in Conns : /\ WF_vars(Serve(c)) /\ WF_vars(CloseStale(c))
                        /\ WF_vars(cut[c] /\ ReadEnds(c)) /\ WF_vars(cut[c] /\ WriteEnds(c))

FairSpec == Spec /\ Fairness

-----------------------------------------------------------------------------
(* Properties.                                                              *)

\* "Revoked devices are refused before the handshake" (ServeHTTP): a socket
\* dialled after the revocation was committed is never registered, even when
\* IsRevoked fails.
RevokedNeverConnects ==
    \A c \in Conns : late[c] => phase[c] \in {"idle", "resolve", "row", "rev", "refused"}

\* A socket that is served and not closed is the registered one of its
\* device, whatever replacements and tear-downs overlap: it will get the
\* signals, and the device has no second socket (byDevice, ServeHTTP).
LiveSocketIsReachable ==
    \A c \in Conns : phase[c] \in Registered /\ ~cut[c] => byDevice[dev[c]] = c

\* A client sees signals in the order they were published, whatever was
\* dropped in between (Notify, fanout, writeLoop).
SignalsInOrder ==
    \A c \in Conns : \A i, j \in 1..Len(got[c]) : i < j => got[c][i] < got[c][j]

\* A client silent for maxMissed windows is cut off by a liveness check, unless
\* it is heard of again, although the check closes sockets one by one after it
\* has released the mutex (checkLiveness).
SilentSocketIsCut ==
    \A c \in Conns :
        (phase[c] = "serve" /\ age[c] > MaxMissed) ~> (cut[c] \/ age[c] = 0)

\* A closed socket is torn down completely: its loops end and its
\* registration goes (ServeHTTP after connCtx.Done).
ClosedSocketLeaves ==
    \A c \in Conns :
        cut[c] ~> (phase[c] = "gone" /\ reader[c] = "done" /\ writer[c] = "done")

\* "Close stops the hub and every live connection" (Close): once it has
\* returned no socket is being served.
CloseStopsEverySocket ==
    hub = "closed" => \A c \in Conns : phase[c] \in Registered => cut[c]

\* Enforcement at "every WebSocket handshake and heartbeat window"
\* (docs/trust/pairing-spec.md section 10): a liveness check leaves no socket
\* of a revoked device open.
RevokedSocketIsCut == kept = {}

\* "Best-effort presence: online while the socket lives" (ServeHTTP): a
\* device whose socket is served and heard from in this window is online.
OnlineWhileSocketLives ==
    \A c \in Conns : phase[c] = "serve" /\ ~cut[c] /\ age[c] = 0
        => pres[dev[c]].online

\* The same comment, read the other way: when the last socket of a device is
\* torn down the device is not online.
OfflineAfterSocketEnds ==
    \A c \in Conns : phase[c] = "gone" /\ (\A x \in Conns : x # c => phase[x] = "idle")
        => ~pres[dev[c]].online

=============================================================================
