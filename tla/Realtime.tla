------------------------------ MODULE Realtime ------------------------------
(***************************************************************************)
(* The phone's foreground socket (src/mobile/lib/realtime and              *)
(* src/mobile/lib/state/realtime_binding.dart): the scope that owns a      *)
(* binding while the app is in the foreground, the client the binding      *)
(* replaces on every new token, its reconnect and heartbeat timers and its *)
(* inbound buffer, and what a drop or an overflow does to the banner and   *)
(* to an open workflow view.  Dart runs one callback at a time: an action  *)
(* is one callback, up to its first await.                                 *)
(***************************************************************************)
EXTENDS Naturals, FiniteSets

CONSTANTS
    Clients,      \* client objects that can exist at once
    Channels,     \* websockets that can exist at once
    None,
    Capacity,     \* InboundBuffer.capacity
    MaxMissed,    \* HeartbeatTracker.maxMissed
    MaxToken      \* bound: tokens the session goes through

ASSUME RealtimeAssumption ==
    /\ None \notin Clients \cup Channels
    /\ Capacity \in Nat \ {0} /\ MaxMissed \in Nat \ {0} /\ MaxToken \in Nat

VARIABLES
    cur,       \* the mounted binding's client, or None while there is no binding
    rotation,  \* an updateConfig flight has not completed
    token,     \* the session's token
    cl,        \* client -> its fields
    chan,      \* channel -> "none", or "up", "dead" (silent), "ended" by the peer,
               \*   or "orphan": made by a dial that then threw, held by no client
    conn,      \* ConnectionState
    view,      \* the open workflow: snapshot in flight, frozen
    quiet,     \* history: ticks since the current channel's last message
    hasty      \* history: a channel was given up before its windows were over

vars == <<cur, rotation, token, cl, chan, conn, view, quiet, hasty>>
history == <<quiet, hasty>>

\* A disposed client: no channel, no timer, and every callback returns at once.
Disposed == [live |-> FALSE, tok |-> 0, chan |-> None, redial |-> FALSE,
             missed |-> 0, seen |-> FALSE, held |-> 0, told |-> FALSE]

\* A client buildSocket returns: nothing is dialed yet.
Built(t) == [Disposed EXCEPT !.live = TRUE, !.tok = t]

Init ==
    /\ cur = None /\ rotation = FALSE /\ token = 0
    /\ cl = [c \in Clients |-> Disposed]
    /\ chan = [k \in Channels |-> "none"]
    /\ conn = [connected |-> FALSE, needsCatchup |-> FALSE]
    /\ view = [loading |-> FALSE, frozen |-> FALSE]
    /\ quiet = 0 /\ hasty = FALSE

-----------------------------------------------------------------------------
\* Bug: a new channel starts with the misses of the last one.
Attached_KeepsMisses(f, k) == [f EXCEPT !.chan = k, !.redial = FALSE]

\* connect once the factory returned: the channel is attached and the misses
\* are forgotten.
Attached(f, k) ==
    [f EXCEPT !.chan = k, !.redial = FALSE, !.missed = 0, !.seen = FALSE]

\* _scheduleReconnect: one timer at a time.  (Its delay is not modelled.)
Scheduled(f) == [f EXCEPT !.redial = TRUE]

\* connect by client c, the clients and channels otherwise being as given: a
\* channel; or a factory that throws; or a subscribe that throws on the channel
\* the factory made, which nothing then closes.  Both throws end in a timer.
Connect(c, clients, chs) ==
    \/ \E k \in Channels :
          /\ chs[k] = "none"
          /\ cl' = [clients EXCEPT ![c] = Attached(clients[c], k)]
          /\ chan' = [chs EXCEPT ![k] = "up"]
          /\ quiet' = 0
    \/ /\ cl' = [clients EXCEPT ![c] = Scheduled(clients[c])]
       /\ \/ chan' = chs
          \/ \E k \in Channels : chs[k] = "none" /\ chan' = [chs EXCEPT ![k] = "orphan"]
       /\ UNCHANGED quiet

\* Closing the phone's end of a client's channel.
Hangup(f) == [k \in Channels |-> IF k = f.chan THEN "none" ELSE chan[k]]

\* Bug: a drop only closes the channel.
Dropped_NoTimer(f) == [f EXCEPT !.chan = None]

\* _handleDrop on the client's fields.
Dropped(f) == Scheduled([f EXCEPT !.chan = None])

\* _handleDrop: the channel goes and a redial is scheduled.  onConnectionLost
\* calls markDisconnected, which changes nothing unless connected.
HandleDrop(c, f) ==
    /\ cl' = [cl EXCEPT ![c] = Dropped(f)]
    /\ chan' = Hangup(f)
    /\ conn' = [conn EXCEPT !.connected = FALSE]

-----------------------------------------------------------------------------
(* The scope: RealtimeScope, the provider and the binding.                  *)

\* A viewer mounts, or the app resumes: a fresh binding dials.
Resume ==
    /\ cur = None
    /\ \E c \in Clients :
          /\ ~cl[c].live
          /\ cur' = c
          /\ Connect(c, [cl EXCEPT ![c] = Built(token)], chan)
    /\ UNCHANGED <<rotation, token, conn, view, hasty>>

\* The app pauses or the last viewer leaves: the binding and its client are
\* disposed.
Pause ==
    /\ cur # None
    /\ cur' = None /\ rotation' = FALSE
    /\ cl' = [cl EXCEPT ![cur] = Disposed]
    /\ chan' = Hangup(cl[cur])
    /\ UNCHANGED <<token, conn, view, history>>

\* Bug: the replaced client is not disposed.
NewToken_KeepStale ==
    /\ token < MaxToken /\ cur # None /\ ~rotation
    /\ token' = token + 1 /\ rotation' = TRUE
    /\ \E c \in Clients :
          /\ ~cl[c].live
          /\ cur' = c
          /\ Connect(c, [cl EXCEPT ![c] = Built(token + 1)], chan)
    /\ UNCHANGED <<conn, view, hasty>>

\* The session's token changes.  The listener calls updateConfig: nothing
\* while a rotation is in flight; otherwise _swap builds a client and
\* disposes the stale one, and the fresh one dials.
NewToken ==
    /\ token < MaxToken
    /\ token' = token + 1
    /\ \/ /\ cur = None \/ rotation
          /\ UNCHANGED <<cur, rotation, cl, chan, quiet>>
       \/ /\ cur # None /\ ~rotation
          /\ rotation' = TRUE
          /\ \E c \in Clients :
                /\ ~cl[c].live
                /\ cur' = c
                /\ Connect(c, [cl EXCEPT ![c] = Built(token + 1), ![cur] = Disposed],
                           Hangup(cl[cur]))
    /\ UNCHANGED <<conn, view, hasty>>

\* The flight's whenComplete.
RotationDone ==
    /\ rotation
    /\ rotation' = FALSE
    /\ UNCHANGED <<cur, token, cl, chan, conn, view, history>>

-----------------------------------------------------------------------------
(* The client: CalcarSocketClient.                                          *)

\* The reconnect timer fires.
Redial(c) ==
    /\ cl[c].live /\ cl[c].redial
    /\ IF cl[c].chan # None
         THEN /\ cl' = [cl EXCEPT ![c].redial = FALSE]
              /\ UNCHANGED <<chan, quiet>>
         ELSE Connect(c, [cl EXCEPT ![c].redial = FALSE], chan)
    /\ UNCHANGED <<cur, rotation, token, conn, view, hasty>>

\* The stream reports its end or an error.
OnDone(c) ==
    /\ cl[c].live /\ cl[c].chan # None
    /\ chan[cl[c].chan] = "ended"
    /\ HandleDrop(c, cl[c])
    /\ UNCHANGED <<cur, rotation, token, view, history>>

\* markCatchupNeeded: the banner is up, and its listener freezes the view.
NeedCatchup ==
    /\ conn' = [conn EXCEPT !.needsCatchup = TRUE]
    /\ view' = [view EXCEPT !.frozen = TRUE]

\* HeartbeatTracker.markMessage.
Heard(f) == [f EXCEPT !.missed = 0, !.seen = TRUE]

\* InboundBuffer.add refuses.  Nothing drains the buffer.
Full(f) == f.held >= Capacity

\* InboundBuffer.add takes the event.
Buffered(f) == [Heard(f) EXCEPT !.held = f.held + 1]

\* _onRaw and the binding's handleEvent: a heartbeat only counts as traffic;
\* anything else takes a place in the buffer, and the first event that finds
\* none asks for a catch-up, as attention.pending does.
OnRaw(c, kind) ==
    /\ cl[c].live /\ cl[c].chan # None
    /\ chan[cl[c].chan] = "up"
    /\ quiet' = 0
    /\ \/ /\ kind = "heartbeat"
          /\ cl' = [cl EXCEPT ![c] = Heard(@)]
          /\ UNCHANGED <<conn, view>>
       \/ /\ kind # "heartbeat" /\ Full(cl[c])
          /\ cl' = [cl EXCEPT ![c] = [Heard(@) EXCEPT !.told = TRUE]]
          /\ IF cl[c].told THEN UNCHANGED <<conn, view>> ELSE NeedCatchup
       \/ /\ kind # "heartbeat" /\ ~Full(cl[c])
          /\ cl' = [cl EXCEPT ![c] = Buffered(@)]
          /\ IF kind = "attention" THEN NeedCatchup ELSE UNCHANGED <<conn, view>>
    /\ UNCHANGED <<cur, rotation, token, chan, hasty>>

\* Bug: the phone's own heartbeat counts as traffic.
Ticked_Own(f) == [f EXCEPT !.seen = TRUE, !.missed = 0]

\* HeartbeatTracker.tick.
Ticked(f) ==
    IF f.seen THEN [f EXCEPT !.seen = FALSE] ELSE [f EXCEPT !.missed = @ + 1]

\* _onHeartbeatTick: the send may throw on a channel the peer ended; enough
\* silent ticks drop any channel.
HeartbeatTick(c) ==
    /\ cl[c].live /\ cl[c].chan # None
    /\ LET f == Ticked(cl[c])
           silent == IF quiet < MaxMissed + 1 THEN quiet + 1 ELSE quiet IN
       \/ /\ chan[cl[c].chan] = "ended"
          /\ HandleDrop(c, cl[c])
          /\ UNCHANGED history
       \/ /\ f.missed >= MaxMissed
          /\ HandleDrop(c, f)
          /\ hasty' = (hasty \/ silent < MaxMissed)
          /\ quiet' = silent
       \/ /\ f.missed < MaxMissed
          /\ cl' = [cl EXCEPT ![c] = f]
          /\ quiet' = silent
          /\ UNCHANGED <<chan, conn, hasty>>
    /\ UNCHANGED <<cur, rotation, token, view>>

-----------------------------------------------------------------------------
(* The workflow view.                                                       *)

\* initState asks for a snapshot.
OpenView ==
    /\ ~view.loading
    /\ view' = [view EXCEPT !.loading = TRUE]
    /\ UNCHANGED <<cur, rotation, token, cl, chan, conn, history>>

\* loadSnapshot answers; only a snapshot thaws.
SnapshotAnswered ==
    /\ view.loading
    /\ \E ok \in BOOLEAN :
         view' = [loading |-> FALSE, frozen |-> view.frozen /\ ~ok]
    /\ UNCHANGED <<cur, rotation, token, cl, chan, conn, history>>

-----------------------------------------------------------------------------
\* The backend closes a socket, or it dies without a word.
PeerLeaves(k, how) ==
    /\ chan[k] = "up"
    /\ chan' = [chan EXCEPT ![k] = how]
    /\ UNCHANGED <<cur, rotation, token, cl, conn, view, history>>

\* The backend cuts a socket no client reads, or the runtime collects it.
OrphanGone(k) ==
    /\ chan[k] = "orphan"
    /\ chan' = [chan EXCEPT ![k] = "none"]
    /\ UNCHANGED <<cur, rotation, token, cl, conn, view, history>>

Next ==
    \/ Resume \/ Pause \/ NewToken \/ RotationDone \/ OpenView \/ SnapshotAnswered
    \/ \E c \in Clients :
         \/ Redial(c) \/ OnDone(c) \/ HeartbeatTick(c)
         \/ \E kind \in {"heartbeat", "attention", "other"} : OnRaw(c, kind)
    \/ \E k \in Channels : OrphanGone(k) \/ \E how \in {"dead", "ended"} : PeerLeaves(k, how)

Spec == Init /\ [][Next]_vars

\* The phone's event loop runs the client's timers and its stream callbacks;
\* nothing is assumed of the network, the app's lifecycle or the Owner.
FairSpec ==
    /\ Spec
    /\ \A c \in Clients :
         WF_vars(HeartbeatTick(c)) /\ WF_vars(Redial(c)) /\ WF_vars(OnDone(c))

-----------------------------------------------------------------------------
\* The values of the scope, its clients and its channels.
TypeOK ==
    /\ cur \in Clients \cup {None} /\ rotation \in BOOLEAN /\ token \in 0 .. MaxToken
    /\ cl \in [Clients -> [live : BOOLEAN, tok : 0 .. MaxToken, chan : Channels \cup {None},
                           redial : BOOLEAN, missed : Nat, seen : BOOLEAN,
                           held : 0 .. Capacity, told : BOOLEAN]]
    /\ chan \in [Channels -> {"none", "up", "dead", "ended", "orphan"}]
    /\ conn \in [connected : BOOLEAN, needsCatchup : BOOLEAN]
    /\ view \in [loading : BOOLEAN, frozen : BOOLEAN]
    /\ quiet \in 0 .. MaxMissed + 1 /\ hasty \in BOOLEAN

\* "A disposed binding can never redial", and a rotation leaves nothing
\* behind: no client but the mounted binding's has a timer, every socket a
\* client was given is the one that client holds, and a socket whose subscribe
\* threw is nobody's (realtime_binding.dart:5-7, 258-259).
OnlyTheBindingDials ==
    /\ \A c \in Clients : cl[c].live => c = cur
    /\ \A k \in Channels :
         chan[k] # "none" =>
            IF chan[k] = "orphan" THEN \A c \in Clients : cl[c].chan # k
                                  ELSE cur # None /\ cl[cur].chan = k

\* The same without the exception: no socket is ever left open that the
\* mounted binding does not hold (realtime_binding.dart:5-7).
EverySocketIsTheBindings ==
    \A k \in Channels : chan[k] # "none" => cur # None /\ cl[cur].chan = k

\* A mounted binding is never stuck offline: without a channel there is
\* always exactly one redial under way, and with one there is none
\* (socket_client.dart:131-133, 284-299).
OfflineMeansRedial ==
    cur # None => (cl[cur].chan = None <=> cl[cur].redial)

\* A channel is given up for silence only after maxMissed ticks without a
\* message on that channel: no miss survives a message or a reconnect
\* (heartbeat_tracker.dart:4-8).  The periodic timer is the client's and is not
\* restarted with the channel (socket_client.dart:198-203), so the first of
\* those ticks may come at once.
NoHastyDrop == ~hasty

\* A server that has gone silent is noticed, whoever dialed and however often
\* the token changes (socket_client.dart:205-218).
DeadChannelIsDropped ==
    \A k \in Channels : (chan[k] = "dead") ~> (chan[k] # "dead")

\* "A reconnect refetches": a frozen view whose socket is up and stays up
\* gets its snapshot and thaws (wired_workflow_view.dart:11-12).
Online == cur # None /\ cl[cur].chan # None
ReconnectRefetches ==
    (view.frozen /\ Online) ~> (~view.frozen \/ view.loading \/ ~Online)

\* "Exactly one dial per distinct token": the live client carries the
\* session's token (realtime_binding.dart:135).
DialsTheLatestToken == cur # None /\ ~rotation => cl[cur].tok = token

=============================================================================
