--------------------------- MODULE Realtime_proofs ---------------------------
(***************************************************************************)
(* Proofs about Realtime, for any numbers of clients, channels and tokens, *)
(* any buffer and any number of missed heartbeats: type correctness, that  *)
(* only the mounted binding has a socket or a timer, that it is never      *)
(* stuck offline, and that silence is measured on the socket it ends.      *)
(* And about AddComputer, the phone's other part with calls in flight, for *)
(* any number of sessions, reads and decisions: type correctness, that a   *)
(* live session is never replaced, and that "done" is earned.              *)
(***************************************************************************)
EXTENDS Realtime, AddComputer, TLAPS

ClientRec == [live : BOOLEAN, tok : 0 .. MaxToken, chan : Channels \cup {None},
              redial : BOOLEAN, missed : Nat, seen : BOOLEAN,
              held : 0 .. Capacity, told : BOOLEAN]

ChanState == {"none", "up", "dead", "ended", "orphan"}

\* No client holds a channel: those there are were left by throwing subscribes.
NoneHeld(chs) == \A k \in Channels : chs[k] \in {"none", "orphan"}

-----------------------------------------------------------------------------
(* What the operations on a client's fields do.                             *)

\* dispose and buildSocket yield clients; a built one is live and offline.
LEMMA BuiltType ==
    /\ Disposed \in ClientRec
    /\ ~Disposed.live /\ Disposed.chan = None
    /\ \A t \in 0 .. MaxToken :
          /\ Built(t) \in ClientRec
          /\ Built(t).live /\ Built(t).chan = None /\ ~Built(t).redial
<1>1. Disposed \in ClientRec /\ ~Disposed.live
  BY RealtimeAssumption DEF Disposed, ClientRec
<1>2. Disposed.chan = None /\ Disposed.redial = FALSE
  BY DEF Disposed
<1>3. ASSUME NEW t \in 0 .. MaxToken
      PROVE  /\ Built(t) \in ClientRec
             /\ Built(t).live /\ Built(t).chan = None /\ ~Built(t).redial
  <2> HIDE DEF Disposed
  <2> QED BY <1>1, <1>2 DEF Built, ClientRec
<1> QED BY <1>1, <1>2, <1>3

\* Attaching a channel: no redial is left, and its count starts at zero.
LEMMA AttachedType ==
    ASSUME NEW f \in ClientRec, NEW k \in Channels
    PROVE  /\ Attached(f, k) \in ClientRec
           /\ Attached(f, k).live = f.live
           /\ Attached(f, k).chan = k
           /\ Attached(f, k).redial = FALSE
           /\ Attached(f, k).missed = 0
BY DEF Attached, ClientRec

\* A scheduled client has a redial and is otherwise as before.
LEMMA ScheduledType ==
    ASSUME NEW f \in ClientRec
    PROVE  /\ Scheduled(f) \in ClientRec
           /\ Scheduled(f).live = f.live
           /\ Scheduled(f).chan = f.chan
           /\ Scheduled(f).redial = TRUE
BY DEF Scheduled, ClientRec

\* A client whose redial timer has fired is otherwise as before.
LEMMA FiredType ==
    ASSUME NEW f \in ClientRec
    PROVE  /\ [f EXCEPT !.redial = FALSE] \in ClientRec
           /\ [f EXCEPT !.redial = FALSE].live = f.live
           /\ [f EXCEPT !.redial = FALSE].chan = f.chan
BY DEF ClientRec

\* _handleDrop leaves a client without a channel and with a redial.
LEMMA DroppedType ==
    ASSUME NEW f \in ClientRec
    PROVE  /\ Dropped(f) \in ClientRec
           /\ Dropped(f).live = f.live
           /\ Dropped(f).chan = None
           /\ Dropped(f).redial = TRUE
<1> DEFINE g == [f EXCEPT !.chan = None]
<1>1. g \in ClientRec /\ g.live = f.live /\ g.chan = None
  BY DEF ClientRec
<1> HIDE DEF g
<1>2. Scheduled(g) \in ClientRec /\ Scheduled(g).live = g.live
      /\ Scheduled(g).chan = g.chan /\ Scheduled(g).redial = TRUE
  BY <1>1, ScheduledType
<1> QED BY <1>1, <1>2 DEF g, Dropped

\* A message clears the misses, a tick adds at most one.
LEMMA HeartbeatType ==
    ASSUME NEW f \in ClientRec
    PROVE  /\ Heard(f) \in ClientRec /\ Heard(f).missed = 0
           /\ Heard(f).live = f.live /\ Heard(f).chan = f.chan
           /\ Heard(f).redial = f.redial /\ Heard(f).held = f.held
           /\ Ticked(f) \in ClientRec
           /\ Ticked(f).live = f.live /\ Ticked(f).chan = f.chan
           /\ Ticked(f).redial = f.redial /\ Ticked(f).missed <= f.missed + 1
<1>1. /\ Heard(f) \in ClientRec /\ Heard(f).missed = 0
      /\ Heard(f).live = f.live /\ Heard(f).chan = f.chan
      /\ Heard(f).redial = f.redial /\ Heard(f).held = f.held
  BY DEF Heard, ClientRec
<1>2. CASE f.seen
  <2>1. Ticked(f) = [f EXCEPT !.seen = FALSE]
    BY <1>2 DEF Ticked
  <2>2. f.missed \in Nat
    BY DEF ClientRec
  <2>3. Ticked(f) \in ClientRec
    BY <2>1 DEF ClientRec
  <2>4. /\ Ticked(f).live = f.live /\ Ticked(f).chan = f.chan
        /\ Ticked(f).redial = f.redial /\ Ticked(f).missed = f.missed
    BY <2>1 DEF ClientRec
  <2> QED BY <1>1, <2>2, <2>3, <2>4
<1>3. CASE ~f.seen
  <2>1. Ticked(f) = [f EXCEPT !.missed = f.missed + 1]
    BY <1>3 DEF Ticked
  <2>2. f.missed \in Nat
    BY DEF ClientRec
  <2> QED BY <1>1, <2>1, <2>2 DEF ClientRec
<1> QED BY <1>2, <1>3

\* Closing the phone's end touches no channel but the client's.
LEMMA HangupType ==
    ASSUME TypeOK, NEW f
    PROVE  /\ Hangup(f) \in [Channels -> ChanState]
           /\ \A k \in Channels :
                 Hangup(f)[k] # "none" => k # f.chan /\ Hangup(f)[k] = chan[k]
BY DEF TypeOK, Hangup, ChanState

-----------------------------------------------------------------------------
(* The inductive invariant.  OfflineMeansRedial needs to know that a        *)
(* callback that acts is the mounted client's, and OnlyTheBindingDials that *)
(* a client that dials has no channel; NoHastyDrop needs the count of the   *)
(* attached channel to be bounded by its silence.                           *)

MissesAreSilent ==
    cur # None /\ cl[cur].chan # None => cl[cur].missed <= quiet

\* A client that holds a channel is alive, and the channel is open.
HeldIsOpen ==
    \A c \in Clients : cl[c].chan # None => /\ cl[c].live
                                           /\ chan[cl[c].chan] \in {"up", "dead", "ended"}

IInv ==
    /\ TypeOK
    /\ OnlyTheBindingDials
    /\ HeldIsOpen
    /\ OfflineMeansRedial
    /\ cur # None => cl[cur].live
    /\ MissesAreSilent
    /\ NoHastyDrop

\* Before the app resumes there is no client, no channel and no timer.
LEMMA InitIInv == Init => IInv
<1> SUFFICES ASSUME Init PROVE IInv
  OBVIOUS
<1>1. TypeOK
  <2>1. cl \in [Clients -> ClientRec]
    BY BuiltType DEF Init
  <2>2. 0 \in 0 .. MaxToken /\ 0 \in 0 .. MaxMissed + 1
    BY RealtimeAssumption
  <2> QED BY <2>1, <2>2 DEF Init, TypeOK, ClientRec
<1> QED
  BY <1>1, BuiltType DEF Init, IInv, OnlyTheBindingDials, HeldIsOpen, OfflineMeansRedial,
     MissesAreSilent, NoHastyDrop

\* A dial by the only live client, which has no channel: connect of
\* socket_client.dart leaves it with a channel or with a redial.
LEMMA ConnectStep ==
    ASSUME IInv, NEW c \in Clients, NEW clients, NEW chs,
           Connect(c, clients, chs),
           clients \in [Clients -> ClientRec],
           chs \in [Channels -> ChanState],
           NoneHeld(chs),
           clients[c].live, \A x \in Clients : clients[x].chan = None,
           \A x \in Clients : clients[x].live => x = c,
           cur' = c, hasty' = hasty,
           rotation' \in BOOLEAN, token' \in 0 .. MaxToken,
           conn' = conn, view' = view
    PROVE  IInv'
<1> USE RealtimeAssumption
<1>1. CASE \E k \in Channels :
              /\ chs[k] = "none"
              /\ cl' = [clients EXCEPT ![c] = Attached(clients[c], k)]
              /\ chan' = [chs EXCEPT ![k] = "up"]
              /\ quiet' = 0
  <2> PICK k \in Channels :
              /\ chs[k] = "none"
              /\ cl' = [clients EXCEPT ![c] = Attached(clients[c], k)]
              /\ chan' = [chs EXCEPT ![k] = "up"]
              /\ quiet' = 0
    BY <1>1
  <2>1. /\ Attached(clients[c], k) \in ClientRec
        /\ Attached(clients[c], k).live
        /\ Attached(clients[c], k).chan = k
        /\ Attached(clients[c], k).redial = FALSE
        /\ Attached(clients[c], k).missed = 0
    <3>1. PICK f \in ClientRec : f = clients[c] /\ f.live
      OBVIOUS
    <3>2. /\ Attached(f, k) \in ClientRec
          /\ Attached(f, k).live = f.live
          /\ Attached(f, k).chan = k
          /\ Attached(f, k).redial = FALSE
          /\ Attached(f, k).missed = 0
      BY AttachedType, Zenon
    <3> QED BY <3>1, <3>2, Zenon
  <2>2. /\ cl' \in [Clients -> ClientRec]
        /\ cl'[c] = Attached(clients[c], k)
        /\ \A x \in Clients : (cl'[x].live \/ cl'[x].chan # None) => x = c
    BY <2>1
  <2>3. /\ chan' \in [Channels -> ChanState]
        /\ chan'[k] = "up"
        /\ \A x \in Channels : chan'[x] \in {"none", "orphan"} \/ x = k
    BY DEF NoneHeld, ChanState
  <2>4. TypeOK'
    BY <2>2, <2>3 DEF IInv, TypeOK, ClientRec, ChanState
  <2> QED
    BY <2>1, <2>2, <2>3, <2>4
    DEF IInv, OnlyTheBindingDials, HeldIsOpen, OfflineMeansRedial, MissesAreSilent, NoHastyDrop
<1>2. CASE /\ cl' = [clients EXCEPT ![c] = Scheduled(clients[c])]
           /\ \/ chan' = chs
              \/ \E k \in Channels : chs[k] = "none" /\ chan' = [chs EXCEPT ![k] = "orphan"]
           /\ UNCHANGED quiet
  <2>1. /\ Scheduled(clients[c]) \in ClientRec
        /\ Scheduled(clients[c]).live
        /\ Scheduled(clients[c]).chan = None
        /\ Scheduled(clients[c]).redial = TRUE
    <3>1. PICK f \in ClientRec : f = clients[c] /\ f.live /\ f.chan = None
      OBVIOUS
    <3>2. /\ Scheduled(f) \in ClientRec
          /\ Scheduled(f).live = f.live
          /\ Scheduled(f).chan = f.chan
          /\ Scheduled(f).redial = TRUE
      BY ScheduledType, Zenon
    <3> QED BY <3>1, <3>2, Zenon
  <2>2. /\ cl' \in [Clients -> ClientRec]
        /\ cl'[c] = Scheduled(clients[c])
        /\ \A x \in Clients : cl'[x].chan = None /\ (cl'[x].live => x = c)
    BY <1>2, <2>1
  <2>3. chan' \in [Channels -> ChanState] /\ NoneHeld(chan')
    BY <1>2 DEF NoneHeld, ChanState
  <2>4. TypeOK'
    BY <1>2, <2>2, <2>3 DEF IInv, TypeOK, ClientRec, ChanState
  <2> HIDE DEF NoneHeld
  <2>5. OnlyTheBindingDials' /\ HeldIsOpen'
    BY <2>2, <2>3 DEF OnlyTheBindingDials, HeldIsOpen, NoneHeld
  <2> QED
    BY <1>2, <2>1, <2>2, <2>4, <2>5
    DEF IInv, OnlyTheBindingDials, HeldIsOpen, OfflineMeansRedial, MissesAreSilent, NoHastyDrop
<1> QED BY <1>1, <1>2 DEF Connect

\* Once the mounted client's channel is closed, no client holds one.
LEMMA HangupHeld ==
    ASSUME IInv, cur # None, NEW f, f.chan = cl[cur].chan
    PROVE  Hangup(f) \in [Channels -> ChanState] /\ NoneHeld(Hangup(f))
<1>1. /\ Hangup(f) \in [Channels -> ChanState]
      /\ \A k \in Channels :
            Hangup(f)[k] # "none" => k # f.chan /\ Hangup(f)[k] = chan[k]
  BY HangupType DEF IInv
<1>2. \A k \in Channels : Hangup(f)[k] \in {"none", "orphan"}
  BY <1>1 DEF IInv, OnlyTheBindingDials
<1> QED BY <1>1, <1>2 DEF NoneHeld

\* A drop of the mounted client's channel (_handleDrop).
LEMMA DropStep ==
    ASSUME IInv, NEW c \in Clients, NEW f \in ClientRec,
           cl[c].live, f.live, f.chan = cl[c].chan, f.chan # None,
           HandleDrop(c, f),
           UNCHANGED <<cur, rotation, token, view>>,
           quiet' \in 0 .. MaxMissed + 1, hasty' = FALSE
    PROVE  IInv'
<1>1. c = cur
  BY DEF IInv, OnlyTheBindingDials
<1>2. /\ Dropped(f) \in ClientRec /\ Dropped(f).live
      /\ Dropped(f).chan = None /\ Dropped(f).redial = TRUE
  BY DroppedType
<1>3. /\ cl' \in [Clients -> ClientRec] /\ cl'[c] = Dropped(f)
      /\ \A x \in Clients : cl'[x].chan = None /\ (cl'[x].live => x = c)
  BY <1>1, <1>2 DEF HandleDrop, IInv, TypeOK, ClientRec, OnlyTheBindingDials, HeldIsOpen
<1>4. /\ chan' \in [Channels -> ChanState]
      /\ NoneHeld(chan')
  BY <1>1, HangupHeld, RealtimeAssumption DEF HandleDrop
<1>5. conn' \in [connected : BOOLEAN, needsCatchup : BOOLEAN]
  BY DEF HandleDrop, IInv, TypeOK
<1>6. TypeOK'
  BY <1>3, <1>4, <1>5 DEF IInv, TypeOK, ClientRec, ChanState
<1>7. OnlyTheBindingDials' /\ HeldIsOpen'
  <2>1. cur' = c
    BY <1>1
  <2>2. \A k \in Channels : chan'[k] \in {"none", "orphan"}
    BY <1>4 DEF NoneHeld
  <2>3. OnlyTheBindingDials'
    BY <1>3, <2>1, <2>2, RealtimeAssumption DEF OnlyTheBindingDials
  <2> QED BY <1>3, <2>3 DEF HeldIsOpen
<1> QED
  BY <1>1, <1>2, <1>3, <1>6, <1>7
  DEF IInv, OnlyTheBindingDials, HeldIsOpen, OfflineMeansRedial, MissesAreSilent, NoHastyDrop

\* A step that changes only traffic fields of the mounted client.
LEMMA TrafficStep ==
    ASSUME IInv, NEW c \in Clients, NEW f \in ClientRec,
           cl[c].live, f.live, f.chan = cl[c].chan, f.redial = cl[c].redial,
           f.chan # None => f.missed <= quiet',
           cl' = [cl EXCEPT ![c] = f],
           UNCHANGED <<cur, rotation, token, chan, hasty>>,
           conn' \in [connected : BOOLEAN, needsCatchup : BOOLEAN],
           view' \in [loading : BOOLEAN, frozen : BOOLEAN],
           quiet' \in 0 .. MaxMissed + 1
    PROVE  IInv'
<1>1. c = cur
  BY DEF IInv, OnlyTheBindingDials
<1>2. cl \in [Clients -> ClientRec]
  BY DEF IInv, TypeOK, ClientRec
<1>3. /\ cl' \in [Clients -> ClientRec] /\ cl'[c] = f
      /\ \A x \in Clients \ {c} : cl'[x] = cl[x]
  BY <1>2
<1>4. TypeOK'
  BY <1>3 DEF IInv, TypeOK, ClientRec
<1> QED
  BY <1>1, <1>3, <1>4
  DEF IInv, OnlyTheBindingDials, HeldIsOpen, OfflineMeansRedial, MissesAreSilent, NoHastyDrop

\* Every callback of the phone and every move of the peer keeps the invariant.
LEMMA StepIInv == IInv /\ [Next]_vars => IInv'
<1> SUFFICES ASSUME IInv, [Next]_vars PROVE IInv'
  OBVIOUS
<1> USE RealtimeAssumption
<1>0. /\ cl \in [Clients -> ClientRec]
      /\ cur \in Clients \cup {None} /\ token \in 0 .. MaxToken /\ rotation \in BOOLEAN
      /\ chan \in [Channels -> ChanState]
      /\ quiet \in 0 .. MaxMissed + 1 /\ hasty = FALSE
      /\ conn \in [connected : BOOLEAN, needsCatchup : BOOLEAN]
      /\ view \in [loading : BOOLEAN, frozen : BOOLEAN]
  BY DEF IInv, TypeOK, ClientRec, ChanState, NoHastyDrop
<1>1. CASE Resume
  <2> PICK c \in Clients : /\ ~cl[c].live
                           /\ cur' = c
                           /\ Connect(c, [cl EXCEPT ![c] = Built(token)], chan)
    BY <1>1 DEF Resume
  <2> DEFINE clients == [cl EXCEPT ![c] = Built(token)]
  <2>1. \A x \in Clients : ~cl[x].live /\ cl[x].chan = None
    BY <1>1 DEF Resume, IInv, OnlyTheBindingDials, HeldIsOpen
  <2>2. NoneHeld(chan)
    BY <1>1 DEF Resume, IInv, OnlyTheBindingDials, NoneHeld
  <2>3. Built(token) \in ClientRec /\ Built(token).live /\ Built(token).chan = None
    BY <1>0, BuiltType
  <2>4. /\ clients \in [Clients -> ClientRec]
        /\ clients[c].live
        /\ \A x \in Clients : clients[x].chan = None /\ (clients[x].live => x = c)
    BY <1>0, <2>1, <2>3
  <2>5. Connect(c, clients, chan)
    OBVIOUS
  <2>6. /\ hasty' = hasty /\ rotation' \in BOOLEAN /\ token' \in 0 .. MaxToken
        /\ conn' = conn /\ view' = view
    BY <1>0, <1>1 DEF Resume
  <2> HIDE DEF clients
  <2> QED BY <1>0, <2>2, <2>4, <2>5, <2>6, ConnectStep
<1>2. CASE Pause
  <2>1. /\ cur \in Clients /\ cur' = None /\ rotation' = FALSE
        /\ cl' = [cl EXCEPT ![cur] = Disposed]
        /\ chan' = Hangup(cl[cur])
        /\ UNCHANGED <<token, conn, view, quiet, hasty>>
    BY <1>0, <1>2 DEF Pause, history
  <2>2. /\ cl' \in [Clients -> ClientRec]
        /\ \A x \in Clients : ~cl'[x].live /\ cl'[x].chan = None
    BY <1>0, <2>1, BuiltType DEF IInv, OnlyTheBindingDials, HeldIsOpen
  <2>3. /\ chan' \in [Channels -> ChanState]
        /\ NoneHeld(chan')
    BY <2>1, HangupHeld, RealtimeAssumption
  <2>4. TypeOK'
    BY <1>0, <2>1, <2>2, <2>3 DEF TypeOK, ClientRec, ChanState
  <2>5. OnlyTheBindingDials' /\ HeldIsOpen'
    BY <2>2, <2>3 DEF OnlyTheBindingDials, HeldIsOpen, NoneHeld
  <2> QED
    BY <1>0, <2>1, <2>2, <2>4, <2>5
    DEF IInv, OnlyTheBindingDials, HeldIsOpen, OfflineMeansRedial, MissesAreSilent, NoHastyDrop
<1>3. CASE NewToken
  <2>1. token' \in 0 .. MaxToken /\ token + 1 \in 0 .. MaxToken
        /\ UNCHANGED <<conn, view, hasty>>
    BY <1>0, <1>3 DEF NewToken
  <2>2. CASE UNCHANGED <<cur, rotation, cl, chan, quiet>>
    <3>1. TypeOK'
      BY <1>0, <2>1, <2>2 DEF TypeOK, ClientRec, ChanState
    <3> QED
      BY <2>1, <2>2, <3>1
      DEF IInv, OnlyTheBindingDials, HeldIsOpen, OfflineMeansRedial, MissesAreSilent, NoHastyDrop
  <2>3. CASE /\ cur # None /\ ~rotation
             /\ rotation' = TRUE
             /\ \E c \in Clients :
                   /\ ~cl[c].live
                   /\ cur' = c
                   /\ Connect(c, [cl EXCEPT ![c] = Built(token + 1), ![cur] = Disposed],
                              Hangup(cl[cur]))
    <3> PICK c \in Clients :
                   /\ ~cl[c].live
                   /\ cur' = c
                   /\ Connect(c, [cl EXCEPT ![c] = Built(token + 1), ![cur] = Disposed],
                              Hangup(cl[cur]))
      BY <2>3
    <3> DEFINE clients == [cl EXCEPT ![c] = Built(token + 1), ![cur] = Disposed]
               chs == Hangup(cl[cur])
    <3>1. cur \in Clients /\ c # cur
      BY <1>0, <2>3 DEF IInv
    <3>2. Built(token + 1) \in ClientRec /\ Built(token + 1).live
          /\ Built(token + 1).chan = None
      BY <2>1, BuiltType
    <3>3. /\ clients \in [Clients -> ClientRec]
          /\ clients[c].live
          /\ \A x \in Clients : clients[x].chan = None /\ (clients[x].live => x = c)
      BY <1>0, <3>1, <3>2, BuiltType DEF IInv, OnlyTheBindingDials, HeldIsOpen
    <3>4. /\ chs \in [Channels -> ChanState]
          /\ NoneHeld(chs)
      BY <3>1, HangupHeld, RealtimeAssumption
    <3>5. Connect(c, clients, chs)
      OBVIOUS
    <3> HIDE DEF clients, chs
    <3> QED BY <2>1, <2>3, <3>3, <3>4, <3>5, ConnectStep
  <2> QED BY <1>3, <2>2, <2>3 DEF NewToken
<1>4. CASE RotationDone \/ OpenView \/ SnapshotAnswered
  <2>1. /\ UNCHANGED <<cur, token, cl, chan, conn, quiet, hasty>>
        /\ rotation' \in BOOLEAN
        /\ view' \in [loading : BOOLEAN, frozen : BOOLEAN]
    <3>1. CASE RotationDone
      BY <1>0, <3>1 DEF RotationDone, history
    <3>2. CASE OpenView
      BY <1>0, <3>2 DEF OpenView, history
    <3>3. CASE SnapshotAnswered
      <4>1. PICK ok \in BOOLEAN :
               view' = [loading |-> FALSE, frozen |-> view.frozen /\ ~ok]
        BY <3>3 DEF SnapshotAnswered
      <4>2. (view.frozen /\ ~ok) \in BOOLEAN
        BY Zenon
      <4>3. view' \in [loading : BOOLEAN, frozen : BOOLEAN]
        BY <4>1, <4>2
      <4> QED BY <1>0, <3>3, <4>3 DEF SnapshotAnswered, history
    <3> QED BY <1>4, <3>1, <3>2, <3>3
  <2>2. TypeOK'
    BY <1>0, <2>1 DEF TypeOK, ClientRec, ChanState
  <2> QED
    BY <2>1, <2>2
    DEF IInv, OnlyTheBindingDials, HeldIsOpen, OfflineMeansRedial, MissesAreSilent, NoHastyDrop
<1>5. ASSUME NEW c \in Clients, Redial(c) PROVE IInv'
  <2>1. cl[c].live /\ cl[c].redial /\ c = cur /\ cl[c].chan = None
    BY <1>5 DEF Redial, IInv, OnlyTheBindingDials, OfflineMeansRedial
  <2> DEFINE clients == [cl EXCEPT ![c].redial = FALSE]
  <2>2. Connect(c, clients, chan)
    BY <1>5, <2>1 DEF Redial
  <2>3. /\ clients \in [Clients -> ClientRec]
        /\ clients[c].live
        /\ \A x \in Clients : clients[x].chan = None /\ (clients[x].live => x = c)
    <3> DEFINE f == [cl[c] EXCEPT !.redial = FALSE]
    <3>1. f \in ClientRec /\ f.live = cl[c].live /\ f.chan = cl[c].chan
      BY <1>0, FiredType
    <3>2. clients = [cl EXCEPT ![c] = f]
      OBVIOUS
    <3> HIDE DEF f, clients
    <3> QED BY <1>0, <2>1, <3>1, <3>2 DEF IInv, OnlyTheBindingDials, HeldIsOpen
  <2>4. NoneHeld(chan)
    BY <1>0, <2>1 DEF IInv, OnlyTheBindingDials, NoneHeld
  <2>5. /\ cur' = c /\ hasty' = hasty /\ rotation' \in BOOLEAN
        /\ token' \in 0 .. MaxToken /\ conn' = conn /\ view' = view
    BY <1>0, <1>5, <2>1 DEF Redial
  <2> HIDE DEF clients
  <2> QED BY <1>0, <2>2, <2>3, <2>4, <2>5, ConnectStep
<1>6. ASSUME NEW c \in Clients, OnDone(c) PROVE IInv'
  <2>1. /\ cl[c] \in ClientRec /\ cl[c].live /\ cl[c].chan # None
        /\ HandleDrop(c, cl[c])
        /\ UNCHANGED <<cur, rotation, token, view>>
        /\ quiet' \in 0 .. MaxMissed + 1 /\ hasty' = FALSE
    BY <1>0, <1>6 DEF OnDone, history
  <2> QED BY <2>1, DropStep
<1>7. ASSUME NEW c \in Clients, NEW kind, OnRaw(c, kind) PROVE IInv'
  <2> DEFINE h == Heard(cl[c])
  <2>1. /\ cl[c] \in ClientRec /\ cl[c].live /\ quiet' = 0
        /\ UNCHANGED <<cur, rotation, token, chan, hasty>>
    BY <1>0, <1>7 DEF OnRaw
  <2>2. /\ h \in ClientRec /\ h.missed = 0 /\ h.live
        /\ h.chan = cl[c].chan /\ h.redial = cl[c].redial /\ h.held = cl[c].held
    BY <2>1, HeartbeatType
  <2>3. /\ conn' \in [connected : BOOLEAN, needsCatchup : BOOLEAN]
        /\ view' \in [loading : BOOLEAN, frozen : BOOLEAN]
    BY <1>0, <1>7 DEF OnRaw, NeedCatchup
  <2>4. quiet' \in 0 .. MaxMissed + 1 /\ 0 <= quiet'
    BY <2>1
  <2>5. CASE cl' = [cl EXCEPT ![c] = h]
    <3> HIDE DEF h
    <3> QED BY <2>1, <2>2, <2>3, <2>4, <2>5, TrafficStep
  <2>6. CASE cl' = [cl EXCEPT ![c] = [h EXCEPT !.told = TRUE]]
    <3> DEFINE f == [h EXCEPT !.told = TRUE]
    <3> HIDE DEF h
    <3>1. /\ f \in ClientRec /\ f.missed = 0 /\ f.live
          /\ f.chan = cl[c].chan /\ f.redial = cl[c].redial
      BY <2>2 DEF ClientRec
    <3>2. cl' = [cl EXCEPT ![c] = f]
      BY <2>6
    <3> HIDE DEF f
    <3> QED BY <2>1, <2>3, <2>4, <3>1, <3>2, TrafficStep
  <2>7. CASE ~Full(cl[c]) /\ cl' = [cl EXCEPT ![c] = Buffered(cl[c])]
    <3> DEFINE f == [h EXCEPT !.held = cl[c].held + 1]
    <3>1. cl[c].held + 1 \in 0 .. Capacity
      BY <2>1, <2>2, <2>7 DEF Full, ClientRec
    <3> HIDE DEF h
    <3>2. /\ f \in ClientRec /\ f.missed = 0 /\ f.live
          /\ f.chan = cl[c].chan /\ f.redial = cl[c].redial
      BY <2>2, <3>1 DEF ClientRec
    <3>3. cl' = [cl EXCEPT ![c] = f]
      BY <2>7 DEF Buffered, h
    <3> HIDE DEF f
    <3> QED BY <2>1, <2>3, <2>4, <3>2, <3>3, TrafficStep
  <2>8. \/ cl' = [cl EXCEPT ![c] = h]
        \/ cl' = [cl EXCEPT ![c] = [h EXCEPT !.told = TRUE]]
        \/ ~Full(cl[c]) /\ cl' = [cl EXCEPT ![c] = Buffered(cl[c])]
    BY <1>7 DEF OnRaw
  <2> QED BY <2>5, <2>6, <2>7, <2>8
<1>8. ASSUME NEW c \in Clients, HeartbeatTick(c) PROVE IInv'
  <2> DEFINE f == Ticked(cl[c])
             silent == IF quiet < MaxMissed + 1 THEN quiet + 1 ELSE quiet
  <2>1. /\ cl[c] \in ClientRec /\ cl[c].live /\ cl[c].chan # None /\ c = cur
        /\ UNCHANGED <<cur, rotation, token, view>>
    BY <1>0, <1>8 DEF HeartbeatTick, IInv, OnlyTheBindingDials
  <2>2. /\ f \in ClientRec /\ f.live /\ f.chan = cl[c].chan
        /\ f.redial = cl[c].redial /\ f.missed <= cl[c].missed + 1
    BY <2>1, HeartbeatType
  <2>3. cl[c].missed <= quiet /\ cl[c].missed \in Nat /\ f.missed \in Nat
    BY <2>1, <2>2 DEF IInv, MissesAreSilent, ClientRec
  <2>4. silent \in 0 .. MaxMissed + 1
    BY <1>0
  <2>5. f.missed <= silent \/ silent = MaxMissed + 1
    BY <1>0, <2>2, <2>3
  <2>6. CASE HandleDrop(c, cl[c]) /\ UNCHANGED history
    BY <1>0, <2>1, <2>6, DropStep DEF history
  <2>7. CASE /\ f.missed >= MaxMissed
             /\ HandleDrop(c, f)
             /\ hasty' = (hasty \/ silent < MaxMissed)
             /\ quiet' = silent
    <3>1. ~(silent < MaxMissed)
      BY <2>3, <2>4, <2>5, <2>7
    <3>2. hasty' = FALSE
      BY <1>0, <2>7, <3>1
    <3> HIDE DEF f, silent
    <3> QED BY <2>1, <2>2, <2>4, <2>7, <3>2, DropStep
  <2>8. CASE /\ f.missed < MaxMissed
             /\ cl' = [cl EXCEPT ![c] = f]
             /\ quiet' = silent
             /\ UNCHANGED <<chan, conn, hasty>>
    <3>1. f.missed <= quiet'
      BY <2>3, <2>4, <2>5, <2>8
    <3> HIDE DEF f, silent
    <3> QED BY <1>0, <2>1, <2>2, <2>4, <2>8, <3>1, TrafficStep
  <2> QED BY <1>8, <2>6, <2>7, <2>8 DEF HeartbeatTick
<1>9. ASSUME NEW k \in Channels, NEW how \in {"dead", "ended"}, PeerLeaves(k, how)
      PROVE  IInv'
  <2>1. /\ chan' \in [Channels -> ChanState]
        /\ \A x \in Channels : \/ chan'[x] = chan[x]
                               \/ chan[x] = "up" /\ chan'[x] \in {"dead", "ended"}
        /\ UNCHANGED <<cur, rotation, token, cl, conn, view, quiet, hasty>>
    BY <1>0, <1>9 DEF PeerLeaves, history, ChanState
  <2>2. TypeOK'
    BY <1>0, <2>1 DEF TypeOK, ClientRec, ChanState
  <2>3. OnlyTheBindingDials'
    BY <2>1 DEF IInv, OnlyTheBindingDials
  <2>4. HeldIsOpen'
    BY <1>0, <2>1 DEF IInv, HeldIsOpen, ClientRec
  <2> QED
    BY <2>1, <2>2, <2>3, <2>4
    DEF IInv, OnlyTheBindingDials, HeldIsOpen, OfflineMeansRedial, MissesAreSilent, NoHastyDrop
<1>10. ASSUME NEW k \in Channels, OrphanGone(k) PROVE IInv'
  <2>1. /\ chan[k] = "orphan" /\ chan' = [chan EXCEPT ![k] = "none"]
        /\ UNCHANGED <<cur, rotation, token, cl, conn, view, quiet, hasty>>
    BY <1>10 DEF OrphanGone, history
  <2>2. TypeOK'
    BY <1>0, <2>1 DEF TypeOK, ClientRec, ChanState
  <2>3. OnlyTheBindingDials'
    BY <1>0, <2>1 DEF IInv, OnlyTheBindingDials
  <2>4. HeldIsOpen'
    BY <1>0, <2>1 DEF IInv, OnlyTheBindingDials, HeldIsOpen, ClientRec
  <2> QED
    BY <2>1, <2>2, <2>3, <2>4
    DEF IInv, OfflineMeansRedial, MissesAreSilent, NoHastyDrop
<1>11. CASE UNCHANGED vars
  BY <1>11 DEF vars, IInv, TypeOK, OnlyTheBindingDials, HeldIsOpen, OfflineMeansRedial,
     MissesAreSilent, NoHastyDrop
<1> QED
  BY <1>1, <1>2, <1>3, <1>4, <1>5, <1>6, <1>7, <1>8, <1>9, <1>10, <1>11 DEF Next

\* The strengthening holds throughout.
LEMMA Inductive == Spec => []IInv
<1> QED BY InitIInv, StepIInv, PTL DEF Spec

-----------------------------------------------------------------------------
\* The scope, its clients and channels keep their types, for any tokens.
THEOREM TypeCorrect == Spec => []TypeOK
<1>1. IInv => TypeOK
  BY DEF IInv
<1> QED BY <1>1, Inductive, PTL

\* "A disposed binding can never redial" (realtime_binding.dart:5-7): however
\* tokens, pauses, drops and timers interleave, no client but the
\* mounted binding's is alive, and every open socket is the one it holds or one
\* whose subscribe threw.
THEOREM OnlyBindingDials == Spec => []OnlyTheBindingDials
<1>1. IInv => OnlyTheBindingDials
  BY DEF IInv
<1> QED BY <1>1, Inductive, PTL

\* A mounted binding is never stuck offline (_handleDrop, connect): it has a
\* channel or a redial under way, and never both.
THEOREM NeverStuckOffline == Spec => []OfflineMeansRedial
<1>1. IInv => OfflineMeansRedial
  BY DEF IInv
<1> QED BY <1>1, Inductive, PTL

\* No channel is given up before maxMissed ticks without a message on it
\* (HeartbeatTracker), for any maxMissed.
THEOREM SilenceIsMeasured == Spec => []NoHastyDrop
<1>1. IInv => NoHastyDrop
  BY DEF IInv
<1> QED BY <1>1, Inductive, PTL

-----------------------------------------------------------------------------
(* The Add Computer flow: its constants and its variables are those of      *)
(* AddComputer, and share nothing with the above.                           *)

\* While a session is being minted the screen has none, and the button is off.
MintingIsBlank == ~gone /\ create.at # "idle" => sess = NoSession /\ busy

\* A session on the screen has been shown, and one shown as over is spent.
ScreenIsShown ==
    /\ sess # NoSession => sess \in shown
    /\ sess # NoSession /\ stage \in Terminal => sess \in spent

\* Sessions on the screen, and the one in the answer, are sessions of the backend.
ShownExist ==
    /\ \A n \in shown : server[n] # "absent"
    /\ create.at = "made" => create.of \in Sessions /\ server[create.of] # "absent"

\* What a read shows as done.
Verdicts == Decided \cup {"consumed"}

\* A call in flight is about a session that was shown, and a session it says is
\* spent is closed at the backend.
CallsAreOfShown ==
    /\ \A i \in 1 .. MaxPolls :
          /\ polls[i].reply # "idle" => polls[i].of \in shown
          /\ polls[i].reply \in Verdicts => polls[i].of \in Closed
    /\ \A i \in 1 .. MaxDecides :
          /\ decides[i].reply # "idle" => decides[i].of \in shown
          /\ decides[i].reply \in {"ok", "consumed"} => decides[i].of \in Closed

AddInv ==
    /\ AddTypeOK /\ MintingIsBlank /\ ScreenIsShown /\ ShownExist /\ CallsAreOfShown
    /\ LiveNeverReplaced /\ DoneIsEarned

-----------------------------------------------------------------------------
(* What one emit does.                                                      *)

PhoneType ==
    /\ stage \in Live \cup Terminal
    /\ sess \in Sessions \cup {NoSession} /\ join \in Sessions \cup {NoSession}
    /\ busy \in BOOLEAN
    /\ shown \subseteq Sessions /\ spent \subseteq shown

CallsType ==
    /\ polls \in [1 .. MaxPolls ->
                    [of : Sessions \cup {NoSession},
                     reply : {"idle", "sent", "error", "open", "joined", "expired",
                                "consumed"} \cup Decided]]
    /\ decides \in [1 .. MaxDecides ->
                      [of : Sessions \cup {NoSession}, verdict : Decided,
                       on : Sessions \cup {NoSession},
                       reply : {"idle", "sent", "ok", "consumed", "expired", "error", "closed"}]]
    /\ \A i \in 1 .. MaxDecides : decides[i].reply # "idle" => decides[i].of \in Sessions

\* The absence of a session is not a session.
LEMMA NoneIsNoSession == NoSession \notin Sessions
BY DEF NoSession, Sessions

\* A backend that stands still keeps its sessions closed.
LEMMA Calm == UNCHANGED backend => UNCHANGED <<server, stamped>> /\ Closed' = Closed
BY DEF backend, Closed

\* An emit publishes its arguments unless the flow is closed; what was shown
\* and what was over stays so.
LEMMA EmitFacts ==
    ASSUME AddInv,
           NEW st \in Live \cup Terminal, NEW s \in Sessions \cup {NoSession},
           NEW j \in Sessions \cup {NoSession}, NEW b \in BOOLEAN,
           Emit(st, s, j, b)
    PROVE  /\ PhoneType' /\ ScreenIsShown'
           /\ shown \subseteq shown' /\ spent \subseteq spent'
           /\ shown' \subseteq shown \cup ({s} \ {NoSession})
           /\ gone => UNCHANGED <<stage, sess, join, busy, shown, spent>>
           /\ ~gone => stage' = st /\ sess' = s /\ busy' = b
<1>1. PhoneType /\ ScreenIsShown
  BY DEF AddInv, AddTypeOK, PhoneType
<1>2. CASE gone
  <2>1. UNCHANGED <<stage, sess, join, busy, shown, spent>>
    BY <1>2 DEF Emit
  <2> QED BY <1>1, <1>2, <2>1 DEF PhoneType, ScreenIsShown
<1>3. CASE ~gone
  <2>1. stage' = st /\ sess' = s /\ join' = j /\ busy' = b
    BY <1>3 DEF Emit
  <2>2. /\ shown' = IF s = NoSession THEN shown ELSE shown \cup {s}
        /\ spent' = IF s # NoSession /\ st \in Terminal THEN spent \cup {s} ELSE spent
    BY <1>3 DEF Emit
  <2> QED BY <1>1, <1>3, <2>1, <2>2 DEF PhoneType, ScreenIsShown
<1> QED BY <1>2, <1>3

\* An emit that keeps the session keeps the sessions that are over.
LEMMA EmitKeepsSession ==
    ASSUME AddInv,
           NEW st \in Live \cup Terminal, NEW j \in Sessions \cup {NoSession},
           NEW b \in BOOLEAN,
           Emit(st, sess, j, b)
    PROVE  LiveNeverReplaced' /\ sess' = sess
<1>1. sess \in Sessions \cup {NoSession}
  BY DEF AddInv, AddTypeOK
<1>2. /\ spent \subseteq spent'
      /\ shown' \subseteq shown \cup ({sess} \ {NoSession})
      /\ sess' = sess
  BY <1>1, EmitFacts
<1> QED BY <1>2 DEF AddInv, LiveNeverReplaced

-----------------------------------------------------------------------------
(* The actions, one by one.                                                 *)

\* Once the screen says it is over, every session it has shown is.
LEMMA DoneShown ==
    ASSUME ScreenIsShown', LiveNeverReplaced', PhoneType', stage' = "done"
    PROVE  shown' \subseteq spent'
BY NoneIsNoSession DEF ScreenIsShown, LiveNeverReplaced, PhoneType, Terminal

\* What a step of the phone that leaves the calls alone has to show.
LEMMA PhoneStep ==
    ASSUME AddInv, PhoneType', ScreenIsShown', LiveNeverReplaced', MintingIsBlank',
           shown \subseteq shown', UNCHANGED <<polls, decides, backend, lapsed>>,
           {polling', gone'} \subseteq BOOLEAN,
           \A n \in shown' : server[n] # "absent",
           create' \in [at : {"idle", "sent", "made", "failed"}, of : Sessions \cup {NoSession}],
           create'.at = "made" => create' = create,
           stage' = "done" => shown' \cap Closed # {}
    PROVE  AddInv'
<1> USE Calm
<1>1. AddTypeOK'
  BY DEF AddInv, AddTypeOK, PhoneType
<1>2. ShownExist'
  BY DEF AddInv, ShownExist
<1>3. CallsAreOfShown'
  BY DEF AddInv, CallsAreOfShown
<1>4. DoneIsEarned'
  BY DoneShown DEF DoneIsEarned
<1> QED BY <1>1, <1>2, <1>3, <1>4 DEF AddInv

\* The screen is cleared only of a session that is over.
LEMMA CreateSessionStep == AddInv /\ CreateSession => AddInv'
<1> SUFFICES ASSUME AddInv, CreateSession PROVE AddInv'
  OBVIOUS
<1>1. /\ ~gone /\ ~busy /\ (sess = NoSession \/ stage \in Terminal)
      /\ Emit("create", NoSession, NoSession, TRUE)
      /\ create' = [at |-> "sent", of |-> NoSession]
      /\ polling' = FALSE /\ gone' = gone
      /\ UNCHANGED <<polls, decides, backend, lapsed>>
  BY DEF CreateSession
<1>2. "create" \in Live \cup Terminal /\ NoSession \in Sessions \cup {NoSession}
  BY DEF Live
<1>3. /\ PhoneType' /\ ScreenIsShown'
      /\ shown \subseteq shown' /\ spent \subseteq spent'
      /\ shown' \subseteq shown \cup ({NoSession} \ {NoSession})
      /\ stage' = "create" /\ sess' = NoSession /\ busy' = TRUE
  BY <1>1, <1>2, EmitFacts
<1>4. shown \subseteq spent
  BY <1>1, NoneIsNoSession DEF AddInv, LiveNeverReplaced, ScreenIsShown, AddTypeOK
<1>5. LiveNeverReplaced' /\ MintingIsBlank'
  BY <1>1, <1>3, <1>4 DEF LiveNeverReplaced, MintingIsBlank
<1>6. {polling', gone'} \subseteq BOOLEAN
  BY <1>1 DEF AddInv, AddTypeOK
<1>7. \A n \in shown' : server[n] # "absent"
  BY <1>3 DEF AddInv, ShownExist
<1>8. /\ create' \in [at : {"idle", "sent", "made", "failed"}, of : Sessions \cup {NoSession}]
      /\ create'.at # "made"
  BY <1>1
<1>9. stage' # "done"
  BY <1>3
<1> QED BY <1>1, <1>3, <1>5, <1>6, <1>7, <1>8, <1>9, PhoneStep

\* The new session comes onto a blank screen.
LEMMA CreateAnsweredStep == AddInv /\ CreateAnswered => AddInv'
<1> SUFFICES ASSUME AddInv, CreateAnswered PROVE AddInv'
  OBVIOUS
<1>1. /\ create.at \in {"made", "failed"}
      /\ create' = [at |-> "idle", of |-> NoSession]
      /\ gone' = gone /\ UNCHANGED <<polls, decides, backend, lapsed>>
  BY DEF CreateAnswered
<1>2. MintingIsBlank' /\ create'.at # "made"
  BY <1>1 DEF MintingIsBlank
<1>3. join \in Sessions \cup {NoSession} /\ sess \in Sessions \cup {NoSession}
      /\ stage \in Live \cup Terminal
  BY DEF AddInv, AddTypeOK
<1>4. CASE create.at = "made" /\ Emit("qr", create.of, join, FALSE) /\ polling' = TRUE
  <2>1. create.of \in Sessions /\ server[create.of] # "absent"
    BY <1>4 DEF AddInv, ShownExist
  <2>2. "qr" \in Live \cup Terminal
    BY DEF Live
  <2>3. /\ PhoneType' /\ ScreenIsShown'
        /\ shown \subseteq shown' /\ spent \subseteq spent'
        /\ shown' \subseteq shown \cup ({create.of} \ {NoSession})
        /\ gone => UNCHANGED <<stage, sess, join, busy, shown, spent>>
        /\ ~gone => stage' = "qr" /\ sess' = create.of
    BY <1>3, <1>4, <2>1, <2>2, EmitFacts
  <2>4. ~gone => sess = NoSession
    BY <1>1 DEF AddInv, MintingIsBlank
  <2>5. LiveNeverReplaced'
    <3>1. shown \ {sess} \subseteq spent /\ NoSession \notin shown
      BY NoneIsNoSession DEF AddInv, LiveNeverReplaced, AddTypeOK
    <3> QED BY <2>3, <2>4, <3>1 DEF LiveNeverReplaced
  <2>6. {polling', gone'} \subseteq BOOLEAN
    BY <1>1, <1>4 DEF AddInv, AddTypeOK
  <2>7. \A n \in shown' : server[n] # "absent"
    BY <2>1, <2>3 DEF AddInv, ShownExist
  <2>8. stage' = "done" => shown' \cap Closed # {}
    BY <2>3 DEF AddInv, AddTypeOK, DoneIsEarned
  <2> QED BY <1>1, <1>2, <2>3, <2>5, <2>6, <2>7, <2>8, PhoneStep
<1>5. CASE Emit(stage, sess, join, FALSE) /\ polling' = polling
  <2>1. /\ PhoneType' /\ ScreenIsShown'
        /\ shown \subseteq shown'
        /\ shown' \subseteq shown \cup ({sess} \ {NoSession})
        /\ stage' = stage
    BY <1>3, <1>5, EmitFacts
  <2>2. LiveNeverReplaced'
    BY <1>3, <1>5, EmitKeepsSession
  <2>3. shown' = shown
    BY <2>1 DEF AddInv, ScreenIsShown
  <2>4. {polling', gone'} \subseteq BOOLEAN
    BY <1>1, <1>5 DEF AddInv, AddTypeOK
  <2>5. \A n \in shown' : server[n] # "absent"
    BY <2>3 DEF AddInv, ShownExist
  <2>6. stage' = "done" => shown' \cap Closed # {}
    BY <2>1, <2>3 DEF AddInv, AddTypeOK, DoneIsEarned
  <2> QED BY <1>1, <1>2, <2>1, <2>2, <2>4, <2>5, <2>6, PhoneStep
<1> QED BY <1>4, <1>5 DEF CreateAnswered

\* A step that emits a stage for the session on the screen.
LEMMA KeepStep ==
    ASSUME AddInv, NEW st \in Live \cup Terminal, NEW j \in Sessions \cup {NoSession},
           Emit(st, sess, j, busy),
           polling' \in BOOLEAN, UNCHANGED <<gone, lapsed, create, backend>>,
           CallsType', CallsAreOfShown',
           st = "done" => shown \cap Closed # {}
    PROVE  AddInv'
<1> USE Calm
<1>1. busy \in BOOLEAN /\ sess \in Sessions \cup {NoSession} /\ gone \in BOOLEAN
  BY DEF AddInv, AddTypeOK
<1>2. /\ PhoneType' /\ ScreenIsShown'
      /\ shown \subseteq shown'
      /\ shown' \subseteq shown \cup ({sess} \ {NoSession})
      /\ gone => UNCHANGED <<stage, sess, join, busy, shown, spent>>
      /\ ~gone => stage' = st /\ busy' = busy
  BY <1>1, EmitFacts
<1>3. LiveNeverReplaced' /\ sess' = sess
  BY <1>1, EmitKeepsSession
<1>4. shown' = shown
  BY <1>2 DEF AddInv, ScreenIsShown
<1>5. AddTypeOK'
  BY <1>1, <1>2 DEF AddInv, AddTypeOK, PhoneType, CallsType
<1>6. MintingIsBlank' /\ ShownExist'
  BY <1>2, <1>3, <1>4 DEF AddInv, MintingIsBlank, ShownExist
<1>7. DoneIsEarned'
  BY <1>2, <1>3, <1>4, DoneShown DEF AddInv, DoneIsEarned
<1> QED BY <1>2, <1>3, <1>5, <1>6, <1>7 DEF AddInv

\* The answer of a read leaves its slot free.
LEMMA ReadAnsweredStep ==
    ASSUME AddInv, NEW i \in 1 .. MaxPolls, ReadAnswered(i)
    PROVE  AddInv'
<1>1. /\ polls' = [polls EXCEPT ![i] = NoPoll]
      /\ polls[i].reply \notin {"idle", "sent"}
      /\ UNCHANGED <<lapsed, create, decides, backend>>
  BY DEF ReadAnswered
<1>2. /\ polls[i].of \in shown /\ polls[i].of \in Sessions
      /\ polls[i].reply \in Verdicts => polls[i].of \in Closed
  BY <1>1 DEF AddInv, CallsAreOfShown, AddTypeOK
<1>3. NoPoll \in [of : Sessions \cup {NoSession},
                  reply : {"idle", "sent", "error", "open", "joined", "expired", "consumed"}
                            \cup Decided]
  BY DEF NoPoll
<1>4. CallsType'
  BY <1>1, <1>3 DEF AddInv, AddTypeOK, CallsType
<1>5. ASSUME shown' = shown PROVE CallsAreOfShown'
  <2>1. \A k \in 1 .. MaxPolls : polls'[k] = IF k = i THEN NoPoll ELSE polls[k]
    BY <1>1 DEF AddInv, AddTypeOK
  <2>2. NoPoll.reply = "idle" /\ "idle" \notin Verdicts
    BY DEF NoPoll, Decided, Verdicts
  <2> QED BY <1>1, <1>5, <2>1, <2>2, Calm DEF AddInv, CallsAreOfShown
<1>6. /\ join \in Sessions \cup {NoSession} /\ sess \in Sessions \cup {NoSession}
      /\ polling \in BOOLEAN
      /\ busy \in BOOLEAN
  BY DEF AddInv, AddTypeOK
<1>7. ASSUME NEW st \in Live \cup Terminal, NEW j \in Sessions \cup {NoSession},
             Emit(st, sess, j, busy), polling' \in BOOLEAN, gone' = gone,
             st = "done" => shown \cap Closed # {}
      PROVE  AddInv'
  <2>1. /\ shown \subseteq shown'
        /\ shown' \subseteq shown \cup ({sess} \ {NoSession})
    BY <1>6, <1>7, EmitFacts
  <2>2. shown' = shown
    BY <2>1 DEF AddInv, ScreenIsShown
  <2> QED BY <1>1, <1>4, <1>5, <1>7, <2>2, KeepStep
<1>8. CASE /\ polls[i].reply = "expired" /\ polling' = FALSE
           /\ EmitStage("expired") /\ gone' = gone
  BY <1>6, <1>7, <1>8 DEF EmitStage, Terminal
<1>9. CASE /\ polls[i].reply \in Verdicts /\ polling' = FALSE
           /\ EmitStage("done") /\ gone' = gone
  BY <1>2, <1>6, <1>7, <1>9 DEF EmitStage, Terminal
<1>10. CASE Emit("waiting", sess, polls[i].of, busy) /\ polling' = polling /\ gone' = gone
  BY <1>2, <1>6, <1>7, <1>10 DEF Live
<1>11. CASE Ignore
  <2>1. UNCHANGED <<stage, sess, join, busy, polling, gone, shown, spent>>
    BY <1>11 DEF Ignore, phone, shownVars
  <2>2. AddTypeOK'
    BY <1>1, <1>4, <2>1, Calm DEF AddInv, AddTypeOK, CallsType
  <2>3. CallsAreOfShown'
    BY <1>5, <2>1
  <2> QED BY <1>1, <2>1, <2>2, <2>3, Calm
      DEF AddInv, MintingIsBlank, ScreenIsShown, ShownExist, LiveNeverReplaced, DoneIsEarned
<1> QED BY <1>8, <1>9, <1>10, <1>11 DEF ReadAnswered, Verdicts

\* The answer of a decision closes its slot.
LEMMA DecideAnsweredStep ==
    ASSUME AddInv, NEW i \in 1 .. MaxDecides, DecideAnswered(i)
    PROVE  AddInv'
<1> DEFINE st == CASE decides[i].reply \in {"ok", "consumed"} -> "done"
                   [] decides[i].reply = "expired" -> "expired"
                   [] decides[i].reply = "error" -> "waiting"
<1>1. /\ decides' = [decides EXCEPT ![i].reply = "closed"]
      /\ decides[i].reply \notin {"idle", "sent", "closed"}
      /\ polling' = FALSE /\ Emit(st, sess, join, busy)
      /\ UNCHANGED <<gone, lapsed, create, polls, backend>>
  BY DEF DecideAnswered, EmitStage
<1>2. /\ decides[i].of \in shown
      /\ decides[i].reply \in {"ok", "consumed"} => decides[i].of \in Closed
      /\ decides[i].reply \in {"ok", "consumed", "expired", "error"}
  BY <1>1 DEF AddInv, CallsAreOfShown, AddTypeOK
<1>3. st \in Live \cup Terminal
      /\ (st = "done" => shown \cap Closed # {})
  BY <1>2 DEF Live, Terminal
<1> HIDE DEF st
<1>4. /\ join \in Sessions \cup {NoSession} /\ sess \in Sessions \cup {NoSession}
      /\ busy \in BOOLEAN
  BY DEF AddInv, AddTypeOK
<1>5. \A k \in 1 .. MaxDecides :
         /\ decides'[k].of = decides[k].of
         /\ decides'[k].reply = IF k = i THEN "closed" ELSE decides[k].reply
  BY <1>1 DEF AddInv, AddTypeOK
<1>6. CallsType'
  <2>1. decides' \in [1 .. MaxDecides ->
                        [of : Sessions \cup {NoSession}, verdict : Decided,
                         on : Sessions \cup {NoSession},
                         reply : {"idle", "sent", "ok", "consumed", "expired", "error",
                                  "closed"}]]
    BY <1>1 DEF AddInv, AddTypeOK
  <2>2. \A k \in 1 .. MaxDecides : decides'[k].reply # "idle" => decides'[k].of \in Sessions
    BY <1>1, <1>5 DEF AddInv, AddTypeOK
  <2> QED BY <1>1, <2>1, <2>2 DEF AddInv, AddTypeOK, CallsType
<1>7. shown' = shown
  <2>1. /\ shown \subseteq shown'
        /\ shown' \subseteq shown \cup ({sess} \ {NoSession})
    BY <1>1, <1>3, <1>4, EmitFacts
  <2> QED BY <2>1 DEF AddInv, ScreenIsShown
<1>8. CallsAreOfShown'
  BY <1>1, <1>2, <1>5, <1>7, Calm DEF AddInv, CallsAreOfShown
<1> QED BY <1>1, <1>3, <1>4, <1>6, <1>8, KeepStep

\* A decision is sent for the session on the screen.
LEMMA DecideStep ==
    ASSUME AddInv, NEW i \in 1 .. MaxDecides, NEW verdict \in Decided, Decide(i, verdict)
    PROVE  AddInv'
<1> DEFINE st == IF verdict = "approved" THEN "approving" ELSE "rejecting"
           new == [of |-> sess, verdict |-> verdict, on |-> join, reply |-> "sent"]
<1>1. /\ sess # NoSession
      /\ decides' = [decides EXCEPT ![i] = new]
      /\ Emit(st, sess, join, busy)
      /\ UNCHANGED <<polling, gone, lapsed, create, polls, backend>>
  BY DEF Decide, EmitStage
<1>2. st \in Live \cup Terminal /\ st # "done"
  BY DEF Live
<1> HIDE DEF st
<1>3. join \in Sessions \cup {NoSession} /\ sess \in Sessions /\ busy \in BOOLEAN
      /\ polling \in BOOLEAN /\ sess \in shown
  BY <1>1 DEF AddInv, AddTypeOK, ScreenIsShown
<1>4. /\ new \in [of : Sessions \cup {NoSession}, verdict : Decided,
                   on : Sessions \cup {NoSession},
                  reply : {"idle", "sent", "ok", "consumed", "expired", "error", "closed"}]
      /\ new.of = sess /\ new.reply = "sent"
  BY <1>3
<1> HIDE DEF new
<1>5. \A k \in 1 .. MaxDecides : decides'[k] = IF k = i THEN new ELSE decides[k]
  BY <1>1 DEF AddInv, AddTypeOK
<1>6. CallsType'
  <2>1. decides' \in [1 .. MaxDecides ->
                        [of : Sessions \cup {NoSession}, verdict : Decided,
                         on : Sessions \cup {NoSession},
                         reply : {"idle", "sent", "ok", "consumed", "expired", "error",
                                  "closed"}]]
    BY <1>1, <1>4 DEF AddInv, AddTypeOK
  <2>2. \A k \in 1 .. MaxDecides : decides'[k].reply # "idle" => decides'[k].of \in Sessions
    BY <1>3, <1>4, <1>5 DEF AddInv, AddTypeOK
  <2> QED BY <1>1, <2>1, <2>2 DEF AddInv, AddTypeOK, CallsType
<1>7. shown' = shown
  <2>1. /\ shown \subseteq shown'
        /\ shown' \subseteq shown \cup ({sess} \ {NoSession})
    BY <1>1, <1>2, <1>3, EmitFacts
  <2> QED BY <1>3, <2>1
<1>8. CallsAreOfShown'
  BY <1>1, <1>3, <1>4, <1>5, <1>7, Calm DEF AddInv, CallsAreOfShown
<1> QED BY <1>1, <1>2, <1>3, <1>6, <1>8, KeepStep

Creates == [at : {"idle", "sent", "made", "failed"}, of : Sessions \cup {NoSession}]
Statuses == {"absent", "open", "joined", "expired"} \cup Decided

\* The backend's verdicts and its sessions stay.
ServerGrows ==
    /\ server' \in [Sessions -> Statuses]
    /\ \A n \in Sessions :
          server[n] # "absent" => server'[n] # "absent"
    /\ stamped' \subseteq Sessions /\ Closed \subseteq Closed'

\* A step of the network or the backend: the screen stands still.
LEMMA NetStep ==
    ASSUME AddInv, UNCHANGED <<phone, shownVars>>, lapsed' \subseteq Sessions,
           ServerGrows, CallsType', CallsAreOfShown',
           create' \in Creates, create'.at # "idle" => create.at # "idle",
           create'.at = "made" => create'.of \in Sessions /\ server'[create'.of] # "absent"
    PROVE  AddInv'
<1>1. UNCHANGED <<stage, sess, join, busy, polling, gone, shown, spent>>
  BY DEF phone, shownVars
<1>2. shown \subseteq Sessions
  BY DEF AddInv, AddTypeOK
<1>3. AddTypeOK'
  BY <1>1 DEF AddInv, AddTypeOK, CallsType, Creates, ServerGrows, Statuses
<1>4. MintingIsBlank' /\ ScreenIsShown' /\ LiveNeverReplaced'
  BY <1>1 DEF AddInv, MintingIsBlank, ScreenIsShown, LiveNeverReplaced
<1>5. ShownExist'
  BY <1>1, <1>2 DEF AddInv, ShownExist, ServerGrows
<1>6. DoneIsEarned'
  BY <1>1, <1>2 DEF AddInv, DoneIsEarned, ServerGrows
<1> QED BY <1>3, <1>4, <1>5, <1>6 DEF AddInv

\* What the invariant says of a backend and of calls that do not move.
LEMMA Still ==
    ASSUME AddInv
    PROVE  /\ create \in Creates /\ CallsType /\ lapsed \subseteq Sessions
           /\ server \in [Sessions -> Statuses] /\ shown \subseteq Sessions
           /\ stamped \subseteq Sessions
           /\ create.at = "made" => create.of \in Sessions /\ server[create.of] # "absent"
BY DEF AddInv, AddTypeOK, CallsType, Creates, Statuses, ShownExist

\* The calls stay as they are while the backend moves on.
LEMMA CallsStay ==
    ASSUME AddInv, ServerGrows, UNCHANGED <<polls, decides, shown>>
    PROVE  CallsType' /\ CallsAreOfShown'
<1>1. CallsType /\ shown \subseteq Sessions
  BY Still
<1>2. CallsType'
  BY <1>1 DEF CallsType
<1>3. CallsAreOfShown'
  <2>1. \A i \in 1 .. MaxPolls : polls[i].reply \in Verdicts => polls[i].of \in Sessions
    BY <1>1 DEF AddInv, CallsAreOfShown, Verdicts, Decided
  <2>2. \A i \in 1 .. MaxDecides :
           decides[i].reply \in {"ok", "consumed"} => decides[i].of \in Sessions
    BY <1>1 DEF AddInv, CallsAreOfShown
  <2> QED BY <2>1, <2>2 DEF AddInv, CallsAreOfShown, ServerGrows
<1> QED BY <1>2, <1>3

\* A slot of polls changes.
LEMMA PollChanges ==
    ASSUME AddInv, NEW i \in 1 .. MaxPolls,
           NEW p \in [of : Sessions \cup {NoSession},
                      reply : {"idle", "sent", "error", "open", "joined", "expired",
                                "consumed"} \cup Decided],
           polls' = [polls EXCEPT ![i] = p], p.of \in shown,
           p.reply \in Verdicts => p.of \in Closed,
           UNCHANGED <<phone, lapsed, create, decides, backend, shownVars>>
    PROVE  AddInv'
<1>1. ServerGrows /\ shown' = shown /\ Closed' = Closed
  BY Still, Calm DEF ServerGrows, shownVars
<1>2. \A k \in 1 .. MaxPolls : polls'[k] = IF k = i THEN p ELSE polls[k]
  BY Still DEF CallsType
<1>3. CallsType'
  BY Still DEF CallsType
<1>4. CallsAreOfShown'
  BY <1>1, <1>2 DEF AddInv, CallsAreOfShown
<1> QED BY <1>1, <1>3, <1>4, Still, Calm, NetStep

\* The three steps of a read before its answer.
LEMMA ReadStep ==
    ASSUME AddInv, NEW i \in 1 .. MaxPolls,
           ReadSession(i) \/ ServeRead(i) \/ LoseRead(i)
    PROVE  AddInv'
<1>1. /\ sess \in Sessions \cup {NoSession}
      /\ sess # NoSession => sess \in shown
      /\ polls[i] \in [of : Sessions \cup {NoSession},
                       reply : {"idle", "sent", "error", "open", "joined", "expired", "consumed"}
                                 \cup Decided]
      /\ polls[i].reply # "idle" => polls[i].of \in shown
  BY DEF AddInv, AddTypeOK, ScreenIsShown, CallsAreOfShown
<1>2. "sent" \notin Verdicts /\ "error" \notin Verdicts
  BY DEF Verdicts, Decided
<1>3. CASE ReadSession(i)
  <2> DEFINE p == [of |-> sess, reply |-> "sent"]
  <2>1. polls' = [polls EXCEPT ![i] = p] /\ sess # NoSession
        /\ UNCHANGED <<phone, lapsed, create, decides, backend, shownVars>>
    BY <1>3 DEF ReadSession
  <2>2. p \in [of : Sessions \cup {NoSession},
               reply : {"idle", "sent", "error", "open", "joined", "expired", "consumed"}
                            \cup Decided]
        /\ p.of = sess /\ p.reply = "sent"
    BY <1>1
  <2> HIDE DEF p
  <2> QED BY <1>1, <1>2, <2>1, <2>2, PollChanges
<1>4. CASE ServeRead(i)
  <2> DEFINE n == polls[i].of
  <2>1. polls[i].reply = "sent"
        /\ UNCHANGED <<phone, lapsed, create, decides, backend, shownVars>>
    BY <1>4 DEF ServeRead
  <2>2. n \in shown /\ n \in Sessions /\ server[n] \in Statuses /\ server[n] # "absent"
    BY <1>1, <2>1, Still DEF AddInv, ShownExist
  <2>3. PICK status \in {server[n]} \cup {"consumed" : m \in stamped \cap {n}}
                          \cup {"joined" : v \in Decided \cap {server[n]}} :
           polls' = [polls EXCEPT ![i].reply = status]
    BY <1>4 DEF ServeRead
  <2>4. /\ status \in {"open", "joined", "expired", "consumed"} \cup Decided
        /\ status \in Verdicts => n \in Closed
    BY <2>2, <2>3 DEF Statuses, Verdicts, Decided, Closed
  <2> DEFINE p == [polls[i] EXCEPT !.reply = status]
  <2>5. polls' = [polls EXCEPT ![i] = p]
    BY <2>3
  <2>6. p \in [of : Sessions \cup {NoSession},
               reply : {"idle", "sent", "error", "open", "joined", "expired", "consumed"}
                            \cup Decided]
        /\ p.of = n /\ p.reply = status
    BY <1>1, <2>4
  <2> HIDE DEF p, n
  <2> QED BY <2>1, <2>2, <2>4, <2>5, <2>6, PollChanges
<1>5. CASE LoseRead(i)
  <2> DEFINE p == [polls[i] EXCEPT !.reply = "error"]
  <2>1. polls' = [polls EXCEPT ![i] = p] /\ polls[i].reply # "idle"
        /\ UNCHANGED <<phone, lapsed, create, decides, backend, shownVars>>
    BY <1>5 DEF LoseRead
  <2>2. p \in [of : Sessions \cup {NoSession},
               reply : {"idle", "sent", "error", "open", "joined", "expired", "consumed"}
                            \cup Decided]
        /\ p.of = polls[i].of /\ p.reply = "error"
    BY <1>1
  <2> HIDE DEF p
  <2> QED BY <1>1, <1>2, <2>1, <2>2, PollChanges
<1> QED BY <1>3, <1>4, <1>5

\* A slot of decides gets a reply; "ok" and "consumed" mean the session is closed.
LEMMA ReplyChanges ==
    ASSUME AddInv, NEW i \in 1 .. MaxDecides,
           NEW r \in {"ok", "consumed", "expired", "error"},
           decides[i].reply # "idle",
           decides' = [decides EXCEPT ![i].reply = r], ServerGrows,
           r \in {"ok", "consumed"} => decides[i].of \in Closed',
           UNCHANGED <<phone, lapsed, create, polls, shownVars>>
    PROVE  AddInv'
<1>1. shown' = shown /\ shown \subseteq Sessions
  BY Still DEF shownVars
<1>2. \A k \in 1 .. MaxDecides :
         /\ decides'[k].of = decides[k].of
         /\ decides'[k].reply = IF k = i THEN r ELSE decides[k].reply
  BY Still DEF CallsType
<1>3. CallsType'
  <2>1. decides' \in [1 .. MaxDecides ->
                        [of : Sessions \cup {NoSession}, verdict : Decided,
                         on : Sessions \cup {NoSession},
                         reply : {"idle", "sent", "ok", "consumed", "expired", "error",
                                  "closed"}]]
    BY Still DEF CallsType
  <2>2. \A k \in 1 .. MaxDecides : decides'[k].reply # "idle" => decides'[k].of \in Sessions
    BY <1>2, Still DEF CallsType
  <2> QED BY <2>1, <2>2, Still DEF CallsType
<1>4. CallsAreOfShown'
  <2>1. \A k \in 1 .. MaxPolls :
           /\ polls[k].reply # "idle" => polls[k].of \in shown
           /\ polls[k].reply \in Verdicts => polls[k].of \in Closed'
    BY <1>1 DEF AddInv, CallsAreOfShown, ServerGrows
  <2>2. \A k \in 1 .. MaxDecides :
           /\ decides'[k].reply # "idle" => decides[k].of \in shown
           /\ decides'[k].reply \in {"ok", "consumed"} => decides[k].of \in Closed'
    BY <1>1, <1>2 DEF AddInv, CallsAreOfShown, ServerGrows
  <2> QED BY <1>1, <1>2, <2>1, <2>2 DEF CallsAreOfShown
<1>5. create' = create /\ lapsed' = lapsed
  OBVIOUS
<1>6. create'.at = "made" => create'.of \in Sessions /\ server'[create'.of] # "absent"
  BY <1>5, Still DEF ServerGrows
<1> QED BY <1>3, <1>4, <1>5, <1>6, Still, NetStep

\* The backend decides, or the call fails.
LEMMA DecideCallStep ==
    ASSUME AddInv, NEW i \in 1 .. MaxDecides, ServeDecide(i) \/ LoseDecide(i)
    PROVE  AddInv'
<1>1. CASE ServeDecide(i)
  <2> DEFINE d == decides[i]
  <2>1. d.reply = "sent" /\ UNCHANGED <<phone, lapsed, create, polls, shownVars>>
    BY <1>1 DEF ServeDecide
  <2>2. d.of \in Sessions /\ d.verdict \in Decided
    BY <2>1, Still DEF CallsType
  <2>3. CASE /\ server[d.of] = "joined"
             /\ server' = [server EXCEPT ![d.of] = d.verdict]
             /\ decides' = [decides EXCEPT ![i].reply = "ok"]
             /\ stamped' = stamped
    <3>1. server'[d.of] \in Decided /\ server' \in [Sessions -> Statuses]
      BY <2>2, <2>3, Still DEF Statuses
    <3>2. ServerGrows /\ d.of \in Closed'
      BY <2>2, <2>3, <3>1, Still DEF ServerGrows, Statuses, Decided, Closed
    <3> QED BY <2>1, <2>3, <3>2, ReplyChanges
  <2>4. CASE /\ d.of \in stamped /\ UNCHANGED backend
             /\ decides' = [decides EXCEPT ![i].reply = "consumed"]
    <3>1. ServerGrows /\ d.of \in Closed'
      BY <2>4, Still, Calm DEF ServerGrows, Closed
    <3> QED BY <2>1, <2>4, <3>1, ReplyChanges
  <2>5. CASE /\ server[d.of] \in Decided \cup {"expired"}
             /\ decides' = [decides EXCEPT ![i].reply =
                              IF server[d.of] = "expired" THEN "expired" ELSE "consumed"]
             /\ stamped' \in {stamped, stamped \cup {d.of}} /\ server' = server
    <3> DEFINE r == IF server[d.of] = "expired" THEN "expired" ELSE "consumed"
    <3>1. ServerGrows
      BY <2>2, <2>5, Still DEF ServerGrows, Closed
    <3>2. r \in {"ok", "consumed", "expired", "error"}
          /\ (r \in {"ok", "consumed"} => d.of \in Closed')
      BY <2>2, <2>5 DEF Closed
    <3>3. decides' = [decides EXCEPT ![i].reply = r]
      BY <2>5
    <3> HIDE DEF r
    <3> QED BY <2>1, <3>1, <3>2, <3>3, ReplyChanges
  <2>6. CASE decides' = [decides EXCEPT ![i].reply = "error"] /\ UNCHANGED backend
    <3>1. ServerGrows
      BY <2>6, Still, Calm DEF ServerGrows
    <3> QED BY <2>1, <2>6, <3>1, ReplyChanges
  <2> QED BY <1>1, <2>3, <2>4, <2>5, <2>6 DEF ServeDecide
<1>2. CASE LoseDecide(i)
  <2>1. /\ decides[i].reply # "idle"
        /\ decides' = [decides EXCEPT ![i].reply = "error"]
        /\ UNCHANGED <<phone, lapsed, create, polls, backend, shownVars>>
    BY <1>2 DEF LoseDecide
  <2>2. ServerGrows
    BY <2>1, Still, Calm DEF ServerGrows
  <2> QED BY <2>1, <2>2, ReplyChanges
<1> QED BY <1>1, <1>2

\* The clock, the backend's other moves and the loss of a create.
LEMMA BackendStep ==
    ASSUME AddInv, NEW n \in Sessions,
           \/ PhoneClock(n) \/ ServeCreate(n) \/ AuditFails(n)
           \/ \E to \in {"joined", "expired"} : ServerMove(n, to)
    PROVE  AddInv'
<1>1. CASE PhoneClock(n)
  <2>1. /\ lapsed' = lapsed \cup {n}
        /\ UNCHANGED <<phone, create, polls, decides, backend, shownVars>>
    BY <1>1 DEF PhoneClock
  <2>2. ServerGrows /\ shown' = shown
    BY <2>1, Still, Calm DEF ServerGrows, shownVars
  <2>3. CallsType' /\ CallsAreOfShown'
    BY <2>1, <2>2, CallsStay
  <2> QED BY <2>1, <2>2, <2>3, Still, Calm, NetStep
<1>2. CASE ServeCreate(n)
  <2>1. /\ create.at = "sent" /\ server[n] = "absent"
        /\ server' = [server EXCEPT ![n] = "open"]
        /\ create' = [at |-> "made", of |-> n]
        /\ UNCHANGED <<phone, lapsed, polls, decides, stamped, shownVars>>
    BY <1>2 DEF ServeCreate
  <2>2. ServerGrows /\ shown' = shown /\ server'[n] = "open"
    BY <2>1, Still DEF ServerGrows, shownVars, Statuses, Decided, Closed
  <2>3. CallsType' /\ CallsAreOfShown'
    BY <2>1, <2>2, CallsStay
  <2>4. create' \in Creates /\ create'.of = n
    BY <2>1 DEF Creates
  <2> QED BY <2>1, <2>2, <2>3, <2>4, Still, NetStep
<1>3. ASSUME NEW to \in {"joined", "expired"}, ServerMove(n, to)
      PROVE  AddInv'
  <2>1. /\ server[n] \in {"open", "joined"}
        /\ server' = [server EXCEPT ![n] = to]
        /\ UNCHANGED <<phone, lapsed, create, polls, decides, stamped, shownVars>>
    BY <1>3 DEF ServerMove
  <2>2. ServerGrows /\ shown' = shown
    BY <2>1, Still DEF ServerGrows, shownVars, Statuses, Decided, Closed
  <2>3. CallsType' /\ CallsAreOfShown'
    BY <2>1, <2>2, CallsStay
  <2>4. create'.at = "made" => create'.of \in Sessions /\ server'[create'.of] # "absent"
    BY <2>1, <2>2, Still DEF ServerGrows
  <2> QED BY <2>1, <2>2, <2>3, <2>4, Still, NetStep
<1>4. CASE AuditFails(n)
  <2>1. /\ stamped' = stamped \cup {n}
        /\ UNCHANGED <<phone, lapsed, create, polls, decides, server, shownVars>>
    BY <1>4 DEF AuditFails
  <2>2. ServerGrows /\ shown' = shown
    BY <2>1, Still DEF ServerGrows, shownVars, Closed
  <2>3. CallsType' /\ CallsAreOfShown'
    BY <2>1, <2>2, CallsStay
  <2> QED BY <2>1, <2>2, <2>3, Still, NetStep
<1> QED BY <1>1, <1>2, <1>3, <1>4

\* Every step keeps the invariant.
LEMMA AddStep == AddInv /\ [AddNext]_(addVars) => AddInv'
<1> SUFFICES ASSUME AddInv, [AddNext]_(addVars) PROVE AddInv'
  OBVIOUS
<1>1. CASE CreateSession \/ CreateAnswered
  BY <1>1, CreateSessionStep, CreateAnsweredStep
<1>2. CASE Tick
  <2>1. polling' = FALSE /\ Emit("expired", sess, join, busy)
        /\ UNCHANGED <<gone, lapsed, create, polls, decides, backend>>
    BY <1>2 DEF Tick, EmitStage
  <2>2. /\ join \in Sessions \cup {NoSession} /\ sess \in Sessions \cup {NoSession}
        /\ busy \in BOOLEAN /\ "expired" \in Live \cup Terminal
    BY DEF AddInv, AddTypeOK, Terminal
  <2>3. /\ shown \subseteq shown'
        /\ shown' \subseteq shown \cup ({sess} \ {NoSession})
    BY <2>1, <2>2, EmitFacts
  <2>4. shown' = shown
    BY <2>3 DEF AddInv, ScreenIsShown
  <2>5. CallsType' /\ CallsAreOfShown'
    BY <2>1, <2>4, Still, CallsStay, Calm DEF ServerGrows
  <2> QED BY <2>1, <2>2, <2>5, KeepStep
<1>3. CASE Dispose
  <2>1. /\ gone' = TRUE /\ polling' = FALSE
        /\ UNCHANGED <<stage, sess, join, busy, lapsed, create, polls, decides, backend, shown,
                       spent>>
    BY <1>3 DEF Dispose, shownVars
  <2>2. AddTypeOK'
    BY <2>1, Calm DEF AddInv, AddTypeOK
  <2> QED BY <2>1, <2>2, Calm
      DEF AddInv, MintingIsBlank, ScreenIsShown, ShownExist, CallsAreOfShown, LiveNeverReplaced,
          DoneIsEarned
<1>4. CASE LoseCreate
  <2>1. /\ create.at # "idle" /\ create' = [at |-> "failed", of |-> NoSession]
        /\ UNCHANGED <<phone, lapsed, polls, decides, backend, shownVars>>
    BY <1>4 DEF LoseCreate
  <2>2. create' \in Creates /\ create'.at = "failed"
    BY <2>1 DEF Creates
  <2>3. ServerGrows /\ shown' = shown
    BY <2>1, Still, Calm DEF ServerGrows, shownVars
  <2>4. CallsType' /\ CallsAreOfShown'
    BY <2>1, <2>3, CallsStay
  <2> QED BY <2>1, <2>2, <2>3, <2>4, Still, NetStep
<1>5. ASSUME NEW i \in 1 .. MaxPolls,
             ReadSession(i) \/ ReadAnswered(i) \/ ServeRead(i) \/ LoseRead(i)
      PROVE  AddInv'
  BY <1>5, ReadStep, ReadAnsweredStep
<1>6. ASSUME NEW i \in 1 .. MaxDecides,
             \/ DecideAnswered(i) \/ ServeDecide(i) \/ LoseDecide(i)
             \/ \E verdict \in Decided : Decide(i, verdict)
      PROVE  AddInv'
  BY <1>6, DecideAnsweredStep, DecideCallStep, DecideStep
<1>7. ASSUME NEW n \in Sessions,
             \/ PhoneClock(n) \/ ServeCreate(n) \/ AuditFails(n)
             \/ \E to \in {"joined", "expired"} : ServerMove(n, to)
      PROVE  AddInv'
  BY <1>7, BackendStep
<1>8. CASE UNCHANGED addVars
  <2>1. /\ UNCHANGED <<stage, sess, join, busy, polling, gone, lapsed, create>>
        /\ UNCHANGED <<polls, decides, backend, shown, spent>>
    BY <1>8 DEF addVars, phone, shownVars
  <2>2. AddTypeOK'
    BY <2>1, Calm DEF AddInv, AddTypeOK
  <2> QED BY <2>1, <2>2, Calm
      DEF AddInv, MintingIsBlank, ScreenIsShown, ShownExist, CallsAreOfShown, LiveNeverReplaced,
          DoneIsEarned
<1> QED BY <1>1, <1>2, <1>3, <1>4, <1>5, <1>6, <1>7, <1>8 DEF AddNext

\* The first state satisfies the invariant.
LEMMA AddStarts == AddInit => AddInv
<1> SUFFICES ASSUME AddInit PROVE AddInv
  OBVIOUS
<1>1. AddTypeOK
  BY DEF AddInit, AddTypeOK, Live, NoPoll, NoDecide, Decided
<1>2. CallsAreOfShown
  BY DEF AddInit, CallsAreOfShown, NoPoll, NoDecide, Decided, Verdicts
<1> QED BY <1>1, <1>2
    DEF AddInit, AddInv, MintingIsBlank, ScreenIsShown, ShownExist, LiveNeverReplaced,
        DoneIsEarned, Terminal

\* The invariant holds throughout.
LEMMA AddInductive == AddSpec => []AddInv
BY AddStarts, AddStep, PTL DEF AddSpec

-----------------------------------------------------------------------------
\* The state of the flow, its calls and the backend keep their types.
THEOREM AddTypeCorrect == AddSpec => []AddTypeOK
<1>1. AddInv => AddTypeOK
  BY DEF AddInv
<1> QED BY <1>1, AddInductive, PTL

\* "A live session is never replaced mid flight" (add_computer_controller.dart:187):
\* however creates, reads and decisions of several sessions answer each other out
\* of order, a session the Owner was shown is on the screen or was shown as over.
THEOREM LiveSessionsStay == AddSpec => []LiveNeverReplaced
<1>1. AddInv => LiveNeverReplaced
  BY DEF AddInv
<1> QED BY <1>1, AddInductive, PTL

\* "Done" on the screen (add_computer_controller.dart:279-318, 377-381) means that
\* the backend has closed a session of this flow, by a verdict or by failing it
\* closed, whichever answer came late, was lost or was about another session.
THEOREM DoneEarned == AddSpec => []DoneIsEarned
<1>1. AddInv => DoneIsEarned
  BY DEF AddInv
<1> QED BY <1>1, AddInductive, PTL

=============================================================================
