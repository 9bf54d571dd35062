----------------------------- MODULE Hub_proofs -----------------------------
(***************************************************************************)
(* Proofs about the signal hub, for any devices, sockets, buffer sizes and *)
(* numbers of events and windows.                                          *)
(***************************************************************************)
EXTENDS Hub, SequenceTheorems, FiniteSetTheorems, TLAPS

-----------------------------------------------------------------------------
(* Types.                                                                   *)

\* Init gives every variable a value of its type.
LEMMA TypeInit == Init => TypeOK
  <1>1. <<>> \in Seq(1..MaxEvents) /\ <<>> \in Seq(Events)
    BY EmptySeq
  <1>2. Len(<<>>) = 0
    OBVIOUS
  <1>. SUFFICES ASSUME Init PROVE TypeOK
    OBVIOUS
  <1>3. pres \in [Devices -> Presence]
    <2>1. [online |-> FALSE, left |-> 0] \in Presence
      BY HubAssumption DEF Presence
    <2>. QED
      BY <2>1 DEF Init
  <1>4. age \in [Conns -> 0..(MaxMissed + 1)]
    BY HubAssumption DEF Init
  <1>5. \A c \in Conns : Len(send[c]) <= SendBuffer
    BY <1>2, HubAssumption DEF Init
  <1>6. queue \in Seq(Events) /\ Len(queue) <= NotifyBuffer
    BY <1>1, <1>2, HubAssumption DEF Init
  <1>7. published \in 0..MaxEvents /\ windows \in 0..MaxWindows /\ owed \in Nat
    BY HubAssumption DEF Init
  <1>8. send \in [Conns -> Seq(1..MaxEvents)] /\ got \in [Conns -> Seq(1..MaxEvents)]
    BY <1>1 DEF Init
  <1>9. /\ phase \in [Conns -> Phases] /\ dev \in [Conns -> Devices \cup {None}]
        /\ late \in [Conns -> BOOLEAN] /\ cut \in [Conns -> BOOLEAN]
        /\ reader \in [Conns -> LoopStates] /\ writer \in [Conns -> LoopStates]
        /\ byDevice \in [Devices -> Conns \cup {None}]
    BY DEF Init, Phases, LoopStates
  <1>10. /\ revoked \subseteq Devices /\ toClose \subseteq Conns
         /\ stale \subseteq Conns /\ kept \subseteq Conns
         /\ tick \in BOOLEAN /\ loop \in BOOLEAN /\ hub \in {"open", "closing", "closed"}
    BY DEF Init
  <1>. QED
    BY <1>3, <1>4, <1>5, <1>6, <1>7, <1>8, <1>9, <1>10 DEF TypeOK

\* The handshake steps and the tear-down of a socket keep the types.
LEMMA TypeServe ==
    ASSUME TypeOK, NEW c \in Conns, phase[c] # "idle" => dev[c] \in Devices,
           Serve(c)
    PROVE  TypeOK'
  <1>. USE DEF To, connvars, hubvars, eventvars, timevars
  <1>1. CASE ResolveToken(c) \/ ReadRow(c) \/ ReadRevoked(c)
    BY <1>1 DEF ResolveToken, ReadRow, ReadRevoked, Handshake, TypeOK, Phases
  <1>2. CASE Register(c)
    <2>1. dev[c] \in Devices
      BY <1>2 DEF Register
    <2>2. phase' \in [Conns -> Phases]
      BY <1>2 DEF Register, TypeOK, Phases
    <2>3. cut' \in [Conns -> BOOLEAN]
      BY <1>2, Zenon DEF Register, TypeOK
    <2>4. byDevice' \in [Devices -> Conns \cup {None}]
      <3>1. \/ byDevice' = byDevice
            \/ byDevice' = [byDevice EXCEPT ![dev[c]] = c]
        BY <1>2 DEF Register
      <3>. QED
        BY <2>1, <3>1 DEF TypeOK
    <2>5. age' \in [Conns -> 0..(MaxMissed + 1)]
      <3>1. age' = age \/ age' = [age EXCEPT ![c] = 0]
        BY <1>2 DEF Register
      <3>. QED
        BY <3>1, HubAssumption DEF TypeOK
    <2>. QED
      BY <1>2, <2>2, <2>3, <2>4, <2>5 DEF Register, TypeOK
  <1>3. CASE SetOnline(c)
    <2>1. pres' \in [Devices -> Presence]
      <3>1. [online |-> TRUE, left |-> PresenceWindows] \in Presence
        BY HubAssumption DEF Presence
      <3>2. pres \in [Devices -> Presence]
        BY DEF TypeOK
      <3>. QED
        BY <1>3, <3>1, <3>2 DEF SetOnline, SetPresence
    <2>. QED
      BY <1>3, <2>1 DEF SetOnline, TypeOK, Phases
  <1>4. CASE Spawn(c)
    BY <1>4 DEF Spawn, TypeOK, Phases, LoopStates
  <1>5. CASE Leave(c)
    BY <1>5 DEF Leave, Unregister, TypeOK, Phases
  <1>6. CASE SetOffline(c)
    BY <1>6 DEF SetOffline, SetPresence, TypeOK, Phases
  <1>. QED
    BY <1>1, <1>2, <1>3, <1>4, <1>5, <1>6 DEF Serve

\* The read and write loops of a socket and its close keep the types.
LEMMA TypeLoops ==
    ASSUME TypeOK, NEW c \in Conns,
           \/ Receive(c) \/ ReadEnds(c) \/ WriteSignal(c) \/ WriteEnds(c)
           \/ CloseOne(c) \/ CloseStale(c)
    PROVE  TypeOK'
  <1>. USE DEF connvars, hubvars, eventvars, timevars
  <1>1. CASE Receive(c)
    BY <1>1, HubAssumption DEF Receive, TypeOK
  <1>2. CASE ReadEnds(c) \/ WriteEnds(c) \/ CloseOne(c) \/ CloseStale(c)
    BY <1>2 DEF ReadEnds, WriteEnds, CloseOne, CloseStale, TypeOK, LoopStates
  <1>3. CASE WriteSignal(c)
    <2>1. send[c] \in Seq(1..MaxEvents) /\ send[c] # <<>> /\ got[c] \in Seq(1..MaxEvents)
      BY <1>3 DEF WriteSignal, TypeOK
    <2>2. /\ Head(send[c]) \in 1..MaxEvents
          /\ Tail(send[c]) \in Seq(1..MaxEvents)
          /\ Len(Tail(send[c])) = Len(send[c]) - 1
      BY <2>1, HeadTailProperties
    <2>3. Append(got[c], Head(send[c])) \in Seq(1..MaxEvents)
      BY <2>1, <2>2, AppendProperties
    <2>4. /\ got' \in [Conns -> Seq(1..MaxEvents)]
          /\ send' \in [Conns -> Seq(1..MaxEvents)]
      BY <1>3, <2>2, <2>3 DEF WriteSignal, TypeOK
    <2>5. \A x \in Conns : Len(send'[x]) <= SendBuffer
      <3>. TAKE x \in Conns
      <3>1. CASE x = c
        <4>1. Len(send[c]) \in Nat /\ Len(send[c]) <= SendBuffer
          BY <2>1, LenProperties DEF TypeOK
        <4>2. send'[x] = Tail(send[c])
          BY <1>3, <3>1 DEF WriteSignal, TypeOK
        <4>. QED
          BY <4>1, <4>2, <2>2, HubAssumption
      <3>2. CASE x # c
        BY <1>3, <3>2 DEF WriteSignal, TypeOK
      <3>. QED
        BY <3>1, <3>2
    <2>. QED
      BY <1>3, <2>4, <2>5 DEF WriteSignal, TypeOK
  <1>. QED
    BY <1>1, <1>2, <1>3

\* What fanout sends: the oldest queued event, to the targets with room.
LEMMA FanoutSends ==
    ASSUME TypeOK, Fanout
    PROVE  /\ queue \in Seq(Events) /\ queue # <<>>
           /\ queue[1] \in Events /\ queue[1].n \in 1..MaxEvents
           /\ queue' = Tail(queue)
           /\ \A c \in Conns :
                \/ send'[c] = send[c]
                \/ send'[c] = Append(send[c], queue[1].n) /\ Len(send[c]) < SendBuffer
           /\ DOMAIN send' = Conns
           /\ got' = got /\ published' = published
           /\ send' = [c \in Conns |-> send'[c]]
  <1>1. queue \in Seq(Events) /\ queue # <<>> /\ queue' = Tail(queue)
    BY DEF TypeOK, Fanout
  <1>2. Head(queue) = queue[1] /\ queue[1] \in Events
    BY <1>1, HeadTailProperties
  <1>3. queue[1].n \in 1..MaxEvents
    BY <1>2 DEF Events
  <1>4. send' = [c \in Conns |-> IF c \in Targets(queue[1]) /\ ~Full(c)
                                 THEN Append(send[c], queue[1].n) ELSE send[c]]
    BY <1>2 DEF Fanout
  <1>5. \A c \in Conns : ~Full(c) => Len(send[c]) < SendBuffer
    <2>. TAKE c \in Conns
    <2>1. Len(send[c]) \in Nat
      BY LenProperties DEF TypeOK
    <2>. QED
      BY <2>1, HubAssumption DEF Full
  <1>. QED
    BY <1>1, <1>2, <1>3, <1>4, <1>5 DEF Fanout, eventvars

\* The hub loop, the publisher, the clock and Close keep the types.
LEMMA TypeHub ==
    ASSUME TypeOK,
           \/ \E to \in Devices \cup {None} : Notify(to)
           \/ \E d \in Devices : Revoke(d)
           \/ Fanout \/ CatchupEnds \/ Window \/ CheckLiveness
           \/ CloseHub \/ LoopEnds \/ CloseReturns
    PROVE  TypeOK'
  <1>. USE DEF connvars, hubvars, eventvars, timevars
  <1>1. ASSUME NEW to \in Devices \cup {None}, Notify(to)
        PROVE  TypeOK'
    <2>1. published' \in 1..MaxEvents /\ published' = published + 1
      BY <1>1, HubAssumption DEF Notify, TypeOK
    <2>2. [n |-> published + 1, to |-> to] \in Events
      BY <2>1 DEF Events
    <2>3. queue' \in Seq(Events) /\ Len(queue') <= NotifyBuffer
      <3>1. queue \in Seq(Events) /\ Len(queue) \in Nat
        BY LenProperties DEF TypeOK
      <3>2. /\ Append(queue, [n |-> published + 1, to |-> to]) \in Seq(Events)
            /\ Len(Append(queue, [n |-> published + 1, to |-> to])) = Len(queue) + 1
        BY <2>2, <3>1, AppendProperties
      <3>. QED
        BY <1>1, <3>1, <3>2, HubAssumption DEF Notify, TypeOK
    <2>. QED
      BY <1>1, <2>1, <2>3 DEF Notify, TypeOK
  <1>2. CASE Fanout
    <2>. DEFINE dropped == {c \in Targets(Head(queue)) : Full(c)}
    <2>1. owed' \in Nat
      <3>1. dropped \subseteq Conns
        BY DEF Targets
      <3>2. Cardinality(dropped) \in Nat
        BY <3>1, HubAssumption, FS_Subset, FS_CardinalityType
      <3>. QED
        BY <1>2, <3>2 DEF Fanout, TypeOK
    <2>2. queue' \in Seq(Events) /\ Len(queue') <= NotifyBuffer
      <3>1. queue \in Seq(Events) /\ queue # <<>> /\ queue' = Tail(queue)
        BY <1>2, FanoutSends
      <3>2. Tail(queue) \in Seq(Events) /\ Len(Tail(queue)) = Len(queue) - 1
        BY <3>1, HeadTailProperties
      <3>3. Len(queue) \in Nat /\ Len(queue) <= NotifyBuffer
        BY LenProperties DEF TypeOK
      <3>. QED
        BY <3>1, <3>2, <3>3, HubAssumption
    <2>3. \A c \in Conns : send'[c] \in Seq(1..MaxEvents) /\ Len(send'[c]) <= SendBuffer
      <3>. TAKE c \in Conns
      <3>1. /\ send[c] \in Seq(1..MaxEvents)
            /\ Len(send[c]) \in Nat /\ Len(send[c]) <= SendBuffer
        BY LenProperties DEF TypeOK
      <3>2. CASE send'[c] = send[c]
        BY <3>1, <3>2
      <3>3. CASE send'[c] = Append(send[c], queue[1].n) /\ Len(send[c]) < SendBuffer
        <4>1. queue[1].n \in 1..MaxEvents
          BY <1>2, FanoutSends
        <4>2. /\ Append(send[c], queue[1].n) \in Seq(1..MaxEvents)
              /\ Len(Append(send[c], queue[1].n)) = Len(send[c]) + 1
          BY <3>1, <4>1, AppendProperties
        <4>. QED
          BY <3>1, <3>3, <4>2, HubAssumption
      <3>. QED
        BY <1>2, <3>2, <3>3, FanoutSends
    <2>4. send' \in [Conns -> Seq(1..MaxEvents)]
      BY <1>2, <2>3, FanoutSends
    <2>. QED
      BY <1>2, <2>1, <2>2, <2>3, <2>4 DEF Fanout, TypeOK
  <1>3. CASE CatchupEnds
    BY <1>3 DEF CatchupEnds, TypeOK
  <1>4. CASE Window
    <2>1. \A d \in Devices : pres[d] \in Presence
      BY DEF TypeOK
    <2>2. pres' \in [Devices -> Presence]
      <3>1. ASSUME NEW p \in Presence
            PROVE  (IF p.left > 1 THEN [p EXCEPT !.left = @ - 1]
                    ELSE [online |-> FALSE, left |-> 0]) \in Presence
        BY HubAssumption DEF Presence
      <3>2. pres' = [d \in Devices |->
                       IF pres[d].left > 1 THEN [pres[d] EXCEPT !.left = @ - 1]
                       ELSE [online |-> FALSE, left |-> 0]]
        BY <1>4 DEF Window
      <3>. QED
        BY <2>1, <3>1, <3>2
    <2>3. age' \in [Conns -> 0..(MaxMissed + 1)]
      <3>1. \A c \in Conns : age[c] \in 0..(MaxMissed + 1)
        BY DEF TypeOK
      <3>2. \A a \in 0..(MaxMissed + 1) :
               (IF a <= MaxMissed THEN a + 1 ELSE a) \in 0..(MaxMissed + 1)
        BY HubAssumption
      <3>3. age' = [c \in Conns |-> IF age[c] <= MaxMissed THEN age[c] + 1 ELSE age[c]]
        BY <1>4 DEF Window
      <3>. QED
        BY <3>1, <3>2, <3>3
    <2>4. windows' \in 0..MaxWindows /\ tick' \in BOOLEAN
      BY <1>4, HubAssumption DEF Window, TypeOK
    <2>5. UNCHANGED <<revoked, connvars, eventvars, kept, hubvars>>
      BY <1>4 DEF Window
    <2>. QED
      BY <2>2, <2>3, <2>4, <2>5 DEF TypeOK, connvars, eventvars, hubvars
  <1>5. CASE CheckLiveness
    <2>1. cut' \in [Conns -> BOOLEAN] /\ kept' \subseteq Conns
      BY <1>5 DEF CheckLiveness, TypeOK
    <2>. QED
      BY <1>5, <2>1 DEF CheckLiveness, TypeOK
  <1>6. CASE CloseHub \/ LoopEnds \/ CloseReturns
    BY <1>6 DEF CloseHub, LoopEnds, CloseReturns, TypeOK
  <1>7. ASSUME NEW d \in Devices, Revoke(d)
        PROVE  TypeOK'
    BY <1>7 DEF Revoke, TypeOK
  <1>. QED
    BY <1>1, <1>2, <1>3, <1>4, <1>5, <1>6, <1>7

-----------------------------------------------------------------------------
(* The handshake and the registry.                                          *)

\* Every handshake under way has the device its token resolved to.
DevKnown == \A c \in Conns : phase[c] # "idle" => dev[c] \in Devices

\* A late dialler's device is revoked, and it has not passed the row's flag.
LateStopped ==
    \A c \in Conns : late[c] => dev[c] \in revoked /\ phase[c] \in {"resolve", "row", "refused"}

\* The registry holds a device's own socket, and only while it is served.
RegistryFits ==
    \A d \in Devices : byDevice[d] # None =>
        dev[byDevice[d]] = d /\ phase[byDevice[d]] \in Registered

ConnInv == DevKnown /\ LateStopped /\ RegistryFits /\ LiveSocketIsReachable

\* A step that leaves the handlers and the registry alone, and at most closes
\* sockets and revokes devices, keeps the registry's invariant.
LEMMA ConnKept ==
    ASSUME TypeOK, ConnInv,
           UNCHANGED <<phase, dev, late, byDevice>>,
           \A c \in Conns : cut[c] => cut'[c],
           revoked \subseteq revoked'
    PROVE  ConnInv'
  BY DEF ConnInv, DevKnown, LateStopped, RegistryFits, LiveSocketIsReachable

\* A step of one handler that leaves the registry alone and does not enter or
\* leave the registered phases.
LEMMA PhaseMoves ==
    ASSUME TypeOK, ConnInv, NEW c \in Conns, NEW p,
           phase[c] # "idle", p # "idle",
           phase[c] \in Registered <=> p \in Registered,
           late[c] => p \in {"resolve", "row", "refused"},
           phase' = [phase EXCEPT ![c] = p],
           UNCHANGED <<revoked, dev, late, cut, byDevice>>
    PROVE  ConnInv'
  <1>1. DevKnown' /\ LateStopped'
    BY DEF ConnInv, DevKnown, LateStopped, TypeOK
  <1>2. RegistryFits'
    <2>. SUFFICES ASSUME NEW d \in Devices, byDevice[d] # None
                  PROVE  dev[byDevice[d]] = d /\ phase'[byDevice[d]] \in Registered
      BY DEF RegistryFits
    <2>1. byDevice[d] \in Conns
      BY DEF TypeOK
    <2>. QED
      BY <2>1 DEF ConnInv, RegistryFits, TypeOK
  <1>3. LiveSocketIsReachable'
    BY DEF ConnInv, LiveSocketIsReachable, TypeOK
  <1>. QED
    BY <1>1, <1>2, <1>3 DEF ConnInv

\* Registration: the displaced socket is closed in the same critical section.
LEMMA RegisterFits ==
    ASSUME TypeOK, ConnInv, NEW c \in Conns, Register(c)
    PROVE  ConnInv'
  <1>. USE DEF To
  <1>1. phase[c] = "register" /\ dev[c] \in Devices /\ ~late[c]
    BY DEF Register, ConnInv, DevKnown, LateStopped
  <1>2. CASE To(c, "refused") /\ UNCHANGED <<cut, byDevice, age>>
    <2>1. "register" \notin Registered /\ "refused" \notin Registered
      BY DEF Registered
    <2>. QED
      BY <1>1, <1>2, <2>1, PhaseMoves DEF Register
  <1>3. CASE /\ To(c, "online")
             /\ cut' = [x \in Conns |-> cut[x] \/ x \in Displaced(c)]
             /\ byDevice' = [byDevice EXCEPT ![dev[c]] = c]
    <2>. USE <1>1, <1>3
    <2>0. UNCHANGED <<revoked, dev, late>> /\ c # None
      BY HubAssumption DEF Register
    <2>1. DevKnown' /\ LateStopped'
      BY <2>0 DEF ConnInv, DevKnown, LateStopped, TypeOK
    <2>2. \A d \in Devices : byDevice[d] # c
      BY <2>0 DEF ConnInv, RegistryFits, Registered
    <2>3. \A x \in Conns : phase'[x] \in Registered <=> (x = c \/ phase[x] \in Registered)
      BY DEF TypeOK, Registered
    <2>4. \A d \in Devices : byDevice'[d] = IF d = dev[c] THEN c ELSE byDevice[d]
      BY DEF TypeOK
    <2>5. RegistryFits'
      <3>. SUFFICES ASSUME NEW d \in Devices, byDevice'[d] # None
                    PROVE  dev'[byDevice'[d]] = d /\ phase'[byDevice'[d]] \in Registered
        BY DEF RegistryFits
      <3>1. CASE d = dev[c]
        BY <2>0, <2>3, <2>4, <3>1
      <3>2. CASE d # dev[c]
        <4>1. byDevice'[d] = byDevice[d] /\ byDevice[d] \in Conns
          BY <2>4, <3>2 DEF TypeOK
        <4>. QED
          BY <2>0, <2>3, <4>1 DEF ConnInv, RegistryFits
      <3>. QED
        BY <3>1, <3>2
    <2>6. LiveSocketIsReachable'
      <3>. SUFFICES ASSUME NEW x \in Conns, phase'[x] \in Registered, ~cut'[x]
                    PROVE  byDevice'[dev[x]] = x
        BY <2>0 DEF LiveSocketIsReachable
      <3>1. CASE x = c
        BY <2>4, <3>1
      <3>2. CASE x # c
        <4>1. phase[x] \in Registered /\ ~cut[x] /\ x \notin Displaced(c)
          BY <2>3, <3>2
        <4>2. byDevice[dev[x]] = x /\ dev[x] \in Devices /\ x # None
          BY <4>1, HubAssumption
          DEF ConnInv, LiveSocketIsReachable, DevKnown, Registered
        <4>3. dev[x] # dev[c]
          BY <4>1, <4>2 DEF Displaced
        <4>. QED
          BY <2>4, <4>2, <4>3
      <3>. QED
        BY <3>1, <3>2
    <2>. QED
      BY <2>1, <2>5, <2>6 DEF ConnInv
  <1>. QED
    BY <1>2, <1>3 DEF Register

\* The tear-down of a socket, replaced or not, leaves the other socket of its
\* device registered.
LEMMA LeaveFits ==
    ASSUME TypeOK, ConnInv, NEW c \in Conns, Leave(c)
    PROVE  ConnInv'
  <1>1. /\ phase[c] = "serve" /\ cut[c] /\ byDevice' = Unregister(c)
        /\ phase' = [phase EXCEPT ![c] = "offline"]
        /\ UNCHANGED <<revoked, dev, late, cut>>
    BY DEF Leave, To
  <1>2. dev[c] \in Devices /\ ~late[c]
    BY <1>1 DEF ConnInv, DevKnown, LateStopped
  <1>3. \A d \in Devices :
            byDevice'[d] = IF d = dev[c] /\ byDevice[d] = c THEN None ELSE byDevice[d]
    BY <1>1, <1>2 DEF Unregister, TypeOK
  <1>4. \A x \in Conns : phase'[x] \in Registered <=> x # c /\ phase[x] \in Registered
    BY <1>1 DEF TypeOK, Registered
  <1>5. DevKnown' /\ LateStopped'
    BY <1>1, <1>2 DEF ConnInv, DevKnown, LateStopped, TypeOK
  <1>6. RegistryFits'
    <2>. SUFFICES ASSUME NEW d \in Devices, byDevice'[d] # None
                  PROVE  dev[byDevice'[d]] = d /\ phase'[byDevice'[d]] \in Registered
      BY <1>1 DEF RegistryFits
    <2>1. byDevice'[d] = byDevice[d] /\ byDevice[d] \in Conns
      BY <1>3 DEF TypeOK
    <2>2. dev[byDevice[d]] = d /\ phase[byDevice[d]] \in Registered
      BY <2>1 DEF ConnInv, RegistryFits
    <2>3. byDevice[d] # c
      BY <1>3, <2>1, <2>2
    <2>. QED
      BY <1>4, <2>1, <2>2, <2>3
  <1>7. LiveSocketIsReachable'
    <2>. SUFFICES ASSUME NEW x \in Conns, phase'[x] \in Registered, ~cut[x]
                  PROVE  byDevice'[dev[x]] = x
      BY <1>1 DEF LiveSocketIsReachable
    <2>1. x # c /\ phase[x] \in Registered
      BY <1>4
    <2>2. byDevice[dev[x]] = x /\ dev[x] \in Devices
      BY <2>1 DEF ConnInv, LiveSocketIsReachable, DevKnown, Registered
    <2>. QED
      BY <1>3, <2>1, <2>2
  <1>. QED
    BY <1>5, <1>6, <1>7 DEF ConnInv

\* No step of the hub breaks the registry's invariant.
LEMMA ConnStep ==
    ASSUME TypeOK, ConnInv, Next
    PROVE  ConnInv'
  <1>. USE DEF connvars, hubvars, eventvars, timevars, To
  <1>1. ASSUME NEW c \in Conns, NEW d \in Devices, Dial(c, d)
        PROVE  ConnInv'
    <2>1. /\ phase[c] = "idle" /\ phase' = [phase EXCEPT ![c] = "resolve"]
          /\ dev' = [dev EXCEPT ![c] = d]
          /\ late' = [late EXCEPT ![c] = d \in revoked]
          /\ UNCHANGED <<revoked, cut, byDevice>>
      BY <1>1 DEF Dial
    <2>2. DevKnown' /\ LateStopped'
      BY <2>1 DEF ConnInv, DevKnown, LateStopped, TypeOK
    <2>3. RegistryFits'
      <3>. SUFFICES ASSUME NEW e \in Devices, byDevice[e] # None
                    PROVE  dev'[byDevice[e]] = e /\ phase'[byDevice[e]] \in Registered
        BY <2>1 DEF RegistryFits
      <3>1. byDevice[e] \in Conns
        BY DEF TypeOK
      <3>2. phase[byDevice[e]] \in Registered /\ dev[byDevice[e]] = e
        BY DEF ConnInv, RegistryFits
      <3>3. byDevice[e] # c
        BY <2>1, <3>2 DEF Registered
      <3>. QED
        BY <2>1, <3>1, <3>2, <3>3 DEF TypeOK
    <2>4. LiveSocketIsReachable'
      BY <2>1 DEF ConnInv, LiveSocketIsReachable, TypeOK, Registered
    <2>. QED
      BY <2>2, <2>3, <2>4 DEF ConnInv
  <1>2. ASSUME NEW c \in Conns, Serve(c)
        PROVE  ConnInv'
    <2>1. CASE ResolveToken(c)
      BY <1>2, <2>1, PhaseMoves DEF ResolveToken, Handshake, Registered
    <2>2. CASE ReadRow(c)
      <3>1. phase[c] = "row" /\ UNCHANGED <<revoked, dev, late, cut, byDevice>>
        BY <2>2 DEF ReadRow, Handshake
      <3>2. late[c] => dev[c] \in revoked
        BY DEF ConnInv, LateStopped
      <3>3. PICK p \in {"refused", "rev"} :
                /\ phase' = [phase EXCEPT ![c] = p]
                /\ late[c] => p = "refused"
        BY <2>2, <3>2 DEF ReadRow
      <3>. QED
        BY <3>1, <3>3, PhaseMoves DEF Registered
    <2>3. CASE ReadRevoked(c)
      <3>1. phase[c] = "rev" /\ UNCHANGED <<revoked, dev, late, cut, byDevice>>
        BY <2>3 DEF ReadRevoked, Handshake
      <3>2. ~late[c]
        BY <3>1 DEF ConnInv, LateStopped
      <3>3. PICK p \in {"refused", "register"} : phase' = [phase EXCEPT ![c] = p]
        BY <2>3 DEF ReadRevoked
      <3>. QED
        BY <3>1, <3>2, <3>3, PhaseMoves DEF Registered
    <2>4. CASE Register(c)
      BY <2>4, RegisterFits
    <2>5. CASE SetOnline(c)
      <3>1. ~late[c]
        BY <2>5 DEF SetOnline, ConnInv, LateStopped
      <3>. QED
        BY <2>5, <3>1, PhaseMoves DEF SetOnline, Registered
    <2>6. CASE Spawn(c)
      <3>1. ~late[c]
        BY <2>6 DEF Spawn, ConnInv, LateStopped
      <3>. QED
        BY <2>6, <3>1, PhaseMoves DEF Spawn, Registered
    <2>7. CASE Leave(c)
      BY <2>7, LeaveFits
    <2>8. CASE SetOffline(c)
      <3>1. ~late[c]
        BY <2>8 DEF SetOffline, ConnInv, LateStopped
      <3>. QED
        BY <2>8, <3>1, PhaseMoves DEF SetOffline, Registered
    <2>. QED
      BY <1>2, <2>1, <2>2, <2>3, <2>4, <2>5, <2>6, <2>7, <2>8 DEF Serve
  <1>3. ASSUME NEW c \in Conns,
               \/ Receive(c) \/ ReadEnds(c) \/ WriteSignal(c) \/ WriteEnds(c)
           \/ CloseOne(c) \/ CloseStale(c)
        PROVE  ConnInv'
    <2>1. /\ UNCHANGED <<phase, dev, late, byDevice, revoked>>
          /\ cut' = cut \/ cut' = [cut EXCEPT ![c] = TRUE]
      BY <1>3 DEF Receive, ReadEnds, WriteSignal, WriteEnds, CloseOne, CloseStale
    <2>2. \A x \in Conns : cut[x] => cut'[x]
      BY <2>1 DEF TypeOK
    <2>. QED
      BY <2>1, <2>2, ConnKept
  <1>4. CASE CheckLiveness
    <2>1. \A x \in Conns : cut[x] => cut'[x]
      BY <1>4 DEF CheckLiveness
    <2>. QED
      BY <1>4, <2>1, ConnKept DEF CheckLiveness
  <1>5. ASSUME NEW d \in Devices, Revoke(d)
        PROVE  ConnInv'
    BY <1>5, ConnKept DEF Revoke
  <1>6. ASSUME NEW to \in Devices \cup {None}, Notify(to)
        PROVE  ConnInv'
    BY <1>6, ConnKept DEF Notify
  <1>7. CASE Fanout \/ CatchupEnds \/ Window \/ CloseHub \/ LoopEnds \/ CloseReturns
    <2>1. UNCHANGED <<phase, dev, late, byDevice, cut, revoked>>
      BY <1>7 DEF Fanout, CatchupEnds, Window, CloseHub, LoopEnds, CloseReturns
    <2>. QED
      BY <2>1, ConnKept
  <1>. QED
    BY <1>1, <1>2, <1>3, <1>4, <1>5, <1>6, <1>7 DEF Next

-----------------------------------------------------------------------------
(* The order of signals.                                                    *)

Rising(s) == \A i, j \in 1..Len(s) : i < j => s[i] < s[j]

AllBelow(s, x) == \A i \in 1..Len(s) : s[i] < x

\* What the client has is older than what waits in its buffer.
BufferFollows(g, s) == \A j \in 1..Len(s) : AllBelow(g, s[j])

\* Whatever reached a socket is older than whatever waits in notifyCh.
QueueFollows(s) ==
    AllBelow(s, published + 1) /\ \A k \in 1..Len(queue) : AllBelow(s, queue[k].n)

QueueRising ==
    /\ \A i, j \in 1..Len(queue) : i < j => queue[i].n < queue[j].n
    /\ \A i \in 1..Len(queue) : queue[i].n <= published

ConnOrder(c) ==
    /\ Rising(got[c]) /\ Rising(send[c]) /\ BufferFollows(got[c], send[c])
    /\ QueueFollows(got[c]) /\ QueueFollows(send[c])

OrderInv == QueueRising /\ \A c \in Conns : ConnOrder(c)

\* Initially nothing is queued anywhere.
LEMMA OrderInit == Init => OrderInv
  BY DEF Init, OrderInv, ConnOrder, QueueRising, QueueFollows, BufferFollows, Rising,
      AllBelow

\* A younger number at the end of a rising sequence.
LEMMA AppendRises ==
    ASSUME NEW S \in SUBSET Nat, NEW s \in Seq(S), NEW e \in S
    PROVE  /\ Rising(s) /\ AllBelow(s, e) => Rising(Append(s, e))
           /\ \A x \in Nat : AllBelow(s, x) /\ e < x => AllBelow(Append(s, e), x)
           /\ \A k \in 1..Len(Append(s, e)) :
                Append(s, e)[k] = e \/ \E i \in 1..Len(s) : Append(s, e)[k] = s[i]
  <1>1. /\ Len(s) \in Nat
        /\ Len(Append(s, e)) = Len(s) + 1
        /\ \A i \in 1..Len(s) : Append(s, e)[i] = s[i] /\ s[i] \in S
        /\ Append(s, e)[Len(s) + 1] = e
    BY AppendProperties, LenProperties, ElementOfSeq
  <1>2. PICK t, m, n : t = Append(s, e) /\ m = Len(s) /\ n = Len(Append(s, e))
    OBVIOUS
  <1>3. /\ m \in Nat /\ n = m + 1
        /\ \A i \in 1..m : t[i] = s[i] /\ s[i] \in Nat
        /\ t[m + 1] = e /\ e \in Nat
    BY <1>1, <1>2
  <1>4. \A k \in 1..n : k = m + 1 \/ k \in 1..m
    BY <1>3
  <1>5. \A k \in 1..n : t[k] = e \/ \E i \in 1..m : t[k] = s[i]
    BY <1>3, <1>4
  <1>6. ASSUME \A i \in 1..m : s[i] < e, \A i, j \in 1..m : i < j => s[i] < s[j]
        PROVE  \A i, j \in 1..n : i < j => t[i] < t[j]
    BY <1>3, <1>6
  <1>. QED
    BY <1>2, <1>5, <1>6 DEF Rising, AllBelow

\* Taking the oldest number off a rising sequence.
LEMMA TailRises ==
    ASSUME NEW S, NEW s \in Seq(S), s # <<>>
    PROVE  /\ Head(s) = s[1] /\ s[1] \in S /\ 1 \in 1..Len(s)
           /\ \A k \in 1..Len(Tail(s)) : k + 1 \in 1..Len(s) /\ Tail(s)[k] = s[k + 1]
           /\ \A x : AllBelow(s, x) => AllBelow(Tail(s), x)
           /\ Rising(s) => Rising(Tail(s)) /\ \A k \in 1..Len(Tail(s)) : s[1] < Tail(s)[k]
  <1>1. /\ Len(s) \in Nat \ {0} /\ Head(s) \in S
        /\ Len(Tail(s)) = Len(s) - 1
        /\ \A i \in 1..Len(Tail(s)) : Tail(s)[i] = s[i + 1]
    BY EmptySeq, HeadTailProperties
  <1>2. Head(s) = s[1]
    BY <1>1
  <1>3. PICK t, m, n : t = Tail(s) /\ m = Len(s) /\ n = Len(Tail(s))
    OBVIOUS
  <1>4. m \in Nat /\ m > 0 /\ n = m - 1 /\ \A i \in 1..n : t[i] = s[i + 1]
    BY <1>1, <1>3
  <1>5. \A k \in 1..n : k + 1 \in 1..m
    BY <1>4
  <1>6. ASSUME \A i, j \in 1..m : i < j => s[i] < s[j]
        PROVE  /\ \A i, j \in 1..n : i < j => t[i] < t[j]
               /\ \A k \in 1..n : s[1] < t[k]
    BY <1>4, <1>5, <1>6
  <1>7. ASSUME NEW x, \A i \in 1..m : s[i] < x
        PROVE  \A i \in 1..n : t[i] < x
    BY <1>4, <1>5, <1>7
  <1>. QED
    BY <1>1, <1>2, <1>3, <1>4, <1>5, <1>6, <1>7 DEF Rising, AllBelow

\* The numbers of the queued events and of the buffers are naturals.
LEMMA Numbers ==
    ASSUME TypeOK
    PROVE  /\ published \in Nat /\ Len(queue) \in Nat /\ 1..MaxEvents \in SUBSET Nat
           /\ \A k \in 1..Len(queue) : queue[k] \in Events /\ queue[k].n \in Nat
           /\ \A c \in Conns :
                /\ send[c] \in Seq(1..MaxEvents) /\ got[c] \in Seq(1..MaxEvents)
                /\ \A i \in 1..Len(send[c]) : send[c][i] \in Nat
                /\ \A i \in 1..Len(got[c]) : got[c][i] \in Nat
  <1>1. published \in Nat /\ 1..MaxEvents \in SUBSET Nat
    BY HubAssumption DEF TypeOK
  <1>2. Len(queue) \in Nat /\ \A k \in 1..Len(queue) : queue[k] \in Events
    BY LenProperties, ElementOfSeq DEF TypeOK
  <1>3. \A k \in 1..Len(queue) : queue[k].n \in Nat
    BY <1>2, HubAssumption DEF Events
  <1>4. ASSUME NEW s \in Seq(1..MaxEvents)
        PROVE  \A i \in 1..Len(s) : s[i] \in Nat
    <2>1. \A i \in 1..Len(s) : s[i] \in 1..MaxEvents
      BY ElementOfSeq
    <2>. QED
      BY <2>1, HubAssumption
  <1>. QED
    BY <1>1, <1>2, <1>3, <1>4 DEF TypeOK

\* A bound on all of a sequence of naturals may be raised.
LEMMA Raised ==
    ASSUME NEW s, \A i \in 1..Len(s) : s[i] \in Nat, NEW x \in Nat, NEW y \in Nat,
           x <= y, AllBelow(s, x)
    PROVE  AllBelow(s, y)
  BY DEF AllBelow

\* A new event is younger than all others, whether or not there is room.
LEMMA NotifyOrder ==
    ASSUME TypeOK, OrderInv, NEW to \in Devices \cup {None}, Notify(to)
    PROVE  OrderInv'
  <1>. DEFINE ev == [n |-> published + 1, to |-> to]
  <1>1. UNCHANGED <<send, got>> /\ published' = published + 1
    BY DEF Notify
  <1>2. PICK q : queue' = q
    OBVIOUS
  <1>3. \/ Len(q) = Len(queue) /\ \A k \in 1..Len(queue) : q[k] = queue[k]
        \/ /\ Len(q) = Len(queue) + 1
           /\ \A k \in 1..Len(queue) : q[k] = queue[k]
           /\ q[Len(queue) + 1].n = published + 1
    <2>1. queue \in Seq(Events) /\ ev \in Events
      BY Numbers, HubAssumption DEF TypeOK, Notify, Events
    <2>2. /\ Len(Append(queue, ev)) = Len(queue) + 1
          /\ \A k \in 1..Len(queue) : Append(queue, ev)[k] = queue[k]
          /\ Append(queue, ev)[Len(queue) + 1] = ev
      BY <2>1, AppendProperties
    <2>3. q = queue \/ q = Append(queue, ev)
      BY <1>2 DEF Notify
    <2>. QED
      BY <2>2, <2>3
  <1>4. \A k \in 1..Len(q) : (k \in 1..Len(queue) /\ q[k] = queue[k]) \/ q[k].n = published + 1
    BY <1>3, Numbers
  <1>5. QueueRising'
    <2>1. PICK m \in Nat, p \in Nat : m = Len(queue) /\ p = published
      BY Numbers
    <2>2. /\ \A i, j \in 1..m : i < j => queue[i].n < queue[j].n
          /\ \A i \in 1..m : queue[i].n <= p /\ queue[i].n \in Nat
      BY <2>1, Numbers DEF OrderInv, QueueRising
    <2>3. CASE Len(q) = m /\ \A k \in 1..m : q[k] = queue[k]
      <3>1. \A i, j \in 1..m : i < j => q[i].n < q[j].n
        BY <2>2, <2>3
      <3>2. \A i \in 1..m : q[i].n <= p + 1
        BY <2>2, <2>3
      <3>. QED
        BY <1>1, <1>2, <2>1, <2>3, <3>1, <3>2 DEF QueueRising
    <2>4. CASE /\ Len(q) = m + 1 /\ q[m + 1].n = p + 1
               /\ \A k \in 1..m : q[k] = queue[k]
      <3>1. \A k \in 1..(m + 1) : k \in 1..m \/ k = m + 1
        OBVIOUS
      <3>2. \A k \in 1..(m + 1) : q[k].n <= p + 1
        BY <2>2, <2>4, <3>1
      <3>3. \A i, j \in 1..(m + 1) : i < j => q[i].n < q[j].n
        <4>. TAKE i, j \in 1..(m + 1)
        <4>. HAVE i < j
        <4>1. i \in 1..m
          OBVIOUS
        <4>2. CASE j \in 1..m
          BY <2>2, <2>4, <4>1, <4>2
        <4>3. CASE j = m + 1
          BY <2>2, <2>4, <4>1, <4>3
        <4>. QED
          BY <3>1, <4>2, <4>3
      <3>. QED
        BY <1>1, <1>2, <2>1, <2>4, <3>2, <3>3 DEF QueueRising
    <2>. QED
      BY <1>3, <2>1, <2>3, <2>4
  <1>6. ASSUME NEW s, QueueFollows(s), \A i \in 1..Len(s) : s[i] \in Nat
        PROVE  /\ AllBelow(s, published + 2)
               /\ \A k \in 1..Len(q) : AllBelow(s, q[k].n)
    <2>1. AllBelow(s, published + 1)
      BY <1>6 DEF QueueFollows
    <2>2. AllBelow(s, published + 2)
      BY <1>6, <2>1, Raised, Numbers
    <2>3. \A k \in 1..Len(queue) : AllBelow(s, queue[k].n)
      BY <1>6 DEF QueueFollows
    <2>. QED
      BY <1>4, <2>1, <2>2, <2>3
  <1>7. ASSUME NEW c \in Conns
        PROVE  ConnOrder(c)'
    <2>1. ConnOrder(c)
      BY DEF OrderInv
    <2>2. published + 2 = published' + 1
      BY <1>1, Numbers
    <2>3. QueueFollows(got[c])' /\ QueueFollows(send[c])'
      BY <1>1, <1>2, <1>6, <2>1, <2>2, Numbers DEF ConnOrder, QueueFollows
    <2>. QED
      BY <1>1, <2>1, <2>3 DEF ConnOrder
  <1>. QED
    BY <1>5, <1>7 DEF OrderInv

\* The oldest event moves from the queue to the end of some buffers.
LEMMA FanoutOrder ==
    ASSUME TypeOK, OrderInv, Fanout
    PROVE  OrderInv'
  <1>1. /\ queue \in Seq(Events) /\ queue # <<>> /\ queue' = Tail(queue)
        /\ got' = got /\ published' = published /\ queue[1].n \in 1..MaxEvents
    BY FanoutSends
  <1>2. PICK q, e : queue' = q /\ e = queue[1].n
    OBVIOUS
  <1>3. /\ 1 \in 1..Len(queue) /\ Len(q) \in Nat
        /\ \A k \in 1..Len(q) : k + 1 \in 1..Len(queue) /\ q[k] = queue[k + 1]
    <2>1. Tail(queue) \in Seq(Events)
      BY <1>1, HeadTailProperties
    <2>. QED
      BY <1>1, <1>2, <2>1, TailRises, LenProperties
  <1>4. QueueRising
    BY DEF OrderInv
  <1>5. e \in Nat /\ e <= published /\ \A k \in 1..Len(q) : e < q[k].n
    <2>1. e \in Nat
      BY <1>2, <1>3, Numbers
    <2>2. e <= published
      BY <1>2, <1>3, <1>4 DEF QueueRising
    <2>3. ASSUME NEW k \in 1..Len(q) PROVE e < q[k].n
      <3>1. k + 1 \in 1..Len(queue) /\ q[k] = queue[k + 1] /\ 1 < k + 1
        BY <1>3
      <3>2. queue[1].n < queue[k + 1].n
        BY <1>3, <1>4, <3>1 DEF QueueRising
      <3>. QED
        BY <1>2, <3>1, <3>2
    <2>. QED
      BY <2>1, <2>2, <2>3
  <1>6. QueueRising'
    <2>1. ASSUME NEW i \in 1..Len(q), NEW j \in 1..Len(q), i < j
          PROVE  q[i].n < q[j].n
      <3>1. /\ i + 1 \in 1..Len(queue) /\ q[i] = queue[i + 1]
            /\ j + 1 \in 1..Len(queue) /\ q[j] = queue[j + 1] /\ i + 1 < j + 1
        BY <1>3, <2>1
      <3>2. queue[i + 1].n < queue[j + 1].n
        BY <1>4, <3>1 DEF QueueRising
      <3>. QED
        BY <3>1, <3>2
    <2>2. \A i \in 1..Len(q) : q[i].n <= published
      BY <1>3, <1>4 DEF QueueRising
    <2>. QED
      BY <1>1, <1>2, <2>1, <2>2 DEF QueueRising
  <1>7. ASSUME NEW s, QueueFollows(s)
        PROVE  QueueFollows(s)' /\ AllBelow(s, e)
    BY <1>1, <1>2, <1>3, <1>7 DEF QueueFollows
  <1>8. ASSUME NEW c \in Conns
        PROVE  ConnOrder(c)'
    <2>1. ConnOrder(c) /\ got'[c] = got[c]
      BY <1>1 DEF OrderInv
    <2>2. /\ QueueFollows(got[c])' /\ AllBelow(got[c], e)
          /\ AllBelow(send[c], e)
      BY <1>1, <1>7, <2>1 DEF ConnOrder, QueueFollows
    <2>3. CASE send'[c] = send[c]
      BY <1>1, <1>7, <2>1, <2>2, <2>3 DEF ConnOrder, QueueFollows
    <2>4. CASE send'[c] = Append(send[c], e)
      <3>1. PICK s : send'[c] = s /\ s = Append(send[c], e)
        BY <2>4
      <3>2. /\ Rising(s)
            /\ \A x \in Nat : AllBelow(send[c], x) /\ e < x => AllBelow(s, x)
            /\ \A k \in 1..Len(s) : s[k] = e \/ \E i \in 1..Len(send[c]) : s[k] = send[c][i]
        <4>1. /\ 1..MaxEvents \in SUBSET Nat
              /\ send[c] \in Seq(1..MaxEvents) /\ e \in 1..MaxEvents
          BY <1>1, <1>2, Numbers
        <4>2. Rising(send[c])
          BY <2>1 DEF ConnOrder
        <4>3. /\ Rising(Append(send[c], e))
              /\ \A x \in Nat : AllBelow(send[c], x) /\ e < x => AllBelow(Append(send[c], e), x)
              /\ \A k \in 1..Len(Append(send[c], e)) :
                   \/ Append(send[c], e)[k] = e
                   \/ \E i \in 1..Len(send[c]) : Append(send[c], e)[k] = send[c][i]
          BY <2>2, <4>1, <4>2, AppendRises
        <4>. QED
          BY <3>1, <4>3
      <3>3. BufferFollows(got[c], s)
        BY <2>1, <2>2, <3>2 DEF ConnOrder, BufferFollows
      <3>4. \A k \in 1..Len(q) : AllBelow(send[c], q[k].n) /\ q[k].n \in Nat
        BY <1>3, <2>1, Numbers DEF ConnOrder, QueueFollows
      <3>5. \A k \in 1..Len(q) : AllBelow(s, q[k].n)
        BY <1>5, <3>2, <3>4
      <3>6. AllBelow(s, published + 1)
        <4>1. AllBelow(send[c], published + 1)
          BY <2>1 DEF ConnOrder, QueueFollows
        <4>2. published + 1 \in Nat /\ e < published + 1
          BY <1>5, Numbers
        <4>. QED
          BY <3>2, <4>1, <4>2
      <3>. QED
        BY <1>1, <1>2, <2>1, <2>2, <3>1, <3>2, <3>3, <3>5, <3>6
        DEF ConnOrder, QueueFollows
    <2>. QED
      BY <1>2, <2>3, <2>4, FanoutSends
  <1>. QED
    BY <1>6, <1>8 DEF OrderInv

\* The oldest buffered event moves to the end of what the client has.
LEMMA WriteOrder ==
    ASSUME TypeOK, OrderInv, NEW c \in Conns, WriteSignal(c)
    PROVE  OrderInv'
  <1>1. /\ send[c] # <<>> /\ UNCHANGED <<queue, published>>
        /\ got' = [got EXCEPT ![c] = Append(@, Head(send[c]))]
        /\ send' = [send EXCEPT ![c] = Tail(@)]
    BY DEF WriteSignal
  <1>2. \A x \in Conns : x # c => got'[x] = got[x] /\ send'[x] = send[x]
    BY <1>1 DEF TypeOK
  <1>3. ASSUME NEW x \in Conns, x # c
        PROVE  ConnOrder(x)'
    BY <1>1, <1>2, <1>3 DEF OrderInv, ConnOrder, QueueFollows
  <1>4. ConnOrder(c)'
    <2>1. PICK g, s, e : g = Append(got[c], e) /\ s = Tail(send[c]) /\ e = send[c][1]
      OBVIOUS
    <2>2. ConnOrder(c)
      BY DEF OrderInv
    <2>3. /\ Head(send[c]) = e /\ e \in 1..MaxEvents /\ e \in Nat /\ 1 \in 1..Len(send[c])
          /\ \A k \in 1..Len(s) : k + 1 \in 1..Len(send[c]) /\ s[k] = send[c][k + 1]
          /\ \A x : AllBelow(send[c], x) => AllBelow(s, x)
          /\ Rising(s) /\ \A k \in 1..Len(s) : e < s[k]
      BY <1>1, <2>1, <2>2, TailRises, Numbers DEF ConnOrder
    <2>4. AllBelow(got[c], e)
      BY <2>1, <2>2, <2>3 DEF ConnOrder, BufferFollows
    <2>5. Rising(g) /\ \A x \in Nat : AllBelow(got[c], x) /\ e < x => AllBelow(g, x)
      BY <2>1, <2>2, <2>3, <2>4, AppendRises, Numbers DEF ConnOrder
    <2>6. got'[c] = g /\ send'[c] = s
      BY <1>1, <2>1, <2>3 DEF TypeOK
    <2>7. \A x : AllBelow(send[c], x) => e < x
      BY <2>1, <2>3 DEF AllBelow
    <2>8. AllBelow(g, published + 1)
      <3>1. published + 1 \in Nat
        BY Numbers
      <3>. QED
        BY <2>2, <2>5, <2>7, <3>1 DEF ConnOrder, QueueFollows
    <2>9. \A k \in 1..Len(queue) : AllBelow(g, queue[k].n)
      BY <2>2, <2>5, <2>7, Numbers DEF ConnOrder, QueueFollows
    <2>10. AllBelow(s, published + 1) /\ \A k \in 1..Len(queue) : AllBelow(s, queue[k].n)
      BY <2>2, <2>3 DEF ConnOrder, QueueFollows
    <2>11. BufferFollows(g, s)
      <3>. SUFFICES ASSUME NEW k \in 1..Len(s) PROVE AllBelow(g, s[k])
        BY DEF BufferFollows
      <3>1. k + 1 \in 1..Len(send[c]) /\ s[k] = send[c][k + 1] /\ e < s[k]
        BY <2>3
      <3>2. AllBelow(got[c], s[k]) /\ s[k] \in Nat
        BY <2>2, <3>1, Numbers DEF ConnOrder, BufferFollows
      <3>. QED
        BY <2>5, <3>1, <3>2
    <2>. QED
      BY <1>1, <2>3, <2>5, <2>6, <2>8, <2>9, <2>10, <2>11 DEF ConnOrder, QueueFollows
  <1>5. QueueRising'
    BY <1>1 DEF OrderInv, QueueRising
  <1>. QED
    BY <1>3, <1>4, <1>5 DEF OrderInv

\* No step of the hub, its loops or its sockets reorders signals.
LEMMA OrderStep ==
    ASSUME TypeOK, OrderInv, Next
    PROVE  OrderInv'
  <1>. USE DEF connvars, hubvars, eventvars, timevars
  <1>1. ASSUME NEW to \in Devices \cup {None}, Notify(to)
        PROVE  OrderInv'
    BY <1>1, NotifyOrder
  <1>2. CASE Fanout
    BY <1>2, FanoutOrder
  <1>3. ASSUME NEW c \in Conns, WriteSignal(c)
        PROVE  OrderInv'
    BY <1>3, WriteOrder
  <1>4. CASE UNCHANGED <<queue, published, send, got>>
    BY <1>4 DEF OrderInv, QueueRising, ConnOrder, QueueFollows
  <1>5. ASSUME NEW c \in Conns,
               \/ \E d \in Devices : Dial(c, d)
               \/ Serve(c) \/ Receive(c) \/ ReadEnds(c) \/ WriteEnds(c)
               \/ CloseOne(c) \/ CloseStale(c)
        PROVE  UNCHANGED <<queue, published, send, got>>
    BY <1>5 DEF Dial, Serve, Receive, ReadEnds, WriteEnds, CloseOne, CloseStale, ResolveToken,
        ReadRow, ReadRevoked, Handshake, Register, SetOnline, Spawn, Leave, SetOffline
  <1>6. ASSUME \/ \E d \in Devices : Revoke(d)
               \/ CatchupEnds \/ Window \/ CheckLiveness
               \/ CloseHub \/ LoopEnds \/ CloseReturns
        PROVE  UNCHANGED <<queue, published, send, got>>
    BY <1>6 DEF Revoke, CatchupEnds, Window, CheckLiveness, CloseHub, LoopEnds, CloseReturns
  <1>. QED
    BY <1>1, <1>2, <1>3, <1>4, <1>5, <1>6 DEF Next

-----------------------------------------------------------------------------
(* The theorems.                                                            *)

\* The inductive invariant of the hub.
Inv == TypeOK /\ ConnInv /\ OrderInv

\* Every step of every goroutine keeps the invariant.
LEMMA InvStep == Inv /\ [Next]_vars => Inv'
  <1>. SUFFICES ASSUME Inv, [Next]_vars PROVE Inv'
    OBVIOUS
  <1>1. CASE Next
    <2>1. TypeOK'
      <3>1. ASSUME NEW c \in Conns, NEW d \in Devices, Dial(c, d)
            PROVE  TypeOK'
        BY <3>1 DEF Inv, Dial, To, TypeOK, Phases, eventvars, timevars, hubvars
      <3>2. \A c \in Conns : phase[c] # "idle" => dev[c] \in Devices
        BY DEF Inv, ConnInv, DevKnown
      <3>. QED
        BY <1>1, <3>1, <3>2, TypeServe, TypeLoops, TypeHub DEF Inv, Next
    <2>. QED
      BY <1>1, <2>1, ConnStep, OrderStep DEF Inv
  <1>2. CASE UNCHANGED vars
    BY <1>2 DEF Inv, vars, TypeOK, ConnInv, DevKnown, LateStopped, RegistryFits,
        LiveSocketIsReachable, OrderInv, QueueRising, ConnOrder, QueueFollows
  <1>. QED
    BY <1>1, <1>2

\* The hub's maps, buffers, queue and clocks keep their types and bounds, and
\* the registry and the order of signals are consistent in every state.
THEOREM TypeCorrect == Spec => []Inv
  <1>1. Init => Inv
    <2>. SUFFICES ASSUME Init PROVE Inv
      OBVIOUS
    <2>1. ConnInv
      BY DEF Init, ConnInv, DevKnown, LateStopped, RegistryFits, LiveSocketIsReachable,
          Registered
    <2>. QED
      BY <2>1, TypeInit, OrderInit DEF Inv
  <1>. QED
    BY <1>1, InvStep, PTL DEF Spec

\* A socket dialled after its device's revocation was committed is never
\* registered, whatever IsRevoked answers (ServeHTTP).
THEOREM RevokedStayOut == Spec => []RevokedNeverConnects
  <1>1. Inv => RevokedNeverConnects
    BY DEF Inv, ConnInv, LateStopped, RevokedNeverConnects
  <1>. QED
    BY <1>1, TypeCorrect, PTL

\* However replacements and tear-downs overlap, the open socket of a device is
\* the one that the hub's map reaches (ServeHTTP, byDevice).
THEOREM LiveSocketReachable == Spec => []LiveSocketIsReachable
  <1>1. Inv => LiveSocketIsReachable
    BY DEF Inv, ConnInv
  <1>. QED
    BY <1>1, TypeCorrect, PTL

\* Whatever full buffers drop, a client sees signals in the order of their
\* publication (Notify, fanout, writeLoop).
THEOREM SignalsOrdered == Spec => []SignalsInOrder
  <1>1. Inv => SignalsInOrder
    BY DEF Inv, OrderInv, ConnOrder, Rising, SignalsInOrder
  <1>. QED
    BY <1>1, TypeCorrect, PTL

\* A device's registration changes hands only when its socket is closed by
\* then: no step drops a live socket from the map (ServeHTTP, byDevice).
RegistrationsHeld ==
    [][\A d \in Devices : byDevice[d] # None /\ byDevice'[d] # byDevice[d]
                             => cut'[byDevice[d]]]_vars

\* No step of any handler takes the registration of a socket that stays open.
THEOREM LiveNeverDropped == Spec => RegistrationsHeld
  <1>. DEFINE Held == \A d \in Devices : byDevice[d] # None /\ byDevice'[d] # byDevice[d]
                                            => cut'[byDevice[d]]
  <1>1. ASSUME Inv, Next, byDevice' # byDevice
        PROVE  Held
    <2>. USE DEF connvars, hubvars, eventvars, timevars, To
    <2>1. PICK c \in Conns : Register(c) \/ Leave(c)
      <3>1. CASE \E c \in Conns, d \in Devices : Dial(c, d)
        BY <1>1, <3>1 DEF Dial
      <3>2. CASE \E c \in Conns : Serve(c)
        BY <1>1, <3>2 DEF Serve, ResolveToken, ReadRow, ReadRevoked, Handshake, SetOnline,
            Spawn, SetOffline
      <3>3. CASE \E c \in Conns : \/ Receive(c) \/ ReadEnds(c) \/ WriteSignal(c)
                                  \/ WriteEnds(c) \/ CloseOne(c) \/ CloseStale(c)
        BY <1>1, <3>3 DEF Receive, ReadEnds, WriteSignal, WriteEnds, CloseOne, CloseStale
      <3>4. CASE \/ \E to \in Devices \cup {None} : Notify(to)
                 \/ \E d \in Devices : Revoke(d)
                 \/ Fanout \/ CatchupEnds \/ Window \/ CheckLiveness
                 \/ CloseHub \/ LoopEnds \/ CloseReturns
        BY <1>1, <3>4 DEF Notify, Revoke, Fanout, CatchupEnds, Window, CheckLiveness,
            CloseHub, LoopEnds, CloseReturns
      <3>. QED
        BY <1>1, <3>1, <3>2, <3>3, <3>4 DEF Next
    <2>2. TypeOK /\ dev[c] \in Devices
      BY <1>1, <2>1 DEF Inv, ConnInv, DevKnown, Register, Leave
    <2>3. CASE Register(c)
      <3>1. /\ cut' = [x \in Conns |-> cut[x] \/ x \in Displaced(c)]
            /\ byDevice' = [byDevice EXCEPT ![dev[c]] = c]
        BY <1>1, <2>3 DEF Register
      <3>2. ASSUME NEW d \in Devices, byDevice[d] # None, byDevice'[d] # byDevice[d]
            PROVE  cut'[byDevice[d]]
        <4>1. d = dev[c] /\ byDevice[d] \in Conns
          BY <2>2, <3>1, <3>2 DEF TypeOK
        <4>. QED
          BY <3>1, <3>2, <4>1 DEF Displaced
      <3>. QED
        BY <3>2
    <2>4. CASE Leave(c)
      BY <2>2, <2>4 DEF Leave, Unregister, TypeOK
    <2>. QED
      BY <2>1, <2>3, <2>4
  <1>2. Inv /\ [Next]_vars => [Held]_vars
    BY <1>1 DEF vars
  <1>. QED
    BY <1>2, TypeCorrect, PTL DEF Spec, RegistrationsHeld

=============================================================================
