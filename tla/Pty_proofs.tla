----------------------------- MODULE Pty_proofs ------------------------------
(***************************************************************************)
(* Proofs about Pty, for any sizes of chunk, buffer and pipe and any       *)
(* length of output: type correctness, that every handle is closed once,   *)
(* that no process is left behind, and that the output arrives whole.      *)
(***************************************************************************)
EXTENDS Pty, SequenceTheorems, TLAPS

SpawnSteps == {"in", "out", "console", "job", "limits", "attr", "update", "create", "assign",
               "pump"}

\* The lists of the error paths, one by one.
LEMMA Lists ==
    /\ DOMAIN Cleanup = SpawnSteps
    /\ Cleanup["in"] = {} /\ Cleanup["out"] = {"inR", "inW"} /\ Cleanup["console"] = Pipes
    /\ Cleanup["job"] = Pipes \cup {"console"}
    /\ Cleanup["limits"] = Pipes \cup {"console", "job"}
    /\ Cleanup["attr"] = Pipes \cup {"console", "job"}
    /\ Cleanup["update"] = Pipes \cup {"console", "job", "attr"}
    /\ Cleanup["create"] = Pipes \cup {"console", "job", "attr"}
    /\ Cleanup["assign"] = Pipes \cup {"console", "job", "process"}
    /\ Cleanup["pump"] = Pipes \cup {"console", "job", "process"}
BY DEF Cleanup, SpawnSteps, Pipes

\* The calls of spawn, one by one.
LEMMA Calls ==
    /\ DOMAIN Opens = SpawnSteps \ {"assign", "pump"}
    /\ Opens["in"] = {"inR", "inW"} /\ Opens["out"] = {"outR", "outW"}
    /\ Opens["console"] = {"console"} /\ Opens["job"] = {"job"} /\ Opens["limits"] = {}
    /\ Opens["attr"] = {"attr"} /\ Opens["update"] = {} /\ Opens["create"] = {"process"}
    /\ After["in"] = "out" /\ After["out"] = "console" /\ After["console"] = "job"
    /\ After["job"] = "limits" /\ After["limits"] = "attr" /\ After["attr"] = "update"
    /\ After["update"] = "create" /\ After["create"] = "assign"
BY DEF Opens, After, SpawnSteps

-----------------------------------------------------------------------------
(* The inductive invariant.                                                 *)

\* While spawn is at work, open is what the error path of the next call closes.
\* From then on the thread holds outR as long as it runs.
OpenFits ==
    /\ pc \in SpawnSteps => open = Cleanup[pc] /\ pump = "none"
    /\ pc = "up" => open = {"inW", "process", "job", "console", "inR", "outW"}
                           \cup (IF pump = "run" THEN {"outR"} ELSE {})
    /\ pc = "joining" => open = {"inW", "process", "job"}
                                \cup (IF pump = "run" THEN {"outR"} ELSE {})
    /\ pc \in {"up", "joining"} => pump \in {"run", "done"}
    /\ pc \in Ended => open = {} /\ pump # "run"

\* Nothing was closed that is open or still to be opened.
ClosesFit ==
    /\ \A h \in Handles : closes[h] <= 1 /\ (h \in open => closes[h] = 0)
    /\ pc \in SpawnSteps =>
          \A h \in Handles : closes[h] > 0 => h = "attr" /\ pc \in {"assign", "pump"}

\* There is no process before CreateProcessW, and the child is in the job from
\* its assignment on; when a drop has begun or spawn has failed, what lives is
\* neither in the job nor on the console.
ProcsFit ==
    /\ pc \in SpawnSteps \ {"assign", "pump"} =>
          attached = {} /\ injob = {} /\ \A p \in Procs : proc[p] = "none"
    /\ pc = "assign" => injob = {} /\ proc["child"] # "none"
    /\ \A p \in Procs : proc[p] = "none" => p \notin injob \cup attached
    /\ pc \in Ended \cup {"joining"} =>
          \A p \in Procs : Alive(p) => p \notin injob \cup attached

\* The output is whole, the thread has nothing in its hand when it is not at
\* work, and the stream counts as closed only when it ended.
StreamFits ==
    /\ pc # "gone" => got \o chan \o hand \o pipe \o lost = [i \in 1..sent |-> i]
    /\ pump # "done" => lost = <<>>
    /\ pump # "run" => hand = <<>>
    /\ closed => pump = "done" /\ chan = <<>>

Inv == TypeOK /\ OpenFits /\ ClosesFit /\ ProcsFit /\ StreamFits

Chunks == Seq(1..MaxChunks)

\* The order of the calls, told by the lists.
LEMMA CallOrder ==
    /\ \A c \in SpawnSteps \ {"create", "assign", "pump"} :
          /\ After[c] \in SpawnSteps \ {"assign", "pump"}
          /\ Cleanup[After[c]] = Cleanup[c] \cup Opens[c]
    /\ Cleanup["assign"] = (Cleanup["create"] \ {"attr"}) \cup Opens["create"]
    /\ \A c \in SpawnSteps : Cleanup[c] \subseteq Handles
    /\ \A c \in SpawnSteps \ {"create", "assign", "pump"} : Opens[c] \subseteq Handles
<1>1. ASSUME NEW c \in SpawnSteps \ {"create", "assign", "pump"}
      PROVE  /\ After[c] \in SpawnSteps \ {"assign", "pump"}
             /\ Cleanup[After[c]] = Cleanup[c] \cup Opens[c]
             /\ Opens[c] \subseteq Handles
  <2>1. CASE c = "in" BY <2>1, Lists, Calls DEF SpawnSteps, Pipes, Handles
  <2>2. CASE c = "out" BY <2>2, Lists, Calls DEF SpawnSteps, Pipes, Handles
  <2>3. CASE c = "console" BY <2>3, Lists, Calls DEF SpawnSteps, Pipes, Handles
  <2>4. CASE c = "job" BY <2>4, Lists, Calls DEF SpawnSteps, Pipes, Handles
  <2>5. CASE c = "limits" BY <2>5, Lists, Calls DEF SpawnSteps, Pipes, Handles
  <2>6. CASE c = "attr" BY <2>6, Lists, Calls DEF SpawnSteps, Pipes, Handles
  <2>7. CASE c = "update" BY <2>7, Lists, Calls DEF SpawnSteps, Pipes, Handles
  <2> QED BY <2>1, <2>2, <2>3, <2>4, <2>5, <2>6, <2>7 DEF SpawnSteps
<1>2. Cleanup["assign"] = (Cleanup["create"] \ {"attr"}) \cup Opens["create"]
  BY Lists, Calls DEF Pipes
<1>3. \A c \in SpawnSteps : Cleanup[c] \subseteq Handles
  BY Lists DEF SpawnSteps, Pipes, Handles
<1> QED BY <1>1, <1>2, <1>3

-----------------------------------------------------------------------------
(* Sequences.                                                               *)

\* A sequence is its first element and the rest.
LEMMA HeadAndTail ==
    ASSUME NEW S, NEW s \in Seq(S), s # <<>>
    PROVE  <<Head(s)>> \in Seq(S) /\ Tail(s) \in Seq(S) /\ <<Head(s)>> \o Tail(s) = s
<1>1. Head(s) \in S /\ Tail(s) \in Seq(S) /\ Len(Tail(s)) = Len(s) - 1 /\ Len(s) \in Nat \ {0}
  BY HeadTailProperties, EmptySeq
<1>2. \A i \in 1 .. Len(Tail(s)) : Tail(s)[i] = s[i+1]
  BY HeadTailProperties
<1>3. <<Head(s)>> \in Seq(S) /\ Len(<<Head(s)>>) = 1 /\ <<Head(s)>>[1] = s[1]
  BY <1>1
<1>4. /\ <<Head(s)>> \o Tail(s) \in Seq(S) /\ Len(<<Head(s)>> \o Tail(s)) = Len(s)
      /\ \A i \in 1..Len(s) : (<<Head(s)>> \o Tail(s))[i]
                              = IF i <= 1 THEN <<Head(s)>>[i] ELSE Tail(s)[i - 1]
  BY <1>1, <1>3, ConcatProperties
<1>5. \A i \in 1..Len(s) : (<<Head(s)>> \o Tail(s))[i] = s[i]
  BY <1>1, <1>2, <1>3, <1>4
<1> QED BY <1>1, <1>3, <1>4, <1>5, SeqEqual

\* Chunks are moved along a concatenation.
LEMMA Regroup == \A s, t, u \in Chunks : s \o (t \o u) = (s \o t) \o u
BY ConcatAssociative DEF Chunks

\* The numbers up to n and the next one.
LEMMA UpTo ==
    ASSUME NEW n \in Nat
    PROVE  /\ [i \in 1..n |-> i] \in Seq(1..n + 1)
           /\ [i \in 1..n + 1 |-> i] = [i \in 1..n |-> i] \o <<n + 1>>
<1> DEFINE f(m) == [i \in 1..m |-> i]
           S    == 1..n + 1
<1>1. \A m \in {n, n + 1} : f(m) \in [1..m -> S] /\ m \in Nat
  OBVIOUS
<1>2. f(n) \in Seq(S) /\ f(n + 1) \in Seq(S) /\ Len(f(n)) = n /\ Len(f(n + 1)) = n + 1
  BY <1>1
<1>3. <<n + 1>> \in Seq(S) /\ Len(<<n + 1>>) = 1 /\ <<n + 1>>[1] = n + 1
  OBVIOUS
<1>4. /\ f(n) \o <<n + 1>> \in Seq(S) /\ Len(f(n) \o <<n + 1>>) = n + 1
      /\ \A i \in 1..n + 1 : (f(n) \o <<n + 1>>)[i] = IF i <= n THEN f(n)[i] ELSE <<n + 1>>[i - n]
  BY <1>2, <1>3, ConcatProperties
<1>5. \A i \in 1..n + 1 : (f(n) \o <<n + 1>>)[i] = f(n + 1)[i]
  BY <1>3, <1>4
<1>6. f(n + 1) = f(n) \o <<n + 1>>
  BY <1>2, <1>4, <1>5, SeqEqual
<1> QED BY <1>2, <1>6

-----------------------------------------------------------------------------
(* Handles.                                                                 *)

\* The values of pc.
LEMMA Places ==
    /\ PCs = SpawnSteps \cup {"up", "joining", "failed", "gone"}
    /\ DOMAIN Opens \ {"create"} = SpawnSteps \ {"create", "assign", "pump"}
BY Lists, Calls DEF PCs, Ended, SpawnSteps

\* Every call, every error path, the end of the thread and both halves of drop
\* open and close what they should.
LEMMA OpenStep ==
    ASSUME Inv, [Next]_vars
    PROVE  OpenFits'
<1>0. pc \in PCs /\ OpenFits /\ pump \in {"none", "run", "done"}
  BY DEF Inv, TypeOK
<1>1. CASE SpawnCall
  <2>1. /\ pc \in SpawnSteps \ {"create", "assign", "pump"} /\ pc' = After[pc]
        /\ open' = open \cup Opens[pc] /\ pump' = pump
    BY <1>1, Places DEF SpawnCall, outputVars
  <2>2. pc' \in SpawnSteps /\ open' = Cleanup[pc'] /\ pump' = "none"
    BY <1>0, <2>1, CallOrder DEF OpenFits
  <2> QED BY <2>2 DEF OpenFits, SpawnSteps, Ended
<1>2. CASE CreateProcess
  <2>1. pc = "create" /\ pc' = "assign" /\ pump' = pump
    BY <1>2, Calls DEF CreateProcess, outputVars
  <2>2. open' = (open \ {"attr"}) \cup Opens["create"]
    BY <1>2, <2>1 DEF CreateProcess
  <2>3. open' = Cleanup["assign"] /\ pump' = "none"
    BY <1>0, <2>1, <2>2, CallOrder DEF OpenFits, SpawnSteps
  <2> QED BY <2>1, <2>3 DEF OpenFits, SpawnSteps, Ended
<1>3. CASE AssignJob
  BY <1>0, <1>3, Lists DEF AssignJob, outputVars, OpenFits, SpawnSteps, Ended
<1>4. CASE StartPump
  <2>1. pc' = "up" /\ pump' = "run" /\ open' = Pipes \cup {"console", "job", "process"}
    BY <1>0, <1>4, Lists DEF StartPump, OpenFits, SpawnSteps
  <2> QED BY <2>1 DEF OpenFits, SpawnSteps, Ended, Pipes
<1>5. CASE SpawnFails
  <2>1. pc \in SpawnSteps /\ pc' = "failed" /\ open' = open \ Cleanup[pc] /\ pump' = pump
    BY <1>5, Lists DEF SpawnFails, outputVars
  <2>2. open' = {} /\ pump' = "none"
    BY <1>0, <2>1 DEF OpenFits
  <2> QED BY <2>1, <2>2 DEF OpenFits, SpawnSteps, Ended
<1>6. CASE PumpEnds \/ PumpFails
  <2>1. pump = "run" /\ pump' = "done" /\ open' = open \ {"outR"} /\ pc' = pc
    BY <1>6 DEF PumpEnds, PumpFails, PumpStops
  <2>2. pc \in {"up", "joining"}
    BY <1>0, <2>1, Places DEF OpenFits, Ended
  <2> QED BY <1>0, <2>1, <2>2 DEF OpenFits, SpawnSteps, Ended
<1>7. CASE DropCloses
  <2>1. /\ pc = "up" /\ pc' = "joining" /\ pump' = pump
        /\ open' = open \ {"console", "inR", "outW"}
    BY <1>7 DEF DropCloses, outputVars
  <2> QED BY <1>0, <2>1 DEF OpenFits, SpawnSteps, Ended
<1>8. CASE DropJoins
  <2>1. pc' = "gone" /\ open' = {} /\ pump' = "done"
    BY <1>8 DEF DropJoins
  <2> QED BY <2>1 DEF OpenFits, SpawnSteps, Ended
<1>9. CASE \/ ForkGrandchild \/ ConsoleWrites \/ \E p \in Procs : ProcExits(p) \/ LeavesConsole(p)
           \/ PumpRead \/ PumpSend \/ TakeOutput \/ ReadUntil \/ ReadUntilReturns
           \/ Kill \/ WaitExited \/ UNCHANGED vars
  <2>1. pc' = pc /\ open' = open /\ pump' = pump
    BY <1>9 DEF ForkGrandchild, ConsoleWrites, ProcExits, LeavesConsole,
       PumpRead, PumpSend, TakeOutput,
       ReadUntil, ReadUntilReturns, Kill, WaitExited, vars, outputVars, procVars
  <2> QED BY <1>0, <2>1 DEF OpenFits
<1> QED BY <1>1, <1>2, <1>3, <1>4, <1>5, <1>6, <1>7, <1>8, <1>9 DEF Next

\* A list of open handles is closed: each was closed never before.
LEMMA ClosingOpen ==
    ASSUME Inv, NEW H, H \subseteq open, Closing(H)
    PROVE  /\ closes' \in [Handles -> 0..2]
           /\ \A h \in Handles : closes'[h] <= 1 /\ (h \notin H => closes'[h] = closes[h])
<1>1. closes \in [Handles -> 0..2]
  BY DEF Inv, TypeOK
<1>2. ASSUME NEW h \in Handles
      PROVE  closes'[h] \in 0..2 /\ closes'[h] <= 1 /\ (h \notin H => closes'[h] = closes[h])
  <2>1. closes'[h] = closes[h] + (IF h \in H THEN 1 ELSE 0)
    BY DEF Closing
  <2>2. closes[h] \in 0..2 /\ closes[h] <= 1 /\ (h \in H => closes[h] = 0)
    BY <1>1 DEF Inv, ClosesFit
  <2> QED BY <2>1, <2>2
<1>3. DOMAIN closes' = Handles
  BY DEF Closing
<1>4. closes' \in [Handles -> 0..2]
  BY <1>2, <1>3 DEF Closing
<1> QED BY <1>2, <1>4

\* No step closes what is not open.
LEMMA ClosesStep ==
    ASSUME Inv, [Next]_vars
    PROVE  ClosesFit' /\ closes' \in [Handles -> 0..2]
<1>0. pc \in PCs /\ OpenFits /\ ClosesFit /\ closes \in [Handles -> 0..2] /\ OpenFits'
  BY OpenStep DEF Inv, TypeOK
<1>1. CASE SpawnCall
  <2>1. /\ pc \in SpawnSteps \ {"create", "assign", "pump"} /\ closes' = closes
    BY <1>1, Places DEF SpawnCall
  <2>2. \A h \in Handles : closes[h] = 0
    BY <1>0, <2>1 DEF ClosesFit
  <2> QED BY <1>0, <2>1, <2>2 DEF ClosesFit
<1>2. CASE CreateProcess
  <2>1. /\ pc = "create" /\ pc' = "assign" /\ open = Cleanup["create"]
        /\ open' = Cleanup["assign"] /\ Closing({"attr"})
    BY <1>0, <1>2, Calls DEF CreateProcess, OpenFits, SpawnSteps
  <2>2. {"attr"} \subseteq open /\ "attr" \notin open'
    BY <2>1, Lists DEF Pipes
  <2>3. \A h \in Handles : closes[h] = 0
    BY <1>0, <2>1 DEF ClosesFit, SpawnSteps
  <2>4. /\ closes' \in [Handles -> 0..2] /\ \A h \in Handles : closes'[h] <= 1
        /\ \A h \in Handles \ {"attr"} : closes'[h] = 0
    BY <2>1, <2>2, <2>3, ClosingOpen
  <2> QED BY <2>1, <2>2, <2>4 DEF ClosesFit
<1>3. CASE AssignJob
  <2>1. pc = "assign" /\ pc' = "pump" /\ closes' = closes /\ open' = open
    BY <1>3 DEF AssignJob
  <2> QED BY <1>0, <2>1 DEF ClosesFit, SpawnSteps
<1>4. CASE StartPump
  <2>1. pc = "pump" /\ pc' = "up" /\ closes' = closes /\ open' = open
    BY <1>4 DEF StartPump
  <2> QED BY <1>0, <2>1 DEF ClosesFit, SpawnSteps
<1>5. ASSUME NEW H, H \subseteq open, Closing(H), open' = open \ H, pc' \notin SpawnSteps
      PROVE  ClosesFit' /\ closes' \in [Handles -> 0..2]
  <2>1. /\ closes' \in [Handles -> 0..2]
        /\ \A h \in Handles : closes'[h] <= 1 /\ (h \notin H => closes'[h] = closes[h])
    BY <1>5, ClosingOpen
  <2> QED BY <1>0, <1>5, <2>1 DEF ClosesFit
<1>6. CASE SpawnFails
  <2>1. /\ open = Cleanup[pc] /\ Closing(Cleanup[pc]) /\ open' = open \ Cleanup[pc]
        /\ pc' = "failed"
    BY <1>0, <1>6, Lists DEF SpawnFails, OpenFits
  <2> QED BY <1>5, <2>1 DEF SpawnSteps
<1>7. CASE PumpEnds \/ PumpFails
  <2>1. /\ pump = "run" /\ open' = open \ {"outR"} /\ pc' = pc /\ Closing({"outR"})
    BY <1>7 DEF PumpEnds, PumpFails, PumpStops
  <2>2. pc \in {"up", "joining"} /\ {"outR"} \subseteq open
    BY <1>0, <2>1, Places DEF OpenFits, Ended
  <2> QED BY <1>5, <2>1, <2>2 DEF SpawnSteps
<1>8. CASE DropCloses
  <2> DEFINE H == {"console", "inR", "outW"}
  <2>1. pc = "up" /\ pc' = "joining" /\ open' = open \ H /\ Closing(H)
    BY <1>8 DEF DropCloses
  <2>2. H \subseteq open
    BY <1>0, <2>1 DEF OpenFits
  <2> HIDE DEF H
  <2> QED BY <1>5, <2>1, <2>2 DEF SpawnSteps
<1>9. CASE DropJoins
  <2>1. pc' = "gone" /\ open' = open \ open /\ Closing(open)
    BY <1>9 DEF DropJoins
  <2> QED BY <1>5, <2>1 DEF SpawnSteps
<1>10. CASE \/ ForkGrandchild \/ ConsoleWrites
            \/ \E p \in Procs : ProcExits(p) \/ LeavesConsole(p)
            \/ PumpRead \/ PumpSend \/ TakeOutput \/ ReadUntil \/ ReadUntilReturns
            \/ Kill \/ WaitExited \/ UNCHANGED vars
  <2>1. pc' = pc /\ open' = open /\ closes' = closes
    BY <1>10 DEF ForkGrandchild, ConsoleWrites, ProcExits, LeavesConsole,
       PumpRead, PumpSend, TakeOutput,
       ReadUntil, ReadUntilReturns, Kill, WaitExited, vars, outputVars, procVars
  <2> QED BY <1>0, <2>1 DEF ClosesFit
<1> QED
  BY <1>1, <1>2, <1>3, <1>4, <1>6, <1>7, <1>8, <1>9, <1>10 DEF Next

-----------------------------------------------------------------------------
(* Processes.                                                               *)

\* The processes ended are not alive after it, the others are as they were.
LEMMA EndingEnds ==
    ASSUME Inv, NEW P, Ending(P)
    PROVE  /\ proc' \in [Procs -> {"none", "run", "dead"}]
           /\ \A p \in Procs : Alive(p)' => Alive(p) /\ p \notin P
           /\ \A p \in Procs : proc[p] = "none" <=> proc'[p] = "none"
BY DEF Ending, Alive, Inv, TypeOK

\* Only what was created is attached or in the job, and the whole job and the whole
\* console end with a failing call and with a drop.
LEMMA ProcsStep ==
    ASSUME Inv, [Next]_vars
    PROVE  /\ ProcsFit' /\ proc' \in [Procs -> {"none", "run", "dead"}]
           /\ injob' \subseteq Procs /\ attached' \subseteq Procs
<1>0. /\ pc \in PCs /\ ProcsFit /\ injob \subseteq Procs /\ attached \subseteq Procs
      /\ proc \in [Procs -> {"none", "run", "dead"}] /\ Procs = {"child", "grandchild"}
  BY DEF Inv, TypeOK, Procs
<1>1. CASE SpawnCall
  <2>1. /\ pc \in SpawnSteps \ {"create", "assign", "pump"} /\ pc' = After[pc]
        /\ proc' = proc /\ injob' = injob /\ attached' = attached
    BY <1>1, Places DEF SpawnCall
  <2>2. pc' \in SpawnSteps \ {"assign", "pump"}
    BY <2>1, CallOrder
  <2> QED BY <1>0, <2>1, <2>2 DEF ProcsFit, SpawnSteps, Ended
<1>2. CASE CreateProcess
  <2>1. pc = "create" /\ pc' = "assign" /\ attached' = {"child"} /\ injob' = injob
    BY <1>2, Calls DEF CreateProcess
  <2>2. injob = {} /\ proc' \in [Procs -> {"none", "run", "dead"}] /\ proc'["child"] = "run"
    BY <1>0, <1>2, <2>1 DEF ProcsFit, SpawnSteps, CreateProcess
  <2> QED BY <1>0, <2>1, <2>2 DEF ProcsFit, SpawnSteps, Ended
<1>3. CASE AssignJob
  BY <1>0, <1>3 DEF AssignJob, ProcsFit, SpawnSteps, Ended
<1>4. CASE StartPump
  BY <1>0, <1>4 DEF StartPump, ProcsFit, SpawnSteps, Ended
<1>5. CASE SpawnFails
  <2> DEFINE P == (IF pc \in {"assign", "pump"} THEN injob ELSE {})
                  \cup (IF "console" \in Cleanup[pc] THEN attached ELSE {})
  <2>1. /\ pc \in SpawnSteps /\ pc' = "failed" /\ injob' = injob /\ attached' = attached
        /\ Ending(P)
    BY <1>5, Lists DEF SpawnFails
  <2>2. pc \in {"assign", "pump"} => P = injob \cup attached
    BY Lists
  <2> HIDE DEF P
  <2>3. ASSUME NEW p \in Procs, Alive(p)'
        PROVE  p \notin injob \cup attached
    <3>1. Alive(p) /\ p \notin P
      BY <2>1, <2>3, EndingEnds
    <3>2. pc \in {"assign", "pump"}
      BY <1>0, <2>1, <3>1 DEF ProcsFit, Alive
    <3> QED BY <2>2, <3>1, <3>2
  <2>4. /\ proc' \in [Procs -> {"none", "run", "dead"}]
        /\ \A p \in Procs : proc'[p] = "none" => proc[p] = "none"
    BY <2>1, EndingEnds
  <2> QED BY <1>0, <2>1, <2>3, <2>4 DEF ProcsFit, SpawnSteps, Ended
<1>6. CASE ForkGrandchild
  <2>1. /\ pc' = pc /\ Alive("child") /\ proc["grandchild"] = "none"
        /\ proc' = [proc EXCEPT !["grandchild"] = "run"]
        /\ injob' = IF "child" \in injob THEN injob \cup {"grandchild"} ELSE injob
        /\ \/ "child" \in attached /\ attached' = attached \cup {"grandchild"}
           \/ attached' = attached
    BY <1>6 DEF ForkGrandchild
  <2>2. pc \notin SpawnSteps \ {"assign", "pump"}
    BY <1>0, <2>1 DEF ProcsFit, Alive
  <2>3. /\ proc' \in [Procs -> {"none", "run", "dead"}]
        /\ proc'["child"] = "run" /\ proc'["grandchild"] = "run"
    BY <1>0, <2>1 DEF Alive
  <2>4. pc = "assign" => injob' = {}
    BY <1>0, <2>1 DEF ProcsFit
  <2>5. pc \in Ended \cup {"joining"} =>
           \A p \in Procs : p \notin injob' \cup attached'
    BY <1>0, <2>1 DEF ProcsFit
  <2> QED BY <1>0, <2>1, <2>2, <2>3, <2>4, <2>5 DEF ProcsFit
<1>7. ASSUME NEW p \in Procs, ProcExits(p)
      PROVE  /\ ProcsFit' /\ proc' \in [Procs -> {"none", "run", "dead"}]
             /\ injob' \subseteq Procs /\ attached' \subseteq Procs
  <2>1. /\ pc' = pc /\ injob' = injob /\ attached' = attached
        /\ proc' = [proc EXCEPT ![p] = "dead"] /\ proc[p] = "run"
    BY <1>7 DEF ProcExits, Alive
  <2>2. /\ proc' \in [Procs -> {"none", "run", "dead"}]
        /\ \A q \in Procs : (Alive(q)' => Alive(q)) /\ (proc[q] = "none" <=> proc'[q] = "none")
    BY <1>0, <2>1 DEF Alive
  <2> QED BY <1>0, <2>1, <2>2 DEF ProcsFit
<1>8. CASE Kill \/ DropCloses
  <2>1. PICK P : Ending(P) /\ (DropCloses => P = injob \cup attached)
    BY <1>8 DEF Kill, DropCloses
  <2>2. /\ pc = "up" /\ pc' \in {"up", "joining"} /\ injob' = injob /\ attached' = attached
        /\ (pc' = "joining" => P = injob \cup attached)
    BY <1>8, <2>1 DEF Kill, DropCloses
  <2>3. /\ proc' \in [Procs -> {"none", "run", "dead"}]
        /\ \A p \in Procs : Alive(p)' => Alive(p) /\ p \notin P
        /\ \A p \in Procs : proc'[p] = "none" => proc[p] = "none"
    BY <2>1, EndingEnds
  <2> QED BY <1>0, <2>2, <2>3 DEF ProcsFit, SpawnSteps, Ended
<1>9. CASE DropJoins
  <2>1. /\ pc = "joining" /\ pc' = "gone" /\ proc' = proc /\ injob' = injob
        /\ attached' = attached
    BY <1>9 DEF DropJoins
  <2> QED BY <1>0, <2>1 DEF ProcsFit, SpawnSteps, Ended, Alive
<1>10. CASE \/ ConsoleWrites \/ PumpRead \/ PumpSend \/ PumpEnds \/ PumpFails \/ TakeOutput
            \/ ReadUntil \/ ReadUntilReturns \/ WaitExited \/ UNCHANGED vars
  <2>1. pc' = pc /\ proc' = proc /\ injob' = injob /\ attached' = attached
    BY <1>10 DEF ConsoleWrites, PumpRead, PumpSend, PumpEnds, PumpFails, PumpStops, TakeOutput,
       ReadUntil, ReadUntilReturns, WaitExited, vars, outputVars, procVars
  <2> QED BY <1>0, <2>1 DEF ProcsFit, Alive
<1>11. ASSUME NEW p \in Procs, LeavesConsole(p)
       PROVE  /\ ProcsFit' /\ proc' \in [Procs -> {"none", "run", "dead"}]
              /\ injob' \subseteq Procs /\ attached' \subseteq Procs
  <2>1. pc' = pc /\ proc' = proc /\ injob' = injob /\ attached' = attached \ {p}
    BY <1>11 DEF LeavesConsole
  <2> QED BY <1>0, <2>1 DEF ProcsFit, Alive
<1> QED
  BY <1>1, <1>2, <1>3, <1>4, <1>5, <1>6, <1>7, <1>8, <1>9, <1>10, <1>11 DEF Next

-----------------------------------------------------------------------------
(* Output.                                                                  *)

\* The stream passes from the pipe to the consumer without loss.
LEMMA StreamStep ==
    ASSUME Inv, [Next]_vars
    PROVE  /\ StreamFits'
           /\ \A s \in {pipe', lost', hand', chan', got'} : s \in Chunks
           /\ Len(pipe') <= PipeChunks /\ Len(hand') <= 1 /\ Len(chan') <= Capacity
           /\ sent' \in 0..MaxChunks
<1>0. /\ StreamFits /\ OpenFits /\ pc \in PCs
      /\ pipe \in Chunks /\ hand \in Chunks /\ chan \in Chunks /\ got \in Chunks
      /\ lost \in Chunks
      /\ Len(pipe) <= PipeChunks /\ Len(hand) <= 1 /\ Len(chan) <= Capacity
      /\ sent \in 0..MaxChunks /\ sent \in Nat
  BY PtyAssumption DEF Inv, TypeOK, Chunks
<1>f. pipe \in Chunks /\ lost \in Chunks
  BY <1>0
<1>a. <<>> \in Chunks /\ Len(<<>>) = 0 /\ Capacity \in Nat
  BY PtyAssumption DEF Chunks, Capacity
<1>b. \A w \in Chunks : w \o <<>> = w /\ \A u \in Chunks : w \o u \in Chunks
  BY ConcatEmptySeq, ConcatProperties DEF Chunks
<1>c. pump # "done" => lost = <<>>
  BY <1>0 DEF StreamFits
<1> DEFINE w == (got \o chan) \o hand
<1>d. w \in Chunks /\ w \o pipe \in Chunks
  BY <1>0, <1>b
<1>e. pc # "gone" => (w \o pipe) \o lost = [i \in 1..sent |-> i]
  BY <1>0 DEF StreamFits
<1>1. CASE ConsoleWrites
  <2>1. /\ sent' = sent + 1 /\ sent < MaxChunks
        /\ got' = got /\ chan' = chan /\ hand' = hand /\ pump' = pump /\ pc' = pc
        /\ closed' = closed /\ "console" \in open
        /\ \/ "outR" \in open /\ Len(pipe) < PipeChunks
              /\ pipe' = Append(pipe, sent + 1) /\ lost' = lost
           \/ "outR" \notin open /\ lost' = Append(lost, sent + 1) /\ pipe' = pipe
    BY <1>1 DEF ConsoleWrites
  <2> DEFINE e == <<sent + 1>>
  <2>2. sent + 1 \in 1..MaxChunks /\ sent' \in 0..MaxChunks /\ e \in Chunks
    BY <1>0, <2>1, PtyAssumption DEF Chunks
  <2>3. \A s \in Chunks : /\ Append(s, sent + 1) \in Chunks
                          /\ Append(s, sent + 1) = s \o e
                          /\ Len(Append(s, sent + 1)) = Len(s) + 1
    BY <2>2, AppendProperties, AppendIsConcat DEF Chunks
  <2>4. pc # "gone" => ((w \o pipe) \o lost) \o e = [i \in 1..sent + 1 |-> i]
    BY <1>0, <1>e, UpTo
  <2> HIDE DEF e
  <2>5. CASE "outR" \in open
    <3>1. pipe' = pipe \o e /\ pipe' \in Chunks /\ lost' = lost
          /\ Len(pipe') = Len(pipe) + 1 /\ Len(pipe) < PipeChunks
      BY <1>0, <2>1, <2>3, <2>5
    <3>2. pump # "done"
      BY <1>0, <2>1, <2>5, Lists, Places DEF OpenFits, SpawnSteps, Ended
    <3>3. lost = <<>> /\ (w \o pipe) \o lost = w \o pipe
      BY <1>b, <1>c, <1>d, <3>2
    <3> HIDE DEF w
    <3>4. w \o pipe' = (w \o pipe) \o e /\ w \o pipe' \in Chunks
      <4>1. PICK x \in Chunks : x = w
        BY <1>d
      <4>2. x \o (pipe \o e) = (x \o pipe) \o e
        BY <1>f, <2>2, <4>1, Regroup, Zenon
      <4>3. w \o pipe' \in Chunks
        BY <1>b, <1>d, <3>1
      <4> QED BY <3>1, <4>1, <4>2, <4>3
    <3>5. (w \o pipe') \o lost' = w \o pipe'
      BY <1>b, <3>1, <3>3, <3>4
    <3>6. pc # "gone" => (w \o pipe') \o lost' = [i \in 1..sent' |-> i]
      BY <2>1, <2>4, <3>3, <3>4, <3>5
    <3>7. Len(pipe') <= PipeChunks
      BY <1>0, <3>1, PtyAssumption, LenProperties DEF Chunks
    <3>8. StreamFits'
      BY <1>0, <1>c, <2>1, <3>1, <3>6 DEF StreamFits, w
    <3> QED BY <1>0, <2>1, <2>2, <3>1, <3>7, <3>8
  <2>6. CASE "outR" \notin open
    <3>1. lost' = lost \o e /\ lost' \in Chunks /\ pipe' = pipe
      BY <1>0, <2>1, <2>3, <2>6
    <3>2. pump = "done"
      BY <1>0, <2>1, <2>6, Lists, Places DEF OpenFits, SpawnSteps, Ended, Pipes
    <3> HIDE DEF w
    <3>3. (w \o pipe') \o lost' = ((w \o pipe) \o lost) \o e
      <4>1. PICK x \in Chunks : x = w \o pipe
        BY <1>d
      <4>2. x \o (lost \o e) = (x \o lost) \o e
        BY <1>f, <2>2, <4>1, Regroup, Zenon
      <4> QED BY <3>1, <4>1, <4>2
    <3>4. pc # "gone" => (w \o pipe') \o lost' = [i \in 1..sent' |-> i]
      BY <2>1, <2>4, <3>3
    <3>5. StreamFits'
      BY <1>0, <2>1, <3>2, <3>4 DEF StreamFits, w
    <3> QED BY <1>0, <2>1, <2>2, <3>1, <3>5
  <2> QED BY <2>5, <2>6
<1>2. CASE PumpRead
  <2>1. /\ pump = "run" /\ hand = <<>> /\ pipe # <<>>
        /\ hand' = <<Head(pipe)>> /\ pipe' = Tail(pipe) /\ lost' = lost
        /\ got' = got /\ chan' = chan /\ sent' = sent /\ pump' = pump /\ pc' = pc
        /\ closed' = closed
    BY <1>2 DEF PumpRead, procVars
  <2>2. hand' \in Chunks /\ pipe' \in Chunks /\ hand' \o pipe' = pipe
    BY <1>0, <2>1, HeadAndTail DEF Chunks
  <2>3. Len(hand') = 1 /\ Len(pipe') <= PipeChunks
    <3>1. Len(Tail(pipe)) = Len(pipe) - 1 /\ Len(pipe) \in Nat
      BY <1>0, <2>1, HeadTailProperties, LenProperties DEF Chunks
    <3> QED BY <1>0, <2>1, <3>1, PtyAssumption
  <2>4. got \o chan \in Chunks /\ (got \o chan) \o hand = got \o chan
    BY <1>0, <2>1, ConcatProperties, ConcatEmptySeq DEF Chunks
  <2>5. ((got \o chan) \o hand') \o pipe' = (got \o chan) \o (hand' \o pipe')
    BY <2>2, <2>4, Regroup
  <2>6. StreamFits'
    BY <1>0, <2>1, <2>2, <2>4, <2>5 DEF StreamFits
  <2> QED BY <1>0, <2>1, <2>2, <2>3, <2>6
<1>3. CASE PumpSend
  <2>1. /\ pump = "run" /\ hand # <<>> /\ Len(chan) < Capacity
        /\ chan' = chan \o hand /\ hand' = <<>> /\ lost' = lost
        /\ got' = got /\ pipe' = pipe /\ sent' = sent /\ pump' = pump /\ pc' = pc
        /\ closed' = closed
    BY <1>3 DEF PumpSend, procVars
  <2>2. chan' \in Chunks /\ Len(chan') = Len(chan) + Len(hand)
    BY <1>0, <2>1, ConcatProperties DEF Chunks
  <2>3. Len(chan') <= Capacity
    <3>1. Len(chan) \in Nat /\ Len(hand) \in Nat
      BY <1>0, LenProperties DEF Chunks
    <3> QED BY <1>0, <1>a, <2>1, <2>2, <3>1
  <2>4. got \o chan' \in Chunks /\ got \o chan' = (got \o chan) \o hand
    <3>1. got \in Chunks /\ chan \in Chunks /\ hand \in Chunks
      BY <1>0
    <3>2. got \o (chan \o hand) = (got \o chan) \o hand
      BY <3>1, Regroup
    <3>3. got \o chan' \in Chunks
      BY <2>2, <3>1, ConcatProperties DEF Chunks
    <3> QED BY <2>1, <3>2, <3>3, Zenon
  <2>5. (got \o chan') \o hand' = (got \o chan) \o hand
    BY <2>1, <2>4, ConcatEmptySeq DEF Chunks
  <2>6. StreamFits'
    BY <1>0, <2>1, <2>5 DEF StreamFits
  <2> QED BY <1>0, <1>a, <2>1, <2>2, <2>3, <2>6
<1>4. CASE PumpEnds \/ PumpFails
  <2>1. /\ pump = "run" /\ hand = <<>> /\ pump' = "done"
        /\ got' = got /\ chan' = chan /\ hand' = hand /\ pipe' = <<>> /\ lost' = pipe
        /\ sent' = sent /\ pc' = pc /\ closed' = closed
    BY <1>4 DEF PumpEnds, PumpFails, PumpStops
  <2>2. lost = <<>>
    BY <1>c, <2>1
  <2>3. (w \o pipe) \o lost = w \o pipe /\ w \o pipe' = w
    BY <1>b, <1>d, <2>1, <2>2
  <2>4. pc # "gone" => (w \o pipe') \o lost' = [i \in 1..sent |-> i]
    BY <1>e, <2>1, <2>3
  <2>5. StreamFits'
    BY <1>0, <2>1, <2>4 DEF StreamFits
  <2>6. Len(pipe') <= PipeChunks
    BY <1>a, <2>1, PtyAssumption
  <2> QED BY <1>0, <1>a, <2>1, <2>5, <2>6
<1>5. CASE TakeOutput /\ got' # got
  <2>1. /\ chan # <<>> /\ got' = Append(got, Head(chan)) /\ chan' = Tail(chan)
        /\ closed' = closed /\ lost' = lost
        /\ hand' = hand /\ pipe' = pipe /\ sent' = sent /\ pump' = pump /\ pc' = pc
    BY <1>5 DEF TakeOutput, procVars
  <2>2. /\ <<Head(chan)>> \in Chunks /\ Tail(chan) \in Chunks /\ <<Head(chan)>> \o Tail(chan) = chan
        /\ Head(chan) \in 1..MaxChunks /\ Len(Tail(chan)) = Len(chan) - 1
    BY <1>0, <2>1, HeadAndTail, HeadTailProperties DEF Chunks
  <2>3. got' \in Chunks /\ got' = got \o <<Head(chan)>>
    BY <1>0, <2>1, <2>2, AppendProperties, AppendIsConcat DEF Chunks
  <2>4. got' \o chan' = got \o chan
    <3>1. PICK h, t : h = <<Head(chan)>> /\ t = Tail(chan)
      OBVIOUS
    <3>2. got \in Chunks /\ h \in Chunks /\ t \in Chunks /\ h \o t = chan
      BY <1>0, <2>2, <3>1
    <3>3. got \o (h \o t) = (got \o h) \o t
      BY <3>2, Regroup
    <3> QED BY <2>1, <2>3, <3>1, <3>2, <3>3, Zenon
  <2>5. Len(chan') <= Capacity
    BY <1>0, <1>a, <2>1, <2>2, LenProperties DEF Chunks
  <2>6. StreamFits'
    BY <1>0, <2>1, <2>4 DEF StreamFits
  <2> QED BY <1>0, <2>1, <2>2, <2>3, <2>5, <2>6
<1>6. CASE TakeOutput /\ got' = got
  <2>1. \/ /\ chan # <<>> /\ got' = Append(got, Head(chan))
        \/ /\ Disconnected /\ closed' = TRUE /\ chan' = chan
    BY <1>6 DEF TakeOutput
  <2>2. chan # <<>> => Len(Append(got, Head(chan))) = Len(got) + 1 /\ Len(got) \in Nat
    BY <1>0, HeadTailProperties, AppendProperties, LenProperties DEF Chunks
  <2>3. Disconnected /\ closed' = TRUE /\ chan' = chan
    BY <1>6, <2>1, <2>2
  <2>4. /\ hand' = hand /\ pipe' = pipe /\ lost' = lost /\ sent' = sent
        /\ pump' = pump /\ pc' = pc
    BY <1>6 DEF TakeOutput, procVars
  <2> QED BY <1>0, <1>6, <2>3, <2>4 DEF StreamFits, Disconnected
<1>7. CASE DropJoins
  <2>1. /\ pc' = "gone" /\ pump = "done" /\ pump' = "done" /\ chan' = <<>> /\ hand' = hand
        /\ got' = got /\ pipe' = pipe /\ lost' = lost /\ sent' = sent /\ closed' = closed
    BY <1>7 DEF DropJoins
  <2> QED BY <1>0, <1>a, <2>1 DEF StreamFits
<1>8. CASE StartPump
  <2>1. /\ pc = "pump" /\ pc' = "up" /\ pump' = "run" /\ chan' = chan /\ hand' = hand
        /\ got' = got /\ pipe' = pipe /\ lost' = lost /\ sent' = sent /\ closed' = closed
    BY <1>8 DEF StartPump
  <2>2. pump = "none"
    BY <1>0, <2>1 DEF OpenFits, SpawnSteps
  <2> QED BY <1>0, <2>1, <2>2 DEF StreamFits
<1>9. CASE \/ SpawnCall \/ CreateProcess \/ AssignJob \/ SpawnFails
           \/ ForkGrandchild \/ \E p \in Procs : ProcExits(p) \/ LeavesConsole(p)
           \/ ReadUntil \/ ReadUntilReturns
           \/ Kill \/ WaitExited \/ DropCloses \/ UNCHANGED vars
  <2>1. /\ got' = got /\ chan' = chan /\ hand' = hand /\ pipe' = pipe /\ lost' = lost
        /\ sent' = sent /\ pump' = pump /\ closed' = closed
    BY <1>9 DEF SpawnCall, CreateProcess, AssignJob, SpawnFails, ForkGrandchild, ProcExits,
       LeavesConsole, ReadUntil, ReadUntilReturns, Kill, WaitExited, DropCloses,
       vars, outputVars, procVars
  <2>2. pc' = "gone" => pc = "gone"
    BY <1>9, Places, CallOrder, Calls DEF SpawnCall, CreateProcess, AssignJob, SpawnFails,
       ForkGrandchild, ProcExits,
       LeavesConsole, ReadUntil, ReadUntilReturns, Kill, WaitExited, DropCloses,
       vars, procVars, SpawnSteps
  <2>3. pc = "gone" => pc' = "gone"
    BY <1>9, Places, CallOrder, Lists DEF SpawnCall, CreateProcess, AssignJob, SpawnFails,
       ForkGrandchild, ProcExits,
       LeavesConsole, ReadUntil, ReadUntilReturns, Kill, WaitExited, DropCloses,
       vars, procVars, SpawnSteps
  <2> QED BY <1>0, <2>1, <2>2, <2>3 DEF StreamFits
<1> QED
  BY <1>1, <1>2, <1>3, <1>4, <1>5, <1>6, <1>7, <1>8, <1>9 DEF Next

-----------------------------------------------------------------------------
(* The theorems.                                                            *)

\* Nothing is open, runs or was written.
LEMMA InitInv == Init => Inv
<1> SUFFICES ASSUME Init
             PROVE  Inv
  OBVIOUS
<1>1. TypeOK
  <2>1. Capacity \in Nat
    BY PtyAssumption DEF Capacity
  <2>2. <<>> \in Seq(1..MaxChunks) /\ Len(<<>>) = 0
    OBVIOUS
  <2>3. \A s \in {pipe, lost, hand, chan, got} : s \in Seq(1..MaxChunks) /\ Len(s) = 0
    BY <2>2 DEF Init
  <2>4. Len(pipe) <= PipeChunks /\ Len(hand) <= 1 /\ Len(chan) <= Capacity
    BY <2>1, <2>3, PtyAssumption
  <2>5. pc \in PCs /\ closes \in [Handles -> 0..2]
    BY Places DEF Init, SpawnSteps
  <2>6. /\ open \subseteq Handles /\ injob \subseteq Procs /\ attached \subseteq Procs
        /\ proc \in [Procs -> {"none", "run", "dead"}]
    BY DEF Init
  <2>7. sent \in 0..MaxChunks /\ since \in 0..MaxChunks
    BY PtyAssumption DEF Init
  <2>8. /\ pump \in {"none", "run", "done"} /\ closed \in BOOLEAN /\ exited \in BOOLEAN
        /\ until \in {"no", "yes", "marker", "deadline", "closed"}
    BY DEF Init
  <2> QED BY <2>3, <2>4, <2>5, <2>6, <2>7, <2>8 DEF TypeOK
<1>2. OpenFits /\ ClosesFit /\ ProcsFit
  BY Lists DEF Init, OpenFits, ClosesFit, ProcsFit, SpawnSteps, Ended
<1>3. <<>> \o <<>> \o <<>> \o <<>> \o <<>> = [i \in 1..0 |-> i]
  <2>1. <<>> \in Seq({}) /\ <<>> \o <<>> = <<>>
    BY ConcatEmptySeq
  <2>2. [i \in 1..0 |-> i] \in Seq(Nat) /\ Len([i \in 1..0 |-> i]) = 0
    OBVIOUS
  <2>3. [i \in 1..0 |-> i] = <<>>
    BY <2>2, SeqEqual
  <2> QED BY <2>1, <2>3
<1>4. StreamFits
  BY <1>3 DEF Init, StreamFits
<1> QED BY <1>1, <1>2, <1>4 DEF Inv

\* While it is not given up, the consumer has read no more than was written.
LEMMA ReadWasSent ==
    ASSUME Inv, pc # "gone"
    PROVE  Len(got) <= sent /\ Len(got) \in Nat
<1>1. /\ got \in Chunks /\ chan \in Chunks /\ hand \in Chunks /\ pipe \in Chunks
      /\ lost \in Chunks /\ sent \in Nat
  BY PtyAssumption DEF Inv, TypeOK, Chunks
<1>2. got \o chan \in Chunks /\ (got \o chan) \o hand \in Chunks
      /\ ((got \o chan) \o hand) \o pipe \in Chunks
  BY <1>1, ConcatProperties DEF Chunks
<1>3. Len(got \o chan \o hand \o pipe \o lost)
      = Len(got) + Len(chan) + Len(hand) + Len(pipe) + Len(lost)
  BY <1>1, <1>2, ConcatProperties DEF Chunks
<1>4. /\ Len(got) \in Nat /\ Len(chan) \in Nat /\ Len(hand) \in Nat /\ Len(pipe) \in Nat
      /\ Len(lost) \in Nat
  BY <1>1, LenProperties DEF Chunks
<1>5. Len([i \in 1..sent |-> i]) = sent
  BY <1>1
<1>6. Len(got) + Len(chan) + Len(hand) + Len(pipe) + Len(lost) = sent
  BY <1>3, <1>5 DEF Inv, StreamFits
<1> QED BY <1>1, <1>4, <1>6

\* Every step keeps the invariant.
LEMMA NextInv == Inv /\ [Next]_vars => Inv'
<1> SUFFICES ASSUME Inv, [Next]_vars
             PROVE  Inv'
  OBVIOUS
<1>1. /\ OpenFits' /\ ClosesFit' /\ ProcsFit' /\ StreamFits'
      /\ closes' \in [Handles -> 0..2] /\ proc' \in [Procs -> {"none", "run", "dead"}]
      /\ injob' \subseteq Procs /\ attached' \subseteq Procs
      /\ Len(pipe') <= PipeChunks /\ Len(hand') <= 1 /\ Len(chan') <= Capacity
      /\ sent' \in 0..MaxChunks
  BY OpenStep, ClosesStep, ProcsStep, StreamStep
<1>2. \A s \in {pipe', lost', hand', chan', got'} : s \in Seq(1..MaxChunks)
  BY StreamStep DEF Chunks
<1>3. pc' \in PCs
  <2>1. pc \in PCs
    BY DEF Inv, TypeOK
  <2> QED
    BY <2>1, Places, CallOrder, Calls DEF Next, vars, SpawnCall, CreateProcess, AssignJob,
       StartPump, SpawnFails, ForkGrandchild, ConsoleWrites, ProcExits, LeavesConsole,
       PumpRead, PumpSend,
       PumpEnds, PumpFails, PumpStops, TakeOutput, ReadUntil, ReadUntilReturns, Kill,
       WaitExited, DropCloses, DropJoins, procVars, SpawnSteps
<1>4. open' \subseteq Handles
  <2>1. pc' \in SpawnSteps => open' \subseteq Handles
    BY <1>1, CallOrder DEF OpenFits
  <2>2. pc' \notin SpawnSteps => open' \subseteq Handles
    BY <1>1, <1>3, Places DEF OpenFits, Ended, Handles
  <2> QED BY <2>1, <2>2
<1>5. /\ pump' \in {"none", "run", "done"} /\ closed' \in BOOLEAN /\ exited' \in BOOLEAN
      /\ until' \in {"no", "yes", "marker", "deadline", "closed"}
  <2>1. /\ pump \in {"none", "run", "done"} /\ closed \in BOOLEAN /\ exited \in BOOLEAN
        /\ until \in {"no", "yes", "marker", "deadline", "closed"}
    BY DEF Inv, TypeOK
  <2> QED
    BY <2>1 DEF Next, vars, SpawnCall, CreateProcess, AssignJob,
       StartPump, SpawnFails, ForkGrandchild, ConsoleWrites, ProcExits, LeavesConsole,
       PumpRead, PumpSend,
       PumpEnds, PumpFails, PumpStops, TakeOutput, ReadUntil, ReadUntilReturns, Kill,
       WaitExited, DropCloses, DropJoins, procVars, outputVars
<1>6. since' \in 0..MaxChunks
  <2>1. CASE ReadUntil
    <3>1. since' = Len(got) /\ pc # "gone"
      BY <2>1 DEF ReadUntil
    <3> QED BY <3>1, ReadWasSent, PtyAssumption DEF Inv, TypeOK
  <2>2. CASE ~ReadUntil
    <3>1. since' = since
      BY <2>2 DEF Next, vars, SpawnCall, CreateProcess, AssignJob,
         StartPump, SpawnFails, ForkGrandchild, ConsoleWrites, ProcExits, LeavesConsole,
         PumpRead, PumpSend,
         PumpEnds, PumpFails, PumpStops, TakeOutput, ReadUntilReturns, Kill,
         WaitExited, DropCloses, DropJoins, procVars, outputVars
    <3> QED BY <3>1 DEF Inv, TypeOK
  <2> QED BY <2>1, <2>2
<1>7. TypeOK'
  BY <1>1, <1>2, <1>3, <1>4, <1>5, <1>6 DEF TypeOK
<1> QED BY <1>1, <1>7 DEF Inv

\* The types and the invariant hold in every reachable state.
THEOREM TypeCorrect == Spec => []Inv
BY InitInv, NextInv, PTL DEF Spec

\* "No handle is closed twice", and none is forgotten by any of the ten error
\* paths of spawn or by drop.
THEOREM HandlesClosedOnce == Spec => []ClosedOnce
<1>1. Inv => ClosedOnce
  BY DEF Inv, ClosesFit, OpenFits, ClosedOnce
<1> QED BY <1>1, TypeCorrect, PTL

\* A failed spawn (lib.rs:253-424) and a drop leave no process in the job or on
\* the console, whichever processes started early or left the console.
THEOREM NoProcessLeft == Spec => []NothingLeftRunning
<1>1. Inv => NothingLeftRunning
  BY DEF Inv, ProcsFit, NothingLeftRunning
<1> QED BY <1>1, TypeCorrect, PTL

\* "Nothing is dropped": pipe, thread, channel and consumer hold the output in
\* order and without a gap, for any sizes of the pipe and the channel, but for
\* the end of it that a failed read leaves behind; a closed stream has ended.
THEOREM OutputWhole == Spec => []OutputIsWhole
<1>1. Inv => OutputIsWhole
  <2> SUFFICES ASSUME Inv
               PROVE  OutputIsWhole
    OBVIOUS
  <2>1. closed => pump = "done" /\ chan = <<>> /\ hand = <<>>
    BY DEF Inv, StreamFits
  <2>2. <<>> \o <<>> = <<>>
    <3>1. <<>> \in Seq({})
      OBVIOUS
    <3> QED BY <3>1, ConcatEmptySeq
  <2>3. closed => chan \o hand = <<>>
    BY <2>1, <2>2
  <2> QED BY <2>1, <2>3 DEF Inv, StreamFits, OutputIsWhole, Ended
<1> QED BY <1>1, TypeCorrect, PTL

=============================================================================
