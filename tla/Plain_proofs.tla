---------------------------- MODULE Plain_proofs -----------------------------
(***************************************************************************)
(* Proofs about Plain, for any sizes of pipe, chunk, cap and tail, any     *)
(* number of bytes and anything a grandchild may inherit: type             *)
(* correctness, that every handle is closed once, that no process of the   *)
(* job is left behind, that the output of a join is complete up to the     *)
(* cap, and that a tail file not marked as cut holds the whole text.       *)
(* And about Adapters, which read such a child, for any lines a CLI may    *)
(* print, any number of them, any cap and any number of runs: type         *)
(* correctness, that each line is reported once and in order however the   *)
(* output is cut into pieces, that the exit is reported once, and that the *)
(* session pointer is of the present child.                                *)
(***************************************************************************)
EXTENDS Plain, Adapters, WellFoundedInduction, SequenceTheorems, TLAPS

Opening == {"out", "err", "in", "job", "create"}
Started == {"up", "join", "poll", "collect", "drop", "release"}

-----------------------------------------------------------------------------
(* The tables and the minimum.                                              *)

\* The pipe ends, the calls and the threads, one by one.
LEMMA Tables ==
    /\ Near["out"] = "outR" /\ Near["err"] = "errR" /\ Near["in"] = "inW"
    /\ Far["out"] = "outW" /\ Far["err"] = "errW" /\ Far["in"] = "inR"
    /\ DOMAIN Opens = {"out", "err", "in", "job"}
    /\ Opens["out"] = {"outR", "outW"} /\ Opens["err"] = {"errR", "errW"}
    /\ Opens["in"] = {"inR", "inW"} /\ Opens["job"] = {"job"}
    /\ After["out"] = "err" /\ After["err"] = "in" /\ After["in"] = "job"
    /\ After["job"] = "create"
    /\ DOMAIN Starts = {"feed", "pump_out", "pump_err"}
    /\ Starts["feed"] = "in" /\ Starts["pump_out"] = "out" /\ Starts["pump_err"] = "err"
    /\ Then["feed"] = "pump_out" /\ Then["pump_out"] = "pump_err" /\ Then["pump_err"] = "up"
    /\ Threads = {"out", "err", "in"} /\ Ends = {"out", "err", "in"}
    /\ Streams = {"out", "err"}
BY DEF Near, Far, Opens, After, Starts, Then, Threads, Ends, Streams

\* The values of pc.
LEMMA Places ==
    PCs = {"out", "err", "in", "job", "create", "assign", "feed", "pump_out", "pump_err",
           "up", "join", "poll", "collect", "drop", "release", "failed", "joined", "dropped"}
BY Tables DEF PCs, Spawning, Ended

\* The smaller of two numbers.
LEMMA MinOfTwo == \A a, b \in Nat : Min({a, b}) = IF a <= b THEN a ELSE b
<1> SUFFICES ASSUME NEW a \in Nat, NEW b \in Nat
             PROVE  Min({a, b}) = IF a <= b THEN a ELSE b
  OBVIOUS
<1> DEFINE m == IF a <= b THEN a ELSE b
<1>1. m \in {a, b} /\ \A y \in {a, b} : m <= y
  OBVIOUS
<1>2. Min({a, b}) \in {a, b} /\ \A y \in {a, b} : Min({a, b}) <= y
  BY <1>1 DEF Min
<1> QED BY <1>1, <1>2

-----------------------------------------------------------------------------
(* The inductive invariant.                                                 *)

\* What spawn and then the PlainChild own at each step.
OwnedAt ==
    LET stdin == IF input = 0 THEN {} ELSE {"inR", "inW"} IN
    /\ pc = "out" => owned = {}
    /\ pc = "err" => owned = {"outR", "outW"}
    /\ pc = "in" => owned = {"outR", "outW", "errR", "errW"}
    /\ pc = "job" => owned = {"outR", "outW", "errR", "errW"} \cup stdin
    /\ pc = "create" => owned = {"outR", "outW", "errR", "errW", "job"} \cup stdin
    /\ pc \in {"assign", "feed"} => owned = {"outR", "errR", "job", "process"}
                                            \cup (stdin \ {"inR"})
    /\ pc = "pump_out" => owned = {"outR", "errR", "job", "process"}
    /\ pc \in {"pump_err"} \cup Started => owned = {"job", "process"}
    /\ pc \in Ended => owned = {}

\* A File belongs to a running thread, or waits for the last one to start.
FiledFits ==
    filed = {Near[t] : t \in {u \in Threads : Busy(u)}}
            \cup (IF pc = "pump_err" THEN {"errR"} ELSE {})

\* Which threads have been started.
ThreadsFit ==
    /\ pc \in Opening \cup {"assign", "feed"} => \A t \in Threads : thread[t] = "none"
    /\ pc = "pump_out" => thread["out"] = "none" /\ thread["err"] = "none"
    /\ pc = "pump_err" => thread["out"] # "none" /\ thread["err"] = "none"
    /\ pc \in Started \cup {"joined"} => \A s \in Streams : thread[s] # "none"
    /\ pc = "joined" => \A t \in Threads : ~Busy(t)

\* Nothing was closed that is still held or to be opened.
ClosesFit ==
    /\ \A h \in Handles : closes[h] <= 1 /\ (h \in owned \cup filed => closes[h] = 0)
    /\ pc \in Opening => \A h \in Handles : closes[h] = 0

\* A child that lives past its assignment is in the job.
ProcsFit ==
    /\ pc \in Opening => \A p \in Procs : proc[p] = "none"
    /\ pc \in Opening \cup {"assign"} => injob = {}
    /\ pc \notin Opening \cup {"assign"} /\ Alive("child") => "child" \in injob
    /\ pc \in Ended => \A p \in Procs : Alive(p) => p = "grandchild" /\ p \notin injob

\* A sink keeps what fits of what was read, and a pump ends when all was read
\* and no one can write any more.
SinksFit ==
    \A s \in Streams :
        /\ kept[s] = (IF taken[s] <= Cap THEN taken[s] ELSE Cap)
        /\ trunc[s] <=> taken[s] > Cap
        /\ thread[s] = "done" =>
              taken[s] = sent[s] /\ \A p \in Procs : Alive(p) => s \notin holds[p]

\* A tail is written after a join only.
TailFits == (tail.written => pc = "joined") /\ UnmarkedTailIsWhole

HandleInv == OwnedAt /\ FiledFits /\ ThreadsFit /\ ClosesFit
Inv       == TypeOK /\ HandleInv /\ ProcsFit /\ SinksFit /\ TailFits

USE PlainAssumption

\* All pipes closed, no process, nothing read.
LEMMA InitInv == Init => Inv
<1> SUFFICES ASSUME Init
             PROVE  Inv
  OBVIOUS
<1>1. TypeOK
  <2>0. input \in 0..MaxInput
    <3>1. input \in {0, MaxInput}
      BY DEF Init
    <3> QED BY <3>1
  <2>1. /\ caller \in {"server", "client"} /\ pc \in PCs
        /\ owned \subseteq Handles /\ filed \subseteq Handles /\ injob \subseteq Procs
        /\ exited \in BOOLEAN
    BY Places DEF Init
  <2>2. /\ closes \in [Handles -> 0..2] /\ proc \in [Procs -> {"none", "run", "dead"}]
        /\ holds \in [Procs -> SUBSET Ends] /\ thread \in [Threads -> {"none", "run", "done"}]
    BY DEF Init
  <2>3. /\ sent \in [Ends -> 0..MaxBytes + MaxInput] /\ taken \in [Ends -> 0..MaxBytes + MaxInput]
        /\ \A s \in Streams : taken[s] <= sent[s] /\ sent[s] <= MaxBytes
        /\ kept \in [Streams -> 0..Cap] /\ trunc \in [Streams -> BOOLEAN]
    BY DEF Init, Ends
  <2>4. tail \in [len: 0..TailCap, text: Nat, cut: BOOLEAN, written: BOOLEAN]
    BY DEF Init, NoTail
  <2> QED BY <2>0, <2>1, <2>2, <2>3, <2>4 DEF TypeOK
<1>2. OwnedAt /\ ThreadsFit /\ ClosesFit /\ ProcsFit
  BY Tables DEF Init, OwnedAt, ThreadsFit, ClosesFit, ProcsFit, Opening, Started, Ended, Busy
<1>3. FiledFits
  BY DEF Init, FiledFits, Busy
<1>4. SinksFit
  BY Tables DEF Init, SinksFit
<1>5. TailFits
  BY DEF Init, TailFits, NoTail, UnmarkedTailIsWhole
<1> QED BY <1>1, <1>2, <1>3, <1>4, <1>5 DEF Inv, HandleInv

-----------------------------------------------------------------------------
(* Handles and threads.                                                     *)

\* Steps of the pumps, the processes and run_generic's caller.
Beside ==
    \/ \E s \in Streams : PumpRead(s)
    \/ WriteStdin \/ ForkGrandchild \/ WriteTail
    \/ \E p \in Procs, s \in Streams : ProcWrites(p, s)
    \/ \E p \in Procs : ProcReads(p) \/ ProcExits(p)
    \/ Kill \/ WaitExited \/ UNCHANGED vars

\* Calls that move on without touching a handle.
Onward ==
    \/ Join \/ DropChild \/ RunGenericDone \/ RunGenericTimeout \/ WaitFails \/ JoinWait
    \/ JoinPumpsDone \/ JoinGraceOver \/ DropTerminates

Ending == (\E s \in Streams : PumpEnds(s)) \/ WriterEnds

\* The next-state relation by what happens to the handles.
LEMMA NextSplit ==
    [Next]_vars => \/ SpawnOpen \/ SpawnOpenFails \/ CreateProcess \/ AssignJob
                   \/ AssignJobFails \/ StartThread \/ StartThreadFails
                   \/ Ending \/ Joined \/ Dropped \/ Beside \/ Onward
BY DEF Next, CallStep, Ending, Beside, Onward

\* Beside the calls nothing moves.
LEMMA BesideFrame ==
    Beside => /\ pc' = pc /\ owned' = owned /\ filed' = filed /\ closes' = closes
              /\ thread' = thread /\ input' = input
BY DEF Beside, PumpRead, WriteStdin, ForkGrandchild, WriteTail, ProcWrites, ProcReads, ProcExits,
   Kill, WaitExited, vars, calls, setting

\* From a running PlainChild on.
LEMMA OnwardFrame ==
    Onward => /\ pc \in Started /\ pc' \in Started /\ owned' = owned /\ filed' = filed
              /\ closes' = closes /\ thread' = thread /\ input' = input
BY DEF Onward, Join, DropChild, RunGenericDone, RunGenericTimeout, WaitFails, JoinWait,
   JoinPumpsDone, JoinGraceOver, DropTerminates, calls, setting, Started

\* A thread ends.
LEMMA EndingFrame ==
    ASSUME Inv, Ending
    PROVE  \E t \in Threads : /\ thread[t] = "run" /\ thread' = [thread EXCEPT ![t] = "done"]
                              /\ Closing({Near[t]}) /\ filed' = filed \ {Near[t]}
                              /\ pc' = pc /\ owned' = owned /\ input' = input
BY Tables DEF Ending, PumpEnds, WriterEnds, ThreadEnds, Busy, setting

\* The threads from their first to their last step.
LEMMA ThreadsStep ==
    ASSUME Inv, [Next]_vars
    PROVE  ThreadsFit' /\ thread' \in [Threads -> {"none", "run", "done"}]
<1>0. /\ ThreadsFit /\ thread \in [Threads -> {"none", "run", "done"}] /\ pc \in PCs
      /\ OwnedAt /\ FiledFits /\ input \in Nat
  BY DEF Inv, HandleInv, TypeOK
<1>1. CASE SpawnOpen
  <2>1. pc \in {"out", "err", "in", "job"} /\ pc' \in Opening /\ thread' = thread
    BY <1>1, Tables DEF SpawnOpen, Opening
  <2> QED BY <1>0, <2>1 DEF ThreadsFit, Opening, Started
<1>2. CASE SpawnOpenFails
  <2>1. pc' = "failed" /\ thread' = thread
    BY <1>2 DEF SpawnOpenFails
  <2> QED BY <1>0, <2>1 DEF ThreadsFit, Opening, Started
<1>3. CASE CreateProcess \/ AssignJob \/ AssignJobFails
  <2>1. pc \in {"create", "assign"} /\ pc' \in {"assign", "feed", "failed"} /\ thread' = thread
    BY <1>3 DEF CreateProcess, AssignJob, AssignJobFails
  <2> QED BY <1>0, <2>1 DEF ThreadsFit, Opening, Started
<1>4. CASE StartThread
  <2>1. /\ pc \in {"feed", "pump_out", "pump_err"} /\ filed' = filed \cup Detached
        /\ thread' = IF Near[Starts[pc]] \in filed' THEN [thread EXCEPT ![Starts[pc]] = "run"]
                     ELSE thread
        /\ pc' = Then[pc]
    BY <1>4, Tables DEF StartThread
  <2>2. Starts[pc] \in Threads
    BY <2>1, Tables
  <2>3. thread' \in [Threads -> {"none", "run", "done"}]
    BY <1>0, <2>1, <2>2
  <2>4. CASE pc = "feed"
    <3>1. pc' = "pump_out" /\ \A t \in Threads \ {"in"} : thread'[t] = thread[t]
      BY <1>0, <2>1, <2>4, Tables
    <3> QED BY <1>0, <2>3, <2>4, <3>1, Tables DEF ThreadsFit, Opening, Started
  <2>5. CASE pc = "pump_out"
    <3>1. pc' = "pump_err" /\ "outR" \in filed'
      BY <2>1, <2>5, Tables DEF Detached
    <3>2. thread'["out"] = "run" /\ thread'["err"] = thread["err"]
      BY <1>0, <2>1, <2>5, <3>1, Tables
    <3> QED BY <1>0, <2>3, <2>5, <3>1, <3>2, Tables DEF ThreadsFit, Opening, Started
  <2>6. CASE pc = "pump_err"
    <3>1. pc' = "up" /\ "errR" \in filed'
      BY <1>0, <2>1, <2>6, Tables DEF FiledFits
    <3>2. thread'["err"] = "run" /\ thread'["out"] = thread["out"]
      BY <1>0, <2>1, <2>6, <3>1, Tables
    <3> QED BY <1>0, <2>3, <2>6, <3>1, <3>2, Tables DEF ThreadsFit, Opening, Started
  <2> QED BY <2>1, <2>4, <2>5, <2>6
<1>5. CASE StartThreadFails
  <2>1. pc' = "failed" /\ thread' = thread
    BY <1>5 DEF StartThreadFails
  <2> QED BY <1>0, <2>1 DEF ThreadsFit, Opening, Started
<1>6. CASE Ending
  <2>1. PICK t \in Threads : /\ thread[t] = "run" /\ thread' = [thread EXCEPT ![t] = "done"]
                             /\ pc' = pc
    BY <1>6, EndingFrame
  <2>2. /\ thread' \in [Threads -> {"none", "run", "done"}]
        /\ \A u \in Threads : (thread[u] = "none" <=> thread'[u] = "none")
                              /\ (thread'[u] = "run" => thread[u] = "run")
    BY <1>0, <2>1
  <2> QED BY <1>0, <2>1, <2>2, Tables DEF ThreadsFit, Busy
<1>7. CASE Joined \/ Dropped
  <2>1. /\ pc \in {"collect", "release"} /\ pc' \in {"joined", "dropped"} /\ thread' = thread
        /\ \A t \in Threads : ~Busy(t)
    BY <1>7 DEF Joined, Dropped
  <2> QED BY <1>0, <2>1 DEF ThreadsFit, Opening, Started, Busy
<1>8. CASE Beside
  <2>1. pc' = pc /\ thread' = thread
    BY <1>8, BesideFrame
  <2> QED BY <1>0, <2>1 DEF ThreadsFit, Busy
<1>9. CASE Onward
  <2>1. pc \in Started /\ pc' \in Started /\ thread' = thread
    BY <1>9, OnwardFrame
  <2> QED BY <1>0, <2>1 DEF ThreadsFit, Started, Opening
<1> QED BY <1>1, <1>2, <1>3, <1>4, <1>5, <1>6, <1>7, <1>8, <1>9, NextSplit

\* What is owned from one call to the next.
LEMMA OwnedStep ==
    ASSUME Inv, [Next]_vars
    PROVE  OwnedAt' /\ owned' \subseteq Handles /\ pc' \in PCs /\ input' = input
<1>0. OwnedAt /\ owned \subseteq Handles /\ pc \in PCs /\ input \in Nat
  BY DEF Inv, HandleInv, TypeOK
<1>1. CASE SpawnOpen
  <2>1. /\ pc \in {"out", "err", "in", "job"} /\ pc' = After[pc] /\ input' = input
        /\ owned' = IF pc = "in" /\ input = 0 THEN owned ELSE owned \cup Opens[pc]
    BY <1>1, Tables DEF SpawnOpen, setting
  <2>2. CASE pc = "out"
    BY <1>0, <2>1, <2>2, Tables, Places DEF OwnedAt, Started, Ended, Handles
  <2>3. CASE pc = "err"
    BY <1>0, <2>1, <2>3, Tables, Places DEF OwnedAt, Started, Ended, Handles
  <2>4. CASE pc = "in"
    BY <1>0, <2>1, <2>4, Tables, Places DEF OwnedAt, Started, Ended, Handles
  <2>5. CASE pc = "job"
    BY <1>0, <2>1, <2>5, Tables, Places DEF OwnedAt, Started, Ended, Handles
  <2> QED BY <2>1, <2>2, <2>3, <2>4, <2>5
<1>2. CASE SpawnOpenFails \/ AssignJobFails \/ StartThreadFails \/ Joined \/ Dropped
  <2>1. pc' \in Ended /\ owned' = {} /\ input' = input
    BY <1>2 DEF SpawnOpenFails, AssignJobFails, StartThreadFails, Joined, Dropped, setting, Ended
  <2> QED BY <2>1, Places DEF OwnedAt, Started, Ended
<1>3. CASE CreateProcess
  <2>1. /\ pc = "create" /\ pc' = "assign" /\ input' = input
        /\ owned' = (owned \ ({Far[e] : e \in Ends} \cap owned)) \cup {"process"}
    BY <1>3 DEF CreateProcess, setting
  <2>2. {Far[e] : e \in Ends} = {"outW", "errW", "inR"}
    BY Tables
  <2>3. owned' = (owned \ {"outW", "errW", "inR"}) \cup {"process"}
    BY <2>1, <2>2
  <2>4. owned = {"outR", "outW", "errR", "errW", "job"}
                \cup (IF input = 0 THEN {} ELSE {"inR", "inW"})
    BY <1>0, <2>1 DEF OwnedAt
  <2>5. owned' = {"outR", "errR", "job", "process"}
                 \cup ((IF input = 0 THEN {} ELSE {"inR", "inW"}) \ {"inR"})
    BY <2>3, <2>4
  <2> QED BY <2>1, <2>5, Places DEF OwnedAt, Started, Ended, Handles
<1>4. CASE AssignJob
  <2>1. pc = "assign" /\ pc' = "feed" /\ owned' = owned /\ input' = input
    BY <1>4 DEF AssignJob, setting
  <2> QED BY <1>0, <2>1, Places DEF OwnedAt, Started, Ended
<1>5. CASE StartThread
  <2>1. /\ pc \in {"feed", "pump_out", "pump_err"} /\ owned' = owned \ Detached
        /\ pc' = Then[pc] /\ input' = input
    BY <1>5, Tables DEF StartThread, setting
  <2>2. CASE pc = "feed"
    BY <1>0, <2>1, <2>2, Tables, Places DEF OwnedAt, Started, Ended, Detached
  <2>3. CASE pc = "pump_out"
    BY <1>0, <2>1, <2>3, Tables, Places DEF OwnedAt, Started, Ended, Detached
  <2>4. CASE pc = "pump_err"
    BY <1>0, <2>1, <2>4, Tables, Places DEF OwnedAt, Started, Ended, Detached
  <2> QED BY <2>1, <2>2, <2>3, <2>4
<1>6. CASE Ending \/ Beside
  <2>1. pc' = pc /\ owned' = owned /\ input' = input
    BY <1>6, EndingFrame, BesideFrame
  <2> QED BY <1>0, <2>1 DEF OwnedAt
<1>7. CASE Onward
  <2>1. pc \in Started /\ pc' \in Started /\ owned' = owned /\ input' = input
    BY <1>7, OnwardFrame
  <2> QED BY <1>0, <2>1, Places DEF OwnedAt, Started, Ended
<1> QED BY <1>1, <1>2, <1>3, <1>4, <1>5, <1>6, <1>7, NextSplit

\* Membership in filed.
LEMMA FiledBy ==
    FiledFits <=> \A h : h \in filed <=> \/ \E t \in Threads : Busy(t) /\ h = Near[t]
                                         \/ pc = "pump_err" /\ h = "errR"
BY DEF FiledFits

\* Each File passes from spawn to a thread and goes with it, or with spawn.
LEMMA FiledStep ==
    ASSUME Inv, [Next]_vars
    PROVE  FiledFits' /\ filed' \subseteq Handles
<1>0. /\ ThreadsFit /\ thread \in [Threads -> {"none", "run", "done"}] /\ pc \in PCs
      /\ OwnedAt /\ FiledFits /\ input \in Nat /\ filed \subseteq Handles
  BY DEF Inv, HandleInv, TypeOK
<1>a. /\ \A h : h \in filed <=> \/ \E t \in Threads : Busy(t) /\ h = Near[t]
                                \/ pc = "pump_err" /\ h = "errR"
      /\ \A t \in Threads : Near[t] \in {"outR", "errR", "inW"}
      /\ \A t, u \in Threads : Near[t] = Near[u] => t = u
  BY <1>0, FiledBy, Tables
<1>b. ASSUME \A h : h \in filed' <=> \/ \E t \in Threads : thread'[t] = "run" /\ h = Near[t]
                                     \/ pc' = "pump_err" /\ h = "errR"
      PROVE  FiledFits' /\ filed' \subseteq Handles
  <2>1. FiledFits'
    BY <1>b DEF FiledFits, Busy
  <2> QED BY <1>a, <1>b, <2>1 DEF Handles
<1>c. ASSUME filed' = filed, thread' = thread, pc # "pump_err", pc' # "pump_err"
      PROVE  FiledFits' /\ filed' \subseteq Handles
  BY <1>a, <1>b, <1>c DEF Busy
<1>1. CASE \/ SpawnOpen \/ SpawnOpenFails \/ CreateProcess \/ AssignJob \/ AssignJobFails
           \/ Joined \/ Dropped
  <2>1. filed' = filed /\ thread' = thread /\ pc # "pump_err" /\ pc' # "pump_err"
    BY <1>1, Tables DEF SpawnOpen, SpawnOpenFails, CreateProcess, AssignJob, AssignJobFails,
       Joined, Dropped
  <2> QED BY <1>c, <2>1
<1>2. CASE Onward
  BY <1>2, <1>c, OnwardFrame DEF Started
<1>3. CASE Beside
  <2>1. filed' = filed /\ thread' = thread /\ pc' = pc
    BY <1>3, BesideFrame
  <2> QED BY <1>a, <1>b, <2>1 DEF Busy
<1>4. CASE Ending
  <2>1. PICK t \in Threads : /\ thread[t] = "run" /\ thread' = [thread EXCEPT ![t] = "done"]
                             /\ filed' = filed \ {Near[t]} /\ pc' = pc
    BY <1>4, EndingFrame
  <2>2. pc = "pump_err" => Near[t] # "errR"
    BY <1>0, <2>1, Tables DEF ThreadsFit
  <2>3. \A u \in Threads : thread'[u] = "run" <=> u # t /\ thread[u] = "run"
    BY <1>0, <2>1
  <2> QED BY <1>a, <1>b, <2>1, <2>2, <2>3 DEF Busy
<1>5. CASE StartThread
  <2>1. /\ pc \in {"feed", "pump_out", "pump_err"} /\ filed' = filed \cup Detached
        /\ thread' = IF Near[Starts[pc]] \in filed' THEN [thread EXCEPT ![Starts[pc]] = "run"]
                     ELSE thread
        /\ pc' = Then[pc]
    BY <1>5, Tables DEF StartThread
  <2>2. CASE pc = "feed"
    <3>1. filed = {} /\ pc' = "pump_out" /\ Detached \subseteq {"inW"} /\ filed' = Detached
      BY <1>0, <1>a, <2>1, <2>2, Tables DEF ThreadsFit, Busy, Detached
    <3>2. \A t \in Threads : thread'[t] = "run" <=> t = "in" /\ "inW" \in filed'
      BY <1>0, <2>1, <2>2, <3>1, Tables DEF ThreadsFit
    <3>3. \A h : h \in filed' <=> h = "inW" /\ "inW" \in filed'
      BY <3>1
    <3>4. "in" \in Threads /\ Near["in"] = "inW"
      BY Tables
    <3>5. \A h : h \in filed' <=> \E t \in Threads : thread'[t] = "run" /\ h = Near[t]
      BY <3>2, <3>3, <3>4
    <3> QED BY <1>b, <3>1, <3>5
  <2>3. CASE pc = "pump_out"
    <3>1. Detached = {"outR", "errR"} /\ pc' = "pump_err"
      BY <2>1, <2>3, Tables DEF Detached
    <3>2. \A t \in Threads : thread'[t] = "run" <=> t = "out" \/ thread[t] = "run"
      BY <1>0, <2>1, <2>3, <3>1, Tables
    <3> QED BY <1>a, <1>b, <2>1, <2>3, <3>1, <3>2, Tables DEF Busy
  <2>4. CASE pc = "pump_err"
    <3>1. Detached = {} /\ pc' = "up" /\ "errR" \in filed
      BY <1>a, <2>1, <2>4, Tables DEF Detached
    <3>2. \A t \in Threads : thread'[t] = "run" <=> t = "err" \/ thread[t] = "run"
      BY <1>0, <2>1, <2>4, <3>1, Tables
    <3> QED BY <1>a, <1>b, <2>1, <2>4, <3>1, <3>2, Tables DEF Busy
  <2> QED BY <2>1, <2>2, <2>3, <2>4
<1>6. CASE StartThreadFails
  <2>1. /\ pc \in {"feed", "pump_out", "pump_err"} /\ pc' = "failed" /\ thread' = thread
        /\ filed' = (filed \cup Detached) \ Unstarted
    BY <1>6, Tables DEF StartThreadFails
  <2>2. \A t \in Threads : Near[t] \in Detached => thread[t] = "none"
    BY <1>0, <2>1, Tables DEF Detached, ThreadsFit
  <2>3. Detached \subseteq {"outR", "errR", "inW"}
    BY DEF Detached
  <2>4. \A h \in filed \cup Detached :
            h \in Unstarted <=> \A t \in Threads : Near[t] = h => thread[t] = "none"
    BY DEF Unstarted
  <2>5. \A t \in Threads : thread[t] = "run" => Near[t] \in filed /\ Near[t] \notin Unstarted
    BY <1>a, <2>4 DEF Busy
  <2>6. ASSUME NEW h \in filed \cup Detached, h \notin Unstarted
        PROVE  \E t \in Threads : thread[t] = "run" /\ h = Near[t]
    <3>1. PICK t \in Threads : Near[t] = h /\ thread[t] # "none"
      BY <2>4, <2>6
    <3>2. h \in filed
      BY <2>2, <3>1
    <3>3. ~(pc = "pump_err" /\ h = "errR")
      BY <1>0, <3>1, Tables DEF ThreadsFit
    <3> QED BY <1>a, <3>2, <3>3 DEF Busy
  <2> QED BY <1>b, <2>1, <2>5, <2>6
<1> QED BY <1>1, <1>2, <1>3, <1>4, <1>5, <1>6, NextSplit

\* A set of held handles is closed: each was closed never before.
LEMMA ClosingHeld ==
    ASSUME Inv, NEW H, H \subseteq owned \cup filed, Closing(H)
    PROVE  /\ closes' \in [Handles -> 0..2]
           /\ \A h \in Handles : closes'[h] <= 1 /\ (h \notin H => closes'[h] = closes[h])
<1>1. closes \in [Handles -> 0..2] /\ ClosesFit
  BY DEF Inv, HandleInv, TypeOK
<1>2. ASSUME NEW h \in Handles
      PROVE  closes'[h] \in 0..2 /\ closes'[h] <= 1 /\ (h \notin H => closes'[h] = closes[h])
  <2>1. closes'[h] = closes[h] + (IF h \in H THEN 1 ELSE 0)
    BY DEF Closing
  <2>2. closes[h] \in 0..2 /\ closes[h] <= 1 /\ (h \in H => closes[h] = 0)
    BY <1>1 DEF ClosesFit
  <2> QED BY <2>1, <2>2
<1>3. closes' \in [Handles -> 0..2]
  BY <1>2 DEF Closing
<1> QED BY <1>2, <1>3

\* No handle is in two places.
LEMMA Apart ==
    ASSUME Inv
    PROVE  owned \cap filed = {}
<1>0. ThreadsFit /\ OwnedAt /\ FiledFits /\ pc \in PCs
  BY DEF Inv, HandleInv, TypeOK
<1>1. filed \subseteq {"outR", "errR", "inW"}
  BY <1>0, FiledBy, Tables
<1>2. CASE pc \in {"pump_err"} \cup Started \cup Ended
  BY <1>0, <1>1, <1>2 DEF OwnedAt
<1>3. CASE pc \in Opening \cup {"assign", "feed"}
  BY <1>0, <1>3, FiledBy DEF ThreadsFit, Busy, Opening
<1>4. CASE pc = "pump_out"
  <2>1. filed \subseteq {"inW"}
    BY <1>0, <1>4, FiledBy, Tables DEF ThreadsFit, Busy
  <2> QED BY <1>0, <1>4, <2>1 DEF OwnedAt
<1> QED BY <1>0, <1>2, <1>3, <1>4, Places DEF Opening, Started, Ended

\* No step closes what is not held.
LEMMA ClosesStep ==
    ASSUME Inv, [Next]_vars
    PROVE  ClosesFit' /\ closes' \in [Handles -> 0..2]
<1>0. /\ ClosesFit /\ closes \in [Handles -> 0..2] /\ pc \in PCs /\ OwnedAt /\ FiledFits
      /\ ThreadsFit /\ owned \cap filed = {} /\ owned \subseteq Handles /\ filed \subseteq Handles
  BY Apart DEF Inv, HandleInv, TypeOK
<1>1. CASE SpawnOpen
  <2>1. pc \in Opening /\ closes' = closes
    BY <1>1, Tables DEF SpawnOpen, Opening
  <2>2. \A h \in Handles : closes'[h] = 0
    BY <1>0, <2>1 DEF ClosesFit
  <2> QED BY <1>0, <2>1, <2>2 DEF ClosesFit
<1>a. ASSUME NEW H, H \subseteq owned \cup filed, Closing(H), pc' \notin Opening,
             (owned' \cup filed') \cap H = {},
             \A h \in (owned' \cup filed') \ (owned \cup filed) : h \in Handles => closes[h] = 0
      PROVE  ClosesFit' /\ closes' \in [Handles -> 0..2]
  <2>1. /\ closes' \in [Handles -> 0..2]
        /\ \A h \in Handles : closes'[h] <= 1 /\ (h \notin H => closes'[h] = closes[h])
    BY <1>a, ClosingHeld
  <2>2. \A h \in Handles : h \in owned' \cup filed' => closes'[h] = 0
    BY <1>0, <1>a, <2>1 DEF ClosesFit
  <2> QED BY <1>a, <2>1, <2>2 DEF ClosesFit
<1>2. CASE SpawnOpenFails \/ AssignJobFails \/ Joined \/ Dropped
  <2>1. Closing(owned) /\ owned' = {} /\ filed' = filed /\ pc' \notin Opening
    BY <1>2 DEF SpawnOpenFails, AssignJobFails, Joined, Dropped, Opening
  <2> QED BY <1>0, <1>a, <2>1
<1>3. CASE CreateProcess
  <2> DEFINE H == {Far[e] : e \in Ends} \cap owned
  <2>1. /\ pc = "create" /\ pc' = "assign" /\ Closing(H) /\ filed' = filed
        /\ owned' = (owned \ H) \cup {"process"}
    BY <1>3 DEF CreateProcess
  <2>2. closes["process"] = 0
    BY <1>0, <2>1 DEF ClosesFit, Opening, Handles
  <2>3. H \subseteq owned /\ "process" \notin H
    BY Tables
  <2> HIDE DEF H
  <2>4. \A h \in (owned' \cup filed') \ (owned \cup filed) : h \in Handles => closes[h] = 0
    BY <2>1, <2>2
  <2>5. (owned' \cup filed') \cap H = {}
    BY <1>0, <2>1, <2>3
  <2> QED BY <1>a, <2>1, <2>3, <2>4, <2>5 DEF Opening
<1>4. CASE AssignJob
  <2>1. /\ closes' = closes /\ owned' = owned /\ filed' = filed /\ pc' \notin Opening
    BY <1>4 DEF AssignJob, Opening
  <2> QED BY <1>0, <2>1 DEF ClosesFit
<1>b. Detached \subseteq owned \/ pc \notin {"feed", "pump_out", "pump_err"}
  BY <1>0 DEF Detached, OwnedAt
<1>5. CASE StartThread
  <2>1. /\ closes' = closes /\ owned' = owned \ Detached /\ filed' = filed \cup Detached
        /\ pc' \notin Opening /\ pc \in {"feed", "pump_out", "pump_err"}
    BY <1>5, Tables DEF StartThread, Opening
  <2>2. owned' \cup filed' \subseteq owned \cup filed
    BY <1>b, <2>1
  <2> QED BY <1>0, <2>1, <2>2 DEF ClosesFit
<1>6. CASE StartThreadFails
  <2> DEFINE H == Unstarted \cup (owned \ Detached)
  <2>1. /\ pc \in {"feed", "pump_out", "pump_err"} /\ pc' = "failed"
        /\ owned' = {} /\ filed' = (filed \cup Detached) \ Unstarted /\ Closing(H)
    BY <1>6, Tables DEF StartThreadFails
  <2>2. Unstarted \subseteq filed \cup Detached
    BY DEF Unstarted
  <2>3. H \subseteq owned \cup filed /\ (owned' \cup filed') \cap H = {}
    BY <1>0, <1>b, <2>1, <2>2
  <2>4. owned' \cup filed' \subseteq owned \cup filed
    BY <1>b, <2>1
  <2> HIDE DEF H
  <2> QED BY <1>a, <2>1, <2>3, <2>4 DEF Opening
<1>7. CASE Ending
  <2>1. PICK t \in Threads : /\ thread[t] = "run" /\ Closing({Near[t]})
                             /\ filed' = filed \ {Near[t]} /\ owned' = owned /\ pc' = pc
    BY <1>7, EndingFrame
  <2>2. Near[t] \in filed
    BY <1>0, <2>1, FiledBy DEF Busy
  <2>3. pc \notin Opening
    BY <1>0, <2>1 DEF ThreadsFit
  <2>4. {Near[t]} \subseteq owned \cup filed /\ (owned' \cup filed') \cap {Near[t]} = {}
    BY <1>0, <2>1, <2>2
  <2> QED BY <1>a, <2>1, <2>3, <2>4
<1>8. CASE Beside
  <2>1. pc' = pc /\ owned' = owned /\ filed' = filed /\ closes' = closes
    BY <1>8, BesideFrame
  <2> QED BY <1>0, <2>1 DEF ClosesFit
<1>9. CASE Onward
  <2>1. pc' \notin Opening /\ owned' = owned /\ filed' = filed /\ closes' = closes
    BY <1>9, OnwardFrame DEF Started, Opening
  <2> QED BY <1>0, <2>1 DEF ClosesFit
<1> QED BY <1>1, <1>2, <1>3, <1>4, <1>5, <1>6, <1>7, <1>8, <1>9, NextSplit

-----------------------------------------------------------------------------
(* Processes.                                                               *)

\* Who is killed is not alive, the others are as they were.
LEMMA KilledEnd ==
    ASSUME Inv, NEW P, proc' = Killed(P)
    PROVE  /\ proc' \in [Procs -> {"none", "run", "dead"}]
           /\ \A p \in Procs : Alive(p)' => Alive(p) /\ p \notin P
BY DEF Killed, Alive, Inv, TypeOK

\* Once assigned the child dies with the job, and with it all that it started
\* since.
LEMMA ProcsStep ==
    ASSUME Inv, [Next]_vars
    PROVE  /\ ProcsFit' /\ proc' \in [Procs -> {"none", "run", "dead"}]
           /\ injob' \subseteq Procs /\ holds' \in [Procs -> SUBSET Ends]
<1> DEFINE Goal == /\ ProcsFit' /\ proc' \in [Procs -> {"none", "run", "dead"}]
                   /\ injob' \subseteq Procs /\ holds' \in [Procs -> SUBSET Ends]
<1>0. /\ ProcsFit /\ pc \in PCs /\ proc \in [Procs -> {"none", "run", "dead"}]
      /\ injob \subseteq Procs /\ holds \in [Procs -> SUBSET Ends]
      /\ Procs = {"child", "grandchild"}
  BY DEF Inv, TypeOK, Procs
\* A step that kills some, all of the job when the call ends with it.
<1>a. ASSUME proc' = Killed(injob) \/ (proc' = proc /\ pc' \notin Ended), injob' = injob,
             holds' = holds,
             pc \notin Opening \cup {"assign"}, pc' \notin Opening \cup {"assign"}
      PROVE  Goal
  <2>1. /\ proc' \in [Procs -> {"none", "run", "dead"}]
        /\ \A p \in Procs : Alive(p)' => Alive(p) /\ (pc' \in Ended => p \notin injob)
    BY <1>0, <1>a, KilledEnd DEF Alive
  <2>2. \A p \in Procs : Alive(p) => p \in injob \/ p = "grandchild"
    BY <1>0, <1>a DEF ProcsFit
  <2> QED BY <1>0, <1>a, <2>1, <2>2 DEF ProcsFit
<1>1. CASE SpawnOpen
  <2>1. /\ pc \in Opening /\ pc' \in Opening /\ proc' = proc /\ injob' = injob /\ holds' = holds
    BY <1>1, Tables DEF SpawnOpen, Opening, procVars
  <2> QED BY <1>0, <2>1 DEF ProcsFit, Opening, Ended, Alive
<1>2. CASE SpawnOpenFails
  <2>1. /\ pc \in Opening /\ pc' = "failed" /\ proc' = proc /\ injob' = injob /\ holds' = holds
    BY <1>2, Tables DEF SpawnOpenFails, Opening, procVars
  <2> QED BY <1>0, <2>1 DEF ProcsFit, Opening, Ended, Alive
<1>3. CASE CreateProcess
  <2>1. /\ pc = "create" /\ pc' = "assign" /\ injob' = injob
        /\ proc' = [proc EXCEPT !["child"] = "run"]
        /\ holds' = [holds EXCEPT !["child"] = {e \in Ends : Far[e] \in owned}]
    BY <1>3 DEF CreateProcess
  <2>2. proc' \in [Procs -> {"none", "run", "dead"}] /\ holds' \in [Procs -> SUBSET Ends]
    BY <1>0, <2>1
  <2> QED BY <1>0, <2>1, <2>2 DEF ProcsFit, Opening, Ended
<1>4. CASE AssignJob
  <2>1. /\ pc = "assign" /\ pc' = "feed" /\ proc' = proc /\ holds' = holds
        /\ injob' = IF Alive("child") THEN injob \cup {"child"} ELSE injob
    BY <1>4 DEF AssignJob
  <2> QED BY <1>0, <2>1 DEF ProcsFit, Opening, Ended, Alive
<1>5. CASE AssignJobFails
  <2>1. /\ pc = "assign" /\ pc' = "failed" /\ proc' = Killed({"child"}) /\ holds' = holds
        /\ injob' = injob
    BY <1>5 DEF AssignJobFails
  <2>2. /\ proc' \in [Procs -> {"none", "run", "dead"}]
        /\ \A p \in Procs : Alive(p)' => p # "child"
    BY <2>1, KilledEnd
  <2>3. injob = {}
    BY <1>0, <2>1 DEF ProcsFit
  <2> QED BY <1>0, <2>1, <2>2, <2>3 DEF ProcsFit, Opening, Ended
<1>6. CASE StartThread
  <2>1. /\ pc \in {"feed", "pump_out", "pump_err"} /\ pc' \in {"pump_out", "pump_err", "up"}
        /\ proc' = proc /\ injob' = injob /\ holds' = holds
    BY <1>6, Tables DEF StartThread, procVars
  <2> QED BY <1>a, <2>1 DEF Opening, Ended
<1>7. CASE StartThreadFails \/ Joined \/ Dropped
  <2>1. /\ pc \notin Opening \cup {"assign"} /\ pc' \in Ended
        /\ proc' = Killed(injob) /\ injob' = injob /\ holds' = holds
    BY <1>7, Tables DEF StartThreadFails, Joined, Dropped, TerminateJob, Opening, Ended
  <2>2. pc' \notin Opening \cup {"assign"}
    BY <2>1 DEF Opening, Ended
  <2> QED BY <1>a, <2>1, <2>2
<1>8. CASE Onward
  <2>1. pc \in Started /\ pc' \in Started
    BY <1>8, OnwardFrame
  <2>2. (proc' = Killed(injob) \/ proc' = proc) /\ injob' = injob /\ holds' = holds
    BY <1>8 DEF Onward, Join, DropChild, RunGenericDone, RunGenericTimeout, WaitFails, JoinWait,
       JoinPumpsDone, JoinGraceOver, DropTerminates, calls, TerminateJob
  <2> QED BY <1>a, <2>1, <2>2 DEF Opening, Started, Ended
<1>9. CASE ForkGrandchild
  <2>1. /\ pc' = pc /\ Alive("child") /\ proc' = [proc EXCEPT !["grandchild"] = "run"]
        /\ injob' = IF "child" \in injob THEN injob \cup {"grandchild"} ELSE injob
        /\ \E H : holds' = [holds EXCEPT !["grandchild"] = H \cap holds["child"]]
    BY <1>9 DEF ForkGrandchild
  <2>2. pc \notin Opening /\ pc \notin Ended
    BY <1>0, <2>1 DEF ProcsFit, Alive
  <2>3. /\ proc' \in [Procs -> {"none", "run", "dead"}] /\ proc'["child"] = proc["child"]
        /\ holds' \in [Procs -> SUBSET Ends] /\ injob' \subseteq Procs
    BY <1>0, <2>1
  <2> QED BY <1>0, <2>1, <2>2, <2>3 DEF ProcsFit, Alive
<1>10. CASE (\E p \in Procs : ProcExits(p)) \/ Kill
  <2>1. /\ pc' = pc /\ injob' = injob /\ holds' = holds
        /\ \/ \E p \in Procs : Alive(p) /\ proc' = [proc EXCEPT ![p] = "dead"]
           \/ proc' = Killed(injob)
    BY <1>10 DEF ProcExits, Kill, TerminateJob, calls
  <2>2. /\ proc' \in [Procs -> {"none", "run", "dead"}]
        /\ \A p \in Procs : Alive(p)' => Alive(p)
        /\ \A p \in Procs : proc[p] = "none" => proc'[p] = "none"
    BY <1>0, <2>1 DEF Alive, Killed
  <2> QED BY <1>0, <2>1, <2>2 DEF ProcsFit
<1>11. CASE Ending \/ (Beside /\ ~(\E p \in Procs : ProcExits(p)) /\ ~Kill /\ ~ForkGrandchild)
  <2>1. pc' = pc /\ proc' = proc /\ injob' = injob /\ holds' = holds
    BY <1>11 DEF Ending, PumpEnds, WriterEnds, ThreadEnds, Beside, PumpRead, WriteStdin,
       WriteTail, ProcWrites, ProcReads, WaitExited, vars, calls, procVars
  <2> QED BY <1>0, <2>1 DEF ProcsFit, Alive
<1> QED
  BY <1>1, <1>2, <1>3, <1>4, <1>5, <1>6, <1>7, <1>8, <1>9, <1>10, <1>11, NextSplit

-----------------------------------------------------------------------------
(* Output.                                                                  *)

\* The sinks keep what fits of what is read, and a pump that has ended has read
\* everything: no one holds its pipe any more, and no one can get it back.
LEMMA SinksStep ==
    ASSUME Inv, [Next]_vars
    PROVE  /\ SinksFit'
           /\ sent' \in [Ends -> 0..MaxBytes + MaxInput]
           /\ taken' \in [Ends -> 0..MaxBytes + MaxInput]
           /\ \A s \in Streams : taken'[s] <= sent'[s] /\ sent'[s] <= MaxBytes
           /\ kept' \in [Streams -> 0..Cap] /\ trunc' \in [Streams -> BOOLEAN]
<1> DEFINE Types == /\ sent' \in [Ends -> 0..MaxBytes + MaxInput]
                    /\ taken' \in [Ends -> 0..MaxBytes + MaxInput]
                    /\ \A s \in Streams : taken'[s] <= sent'[s] /\ sent'[s] <= MaxBytes
                    /\ kept' \in [Streams -> 0..Cap] /\ trunc' \in [Streams -> BOOLEAN]
<1>0. /\ SinksFit /\ ThreadsFit /\ pc \in PCs /\ input \in 0..MaxInput
      /\ thread \in [Threads -> {"none", "run", "done"}]
      /\ proc \in [Procs -> {"none", "run", "dead"}] /\ holds \in [Procs -> SUBSET Ends]
      /\ Procs = {"child", "grandchild"}
      /\ sent \in [Ends -> 0..MaxBytes + MaxInput] /\ taken \in [Ends -> 0..MaxBytes + MaxInput]
      /\ kept \in [Streams -> 0..Cap] /\ trunc \in [Streams -> BOOLEAN]
      /\ Streams \subseteq Ends /\ Threads = Ends /\ "in" \in Ends /\ "in" \notin Streams
      /\ MaxBytes \in Nat /\ MaxInput \in Nat /\ Cap \in Nat
  BY DEF Inv, HandleInv, TypeOK, Procs, Threads, Ends, Streams
<1>a. \A s \in Streams : taken[s] <= sent[s] /\ sent[s] <= MaxBytes
  BY DEF Inv, TypeOK
<1>1. ASSUME NEW s \in Streams, PumpRead(s)
      PROVE  SinksFit' /\ Types
  <2> DEFINE n    == Min({Chunk, sent[s] - taken[s]})
             keep == Min({Cap - kept[s], n})
  <2>1. /\ thread[s] = "run" /\ taken[s] < sent[s] /\ thread' = thread /\ proc' = proc
        /\ holds' = holds /\ sent' = sent
        /\ taken' = [taken EXCEPT ![s] = taken[s] + n]
        /\ kept' = [kept EXCEPT ![s] = kept[s] + keep]
        /\ trunc' = [trunc EXCEPT ![s] = trunc[s] \/ keep < n]
    BY <1>1 DEF PumpRead, Pushed, Busy, procVars
  <2>2. /\ sent[s] \in Nat /\ taken[s] \in Nat /\ kept[s] \in Nat /\ kept[s] <= Cap
        /\ sent[s] - taken[s] \in Nat \ {0} /\ Cap - kept[s] \in Nat /\ Chunk \in Nat \ {0}
    BY <1>0, <2>1
  <2>3. n \in Nat /\ n <= sent[s] - taken[s]
    BY <2>2, MinOfTwo
  <2>4. keep = IF Cap - kept[s] <= n THEN Cap - kept[s] ELSE n
    BY <2>2, <2>3, MinOfTwo
  <2> HIDE DEF n, keep
  <2>5. /\ taken'[s] = taken[s] + n /\ kept'[s] = kept[s] + keep
        /\ trunc'[s] <=> trunc[s] \/ keep < n
        /\ \A r \in Streams \ {s} :
              taken'[r] = taken[r] /\ kept'[r] = kept[r] /\ trunc'[r] = trunc[r]
        /\ thread' = thread /\ sent' = sent
    BY <1>0, <2>1
  <2>6. /\ kept[s] = (IF taken[s] <= Cap THEN taken[s] ELSE Cap)
        /\ trunc[s] <=> taken[s] > Cap
    BY <1>0 DEF SinksFit
  <2>7. kept'[s] = (IF taken'[s] <= Cap THEN taken'[s] ELSE Cap) /\ kept'[s] \in 0..Cap
    BY <1>0, <2>2, <2>3, <2>4, <2>5, <2>6
  <2>8. trunc'[s] <=> taken'[s] > Cap
    BY <1>0, <2>2, <2>3, <2>4, <2>5, <2>6
  <2>9. SinksFit'
    BY <1>0, <2>1, <2>5, <2>7, <2>8 DEF SinksFit, Alive
  <2>10. taken'[s] \in 0..MaxBytes + MaxInput /\ taken'[s] <= sent[s]
    BY <1>0, <1>a, <2>2, <2>3, <2>5
  <2>11. taken' \in [Ends -> 0..MaxBytes + MaxInput] /\ sent' \in [Ends -> 0..MaxBytes + MaxInput]
    BY <1>0, <2>1, <2>5, <2>10
  <2>12. kept' \in [Streams -> 0..Cap]
    BY <1>0, <2>1, <2>5, <2>7
  <2>13. trunc' \in [Streams -> BOOLEAN]
    BY <1>0, <2>1
  <2>14. \A r \in Streams : taken'[r] <= sent'[r] /\ sent'[r] <= MaxBytes
    BY <1>a, <2>5, <2>10
  <2> QED BY <2>9, <2>11, <2>12, <2>13, <2>14
<1>2. ASSUME NEW s \in Streams, PumpEnds(s)
      PROVE  SinksFit' /\ Types
  <2>1. /\ taken[s] = sent[s] /\ \A p \in Procs : Alive(p) => s \notin holds[p]
        /\ thread' = [thread EXCEPT ![s] = "done"]
        /\ proc' = proc /\ holds' = holds /\ sent' = sent /\ taken' = taken /\ kept' = kept
        /\ trunc' = trunc
    BY <1>2 DEF PumpEnds, Hangup, ThreadEnds, procVars, streamVars
  <2>2. \A r \in Streams : thread'[r] = "done" => r = s \/ thread[r] = "done"
    BY <1>0, <2>1
  <2>3. SinksFit'
    BY <1>0, <2>1, <2>2 DEF SinksFit, Alive
  <2> QED BY <1>0, <1>a, <2>1, <2>3
<1>3. ASSUME NEW p \in Procs, NEW s \in Streams, ProcWrites(p, s)
      PROVE  SinksFit' /\ Types
  <2>1. /\ Alive(p) /\ s \in holds[p] /\ sent[s] < MaxBytes
        /\ sent' = [sent EXCEPT ![s] = sent[s] + 1] /\ taken' = taken /\ kept' = kept
        /\ trunc' = trunc /\ thread' = thread /\ proc' = proc /\ holds' = holds
    BY <1>3 DEF ProcWrites, procVars
  <2>2. thread[s] # "done"
    BY <1>0, <2>1 DEF SinksFit
  <2>3. SinksFit'
    BY <1>0, <2>1, <2>2 DEF SinksFit, Alive
  <2>4. sent[s] + 1 \in 0..MaxBytes + MaxInput /\ sent[s] \in Nat /\ taken[s] \in Nat
    BY <1>0, <2>1
  <2>5. /\ sent' \in [Ends -> 0..MaxBytes + MaxInput] /\ sent'[s] = sent[s] + 1
        /\ \A r \in Streams \ {s} : sent'[r] = sent[r]
    BY <1>0, <2>1, <2>4
  <2>6. \A r \in Streams : taken[r] <= sent'[r] /\ sent'[r] <= MaxBytes
    BY <1>0, <1>a, <2>1, <2>4, <2>5
  <2> QED BY <1>0, <2>1, <2>3, <2>5, <2>6
<1>4. CASE WriteStdin
  <2>1. /\ sent["in"] < input /\ sent' = [sent EXCEPT !["in"] = sent["in"] + 1]
        /\ taken' = taken /\ kept' = kept
        /\ trunc' = trunc /\ thread' = thread /\ proc' = proc /\ holds' = holds
    BY <1>4 DEF WriteStdin, procVars
  <2>2. sent["in"] + 1 \in 0..MaxBytes + MaxInput
    BY <1>0, <2>1
  <2>3. sent' \in [Ends -> 0..MaxBytes + MaxInput] /\ \A s \in Streams : sent'[s] = sent[s]
    BY <1>0, <2>1, <2>2
  <2>4. SinksFit'
    BY <1>0, <2>1, <2>3 DEF SinksFit, Alive
  <2> QED BY <1>0, <1>a, <2>1, <2>3, <2>4
<1>5. ASSUME NEW p \in Procs, ProcReads(p)
      PROVE  SinksFit' /\ Types
  <2>1. /\ taken["in"] < sent["in"] /\ taken' = [taken EXCEPT !["in"] = taken["in"] + 1]
        /\ sent' = sent /\ kept' = kept
        /\ trunc' = trunc /\ thread' = thread /\ proc' = proc /\ holds' = holds
    BY <1>5 DEF ProcReads, procVars
  <2>2. taken["in"] + 1 \in 0..MaxBytes + MaxInput
    BY <1>0, <2>1
  <2>3. taken' \in [Ends -> 0..MaxBytes + MaxInput] /\ \A s \in Streams : taken'[s] = taken[s]
    BY <1>0, <2>1, <2>2
  <2>4. SinksFit'
    BY <1>0, <2>1, <2>3 DEF SinksFit, Alive
  <2> QED BY <1>0, <1>a, <2>1, <2>3, <2>4
\* The other steps leave the streams alone; a new process gets no more than its
\* parent has.
<1>b. ASSUME streamVars' = streamVars, \A s \in Streams : thread'[s] = "done" => thread[s] = "done",
             \A s \in Streams, p \in Procs : thread[s] = "done" /\ Alive(p)' /\ s \in holds'[p]
                => \E q \in Procs : Alive(q) /\ s \in holds[q]
      PROVE  SinksFit' /\ Types
  <2>1. sent' = sent /\ taken' = taken /\ kept' = kept /\ trunc' = trunc
    BY <1>b DEF streamVars
  <2>2. SinksFit'
    BY <1>0, <1>b, <2>1 DEF SinksFit
  <2> QED BY <1>0, <1>a, <2>1, <2>2
<1>6. CASE CreateProcess
  <2>1. pc = "create" /\ thread' = thread /\ streamVars' = streamVars
    BY <1>6 DEF CreateProcess, streamVars
  <2>2. \A s \in Streams : thread[s] # "done"
    BY <1>0, <2>1 DEF ThreadsFit, Opening
  <2> QED BY <1>b, <2>1, <2>2
<1>7. CASE ForkGrandchild
  <2>1. /\ thread' = thread /\ streamVars' = streamVars /\ Alive("child")
        /\ proc' = [proc EXCEPT !["grandchild"] = "run"]
        /\ \E H : holds' = [holds EXCEPT !["grandchild"] = H \cap holds["child"]]
    BY <1>7 DEF ForkGrandchild, streamVars
  <2>2. /\ holds'["grandchild"] \subseteq holds["child"] /\ holds'["child"] = holds["child"]
        /\ proc'["child"] = proc["child"]
    BY <1>0, <2>1
  <2> QED BY <1>0, <1>b, <2>1, <2>2 DEF Alive
<1>8. CASE StartThread
  <2>1. \A s \in Streams : thread'[s] = "done" => thread[s] = "done"
    BY <1>0, <1>8, Tables DEF StartThread
  <2>2. streamVars' = streamVars /\ proc' = proc /\ holds' = holds
    BY <1>8 DEF StartThread, procVars, streamVars
  <2> QED BY <1>b, <2>1, <2>2 DEF Alive
<1>9. CASE WriterEnds
  <2>1. thread' = [thread EXCEPT !["in"] = "done"] /\ streamVars' = streamVars /\ proc' = proc
        /\ holds' = holds
    BY <1>9 DEF WriterEnds, ThreadEnds, procVars, streamVars
  <2>2. \A s \in Streams : thread'[s] = "done" => thread[s] = "done"
    BY <1>0, <2>1
  <2> QED BY <1>b, <2>1, <2>2 DEF Alive
<1>10. CASE \/ SpawnOpen \/ SpawnOpenFails \/ AssignJob \/ AssignJobFails \/ StartThreadFails
            \/ Joined \/ Dropped \/ Onward \/ WriteTail \/ Kill \/ WaitExited
            \/ (\E p \in Procs : ProcExits(p)) \/ UNCHANGED vars
  <2>1. thread' = thread /\ streamVars' = streamVars /\ holds' = holds
    BY <1>10 DEF SpawnOpen, SpawnOpenFails, AssignJob, AssignJobFails, StartThreadFails, Joined,
       Dropped, Onward, Join, DropChild, RunGenericDone, RunGenericTimeout, WaitFails, JoinWait,
       JoinPumpsDone, JoinGraceOver, DropTerminates, WriteTail, Kill, WaitExited, ProcExits,
       vars, calls, procVars, streamVars
  <2>2. \/ proc' = proc \/ \E P : proc' = Killed(P)
        \/ \E p \in Procs : proc' = [proc EXCEPT ![p] = "dead"]
    BY <1>10 DEF SpawnOpen, SpawnOpenFails, AssignJob, AssignJobFails, StartThreadFails, Joined,
       Dropped, Onward, Join, DropChild, RunGenericDone, RunGenericTimeout, WaitFails, JoinWait,
       JoinPumpsDone, JoinGraceOver, DropTerminates, WriteTail, Kill, WaitExited, ProcExits,
       vars, calls, procVars, TerminateJob
  <2>3. \A p \in Procs : Alive(p)' => Alive(p)
    BY <1>0, <2>2 DEF Alive, Killed
  <2> QED BY <1>b, <2>1, <2>3
<1> QED
  BY <1>1, <1>2, <1>3, <1>4, <1>5, <1>6, <1>7, <1>8, <1>9, <1>10, NextSplit DEF Ending, Beside

-----------------------------------------------------------------------------
(* The tail file.                                                           *)

\* After a join both streams are read to their end, within the caps or marked.
LEMMA JoinedStreams ==
    ASSUME Inv, pc = "joined"
    PROVE  \A s \in Streams : /\ thread[s] = "done" /\ taken[s] = sent[s]
                              /\ \A p \in Procs : Alive(p) => s \notin holds[p]
                              /\ ~trunc[s] => kept[s] = sent[s]
<1>1. ThreadsFit /\ SinksFit /\ thread \in [Threads -> {"none", "run", "done"}]
  BY DEF Inv, HandleInv, TypeOK
<1>2. \A s \in Streams : s \in Threads /\ thread[s] = "done"
  BY <1>1, Tables DEF ThreadsFit, Started, Busy
<1>3. \A s \in Streams : taken[s] \in Nat /\ Cap \in Nat
  BY DEF Inv, TypeOK, Ends
<1> QED BY <1>1, <1>2, <1>3 DEF SinksFit

\* A tail is written from what the sinks kept, and nothing is written to the
\* streams after it.
LEMMA TailStep ==
    ASSUME Inv, [Next]_vars
    PROVE  TailFits' /\ tail' \in [len: 0..TailCap, text: Nat, cut: BOOLEAN, written: BOOLEAN]
<1>0. TailFits /\ tail \in [len: 0..TailCap, text: Nat, cut: BOOLEAN, written: BOOLEAN]
  BY DEF Inv, TypeOK
<1>1. CASE WriteTail
  <2>0. PICK n \in Texts(kept["out"], kept["err"]) : \E k \in TailLengths(n) :
           tail' = [len |-> k, text |-> n, cut |-> TailCut(n), written |-> TRUE]
    BY <1>1 DEF WriteTail
  <2>1. PICK m \in TailLengths(n) :
            tail' = [len |-> m, text |-> n, cut |-> TailCut(n), written |-> TRUE]
    BY <2>0
  <2>2. pc = "joined" /\ pc' = "joined" /\ sent' = sent /\ kept' = kept
    BY <1>1 DEF WriteTail, streamVars
  <2>3. n \in Nat
    <3>1. kept["out"] \in Nat /\ kept["err"] \in Nat
      BY DEF Inv, TypeOK, Streams
    <3>2. \A k \in Nat : Lossy(k) \subseteq Nat
      BY DEF Lossy
    <3>3. PICK o \in Lossy(kept["out"]), e \in Lossy(kept["err"]) : n = TextOf(o, e)
      BY <2>0 DEF Texts
    <3> QED BY <3>1, <3>2, <3>3 DEF TextOf
  <2>4. m \in 0..TailCap /\ (n <= TailCap => m = n)
    BY <2>3 DEF TailLengths
  <2>5. ASSUME ~TailCut(n)
        PROVE  /\ m = n /\ n \in Texts(sent["out"], sent["err"])
               /\ \A s \in Streams : kept[s] = sent[s]
    <3>1. n <= TailCap /\ \A s \in Streams : ~trunc[s]
      BY <2>3, <2>5 DEF TailCut
    <3>2. \A s \in Streams : kept[s] = sent[s]
      BY <2>2, <3>1, JoinedStreams, Tables
    <3> QED BY <2>0, <2>4, <3>1, <3>2 DEF Streams
  <2>6. TailCut(n) \in BOOLEAN
    BY DEF TailCut
  <2>7. tail' \in [len: 0..TailCap, text: Nat, cut: BOOLEAN, written: BOOLEAN]
    BY <2>1, <2>3, <2>4, <2>6
  <2>8. tail'.cut = TailCut(n) /\ tail'.len = m /\ tail'.text = n
    BY <2>1
  <2>9. TailFits'
    BY <2>2, <2>5, <2>8 DEF TailFits, UnmarkedTailIsWhole, Texts, TextOf
  <2> QED BY <2>7, <2>9
<1>2. CASE ~WriteTail
  <2>1. tail' = tail
    BY <1>2 DEF Next, vars, SpawnOpen, SpawnOpenFails, CreateProcess, AssignJob, AssignJobFails,
       StartThread, StartThreadFails, PumpRead, PumpEnds, WriteStdin, WriterEnds, ThreadEnds,
       ForkGrandchild, ProcWrites, ProcReads, ProcExits, Kill, WaitExited, Join, DropChild,
       RunGenericDone, RunGenericTimeout, WaitFails, CallStep, JoinWait, JoinPumpsDone,
       JoinGraceOver, Joined, DropTerminates, Dropped, calls
  <2>2. ASSUME pc = "joined"
        PROVE  /\ pc' = "joined" /\ kept' = kept
               /\ \A s \in Streams : sent'[s] = sent[s]
    <3>1. pc' = "joined"
      BY <1>2, <2>2, Tables DEF Next, vars, SpawnOpen, SpawnOpenFails, CreateProcess, AssignJob,
         AssignJobFails, StartThread, StartThreadFails, PumpRead, PumpEnds, WriteStdin,
         WriterEnds, ThreadEnds, ForkGrandchild, ProcWrites, ProcReads, ProcExits, Kill,
         WaitExited, Join, DropChild, RunGenericDone, RunGenericTimeout, WaitFails, CallStep,
         JoinWait, JoinPumpsDone, JoinGraceOver, Joined, DropTerminates, Dropped, calls
    <3>2. CASE \E p \in Procs, s \in Streams : ProcWrites(p, s)
      BY <2>2, <3>2, JoinedStreams DEF ProcWrites
    <3>3. CASE WriteStdin
      BY <3>1, <3>3, Tables DEF WriteStdin, Inv, TypeOK
    <3>5. kept' = kept
      <4>1. \A s \in Streams : ~PumpRead(s)
        BY <2>2, JoinedStreams DEF PumpRead, Busy
      <4> QED BY <1>2, <4>1 DEF Next, vars, SpawnOpen, SpawnOpenFails, CreateProcess, AssignJob,
           AssignJobFails, StartThread, StartThreadFails, PumpEnds, WriteStdin, WriterEnds,
           ThreadEnds, ForkGrandchild, ProcWrites, ProcReads, ProcExits, Kill, WaitExited, Join,
           DropChild, RunGenericDone, RunGenericTimeout, WaitFails, CallStep, JoinWait,
           JoinPumpsDone, JoinGraceOver, Joined, DropTerminates, Dropped, calls, streamVars
    <3>4. CASE ~WriteStdin /\ ~\E p \in Procs, s \in Streams : ProcWrites(p, s)
      <4>1. sent' = sent
        BY <1>2, <3>4 DEF Next, vars, SpawnOpen, SpawnOpenFails, CreateProcess, AssignJob,
           AssignJobFails, StartThread, StartThreadFails, PumpRead, PumpEnds, WriterEnds,
           ThreadEnds, ForkGrandchild, ProcReads, ProcExits, Kill, WaitExited, Join, DropChild,
           RunGenericDone, RunGenericTimeout, WaitFails, CallStep, JoinWait, JoinPumpsDone,
           JoinGraceOver, Joined, DropTerminates, Dropped, calls, streamVars
      <4> QED BY <3>1, <3>5, <4>1
    <3> QED BY <3>2, <3>3, <3>4, <3>5
  <2>3. pc = "joined" => sent'["out"] = sent["out"] /\ sent'["err"] = sent["err"]
    BY <2>2 DEF Streams
  <2> QED BY <1>0, <2>1, <2>2, <2>3 DEF TailFits, UnmarkedTailIsWhole, Texts
<1> QED BY <1>1, <1>2

-----------------------------------------------------------------------------
(* The theorems.                                                            *)

\* Every step keeps the invariant.
LEMMA NextInv == Inv /\ [Next]_vars => Inv'
<1> SUFFICES ASSUME Inv, [Next]_vars
             PROVE  Inv'
  OBVIOUS
<1>1. HandleInv'
  BY ThreadsStep, OwnedStep, FiledStep, ClosesStep DEF HandleInv
<1>2. ProcsFit' /\ SinksFit' /\ TailFits'
  BY ProcsStep, SinksStep, TailStep
<1>3. caller' = caller /\ exited' \in BOOLEAN
  BY DEF Inv, TypeOK, Next, vars, SpawnOpen, SpawnOpenFails, CreateProcess, AssignJob,
     AssignJobFails, StartThread, StartThreadFails, PumpRead, PumpEnds, WriteStdin, WriterEnds,
     ThreadEnds, ForkGrandchild, ProcWrites, ProcReads, ProcExits, Kill, WaitExited, Join,
     DropChild, RunGenericDone, RunGenericTimeout, WaitFails, CallStep, JoinWait,
     JoinPumpsDone, JoinGraceOver, Joined, DropTerminates, Dropped, WriteTail, calls, setting
<1>4. caller \in {"server", "client"} /\ input \in 0..MaxInput
  BY DEF Inv, TypeOK
<1>5. TypeOK'
  BY <1>3, <1>4, ThreadsStep, OwnedStep, FiledStep, ClosesStep, ProcsStep, SinksStep, TailStep
     DEF TypeOK
<1> QED BY <1>1, <1>2, <1>5 DEF Inv

\* The types and the invariant hold in every reachable state.
THEOREM TypeCorrect == Spec => []Inv
BY InitInv, NextInv, PTL DEF Spec

\* "No handle is closed twice", and none is left open on any way out of spawn,
\* join and drop, but for the Files of threads that still run.
THEOREM HandlesClosedOnce == Spec => []ClosedOnce
<1>1. Inv => ClosedOnce
  BY DEF Inv, HandleInv, ClosesFit, OwnedAt, FiledFits, ClosedOnce, Ended
<1> QED BY <1>1, TypeCorrect, PTL

\* "abandoning a PlainChild never leaks a process" of its job.
THEOREM NoProcessLeft == Spec => []NothingLeftRunning
<1>1. Inv => NothingLeftRunning
  BY DEF Inv, ProcsFit, NothingLeftRunning
<1> QED BY <1>1, TypeCorrect, PTL

\* The output of join is all that was ever written up to the cap, and truncated
\* tells exactly whether bytes were lost.
THEOREM JoinedComplete == Spec => []JoinedOutputIsComplete
<1>1. Inv => JoinedOutputIsComplete
  <2> SUFFICES ASSUME Inv, pc = "joined", NEW s \in Streams
               PROVE  kept[s] = Min({Cap, sent[s]}) /\ trunc[s] = (sent[s] > Cap)
    BY DEF JoinedOutputIsComplete
  <2>1. taken[s] = sent[s]
    BY JoinedStreams
  <2>2. sent[s] \in Nat /\ Cap \in Nat /\ trunc[s] \in BOOLEAN
    BY DEF Inv, TypeOK, Ends
  <2>3. kept[s] = (IF sent[s] <= Cap THEN sent[s] ELSE Cap) /\ (trunc[s] <=> sent[s] > Cap)
    BY <2>1 DEF Inv, SinksFit
  <2>4. kept[s] = Min({Cap, sent[s]})
    BY <2>2, <2>3, MinOfTwo
  <2>5. trunc[s] = (sent[s] > Cap)
    BY <2>2, <2>3
  <2> QED BY <2>4, <2>5
<1> QED BY <1>1, TypeCorrect, PTL

\* A tail file that does not say "truncated" holds the whole text of the command,
\* whatever the decoding (exec.rs:113-114) made of bytes that are not UTF-8.
THEOREM TailWhole == Spec => []UnmarkedTailIsWhole
<1>1. Inv => UnmarkedTailIsWhole
  BY DEF Inv, TailFits
<1> QED BY <1>1, TypeCorrect, PTL

-----------------------------------------------------------------------------
(* The adapters: their constants and their variables are those of Adapters, *)
(* and share nothing with the above.                                        *)

HIDE PlainAssumption

\* The state of the child and of its sinks, with the minimum spelt out.
Bounds ==
    \A s \in Outputs :
        /\ Len(written[s]) <= MaxLines[provider][s]
        /\ sunk[s] <= SinkPieces /\ sunk[s] <= Pieces(s)
        /\ base[s] <= cursor[s] /\ cursor[s] <= sunk[s]

ChildTypes ==
    /\ run \in 0..MaxRuns /\ child \in [some: BOOLEAN, seen: BOOLEAN]
    /\ alive \in BOOLEAN /\ tree \in BOOLEAN /\ code \in 0..1
    /\ written \in [Outputs -> Seq(Lines)] /\ open \in [Outputs -> BOOLEAN]
    /\ sunk \in [Outputs -> Nat]

AdapterTypes ==
    /\ provider \in Providers
    /\ cursor \in [Outputs -> Nat] /\ base \in [Outputs -> Nat]
    /\ session \in [run: 0..MaxRuns, at: Outputs \cup {"none"}, no: Nat]
    /\ stopping \in BOOLEAN /\ terminal \in BOOLEAN
    /\ started \in BOOLEAN /\ completed \in BOOLEAN
    /\ emitted \in 0..MaxLines[provider]["out"]
    /\ busy \in [op: {"idle", "marker", "generic"}, finished: BOOLEAN, out: Nat, err: Nat]
    /\ events \in Seq(Event) /\ torn \in [Outputs -> SUBSET Nat]

Types == ChildTypes /\ AdapterTypes

\* A drain under way has a child, and has seen the exit it speaks of.
BusyInv ==
    /\ busy.op # "idle" => child.some /\ (busy.finished => child.seen)
    /\ busy.op = "marker" => provider \in Marker
    /\ busy.op = "generic" =>
          /\ provider = "generic" /\ ~completed /\ ~started
          /\ busy.out <= sunk["out"] /\ 2 * emitted <= busy.out

Ordered(q) ==
    \A i, j \in DOMAIN q :
        i < j /\ q[i].at = q[j].at /\ q[i].at \in Outputs => Before(q[i], q[j])

\* Only an exit that has been seen leaves a line in parts.
CutsAreFinal ==
    /\ \A k \in DOMAIN events : events[k].part # "whole" /\ child.some => child.seen
    /\ \A s \in Outputs : torn[s] # {} /\ child.some => child.seen

\* An event is of what lies before the held back tail; where the tail begins
\* inside a line, of its first part.
Placed(x) ==
    /\ 2 * x.no <= base[x.at] + 1
    /\ 2 * x.no = base[x.at] + 1 => x.part = "first"

\* The event of a line, or none, is that of the whole line.
Settled(s, i) ==
    /\ MakesEvent(written[s][i]["whole"]) <=> Reported(s, i)
    /\ \A k \in DOMAIN events : events[k].at = s /\ events[k].no = i
          => events[k].type = EventOf[written[s][i]["whole"]]

\* What has been reported is what lies before the held back tail.
MarkerInv == provider \in Marker =>
    /\ \A s \in Outputs : cursor[s] <= base[s] + 1
    /\ \A k \in DOMAIN events :
          /\ events[k].at \in Outputs => Placed(events[k])
          /\ events[k].at = "exit" => terminal
    /\ \A s \in Outputs : \A i \in Nat : 2 * i = base[s] + 1 => i \in torn[s]
    /\ \A s \in Outputs : \A i \in DOMAIN written[s] :
          2 * i <= base[s] /\ i \notin torn[s] => Settled(s, i)
    /\ \A i, j \in DOMAIN events : events[i].at = "exit" /\ events[j].at = "exit" => i = j

\* What has been reported is what emitted_lines counts.
GenericInv == provider = "generic" =>
    /\ session = NoSession /\ cursor = Zero /\ base = Zero
    /\ completed => ~started
    /\ ~completed => 2 * emitted <= sunk["out"]
    /\ \A k \in DOMAIN events :
          /\ events[k].at \in Outputs => events[k].at = "out" /\ events[k].no <= emitted
          /\ events[k].type = "CommandCompleted" => completed /\ k = Len(events)
    /\ \A i \in 1..emitted : Reported("out", i)

AdapterInv ==
    /\ Types /\ Bounds /\ BusyInv /\ Ordered(events) /\ CutsAreFinal
    /\ MarkerInv /\ GenericInv /\ SessionIsCurrent

-----------------------------------------------------------------------------
(* Numbers, sequences and records.                                          *)

\* A set of naturals has a least element.
LEMMA Least ==
    ASSUME NEW S, S \subseteq Nat, S # {}
    PROVE  \E m \in S : \A k \in S : m <= k
<1>1. PICK m \in S : \A k \in S : ~(<<k, m>> \in OpToRel(<, Nat))
  BY NatLessThanWellFounded, WFMin, Zenon
<1>2. ASSUME NEW k \in S PROVE m <= k
  <2>1. <<k, m>> \in Nat \X Nat
    OBVIOUS
  <2> QED BY <1>1, <2>1 DEF OpToRel
<1> QED BY <1>2

\* The smaller of two numbers.
LEMMA MinIs ==
    ASSUME NEW a \in Int, NEW b \in Int
    PROVE  Min({a, b}) = IF a <= b THEN a ELSE b
BY DEF Min

\* The larger of two numbers.
LEMMA MaxIs ==
    ASSUME NEW a \in Int, NEW b \in Int
    PROVE  Max({a, b}) = IF a >= b THEN a ELSE b
BY DEF Max

\* The entries of a sequence put together from two.
LEMMA JoinedSeq ==
    ASSUME NEW e \in Seq(Event), NEW q \in Seq(Event)
    PROVE  /\ e \o q \in Seq(Event) /\ Len(e \o q) = Len(e) + Len(q)
           /\ \A k \in DOMAIN e : k \in DOMAIN (e \o q) /\ (e \o q)[k] = e[k]
           /\ \A k \in DOMAIN q :
                 Len(e) + k \in DOMAIN (e \o q) /\ (e \o q)[Len(e) + k] = q[k]
           /\ \A k \in DOMAIN (e \o q) :
                 \/ k \in DOMAIN e /\ (e \o q)[k] = e[k]
                 \/ k > Len(e) /\ k - Len(e) \in DOMAIN q /\ (e \o q)[k] = q[k - Len(e)]
OBVIOUS

\* The events of a sequence, made of those of its parts.
LEMMA JoinedOrder ==
    ASSUME NEW e \in Seq(Event), NEW q \in Seq(Event), Ordered(e), Ordered(q),
           \A i \in DOMAIN e, j \in DOMAIN q :
               e[i].at = q[j].at /\ e[i].at \in Outputs => Before(e[i], q[j])
    PROVE  Ordered(e \o q)
<1> DEFINE c == e \o q
<1> SUFFICES ASSUME NEW i \in DOMAIN c, NEW j \in DOMAIN c,
                    i < j, c[i].at = c[j].at, c[i].at \in Outputs
             PROVE  Before(c[i], c[j])
  BY DEF Ordered
<1>1. \/ i \in DOMAIN e /\ c[i] = e[i]
      \/ i > Len(e) /\ i - Len(e) \in DOMAIN q /\ c[i] = q[i - Len(e)]
  BY JoinedSeq
<1>2. \/ j \in DOMAIN e /\ c[j] = e[j]
      \/ j > Len(e) /\ j - Len(e) \in DOMAIN q /\ c[j] = q[j - Len(e)]
  BY JoinedSeq
<1>3. i \in 1..(Len(e) + Len(q)) /\ j \in 1..(Len(e) + Len(q)) /\ Len(e) \in Nat
      /\ DOMAIN e = 1..Len(e) /\ DOMAIN q = 1..Len(q)
  OBVIOUS
<1> HIDE DEF c
<1>4. CASE i \in DOMAIN e /\ c[i] = e[i] /\ j \in DOMAIN e /\ c[j] = e[j]
  BY <1>4 DEF Ordered
<1>5. CASE i \in DOMAIN e /\ c[i] = e[i] /\ j - Len(e) \in DOMAIN q /\ c[j] = q[j - Len(e)]
  BY <1>5
<1>6. CASE /\ i - Len(e) \in DOMAIN q /\ c[i] = q[i - Len(e)]
           /\ j - Len(e) \in DOMAIN q /\ c[j] = q[j - Len(e)]
  <2>1. i - Len(e) < j - Len(e)
    BY <1>3
  <2> QED BY <1>6, <2>1 DEF Ordered
<1> QED BY <1>1, <1>2, <1>3, <1>4, <1>5, <1>6

-----------------------------------------------------------------------------
(* The lines of one consume.                                                *)

\* What a line adds to the events of a consume.
Adds(s, to, fin, i) ==
    IF i \in Cut(base[s], to, fin) THEN ParseLine(s, i, base[s], to) ELSE <<>>

\* The walk along the first n lines, as Parsed takes it.
IsWalk(g, s, to, fin, n) ==
    g = [i \in 0..n |-> IF i = 0 THEN <<>> ELSE g[i - 1] \o Adds(s, to, fin, i)]

\* Such a walk exists, however many lines there are.
LEMMA WalkExists ==
    ASSUME NEW s, NEW to, NEW fin, NEW n \in Nat
    PROVE  \E g : IsWalk(g, s, to, fin, n)
<1> DEFINE B == {m \in Nat : ~ \E g : IsWalk(g, s, to, fin, m)}
<1> SUFFICES ASSUME n \in B PROVE FALSE
  OBVIOUS
<1>1. PICK m \in B : \A k \in B : m <= k
  <2>1. B \subseteq Nat /\ B # {}
    OBVIOUS
  <2> HIDE DEF B
  <2> QED BY <2>1, Least
<1>2. m \in Nat /\ ~ \E g : IsWalk(g, s, to, fin, m)
  OBVIOUS
<1>3. m # 0
  <2> DEFINE g == [i \in 0..0 |-> <<>>]
  <2>1. IsWalk(g, s, to, fin, 0)
    BY DEF IsWalk
  <2> QED BY <1>2, <2>1
<1>4. m - 1 \in Nat /\ m - 1 \notin B
  BY <1>1, <1>2, <1>3
<1>5. PICK g : IsWalk(g, s, to, fin, m - 1)
  BY <1>4
<1> DEFINE h == [i \in 0..m |-> IF i = m THEN g[m - 1] \o Adds(s, to, fin, m) ELSE g[i]]
<1>6. \A i \in 0..(m - 1) :
         h[i] = g[i] /\ g[i] = IF i = 0 THEN <<>> ELSE g[i - 1] \o Adds(s, to, fin, i)
  <2> TAKE i \in 0..(m - 1)
  <2>1. i \in 0..m /\ i # m
    BY <1>2
  <2>2. h[i] = g[i]
    BY <2>1, Zenon
  <2>3. g[i] = IF i = 0 THEN <<>> ELSE g[i - 1] \o Adds(s, to, fin, i)
    BY <1>5, Zenon DEF IsWalk
  <2> QED BY <2>2, <2>3, Zenon
<1>7. \A i \in 0..m : h[i] = IF i = 0 THEN <<>> ELSE h[i - 1] \o Adds(s, to, fin, i)
  <2> TAKE i \in 0..m
  <2>1. CASE i = m
    <3>1. m - 1 \in 0..(m - 1) /\ m \in 0..m
      BY <1>2, <1>3
    <3>2. h[m - 1] = g[m - 1]
      BY <1>6, <3>1
    <3>3. h[m] = g[m - 1] \o Adds(s, to, fin, m)
      BY <3>1, Zenon
    <3>4. h[m] = h[m - 1] \o Adds(s, to, fin, m)
      BY <3>2, <3>3
    <3> HIDE DEF h
    <3> QED BY <1>3, <2>1, <3>4
  <2>2. CASE i # m /\ i # 0
    <3>1. i \in 0..(m - 1) /\ i - 1 \in 0..(m - 1)
      BY <1>2, <2>2
    <3> QED BY <1>6, <2>2, <3>1
  <2>3. CASE i # m /\ i = 0
    <3>1. i \in 0..(m - 1)
      BY <1>2, <2>3
    <3> QED BY <1>6, <2>3, <3>1
  <2> QED BY <2>1, <2>2, <2>3
<1>8. IsWalk(h, s, to, fin, m)
  BY <1>7 DEF IsWalk
<1> QED BY <1>2, <1>8

\* Parsed is where the walk along the lines ends.
LEMMA ParsedWalk ==
    ASSUME NEW s, NEW to \in Nat, NEW fin
    PROVE  \E g : /\ IsWalk(g, s, to, fin, (to + 1) \div 2)
                  /\ Parsed(s, to, fin) = g[(to + 1) \div 2]
<1> DEFINE n == (to + 1) \div 2
           g == CHOOSE h : IsWalk(h, s, to, fin, n)
<1>1. n \in Nat
  OBVIOUS
<1> HIDE DEF n
<1>2. IsWalk(g, s, to, fin, n)
  BY <1>1, WalkExists, Zenon
<1>3. Parsed(s, to, fin) = g[n]
  BY Zenon DEF Parsed, IsWalk, Adds, n
<1> HIDE DEF g
<1> QED BY <1>2, <1>3 DEF n

\* What parse_line reads in the part of a line that a consume cuts off.
ReadAs(s, i, to) == written[s][i][PartOf(i, base[s], to)]

\* The event of such a part.
EventOfPart(x, s, to, fin) ==
    /\ x.at = s /\ x.no \in Cut(base[s], to, fin) /\ x.part = PartOf(x.no, base[s], to)
    /\ MakesEvent(ReadAs(s, x.no, to)) /\ x.type = EventOf[ReadAs(s, x.no, to)]

\* A consume makes an event of each part that it cuts off and that is in the
\* grammar, in the order of the lines.
Walked(q, s, to, fin, n) ==
    /\ q \in Seq(Event)
    /\ \A k \in DOMAIN q : q[k].no \in 1..n /\ EventOfPart(q[k], s, to, fin)
    /\ \A j, k \in DOMAIN q : j < k => q[j].no < q[k].no
    /\ \A i \in 1..n : i \in Cut(base[s], to, fin) /\ MakesEvent(ReadAs(s, i, to))
          => \E k \in DOMAIN q : q[k].no = i

\* The part of a line follows from the pieces there are.
LEMMA PartIs ==
    ASSUME NEW i, NEW from, NEW to
    PROVE  /\ PartOf(i, from, to) \in Part
           /\ ~Has(i, 2, from, to) /\ Has(i, 1, from, to) => PartOf(i, from, to) = "first"
           /\ Has(i, 2, from, to) /\ ~Has(i, 1, from, to) => PartOf(i, from, to) = "second"
           /\ Has(i, 2, from, to) /\ Has(i, 1, from, to) => PartOf(i, from, to) = "whole"
BY DEF PartOf, Part

\* Every verb of the grammar has its event.
LEMMA EventOfType == \A v \in DOMAIN EventOf : EventOf[v] \in EventType
<1>1. DOMAIN EventOf = {"START", "STEP", "DONE", "FILE", "APPROVAL", "INPUT", "ERROR",
                        "EXITok", "EXITfail"}
  BY DEF EventOf
<1>2. /\ EventOf["START"] \in EventType /\ EventOf["STEP"] \in EventType
      /\ EventOf["DONE"] \in EventType /\ EventOf["FILE"] \in EventType
      /\ EventOf["APPROVAL"] \in EventType /\ EventOf["INPUT"] \in EventType
      /\ EventOf["ERROR"] \in EventType /\ EventOf["EXITok"] \in EventType
      /\ EventOf["EXITfail"] \in EventType
  BY DEF EventOf, EventType
<1> QED BY <1>1, <1>2

\* One line more.
LEMMA WalkedStep ==
    ASSUME NEW s \in Outputs, NEW to \in Nat, NEW fin \in BOOLEAN, NEW n \in Nat \ {0},
           NEW q, Walked(q, s, to, fin, n - 1)
    PROVE  Walked(q \o Adds(s, to, fin, n), s, to, fin, n)
<1> DEFINE C == Cut(base[s], to, fin)
           p == PartOf(n, base[s], to)
           e == [at |-> s, no |-> n, type |-> EventOf[written[s][n][p]], part |-> p]
           Makes == n \in C /\ MakesEvent(ReadAs(s, n, to))
<1>1. CASE ~Makes
  <2>1. Adds(s, to, fin, n) = <<>>
    BY <1>1, Zenon DEF Adds, ParseLine, ReadAs
  <2>2. q \o <<>> = q
    BY DEF Walked
  <2>3. \A i \in 1..n : i \in 1..(n - 1) \/ i = n
    OBVIOUS
  <2>4. \A k \in DOMAIN q : q[k].no \in 1..n
    BY DEF Walked
  <2> HIDE DEF C
  <2>5. Walked(q, s, to, fin, n)
    BY <1>1, <2>3, <2>4 DEF Walked, C
  <2> QED BY <2>1, <2>2, <2>5
<1>2. CASE Makes
  <2>1. Adds(s, to, fin, n) = <<e>>
    BY <1>2, Zenon DEF Adds, ParseLine, ReadAs
  <2>2. e \in Event /\ e.no = n /\ EventOfPart(e, s, to, fin)
    <3>1. EventOf[written[s][n][p]] \in EventType
      BY <1>2, EventOfType DEF MakesEvent, ReadAs
    <3>2. p \in Part
      BY PartIs
    <3> HIDE DEF p
    <3>3. e \in Event /\ e.at = s /\ e.no = n /\ e.part = p /\ e.type = EventOf[written[s][n][p]]
      BY <3>1, <3>2 DEF Event
    <3> QED BY <1>2, <3>3 DEF EventOfPart, ReadAs, p
  <2> HIDE DEF e
  <2> DEFINE r == q \o <<e>>
  <2>3. /\ q \in Seq(Event)
        /\ \A k \in DOMAIN q : q[k].no \in 1..(n - 1)
    BY DEF Walked
  <2>4. /\ r \in Seq(Event) /\ Len(r) = Len(q) + 1 /\ DOMAIN r = 1..(Len(q) + 1)
        /\ DOMAIN q = 1..Len(q) /\ Len(q) \in Nat
        /\ \A k \in 1..Len(q) : r[k] = q[k]
        /\ r[Len(q) + 1] = e
    BY <2>2, <2>3
  <2> HIDE DEF r
  <2>5. \A k \in DOMAIN r : r[k].no \in 1..n /\ EventOfPart(r[k], s, to, fin)
    <3> TAKE k \in DOMAIN r
    <3>1. CASE k \in 1..Len(q)
      <4>1. r[k] = q[k] /\ q[k].no \in 1..(n - 1) /\ EventOfPart(q[k], s, to, fin)
        BY <2>4, <3>1 DEF Walked
      <4>2. \A i \in 1..(n - 1) : i \in 1..n
        OBVIOUS
      <4> QED BY <4>1, <4>2
    <3>2. CASE k = Len(q) + 1
      BY <1>2, <2>2, <2>4, <3>2
    <3> QED BY <2>4, <3>1, <3>2
  <2>6. \A j, k \in DOMAIN r : j < k => r[j].no < r[k].no
    <3> TAKE j, k \in DOMAIN r
    <3> HAVE j < k
    <3>1. j \in 1..Len(q)
      BY <2>4
    <3>2. CASE k \in 1..Len(q)
      BY <2>4, <3>1, <3>2 DEF Walked
    <3>3. CASE k = Len(q) + 1
      <4>1. r[j].no \in 1..(n - 1) /\ r[k].no = n
        BY <2>2, <2>3, <2>4, <3>1, <3>3
      <4> QED BY <4>1
    <3> QED BY <2>4, <3>2, <3>3
  <2>7. ASSUME NEW i \in 1..n, i \in C, MakesEvent(ReadAs(s, i, to))
        PROVE  \E k \in DOMAIN r : r[k].no = i
    <3>1. CASE i = n
      BY <2>2, <2>4, <3>1
    <3>2. CASE i \in 1..(n - 1)
      <4>1. PICK k \in DOMAIN q : q[k].no = i
        BY <2>7, <3>2 DEF Walked
      <4> QED BY <2>4, <4>1
    <3> QED BY <3>1, <3>2
  <2>8. Walked(r, s, to, fin, n)
    BY <2>4, <2>5, <2>6, <2>7 DEF Walked
  <2> QED BY <2>1, <2>8 DEF r
<1> QED BY <1>1, <1>2

\* All the lines.
LEMMA WalkedAll ==
    ASSUME NEW s \in Outputs, NEW to \in Nat, NEW fin \in BOOLEAN
    PROVE  Walked(Parsed(s, to, fin), s, to, fin, (to + 1) \div 2)
<1> DEFINE n == (to + 1) \div 2
<1>1. n \in Nat
  OBVIOUS
<1>2. PICK g : IsWalk(g, s, to, fin, n) /\ Parsed(s, to, fin) = g[n]
  BY ParsedWalk
<1> HIDE DEF n
<1> DEFINE B == {i \in 0..n : ~Walked(g[i], s, to, fin, i)}
<1>3. B = {}
  <2> SUFFICES ASSUME B # {} PROVE FALSE
    OBVIOUS
  <2>1. PICK m \in B : \A k \in B : m <= k
    <3>1. B \subseteq Nat
      OBVIOUS
    <3> HIDE DEF B
    <3> QED BY <3>1, Least
  <2>2. m \in 0..n /\ ~Walked(g[m], s, to, fin, m)
    OBVIOUS
  <2>3. m # 0
    <3>1. 0 \in 0..n
      BY <1>1
    <3>2. g[0] = <<>>
      BY <1>2, <3>1, Zenon DEF IsWalk
    <3>3. Walked(<<>>, s, to, fin, 0)
      BY DEF Walked
    <3> QED BY <2>2, <3>2, <3>3
  <2>4. m - 1 \in 0..n /\ m \in Nat \ {0} /\ m - 1 \notin B
    BY <1>1, <2>1, <2>2, <2>3
  <2>5. Walked(g[m - 1], s, to, fin, m - 1)
    BY <2>4
  <2>6. g[m] = g[m - 1] \o Adds(s, to, fin, m)
    BY <1>2, <2>2, <2>3, Zenon DEF IsWalk
  <2> QED BY <2>2, <2>4, <2>5, <2>6, WalkedStep
<1>4. n \in 0..n
  BY <1>1
<1> QED BY <1>2, <1>3, <1>4 DEF n

\* What a consume cuts off lies between the old tail and the new one; whole, but
\* for what was left of a torn line and for what the exit tears.
CutSays(from, to, fin) ==
    LET t == TailFrom(from, to, fin) IN
    /\ t \in Nat /\ from <= t /\ t <= to /\ to <= t + 1
    /\ \A i \in Cut(from, to, fin) :
          /\ i \in Nat /\ from < 2 * i /\ 2 * i <= t + 1
          /\ 2 * i = t + 1 => fin /\ ~Has(i, 2, from, to) /\ Has(i, 1, from, to)
          /\ 2 * i = from + 1 => Has(i, 2, from, to) /\ ~Has(i, 1, from, to)
    /\ \A i \in Nat : from + 1 < 2 * i /\ 2 * i <= t =>
          /\ i \in Cut(from, to, fin) /\ i \in 1..((to + 1) \div 2)
          /\ Has(i, 1, from, to) /\ Has(i, 2, from, to)
    /\ \A i \in Nat : 2 * i = t + 1 => i \in TornAt(to, fin) \/ 2 * i = from + 1

\* It does.
LEMMA CutIs ==
    ASSUME NEW from \in Nat, NEW to \in Nat, from <= to, NEW fin \in BOOLEAN
    PROVE  CutSays(from, to, fin)
<1> DEFINE h == to \div 2
           l == (to + 1) \div 2
           t == TailFrom(from, to, fin)
<1>1. /\ h \in Nat /\ 2 * h <= to /\ to <= 2 * h + 1
      /\ l \in Nat /\ 2 * l <= to + 1 /\ to <= 2 * l
  OBVIOUS
<1>2. t = IF fin THEN to ELSE IF from >= 2 * h THEN from ELSE 2 * h
  BY <1>1, MaxIs DEF TailFrom
<1>3. \A i \in Cut(from, to, fin) :
         /\ i \in 1..l
         /\ \/ Has(i, 2, from, to)
            \/ fin /\ Has(i, 1, from, to) /\ 2 * i - 1 = to
  BY Zenon DEF Cut
<1>4. \A i \in 1..l : Has(i, 2, from, to) => i \in Cut(from, to, fin)
  BY Zenon DEF Cut
<1>5. \A i \in Nat : /\ Has(i, 1, from, to) <=> from < 2 * i - 1 /\ 2 * i - 1 <= to
                     /\ Has(i, 2, from, to) <=> from < 2 * i /\ 2 * i <= to
  BY DEF Has
<1>6. \A i \in 1..l : fin /\ 2 * i - 1 = to => i \in TornAt(to, fin)
  BY Zenon DEF TornAt
<1> HIDE DEF h, l, t
<1>7. t \in Nat /\ from <= t /\ t <= to /\ to <= t + 1
  BY <1>1, <1>2
<1>8. ASSUME NEW i \in Cut(from, to, fin)
      PROVE  /\ i \in Nat /\ from < 2 * i /\ 2 * i <= t + 1
             /\ 2 * i = t + 1 => fin /\ ~Has(i, 2, from, to) /\ Has(i, 1, from, to)
             /\ 2 * i = from + 1 => Has(i, 2, from, to) /\ ~Has(i, 1, from, to)
  <2>1. i \in 1..l /\ i \in Nat
    BY <1>1, <1>3
  <2>2. CASE Has(i, 2, from, to)
    <3>1. from < 2 * i /\ 2 * i <= to
      BY <1>5, <2>1, <2>2
    <3>2. 2 * i <= t
      BY <1>1, <1>2, <2>1, <3>1
    <3>3. 2 * i = from + 1 => ~Has(i, 1, from, to)
      BY <1>5, <2>1
    <3> QED BY <1>7, <2>1, <2>2, <3>1, <3>2, <3>3
  <2>3. CASE ~Has(i, 2, from, to)
    <3>1. fin /\ Has(i, 1, from, to) /\ 2 * i - 1 = to
      BY <1>3, <2>3
    <3>2. t = to
      BY <1>2, <3>1
    <3>3. from < 2 * i - 1
      BY <1>5, <2>1, <3>1
    <3> QED BY <1>7, <2>1, <2>3, <3>1, <3>2, <3>3
  <2> QED BY <2>2, <2>3
<1>9. ASSUME NEW i \in Nat, from + 1 < 2 * i, 2 * i <= t
      PROVE  /\ i \in Cut(from, to, fin) /\ i \in 1..l
             /\ Has(i, 1, from, to) /\ Has(i, 2, from, to)
  <2>1. Has(i, 1, from, to) /\ Has(i, 2, from, to)
    BY <1>5, <1>7, <1>9
  <2>2. i \in 1..l
    BY <1>1, <1>7, <1>9
  <2> QED BY <1>4, <2>1, <2>2
<1>10. ASSUME NEW i \in Nat, 2 * i = t + 1
       PROVE  i \in TornAt(to, fin) \/ 2 * i = from + 1
  <2>1. CASE fin
    <3>1. 2 * i - 1 = to /\ i \in 1..l
      BY <1>1, <1>2, <1>10, <2>1
    <3> QED BY <1>6, <2>1, <3>1
  <2>2. CASE ~fin
    BY <1>1, <1>2, <1>10, <2>2
  <2> QED BY <2>1, <2>2
<1> QED BY <1>7, <1>8, <1>9, <1>10 DEF t, l, CutSays

\* An event of one consume, that moves the tail to t.
NewEvent(x, s, t, fin) ==
    /\ x.at = s /\ x.no \in Nat /\ base[s] < 2 * x.no /\ 2 * x.no <= t + 1
    /\ 2 * x.no = t + 1 => fin /\ x.part = "first"
    /\ 2 * x.no = base[s] + 1 => x.part = "second"
    /\ base[s] + 1 < 2 * x.no /\ 2 * x.no <= t =>
          /\ x.part = "whole" /\ MakesEvent(written[s][x.no]["whole"])
          /\ x.type = EventOf[written[s][x.no]["whole"]]

\* What one consume reports: what lies between the old tail and t.
Reports(q, s, t, fin) ==
    /\ q \in Seq(Event) /\ Ordered(q)
    /\ \A k \in DOMAIN q : NewEvent(q[k], s, t, fin)
    /\ \A i \in DOMAIN written[s] :
          base[s] + 1 < 2 * i /\ 2 * i <= t /\ MakesEvent(written[s][i]["whole"])
              => \E k \in DOMAIN q : q[k].no = i

\* A consume of a stream reports what becomes final with it.
LEMMA ConsumeFacts ==
    ASSUME NEW s \in Outputs, NEW to \in Nat, NEW fin \in BOOLEAN,
           base[s] \in Nat, base[s] <= to, written[s] \in Seq(Lines)
    PROVE  Reports(Parsed(s, to, fin), s, TailFrom(base[s], to, fin), fin)
<1> DEFINE q == Parsed(s, to, fin)
           t == TailFrom(base[s], to, fin)
           l == (to + 1) \div 2
           C == Cut(base[s], to, fin)
<1>1. Walked(q, s, to, fin, l)
  BY WalkedAll
<1>2. l \in Nat
  OBVIOUS
<1>3. /\ t \in Nat
      /\ \A i \in C :
            /\ i \in Nat /\ base[s] < 2 * i /\ 2 * i <= t + 1
            /\ 2 * i = t + 1 => fin /\ ~Has(i, 2, base[s], to) /\ Has(i, 1, base[s], to)
            /\ 2 * i = base[s] + 1 => Has(i, 2, base[s], to) /\ ~Has(i, 1, base[s], to)
      /\ \A i \in Nat : base[s] + 1 < 2 * i /\ 2 * i <= t =>
            i \in C /\ i \in 1..l /\ Has(i, 1, base[s], to) /\ Has(i, 2, base[s], to)
  <2>1. CutSays(base[s], to, fin)
    BY CutIs
  <2> QED BY <2>1, Zenon DEF CutSays
<1> HIDE DEF q, t, l, C
<1>4. q \in Seq(Event) /\ \A j, k \in DOMAIN q : j < k => q[j].no < q[k].no
  BY <1>1 DEF Walked
<1>5. Ordered(q)
  BY <1>4, Zenon DEF Ordered, Before
<1>6. ASSUME NEW i \in Nat, base[s] + 1 < 2 * i, 2 * i <= t
      PROVE  i \in C /\ i \in 1..l /\ PartOf(i, base[s], to) = "whole"
             /\ ReadAs(s, i, to) = written[s][i]["whole"]
  <2>1. i \in C /\ i \in 1..l /\ Has(i, 1, base[s], to) /\ Has(i, 2, base[s], to)
    BY <1>3, <1>6
  <2>2. PartOf(i, base[s], to) = "whole"
    BY <2>1, PartIs
  <2> QED BY <2>1, <2>2 DEF ReadAs
<1>7. ASSUME NEW k \in DOMAIN q PROVE NewEvent(q[k], s, t, fin)
  <2> DEFINE i == q[k].no
  <2>1. /\ q[k].at = s /\ i \in C /\ q[k].part = PartOf(i, base[s], to)
        /\ MakesEvent(ReadAs(s, i, to)) /\ q[k].type = EventOf[ReadAs(s, i, to)]
    BY <1>1, <1>7 DEF Walked, EventOfPart, C
  <2> HIDE DEF i
  <2>2. i \in Nat /\ base[s] < 2 * i /\ 2 * i <= t + 1
    BY <1>3, <2>1
  <2>3. 2 * i = t + 1 => fin /\ q[k].part = "first"
    BY <1>3, <2>1, PartIs
  <2>4. 2 * i = base[s] + 1 => q[k].part = "second"
    BY <1>3, <2>1, PartIs
  <2>5. base[s] + 1 < 2 * i /\ 2 * i <= t =>
           /\ q[k].part = "whole" /\ MakesEvent(written[s][i]["whole"])
           /\ q[k].type = EventOf[written[s][i]["whole"]]
    BY <1>6, <2>1, <2>2
  <2> QED BY <2>1, <2>2, <2>3, <2>4, <2>5 DEF NewEvent, i
<1>8. ASSUME NEW i \in DOMAIN written[s],
             base[s] + 1 < 2 * i, 2 * i <= t, MakesEvent(written[s][i]["whole"])
      PROVE  \E k \in DOMAIN q : q[k].no = i
  <2>1. i \in Nat
    OBVIOUS
  <2>2. i \in C /\ i \in 1..l /\ MakesEvent(ReadAs(s, i, to))
    BY <1>6, <1>8, <2>1
  <2> QED BY <1>1, <2>2 DEF Walked, C
<1>9. Reports(q, s, t, fin)
  BY <1>4, <1>5, <1>7, <1>8 DEF Reports
<1> QED BY <1>9 DEF q, t

-----------------------------------------------------------------------------
(* Events without their positions.                                          *)

Said(q) == {q[k] : k \in DOMAIN q}

\* What two sequences say, one after the other.
LEMMA SaidJoined ==
    ASSUME NEW e \in Seq(Event), NEW q \in Seq(Event)
    PROVE  /\ e \o q \in Seq(Event)
           /\ Said(e \o q) = Said(e) \cup Said(q)
<1> DEFINE c == e \o q
<1>1. /\ c \in Seq(Event)
      /\ \A k \in DOMAIN e : k \in DOMAIN c /\ c[k] = e[k]
      /\ \A k \in DOMAIN q : Len(e) + k \in DOMAIN c /\ c[Len(e) + k] = q[k]
      /\ \A k \in DOMAIN c :
            \/ k \in DOMAIN e /\ c[k] = e[k]
            \/ k > Len(e) /\ k - Len(e) \in DOMAIN q /\ c[k] = q[k - Len(e)]
  BY JoinedSeq
<1> HIDE DEF c
<1>2. Said(c) \subseteq Said(e) \cup Said(q)
  BY <1>1 DEF Said
<1>3. Said(e) \subseteq Said(c) /\ Said(q) \subseteq Said(c)
  BY <1>1 DEF Said
<1> QED BY <1>1, <1>2, <1>3 DEF c

\* What is said are events.
LEMMA SaidType ==
    ASSUME NEW q \in Seq(Event)
    PROVE  Said(q) \subseteq Event
BY DEF Said

\* One exit event at most.
ExitOnce(q) == \A i, j \in DOMAIN q : q[i].at = "exit" /\ q[j].at = "exit" => i = j

\* An exit event in one part only stays the only one.
LEMMA JoinedExit ==
    ASSUME NEW e \in Seq(Event), NEW q \in Seq(Event), ExitOnce(e), ExitOnce(q),
           (\A x \in Said(e) : x.at # "exit") \/ (\A x \in Said(q) : x.at # "exit")
    PROVE  ExitOnce(e \o q)
<1> DEFINE c == e \o q
<1> SUFFICES ASSUME NEW i \in DOMAIN c, NEW j \in DOMAIN c, c[i].at = "exit", c[j].at = "exit"
             PROVE  i = j
  BY DEF ExitOnce
<1>1. /\ \/ i \in DOMAIN e /\ c[i] = e[i]
         \/ i > Len(e) /\ i - Len(e) \in DOMAIN q /\ c[i] = q[i - Len(e)]
      /\ \/ j \in DOMAIN e /\ c[j] = e[j]
         \/ j > Len(e) /\ j - Len(e) \in DOMAIN q /\ c[j] = q[j - Len(e)]
      /\ i \in Nat /\ j \in Nat /\ Len(e) \in Nat
  BY JoinedSeq
<1> HIDE DEF c
<1>2. CASE \A x \in Said(e) : x.at # "exit"
  <2>1. \A k \in DOMAIN e : e[k].at # "exit"
    BY <1>2 DEF Said
  <2>2. i - Len(e) = j - Len(e)
    BY <1>1, <2>1 DEF ExitOnce
  <2> QED BY <1>1, <2>2
<1>3. CASE \A x \in Said(q) : x.at # "exit"
  <2>1. \A k \in DOMAIN q : q[k].at # "exit"
    BY <1>3 DEF Said
  <2> QED BY <1>1, <2>1 DEF ExitOnce
<1> QED BY <1>2, <1>3

\* The parts of the invariant in terms of what was said.
LEMMA SaidInv ==
    ASSUME events \in Seq(Event)
    PROVE  /\ CutsAreFinal <=>
                 /\ \A x \in Said(events) : x.part # "whole" /\ child.some => child.seen
                 /\ \A s \in Outputs : torn[s] # {} /\ child.some => child.seen
           /\ \A s, i : Reported(s, i) <=> \E x \in Said(events) : x.at = s /\ x.no = i
           /\ Said(events) \subseteq Event
BY DEF CutsAreFinal, Reported, Said

\* TerminalEvents is at most one event, of the exit.
LEMMA TerminalFacts ==
    ASSUME busy \in [op: {"idle", "marker", "generic"}, finished: BOOLEAN, out: Nat, err: Nat]
    PROVE  /\ TerminalEvents \in Seq(Event)
           /\ Ordered(TerminalEvents) /\ ExitOnce(TerminalEvents)
           /\ \A x \in Said(TerminalEvents) : /\ x.at = "exit" /\ x.part = "whole"
                                               /\ busy.finished /\ ~terminal
<1> DEFINE one(ty) == [at |-> "exit", no |-> 0, type |-> ty, part |-> "whole"]
<1>1. ASSUME NEW ty \in {"WorkflowStopped", "WorkflowCompleted", "ErrorOccurred"}
      PROVE  /\ ExitEvent(ty) = <<one(ty)>> /\ one(ty) \in Event
             /\ one(ty).at = "exit" /\ one(ty).part = "whole"
  BY DEF ExitEvent, Event, EventType, Part
<1>2. ASSUME NEW ty \in {"WorkflowStopped", "WorkflowCompleted", "ErrorOccurred"}
      PROVE  /\ ExitEvent(ty) \in Seq(Event)
             /\ Ordered(ExitEvent(ty)) /\ ExitOnce(ExitEvent(ty))
             /\ \A x \in Said(ExitEvent(ty)) : x.at = "exit" /\ x.part = "whole"
  <2> DEFINE x == one(ty)
  <2>1. ExitEvent(ty) = <<x>> /\ x \in Event /\ x.at = "exit" /\ x.part = "whole"
    BY <1>1
  <2> HIDE DEF x
  <2>2. DOMAIN <<x>> = {1} /\ <<x>>[1] = x /\ <<x>> \in Seq(Event)
    BY <2>1
  <2> QED BY <2>1, <2>2 DEF Ordered, ExitOnce, Said
<1>3. <<>> \in Seq(Event) /\ Ordered(<<>>) /\ ExitOnce(<<>>) /\ Said(<<>>) = {}
  BY DEF Ordered, ExitOnce, Said
<1>4. CASE ~busy.finished \/ terminal
  BY <1>3, <1>4 DEF TerminalEvents
<1>5. CASE busy.finished /\ ~terminal
  <2>1. PICK ty \in {"WorkflowStopped", "WorkflowCompleted", "ErrorOccurred"} :
           TerminalEvents = ExitEvent(ty)
    BY <1>5 DEF TerminalEvents
  <2> QED BY <1>2, <1>5, <2>1
<1> QED BY <1>4, <1>5

-----------------------------------------------------------------------------
(* The drain of a marker adapter.                                           *)

\* What a drain hears of a stream.
LEMMA HeardFacts ==
    ASSUME AdapterInv, busy.op = "marker", NEW s \in Outputs
    PROVE  LET t == TailFrom(base[s], sunk[s], busy.finished) IN
           /\ Heard(s) \in Seq(Event) /\ Ordered(Heard(s)) /\ ExitOnce(Heard(s))
           /\ \A x \in Said(Heard(s)) : NewEvent(x, s, t, busy.finished)
           /\ \A i \in DOMAIN written[s] :
                 base[s] + 1 < 2 * i /\ 2 * i <= t /\ MakesEvent(written[s][i]["whole"])
                     => \E x \in Said(Heard(s)) : x.at = s /\ x.no = i
           /\ t \in Nat /\ base[s] <= t /\ t <= sunk[s] /\ sunk[s] <= t + 1
           /\ \A i \in Nat :
                 2 * i = t + 1 => i \in TornAt(sunk[s], busy.finished) \/ 2 * i = base[s] + 1
<1> DEFINE t == TailFrom(base[s], sunk[s], busy.finished)
           q == Parsed(s, sunk[s], busy.finished)
<1>1. Heard(s) = q
  BY DEF AdapterInv, BusyInv, Heard, CodexParsed, OpencodeParsed, Marker
<1>2. /\ base[s] \in Nat /\ sunk[s] \in Nat /\ base[s] <= sunk[s]
      /\ busy.finished \in BOOLEAN /\ written[s] \in Seq(Lines)
  <2>1. base[s] \in Nat /\ sunk[s] \in Nat /\ cursor[s] \in Nat /\ busy.finished \in BOOLEAN
        /\ written[s] \in Seq(Lines)
    BY DEF AdapterInv, Types, ChildTypes, AdapterTypes
  <2>2. base[s] <= cursor[s] /\ cursor[s] <= sunk[s]
    BY DEF AdapterInv, Bounds
  <2> QED BY <2>1, <2>2
<1>3. /\ t \in Nat /\ base[s] <= t /\ t <= sunk[s] /\ sunk[s] <= t + 1
      /\ \A i \in Nat :
            2 * i = t + 1 => i \in TornAt(sunk[s], busy.finished) \/ 2 * i = base[s] + 1
  <2>1. CutSays(base[s], sunk[s], busy.finished)
    BY <1>2, CutIs
  <2> QED BY <2>1, Zenon DEF CutSays
<1>4. Reports(q, s, t, busy.finished)
  BY <1>2, ConsumeFacts
<1> HIDE DEF q, t
<1>5. ExitOnce(q)
  BY <1>4 DEF Reports, NewEvent, ExitOnce, Outputs
<1>6. \A x \in Said(q) : NewEvent(x, s, t, busy.finished)
  BY <1>4 DEF Reports, Said
<1>7. ASSUME NEW i \in DOMAIN written[s],
             base[s] + 1 < 2 * i, 2 * i <= t, MakesEvent(written[s][i]["whole"])
      PROVE  \E x \in Said(q) : x.at = s /\ x.no = i
  <2>1. PICK k \in DOMAIN q : q[k].no = i
    BY <1>4, <1>7 DEF Reports
  <2>2. q[k] \in Said(q) /\ q[k].at = s
    BY <1>4 DEF Reports, NewEvent, Said
  <2> QED BY <2>1, <2>2
<1> QED BY <1>1, <1>3, <1>4, <1>5, <1>6, <1>7 DEF t, Reports

\* Of two lines, one up to a position and one past it, the first is the earlier,
\* or both are the line that the position is in.
LEMMA Halves ==
    ASSUME NEW i \in Nat, NEW j \in Nat, NEW n \in Nat, 2 * i <= n + 1, n < 2 * j
    PROVE  (i < j \/ i = j) /\ (i = j => 2 * i = n + 1)
OBVIOUS

\* What a drain adds to the events of the run.
LEMMA MarkerSays ==
    ASSUME AdapterInv, busy.op = "marker",
           events' = events \o Heard("out") \o Heard("err") \o TerminalEvents
    PROVE  /\ events' \in Seq(Event) /\ Ordered(events') /\ ExitOnce(events')
           /\ Said(events') = Said(events) \cup Said(Heard("out")) \cup Said(Heard("err"))
                                \cup Said(TerminalEvents)
<1> DEFINE A == Heard("out")
           B == Heard("err")
           T == TerminalEvents
<1>1. events \in Seq(Event) /\ Ordered(events) /\ "out" \in Outputs /\ "err" \in Outputs
      /\ "exit" \notin Outputs /\ provider \in Marker
  BY DEF AdapterInv, Types, ChildTypes, AdapterTypes, Outputs, BusyInv
<1>2. ExitOnce(events) /\ (~terminal => \A x \in Said(events) : x.at # "exit")
  <2>1. ExitOnce(events)
    BY <1>1 DEF AdapterInv, MarkerInv, ExitOnce
  <2>2. \A k \in DOMAIN events : events[k].at = "exit" => terminal
    BY <1>1 DEF AdapterInv, MarkerInv
  <2> QED BY <2>1, <2>2, Zenon DEF Said
<1>3. \A x \in Said(events) : x.at \in Outputs => Placed(x)
  BY <1>1 DEF AdapterInv, MarkerInv, Said
<1>4. /\ A \in Seq(Event) /\ Ordered(A) /\ ExitOnce(A)
      /\ \A x \in Said(A) : /\ x.at = "out" /\ base["out"] < 2 * x.no
                            /\ 2 * x.no = base["out"] + 1 => x.part = "second"
  BY <1>1, HeardFacts DEF NewEvent
<1>5. /\ B \in Seq(Event) /\ Ordered(B) /\ ExitOnce(B)
      /\ \A x \in Said(B) : /\ x.at = "err" /\ base["err"] < 2 * x.no
                            /\ 2 * x.no = base["err"] + 1 => x.part = "second"
  BY <1>1, HeardFacts DEF NewEvent
<1>6. /\ T \in Seq(Event) /\ Ordered(T) /\ ExitOnce(T)
      /\ \A x \in Said(T) : x.at = "exit" /\ ~terminal
  BY TerminalFacts DEF AdapterInv, Types, ChildTypes, AdapterTypes
<1>7. base["out"] \in Nat /\ base["err"] \in Nat
  BY <1>1 DEF AdapterInv, Types, ChildTypes, AdapterTypes
<1>8. \A x \in Said(events) \cup Said(A) \cup Said(B) : x.no \in Nat
  <2>1. \A x \in Event : x.no \in Nat
    BY DEF Event
  <2>2. Said(events) \subseteq Event /\ Said(A) \subseteq Event /\ Said(B) \subseteq Event
    BY <1>1, <1>4, <1>5, SaidType
  <2> QED BY <2>1, <2>2
<1> DEFINE e1 == events \o A
           e2 == e1 \o B
<1>9. events' = e2 \o T
  OBVIOUS
<1> HIDE DEF A, B, T
<1>10. e1 \in Seq(Event) /\ Said(e1) = Said(events) \cup Said(A)
  BY <1>1, <1>4, SaidJoined
<1>11. Ordered(e1)
  <2>1. ASSUME NEW i \in DOMAIN events, NEW j \in DOMAIN A,
               events[i].at = A[j].at, events[i].at \in Outputs
        PROVE  Before(events[i], A[j])
    <3>1. events[i] \in Said(events) /\ A[j] \in Said(A)
      BY DEF Said
    <3>2. /\ A[j].at = "out" /\ base["out"] < 2 * A[j].no /\ A[j].no \in Nat
          /\ 2 * A[j].no = base["out"] + 1 => A[j].part = "second"
          /\ events[i].no \in Nat
      BY <1>4, <1>8, <3>1
    <3>3. /\ 2 * events[i].no <= base["out"] + 1
          /\ 2 * events[i].no = base["out"] + 1 => events[i].part = "first"
      BY <1>3, <2>1, <3>1, <3>2 DEF Placed
    <3>4. /\ events[i].no < A[j].no \/ events[i].no = A[j].no
          /\ events[i].no = A[j].no => 2 * events[i].no = base["out"] + 1
      BY <1>7, <3>2, <3>3, Halves, ZenonT(60)
    <3> QED BY <3>2, <3>3, <3>4 DEF Before
  <2> QED BY <1>1, <1>4, <2>1, JoinedOrder
<1>12. ExitOnce(e1)
  <2>1. \A x \in Said(A) : x.at # "exit"
    BY <1>4
  <2> QED BY <1>1, <1>2, <1>4, <2>1, JoinedExit
<1> HIDE DEF e1
<1>13. e2 \in Seq(Event) /\ Said(e2) = Said(events) \cup Said(A) \cup Said(B)
  BY <1>5, <1>10, SaidJoined
<1>14. Ordered(e2)
  <2>1. ASSUME NEW i \in DOMAIN e1, NEW j \in DOMAIN B, e1[i].at = B[j].at
        PROVE  Before(e1[i], B[j])
    <3>1. e1[i] \in Said(events) \cup Said(A) /\ B[j] \in Said(B)
      BY <1>10 DEF Said
    <3>2. /\ B[j].at = "err" /\ base["err"] < 2 * B[j].no /\ B[j].no \in Nat
          /\ 2 * B[j].no = base["err"] + 1 => B[j].part = "second"
          /\ e1[i].no \in Nat
      BY <1>5, <1>8, <3>1
    <3>3. e1[i] \in Said(events)
      BY <1>4, <2>1, <3>1, <3>2
    <3>4. /\ 2 * e1[i].no <= base["err"] + 1
          /\ 2 * e1[i].no = base["err"] + 1 => e1[i].part = "first"
      BY <1>1, <1>3, <2>1, <3>2, <3>3 DEF Placed
    <3>5. /\ e1[i].no < B[j].no \/ e1[i].no = B[j].no
          /\ e1[i].no = B[j].no => 2 * e1[i].no = base["err"] + 1
      BY <1>7, <3>2, <3>4, Halves, ZenonT(60)
    <3> QED BY <3>2, <3>4, <3>5 DEF Before
  <2> QED BY <1>5, <1>10, <1>11, <2>1, JoinedOrder
<1>15. ExitOnce(e2)
  <2>1. \A x \in Said(B) : x.at # "exit"
    BY <1>5
  <2> QED BY <1>5, <1>10, <1>12, <2>1, JoinedExit
<1> HIDE DEF e2
<1>16. e2 \o T \in Seq(Event)
       /\ Said(e2 \o T) = Said(events) \cup Said(A) \cup Said(B) \cup Said(T)
  BY <1>6, <1>13, SaidJoined
<1>17. Ordered(e2 \o T)
  <2>1. \A i \in DOMAIN e2, j \in DOMAIN T : T[j].at \notin Outputs
    BY <1>1, <1>6 DEF Said
  <2> QED BY <1>6, <1>13, <1>14, <2>1, JoinedOrder
<1>18. ExitOnce(e2 \o T)
  <2>1. \A x \in Said(T) : \A y \in Said(e2) : y.at # "exit"
    BY <1>2, <1>4, <1>5, <1>6, <1>13
  <2>2. (\A x \in Said(e2) : x.at # "exit") \/ (\A x \in Said(T) : x.at # "exit")
    BY <2>1
  <2> QED BY <1>6, <1>13, <1>15, <2>2, JoinedExit
<1> QED BY <1>9, <1>16, <1>17, <1>18 DEF A, B, T

\* A bounded set of naturals has its maximum.
LEMMA MaxIn ==
    ASSUME NEW S, S # {}, NEW b \in Nat, S \subseteq 0..b
    PROVE  Max(S) \in S
<1> DEFINE U == {u \in Nat : \A k \in S : k <= u}
<1>1. U \subseteq Nat /\ b \in U
  OBVIOUS
<1>2. PICK u \in U : \A v \in U : u <= v
  <2> HIDE DEF U
  <2> QED BY <1>1, Least
<1>3. u \in S
  <2> SUFFICES ASSUME u \notin S PROVE FALSE
    OBVIOUS
  <2>1. PICK k \in S : TRUE
    BY Zenon
  <2>2. \A j \in S : j < u
    OBVIOUS
  <2>3. u - 1 \in U
    BY <2>1, <2>2
  <2> QED BY <1>2, <2>3
<1>4. \A k \in S : u >= k
  OBVIOUS
<1> HIDE DEF U
<1> QED BY <1>3, <1>4, Zenon DEF Max

Session == [run: 0..MaxRuns, at: Outputs \cup {"none"}, no: Nat]

\* A consume leaves the session or takes it from the present child.
LEMMA SessionFacts ==
    ASSUME AdapterInv, NEW s \in Outputs, NEW old \in Session
    PROVE  /\ SessionIn(s, old) \in Session
           /\ SessionIn(s, old) = old \/ SessionIn(s, old).run = run
<1> DEFINE hits == {i \in Cut(base[s], sunk[s], busy.finished) :
                        written[s][i][PartOf(i, base[s], sunk[s])] = "SESSION"}
           new == [run |-> run, at |-> s, no |-> Max(hits)]
<1>1. CASE hits = {}
  BY <1>1 DEF SessionIn
<1>2. CASE hits # {}
  <2>1. SessionIn(s, old) = new
    BY <1>2, Zenon DEF SessionIn
  <2>2. (sunk[s] + 1) \div 2 \in Nat /\ run \in 0..MaxRuns
    <3>1. sunk[s] \in Nat /\ run \in 0..MaxRuns
      BY DEF AdapterInv, Types, ChildTypes
    <3> QED BY <3>1
  <2>3. hits \subseteq 0..((sunk[s] + 1) \div 2)
    <3> DEFINE top == (sunk[s] + 1) \div 2
    <3>1. \A i \in hits : i \in 1..top
      BY Zenon DEF Cut
    <3> HIDE DEF hits, top
    <3>2. \A i \in hits : i \in 0..top
      BY <2>2, <3>1
    <3> QED BY <3>2 DEF top
  <2> HIDE DEF hits
  <2>4. Max(hits) \in Nat
    <3>1. PICK b \in Nat : hits \subseteq 0..b
      BY <2>2, <2>3
    <3>2. PICK m \in hits : m = Max(hits)
      BY <1>2, <3>1, MaxIn
    <3>3. m \in 0..b
      BY <3>1
    <3> QED BY <3>2, <3>3
  <2>5. new \in Session /\ new.run = run
    BY <2>2, <2>4 DEF Session
  <2> QED BY <2>1, <2>5
<1> QED BY <1>1, <1>2

\* The second half of a drain of a marker adapter: both streams, then the exit.
LEMMA MarkerDrainStep ==
    ASSUME AdapterInv, MarkerDrain
    PROVE  AdapterInv'
<1> DEFINE t(s) == TailFrom(base[s], sunk[s], busy.finished)
<1>1. /\ busy.op = "marker"
      /\ events' = events \o Heard("out") \o Heard("err") \o TerminalEvents
      /\ session' = SessionIn("err", SessionIn("out", session))
      /\ cursor' = sunk
      /\ base' = [s \in Outputs |-> t(s)]
      /\ torn' = [s \in Outputs |-> torn[s] \cup TornAt(sunk[s], busy.finished)]
      /\ terminal' = (terminal \/ busy.finished)
      /\ busy' = Idle
  BY DEF MarkerDrain
<1>2. /\ UNCHANGED <<provider, run, child, alive, tree, code, written, open, sunk, stopping>>
      /\ UNCHANGED <<started, emitted, completed>>
  BY DEF MarkerDrain, childVars, genericVars
<1>3. provider \in Marker /\ provider # "generic" /\ child.some
      /\ (busy.finished => child.seen) /\ "out" \in Outputs /\ "err" \in Outputs
  BY <1>1 DEF AdapterInv, BusyInv, Marker, Outputs
<1>4. \A s \in Outputs :
         /\ base'[s] = t(s) /\ t(s) \in Nat /\ base[s] \in Nat /\ sunk[s] \in Nat
         /\ base[s] <= t(s) /\ t(s) <= sunk[s] /\ sunk[s] <= t(s) + 1
         /\ \A x \in Said(Heard(s)) : NewEvent(x, s, t(s), busy.finished)
         /\ \A i \in DOMAIN written[s] :
               base[s] + 1 < 2 * i /\ 2 * i <= t(s) /\ MakesEvent(written[s][i]["whole"])
                   => \E x \in Said(Heard(s)) : x.at = s /\ x.no = i
         /\ \A i \in Nat :
               2 * i = t(s) + 1 => i \in TornAt(sunk[s], busy.finished) \/ 2 * i = base[s] + 1
  <2> TAKE s \in Outputs
  <2>1. base'[s] = t(s) /\ base[s] \in Nat /\ sunk[s] \in Nat
    BY <1>1 DEF AdapterInv, Types, ChildTypes, AdapterTypes
  <2> QED BY <1>1, <2>1, HeardFacts
<1> HIDE DEF t
<1>5. /\ events' \in Seq(Event) /\ Ordered(events') /\ ExitOnce(events')
      /\ Said(events') = Said(events) \cup Said(Heard("out")) \cup Said(Heard("err"))
                           \cup Said(TerminalEvents)
  BY <1>1, MarkerSays
<1>6. \A x \in Said(TerminalEvents) : x.at = "exit" /\ x.part = "whole" /\ busy.finished
  BY TerminalFacts DEF AdapterInv, Types, ChildTypes, AdapterTypes
<1>7. /\ session' \in Session
      /\ session' = session \/ session'.run = run
  <2>1. session \in Session
    BY DEF AdapterInv, Types, ChildTypes, AdapterTypes, Session
  <2>2. SessionIn("out", session) \in Session
        /\ (SessionIn("out", session) = session \/ SessionIn("out", session).run = run)
    BY <1>3, <2>1, SessionFacts
  <2> QED BY <1>1, <1>3, <2>2, SessionFacts
<1>7a. /\ torn \in [Outputs -> SUBSET Nat] /\ torn' \in [Outputs -> SUBSET Nat]
       /\ \A s \in Outputs : /\ torn'[s] = torn[s] \cup TornAt(sunk[s], busy.finished)
                             /\ TornAt(sunk[s], busy.finished) # {} => busy.finished
  <2>1. \A s \in Outputs : /\ TornAt(sunk[s], busy.finished) \subseteq Nat
                           /\ TornAt(sunk[s], busy.finished) # {} => busy.finished
    <3> TAKE s \in Outputs
    <3>1. (sunk[s] + 1) \div 2 \in Nat
      BY <1>4
    <3>2. \A i \in 1..((sunk[s] + 1) \div 2) : i \in Nat
      BY <3>1
    <3> QED BY <3>2, Zenon DEF TornAt
  <2>2. torn \in [Outputs -> SUBSET Nat]
    BY DEF AdapterInv, Types, AdapterTypes
  <2> QED BY <1>1, <2>1, <2>2
<1>8. Types'
  <2>1. cursor' \in [Outputs -> Nat] /\ base' \in [Outputs -> Nat] /\ terminal' \in BOOLEAN
    BY <1>1, <1>4 DEF AdapterInv, Types, ChildTypes, AdapterTypes
  <2>2. busy' \in [op: {"idle", "marker", "generic"}, finished: BOOLEAN, out: Nat, err: Nat]
    BY <1>1 DEF Idle
  <2> QED BY <1>2, <1>5, <1>7, <1>7a, <2>1, <2>2
      DEF AdapterInv, Types, ChildTypes, AdapterTypes, Session
<1>9. Bounds'
  <2>1. \A s \in Outputs : Pieces(s)' = Pieces(s)
    BY <1>2 DEF Pieces
  <2> QED BY <1>1, <1>2, <1>4, <2>1 DEF AdapterInv, Bounds
<1>10. BusyInv'
  BY <1>1 DEF BusyInv, Idle
<1>11. CutsAreFinal'
  <2>1. /\ \A x \in Said(events) : x.part # "whole" => child.seen
        /\ \A s \in Outputs : torn[s] # {} => child.seen
    BY <1>3, SaidInv DEF AdapterInv, Types, ChildTypes, AdapterTypes
  <2>2. ASSUME NEW s \in Outputs, NEW x \in Said(Heard(s)), x.part # "whole"
        PROVE  child.seen
    <3>1. /\ x.no \in Nat /\ base[s] < 2 * x.no /\ 2 * x.no <= t(s) + 1
          /\ 2 * x.no = t(s) + 1 => busy.finished
          /\ ~(base[s] + 1 < 2 * x.no /\ 2 * x.no <= t(s))
      BY <1>4, <2>2 DEF NewEvent
    <3>2. 2 * x.no = t(s) + 1 \/ 2 * x.no = base[s] + 1
      BY <1>4, <3>1
    <3>3. 2 * x.no = base[s] + 1 => x.no \in torn[s]
      BY <1>3, <3>1 DEF AdapterInv, MarkerInv
    <3> QED BY <1>3, <2>1, <3>1, <3>2, <3>3
  <2>3. \A x \in Said(events') : x.part # "whole" => child.seen
    BY <1>3, <1>5, <1>6, <2>1, <2>2
  <2>4. \A s \in Outputs : torn'[s] # {} => child.seen
    BY <1>3, <1>7a, <2>1
  <2> QED BY <1>2, <2>3, <2>4 DEF CutsAreFinal, Said
<1>12. \A s \in Outputs, i \in Nat :
          (\E x \in Said(events') : x.at = s /\ x.no = i) => Reported(s, i)'
  BY DEF Said, Reported
<1>13. MarkerInv'
  <2>1. \A s \in Outputs : cursor'[s] <= base'[s] + 1
    BY <1>1, <1>4
  <2>2. ASSUME NEW x \in Said(events')
        PROVE  /\ x.at \in Outputs => Placed(x)'
               /\ x.at = "exit" => terminal'
    <3>1. CASE x \in Said(events)
      <4>1. x.at = "exit" => terminal
        BY <1>3, <3>1 DEF AdapterInv, MarkerInv, Said
      <4>2. x.at \in Outputs => /\ 2 * x.no <= base[x.at] + 1 /\ x.no \in Nat
                                /\ 2 * x.no = base[x.at] + 1 => x.part = "first"
        <5>1. x \in Event
          BY <3>1, SaidType DEF AdapterInv, Types, ChildTypes, AdapterTypes
        <5>2. x.at \in Outputs => Placed(x)
          BY <1>3, <3>1 DEF AdapterInv, MarkerInv, Said
        <5> QED BY <5>1, <5>2 DEF Event, Placed
      <4>3. x.at \in Outputs => /\ 2 * x.no <= base'[x.at] + 1
                                /\ 2 * x.no = base'[x.at] + 1 => x.part = "first"
        BY <1>4, <4>2
      <4> QED BY <1>1, <4>1, <4>3 DEF Placed
    <3>2. CASE x \in Said(Heard("out")) \cup Said(Heard("err"))
      <4>1. PICK s \in Outputs : x \in Said(Heard(s))
        BY <1>3, <3>2
      <4>2. /\ x.at = s /\ 2 * x.no <= base'[s] + 1 /\ "exit" # s
            /\ 2 * x.no = base'[s] + 1 => x.part = "first"
        BY <1>4, <4>1 DEF Outputs, NewEvent
      <4> QED BY <4>2 DEF Placed
    <3>3. CASE x \in Said(TerminalEvents)
      <4>1. x.at = "exit" /\ busy.finished /\ "exit" \notin Outputs
        BY <1>6, <3>3 DEF Outputs
      <4>2. terminal'
        BY <1>1, <4>1, Zenon
      <4> QED BY <4>1, <4>2
    <3> QED BY <1>5, <3>1, <3>2, <3>3
  <2>3. ASSUME NEW s \in Outputs, NEW i \in DOMAIN written[s],
               2 * i <= base'[s], i \notin torn'[s]
        PROVE  Settled(s, i)'
    <3> DEFINE v == written[s][i]["whole"]
               About(e) == {x \in Said(e) : x.at = s /\ x.no = i}
    <3>1. i \in Nat /\ i \notin torn[s] /\ base'[s] = t(s) /\ "exit" # s
      <4>1. written[s] \in Seq(Lines)
        BY DEF AdapterInv, Types, ChildTypes
      <4>2. i \in Nat
        BY <4>1
      <4>3. i \notin torn[s]
        BY <1>7a, <2>3
      <4>4. base'[s] = t(s)
        BY <1>4
      <4> QED BY <4>2, <4>3, <4>4 DEF Outputs
    <3>2. 2 * i # base[s] + 1
      BY <1>3, <3>1 DEF AdapterInv, MarkerInv
    <3>3. About(events') = About(events) \cup About(Heard(s))
      <4>1. \A o \in Outputs : o # s => \A x \in Said(Heard(o)) : x.at # s
        BY <1>4 DEF NewEvent
      <4>2. \A x \in Said(TerminalEvents) : x.at # s
        BY <1>6, <3>1
      <4> QED BY <1>3, <1>5, <4>1, <4>2 DEF Outputs
    <3>4. /\ MakesEvent(v) <=> About(events') # {}
          /\ \A x \in About(events') : x.type = EventOf[v]
      <4>1. CASE 2 * i <= base[s]
        <5>1. Settled(s, i)
          BY <1>3, <3>1, <4>1 DEF AdapterInv, MarkerInv
        <5>2. /\ MakesEvent(v) <=> About(events) # {}
              /\ \A x \in About(events) : x.type = EventOf[v]
          BY <5>1 DEF Settled, Reported, Said
        <5>3. About(Heard(s)) = {}
          BY <1>4, <3>1, <4>1 DEF NewEvent
        <5> QED BY <3>3, <5>2, <5>3
      <4>2. CASE base[s] + 1 < 2 * i
        <5>1. About(events) = {}
          <6>1. \A x \in Said(events) : x.at = s => 2 * x.no <= base[s] + 1
            BY <1>3 DEF AdapterInv, MarkerInv, Placed, Said
          <6> QED BY <1>4, <3>1, <4>2, <6>1
        <5>2. \A x \in About(Heard(s)) : MakesEvent(v) /\ x.type = EventOf[v]
          BY <1>4, <2>3, <3>1, <4>2 DEF NewEvent
        <5>3. MakesEvent(v) => About(Heard(s)) # {}
          BY <1>4, <2>3, <3>1, <4>2
        <5> QED BY <3>3, <5>1, <5>2, <5>3
      <4> QED BY <1>4, <3>1, <3>2, <4>1, <4>2
    <3>5. Reported(s, i)' <=> About(events') # {}
      BY DEF Reported, Said
    <3>6. \A k \in DOMAIN events' : events'[k].at = s /\ events'[k].no = i
             => events'[k] \in About(events')
      BY DEF Said
    <3> HIDE DEF About
    <3> QED BY <1>2, <3>4, <3>5, <3>6 DEF Settled
  <2>4. \A k \in DOMAIN events' :
           /\ events'[k].at \in Outputs => Placed(events[k])'
           /\ events'[k].at = "exit" => terminal'
    BY <2>2 DEF Said, Placed
  <2>5. ASSUME NEW s \in Outputs, NEW i \in Nat, 2 * i = base'[s] + 1
        PROVE  i \in torn'[s]
    <3>1. i \in TornAt(sunk[s], busy.finished) \/ 2 * i = base[s] + 1
      BY <1>4, <2>5
    <3>2. 2 * i = base[s] + 1 => i \in torn[s]
      BY <1>3 DEF AdapterInv, MarkerInv
    <3> QED BY <1>7a, <3>1, <3>2
  <2>6. \A s \in Outputs : \A i \in DOMAIN written'[s] :
           2 * i <= base'[s] /\ i \notin torn'[s] => Settled(s, i)'
    BY <1>2, <2>3
  <2>7. \A s \in Outputs : \A i \in Nat : 2 * i = base'[s] + 1 => i \in torn'[s]
    BY <2>5
  <2> QED BY <1>5, <2>1, <2>4, <2>6, <2>7 DEF MarkerInv, ExitOnce
<1>14. GenericInv'
  BY <1>2, <1>3 DEF GenericInv
<1>15. SessionIsCurrent'
  BY <1>2, <1>3, <1>7 DEF AdapterInv, SessionIsCurrent
<1> QED BY <1>5, <1>8, <1>9, <1>10, <1>11, <1>13, <1>14, <1>15 DEF AdapterInv

-----------------------------------------------------------------------------
(* The child, its pumps and the operations that report nothing.             *)

\* A step that neither drains nor spawns: what was drained stays as it was, and
\* the exit may become known.
LEMMA Frame ==
    ASSUME AdapterInv, Types', Bounds', BusyInv',
           UNCHANGED <<provider, run, cursor, base, session, terminal, started, emitted,
                       completed, events, torn>>,
           child'.some = child.some, child.seen => child'.seen,
           sunk["out"] <= sunk'["out"],
           \A s \in Outputs : \A i \in DOMAIN written'[s] :
               2 * i <= base[s] + 1
                   => i \in DOMAIN written[s] /\ written'[s][i] = written[s][i]
    PROVE  AdapterInv'
<1>1. \A s, i : Reported(s, i)' <=> Reported(s, i)
  BY DEF Reported
<1>2. CutsAreFinal'
  BY DEF AdapterInv, CutsAreFinal
<1>3. MarkerInv'
  <2> SUFFICES ASSUME provider \in Marker PROVE MarkerInv'
    BY DEF MarkerInv
  <2>1. ASSUME NEW s \in Outputs, NEW i \in DOMAIN written'[s], 2 * i <= base[s], i \notin torn[s]
        PROVE  Settled(s, i)'
    <3>1. 2 * i <= base[s] + 1
      <4>1. base[s] \in Nat /\ written'[s] \in Seq(Lines)
        BY DEF AdapterInv, Types, AdapterTypes, ChildTypes
      <4>2. i \in Nat
        BY <4>1
      <4> QED BY <2>1, <4>1, <4>2
    <3>2. i \in DOMAIN written[s] /\ written'[s][i] = written[s][i]
      BY <3>1
    <3>3. Settled(s, i)
      BY <2>1, <3>2 DEF AdapterInv, MarkerInv
    <3> QED BY <1>1, <3>2, <3>3 DEF Settled
  <2>2. \A k \in DOMAIN events : events[k].at \in Outputs => Placed(events[k])'
    BY DEF AdapterInv, MarkerInv, Placed
  <2> QED BY <2>1, <2>2 DEF AdapterInv, MarkerInv
<1>4. GenericInv'
  <2>1. "out" \in Outputs /\ sunk["out"] \in Nat /\ sunk'["out"] \in Nat
    BY DEF AdapterInv, Types, ChildTypes, AdapterTypes, Outputs
  <2>2. emitted \in Nat
    <3>1. emitted \in 0..MaxLines[provider]["out"]
      BY DEF AdapterInv, Types, ChildTypes, AdapterTypes
    <3> QED BY <3>1
  <2>3. 2 * emitted <= sunk["out"] => 2 * emitted <= sunk'["out"]
    BY <2>1, <2>2
  <2> QED BY <1>1, <2>3 DEF AdapterInv, GenericInv
<1>5. SessionIsCurrent'
  BY DEF AdapterInv, SessionIsCurrent
<1>6. Ordered(events)'
  BY DEF AdapterInv, Ordered
<1> QED BY <1>2, <1>3, <1>4, <1>5, <1>6 DEF AdapterInv

\* The child writes, ends, and is read.
LEMMA ChildStep ==
    ASSUME AdapterInv,
           \/ \E s \in Outputs : (\E l \in Lines : StartLine(s, l)) \/ EndLine(s) \/ Deliver(s)
           \/ \E c \in 0..1 : Exit(c)
           \/ TreeExits
    PROVE  AdapterInv'
<1> USE DEF AdapterInv
<1>0. "out" \in Outputs /\ \A s \in Outputs : sunk[s] \in Nat
  BY DEF Types, ChildTypes, AdapterTypes, Outputs
<1>1. ASSUME NEW s \in Outputs, NEW l \in Lines, StartLine(s, l)
      PROVE  AdapterInv'
  <2>1. /\ ~open[s] /\ Len(written[s]) < MaxLines[provider][s]
        /\ written' = [written EXCEPT ![s] = Append(@, l)]
        /\ open' = [open EXCEPT ![s] = TRUE]
        /\ UNCHANGED <<provider, run, child, alive, tree, code, sunk, markVars, genericVars,
                       busy, events, torn>>
    BY <1>1 DEF StartLine, told
  <2>2. UNCHANGED <<cursor, base, session, stopping, terminal, started, emitted, completed>>
    BY <2>1 DEF markVars, genericVars
  <2>3. /\ written[s] \in Seq(Lines) /\ Append(written[s], l) \in Seq(Lines)
        /\ Len(Append(written[s], l)) = Len(written[s]) + 1
        /\ \A i \in 1..Len(written[s]) : Append(written[s], l)[i] = written[s][i]
        /\ Len(written[s]) \in Nat
    BY DEF Types, ChildTypes, AdapterTypes
  <2>4. /\ written' \in [Outputs -> Seq(Lines)] /\ written'[s] = Append(written[s], l)
        /\ \A x \in Outputs \ {s} : written'[x] = written[x] /\ open'[x] = open[x]
        /\ open' \in [Outputs -> BOOLEAN] /\ open'[s] = TRUE
    BY <2>1, <2>3 DEF Types, ChildTypes, AdapterTypes
  <2>5. Types'
    <3>1. ChildTypes'
      BY <2>1, <2>4 DEF Types, ChildTypes
    <3>2. AdapterTypes'
      BY <2>1, <2>2 DEF Types, AdapterTypes
    <3> QED BY <3>1, <3>2 DEF Types
  <2>6. Pieces(s) = 2 * Len(written[s]) /\ Pieces(s)' = 2 * Len(written[s]) + 1
        /\ \A x \in Outputs \ {s} : Pieces(x)' = Pieces(x)
    BY <2>1, <2>3, <2>4 DEF Pieces
  <2>7. ASSUME NEW x \in Outputs
        PROVE  /\ Len(written'[x]) <= MaxLines[provider][x]
               /\ sunk[x] <= SinkPieces /\ sunk[x] <= Pieces(x)'
               /\ base[x] <= cursor[x] /\ cursor[x] <= sunk[x]
    <3>1. /\ Len(written[x]) <= MaxLines[provider][x]
          /\ sunk[x] <= SinkPieces /\ sunk[x] <= Pieces(x)
          /\ base[x] <= cursor[x] /\ cursor[x] <= sunk[x]
      BY DEF Bounds
    <3>2. MaxLines[provider][s] \in Nat
      BY AdaptersAssumption, <1>1 DEF Types, ChildTypes, AdapterTypes
    <3>3. CASE x = s
      BY <1>0, <2>1, <2>3, <2>4, <2>6, <3>1, <3>2, <3>3
    <3>4. CASE x # s
      BY <2>4, <2>6, <3>1, <3>4
    <3> QED BY <3>3, <3>4
  <2>8. Bounds'
    BY <2>1, <2>2, <2>7 DEF Bounds
  <2>9. ASSUME NEW x \in Outputs, NEW i \in DOMAIN written'[x], 2 * i <= base[x] + 1
        PROVE  i \in DOMAIN written[x] /\ written'[x][i] = written[x][i]
    <3>1. CASE x # s
      BY <2>4, <3>1
    <3>2. CASE x = s
      <4>1. i \in 1..(Len(written[s]) + 1) /\ DOMAIN written[s] = 1..Len(written[s])
        BY <2>3, <2>4, <3>2
      <4>2. base[s] \in Nat /\ cursor[s] \in Nat
            /\ base[s] <= cursor[s] /\ cursor[s] <= sunk[s] /\ sunk[s] <= Pieces(s)
        BY DEF Types, ChildTypes, AdapterTypes, Bounds
      <4>3. i \in 1..Len(written[s])
        BY <1>0, <2>3, <2>6, <2>9, <3>2, <4>1, <4>2
      <4> QED BY <2>3, <2>4, <3>2, <4>1, <4>3
    <3> QED BY <3>1, <3>2
  <2>10. BusyInv'
    BY <2>1, <2>2 DEF BusyInv
  <2>11. sunk["out"] <= sunk'["out"]
    BY <1>0, <2>1
  <2> QED BY <2>1, <2>2, <2>5, <2>8, <2>9, <2>10, <2>11, Frame
<1>2. ASSUME NEW s \in Outputs, EndLine(s)
      PROVE  AdapterInv'
  <2>1. /\ open[s] /\ open' = [open EXCEPT ![s] = FALSE]
        /\ UNCHANGED <<provider, run, child, alive, tree, code, written, sunk, markVars,
                       genericVars, busy, events, torn>>
    BY <1>2 DEF EndLine, told
  <2>2. UNCHANGED <<cursor, base, session, stopping, terminal, started, emitted, completed>>
    BY <2>1 DEF markVars, genericVars
  <2>3. open' \in [Outputs -> BOOLEAN]
    BY <2>1 DEF Types, ChildTypes, AdapterTypes
  <2>4. Types'
    <3>1. ChildTypes'
      BY <2>1, <2>3 DEF Types, ChildTypes
    <3>2. AdapterTypes'
      BY <2>1, <2>2 DEF Types, AdapterTypes
    <3> QED BY <3>1, <3>2 DEF Types
  <2>5. \A x \in Outputs : Pieces(x)' \in Int /\ Pieces(x) \in Int /\ Pieces(x) <= Pieces(x)'
    <3> TAKE x \in Outputs
    <3>1. Len(written[x]) \in Nat /\ (open'[x] => open[x])
      BY <2>1 DEF Types, ChildTypes, AdapterTypes
    <3> QED BY <2>1, <3>1 DEF Pieces
  <2>6. Bounds'
    BY <1>0, <2>1, <2>2, <2>5 DEF Bounds
  <2>7. BusyInv' /\ sunk["out"] <= sunk'["out"]
    BY <1>0, <2>1, <2>2 DEF BusyInv
  <2> QED BY <2>1, <2>2, <2>4, <2>6, <2>7, Frame
<1>3. ASSUME NEW s \in Outputs, Deliver(s)
      PROVE  AdapterInv'
  <2>1. /\ sunk[s] < Min({SinkPieces, Pieces(s)})
        /\ sunk' = [sunk EXCEPT ![s] = @ + 1]
        /\ UNCHANGED <<provider, run, child, alive, tree, code, written, open, markVars,
                       genericVars, busy, events, torn>>
    BY <1>3 DEF Deliver, told
  <2>2. UNCHANGED <<cursor, base, session, stopping, terminal, started, emitted, completed>>
    BY <2>1 DEF markVars, genericVars
  <2>3. Pieces(s) \in Int /\ SinkPieces \in Int /\ \A x \in Outputs : Pieces(x)' = Pieces(x)
    <3>1. Pieces(s) \in Int
      BY DEF Types, ChildTypes, Pieces
    <3>2. SinkPieces \in Int
      BY AdaptersAssumption
    <3>3. \A x \in Outputs : Pieces(x)' = Pieces(x)
      BY <2>1 DEF Pieces
    <3> QED BY <3>1, <3>2, <3>3
  <2>4. sunk[s] < SinkPieces /\ sunk[s] < Pieces(s)
    BY <1>0, <2>1, <2>3, MinIs
  <2>5. /\ sunk' \in [Outputs -> Nat] /\ sunk'[s] = sunk[s] + 1
        /\ \A x \in Outputs \ {s} : sunk'[x] = sunk[x]
    <3>1. sunk \in [Outputs -> Nat]
      BY DEF Types, ChildTypes
    <3> QED BY <2>1, <3>1
  <2>6. Types'
    <3>1. ChildTypes'
      BY <2>1, <2>5 DEF Types, ChildTypes
    <3>2. AdapterTypes'
      BY <2>1, <2>2 DEF Types, AdapterTypes
    <3> QED BY <3>1, <3>2 DEF Types
  <2>7. \A x \in Outputs : sunk[x] <= sunk'[x] /\ sunk'[x] <= SinkPieces /\ sunk'[x] <= Pieces(x)
    <3> TAKE x \in Outputs
    <3>1. CASE x = s
      BY <1>0, <2>3, <2>4, <2>5, <3>1
    <3>2. CASE x # s
      BY <1>0, <2>5, <3>2 DEF Bounds
    <3> QED BY <3>1, <3>2
  <2>8. \A x \in Outputs : cursor[x] \in Nat /\ sunk'[x] \in Nat
    BY <2>5 DEF Types, ChildTypes, AdapterTypes
  <2>9. Bounds'
    <3>1. \A x \in Outputs : cursor[x] <= sunk'[x]
      BY <1>0, <2>7, <2>8 DEF Bounds
    <3> QED BY <2>1, <2>2, <2>3, <2>7, <3>1 DEF Bounds
  <2>10. BusyInv'
    <3>1. sunk["out"] <= sunk'["out"]
      BY <1>0, <2>7
    <3>2. busy.out \in Nat
      BY DEF Types, ChildTypes, AdapterTypes
    <3>3. busy.out <= sunk["out"] => busy.out <= sunk'["out"]
      BY <1>0, <2>8, <3>1, <3>2
    <3> QED BY <2>1, <2>2, <3>3 DEF BusyInv
  <2> QED BY <1>0, <2>1, <2>2, <2>6, <2>7, <2>9, <2>10, Frame
<1>4. ASSUME \/ \E c \in 0..1 : Exit(c)
             \/ TreeExits
      PROVE  AdapterInv'
  <2>1. /\ alive' \in BOOLEAN /\ tree' \in BOOLEAN /\ code' \in 0..1
        /\ UNCHANGED <<provider, run, child, written, open, sunk, markVars, genericVars, busy,
                       events, torn>>
    BY <1>4 DEF Exit, TreeExits, told, Types, ChildTypes, AdapterTypes
  <2>2. UNCHANGED <<cursor, base, session, stopping, terminal, started, emitted, completed>>
    BY <2>1 DEF markVars, genericVars
  <2>3. Types'
    <3>1. ChildTypes'
      BY <2>1 DEF Types, ChildTypes
    <3>2. AdapterTypes'
      BY <2>1, <2>2 DEF Types, AdapterTypes
    <3> QED BY <3>1, <3>2 DEF Types
  <2>4. Bounds'
    BY <2>1, <2>2 DEF Bounds, Pieces
  <2>5. BusyInv' /\ sunk["out"] <= sunk'["out"]
    BY <1>0, <2>1, <2>2 DEF BusyInv
  <2> QED BY <2>1, <2>2, <2>3, <2>4, <2>5, Frame
<1> QED BY <1>1, <1>2, <1>3, <1>4

\* A stop ends the tree and reports nothing.
LEMMA StopStep ==
    ASSUME AdapterInv, MarkerStop \/ GenericStop
    PROVE  AdapterInv'
<1>1. /\ KillTree /\ stopping' \in BOOLEAN
      /\ UNCHANGED <<provider, run, child, written, open, sunk, cursor, base, session, terminal,
                     busy, events, torn>>
      /\ UNCHANGED <<started, emitted, completed>>
  BY DEF MarkerStop, GenericStop, told, markVars, genericVars, AdapterInv, Types, AdapterTypes
<1>2. alive' \in BOOLEAN /\ tree' \in BOOLEAN /\ code' \in 0..1
  <2>1. code \in 0..1
    BY DEF AdapterInv, Types, ChildTypes
  <2>2. alive' \in {FALSE, alive} /\ tree' \in {FALSE, tree} /\ (code' = 1 \/ code' = code)
    BY <1>1, Zenon DEF KillTree
  <2>3. alive' \in BOOLEAN /\ tree' \in BOOLEAN
    BY <2>2 DEF AdapterInv, Types, ChildTypes
  <2>4. code' \in 0..1
    BY <2>1, <2>2
  <2> QED BY <2>3, <2>4
<1>3. Types'
  <2>1. ChildTypes'
    BY <1>1, <1>2 DEF AdapterInv, Types, ChildTypes
  <2>2. AdapterTypes'
    BY <1>1 DEF AdapterInv, Types, AdapterTypes
  <2> QED BY <2>1, <2>2 DEF Types
<1>4. Bounds'
  BY <1>1 DEF AdapterInv, Bounds, Pieces
<1>5. BusyInv'
  BY <1>1 DEF AdapterInv, BusyInv
<1>6. sunk["out"] <= sunk'["out"]
  BY <1>1 DEF AdapterInv, Types, ChildTypes, Outputs
<1> QED BY <1>1, <1>3, <1>4, <1>5, <1>6, Frame

\* The exit becomes known.
LEMMA PollStep ==
    ASSUME AdapterInv, (\E p \in Known : Poll(p)) \/ (provider \in Marker /\ MarkerDrainPoll)
    PROVE  AdapterInv'
<1>1. /\ Ready /\ child.some
      /\ child' = [child EXCEPT !.seen = TRUE] \/ child' = [child EXCEPT !.seen = Polled]
      /\ UNCHANGED <<provider, run, alive, tree, code, written, open, sunk, markVars, genericVars,
                     events, torn>>
  BY DEF Poll, Polled, MarkerDrainPoll, told
<1>2. UNCHANGED <<cursor, base, session, stopping, terminal, started, emitted, completed>>
  BY <1>1 DEF markVars, genericVars
<1>3. child \in [some: BOOLEAN, seen: BOOLEAN] /\ alive \in BOOLEAN
  BY DEF AdapterInv, Types, ChildTypes
<1>4. Polled \in BOOLEAN /\ (child.seen => Polled)
  BY <1>1, <1>3 DEF Polled
<1>5. /\ child' \in [some: BOOLEAN, seen: BOOLEAN]
      /\ child'.some = child.some /\ (child.seen => child'.seen)
  BY <1>1, <1>3, <1>4
<1>6. /\ busy' \in [op: {"idle", "marker", "generic"}, finished: BOOLEAN, out: Nat, err: Nat]
      /\ busy' = busy \/ /\ busy'.op = "marker" /\ provider \in Marker
                         /\ busy'.finished => child'.seen
  <2>1. CASE \E p \in Known : Poll(p)
    <3>1. busy' = busy
      BY <2>1 DEF Poll
    <3> QED BY <3>1 DEF AdapterInv, Types, AdapterTypes
  <2>2. CASE provider \in Marker /\ MarkerDrainPoll
    <3>1. /\ busy' = [op |-> "marker", finished |-> Polled, out |-> 0, err |-> 0]
          /\ child' = [child EXCEPT !.seen = Polled]
      BY <2>2 DEF MarkerDrainPoll, Idle
    <3> QED BY <1>3, <1>4, <2>2, <3>1
  <2> QED BY <2>1, <2>2
<1>7. Types'
  <2>1. ChildTypes'
    BY <1>1, <1>5 DEF AdapterInv, Types, ChildTypes
  <2>2. AdapterTypes'
    BY <1>1, <1>2, <1>6 DEF AdapterInv, Types, AdapterTypes
  <2> QED BY <2>1, <2>2 DEF Types
<1>8. Bounds'
  BY <1>1, <1>2 DEF AdapterInv, Bounds, Pieces
<1>9. BusyInv'
  <2>1. CASE busy' = busy
    BY <1>1, <1>2, <1>5, <2>1 DEF AdapterInv, BusyInv
  <2>2. CASE busy'.op = "marker" /\ provider \in Marker /\ (busy'.finished => child'.seen)
    BY <1>1, <1>2, <1>5, <2>2 DEF AdapterInv, BusyInv
  <2> QED BY <1>6, <2>1, <2>2
<1>10. sunk["out"] <= sunk'["out"]
  BY <1>1 DEF AdapterInv, Types, ChildTypes, Outputs
<1> QED BY <1>1, <1>2, <1>5, <1>7, <1>8, <1>9, <1>10, Frame

\* A child is replaced or removed: all that was reported is forgotten.
LEMMA FreshStep ==
    ASSUME AdapterInv, Ready, Replaced \/ Removed, UNCHANGED <<provider, busy>>,
           \/ provider \in Marker /\ Reset /\ UNCHANGED genericVars
           \/ /\ provider = "generic" /\ Replaced
              /\ started' = TRUE /\ emitted' = 0 /\ completed' = FALSE
              /\ UNCHANGED markVars
    PROVE  AdapterInv'
<1>1. /\ run' \in 0..MaxRuns /\ child' \in [some: BOOLEAN, seen: BOOLEAN]
      /\ alive' \in BOOLEAN /\ tree' \in BOOLEAN /\ code' \in 0..1
      /\ written' = [s \in Outputs |-> <<>>] /\ open' = [s \in Outputs |-> FALSE]
      /\ sunk' = Zero /\ events' = <<>> /\ torn' = [s \in Outputs |-> {}]
  <2>1. run \in 0..MaxRuns /\ MaxRuns \in Nat
    BY AdaptersAssumption DEF AdapterInv, Types, ChildTypes
  <2>2. CASE Replaced
    <3>1. alive' \in BOOLEAN /\ tree' \in BOOLEAN
      BY <2>2, Zenon DEF Replaced
    <3>2. run' \in 0..MaxRuns /\ child' \in [some: BOOLEAN, seen: BOOLEAN] /\ code' \in 0..1
      BY <2>1, <2>2 DEF Replaced
    <3> QED BY <2>2, <3>1, <3>2 DEF Replaced
  <2>3. CASE Removed
    <3>1. alive' \in BOOLEAN /\ tree' \in BOOLEAN
      BY <2>3, Zenon DEF Removed
    <3>2. run' \in 0..MaxRuns /\ child' \in [some: BOOLEAN, seen: BOOLEAN] /\ code' \in 0..1
      BY <2>1, <2>3 DEF Removed, NoChild
    <3> QED BY <2>3, <3>1, <3>2 DEF Removed
  <2> QED BY <2>2, <2>3
<1>2. /\ sunk' \in [Outputs -> Nat] /\ written' \in [Outputs -> Seq(Lines)]
      /\ open' \in [Outputs -> BOOLEAN] /\ events' \in Seq(Event) /\ DOMAIN events' = {}
      /\ \A s \in Outputs : sunk'[s] = 0 /\ Len(written'[s]) = 0 /\ ~open'[s]
                            /\ DOMAIN written'[s] = {}
      /\ torn' \in [Outputs -> SUBSET Nat] /\ \A s \in Outputs : torn'[s] = {}
  BY <1>1 DEF Zero
<1>3. MaxLines[provider] \in [Outputs -> Nat] /\ "out" \in Outputs
  BY AdaptersAssumption DEF AdapterInv, Types, AdapterTypes, Outputs
<1>4. /\ cursor' \in [Outputs -> Nat] /\ base' \in [Outputs -> Nat]
      /\ session' \in [run: 0..MaxRuns, at: Outputs \cup {"none"}, no: Nat]
      /\ stopping' \in BOOLEAN /\ terminal' \in BOOLEAN
      /\ started' \in BOOLEAN /\ completed' \in BOOLEAN
      /\ emitted' \in 0..MaxLines[provider]["out"]
  <2>1. CASE provider \in Marker /\ Reset /\ UNCHANGED genericVars
    <3>1. NoSession \in [run: 0..MaxRuns, at: Outputs \cup {"none"}, no: Nat]
      BY AdaptersAssumption DEF NoSession
    <3>2. Zero \in [Outputs -> Nat]
      BY DEF Zero
    <3>3. UNCHANGED <<started, emitted, completed>>
      BY <2>1 DEF genericVars
    <3> QED BY <2>1, <3>1, <3>2, <3>3 DEF Reset, AdapterInv, Types, AdapterTypes
  <2>2. CASE /\ started' = TRUE /\ emitted' = 0 /\ completed' = FALSE
             /\ UNCHANGED markVars
    <3>1. UNCHANGED <<cursor, base, session, stopping, terminal>>
      BY <2>2 DEF markVars
    <3>2. 0 \in 0..MaxLines[provider]["out"]
      BY <1>3
    <3> QED BY <2>2, <3>1, <3>2 DEF AdapterInv, Types, AdapterTypes
  <2> QED BY <2>1, <2>2
<1>5. Types'
  <2>1. ChildTypes'
    BY <1>1, <1>2 DEF ChildTypes
  <2>2. AdapterTypes'
    BY <1>2, <1>4 DEF AdapterInv, Types, AdapterTypes
  <2> QED BY <2>1, <2>2 DEF Types
<1>6. \A s \in Outputs : cursor'[s] = 0 /\ base'[s] = 0
  <2>1. cursor' = Zero /\ base' = Zero
    BY DEF Reset, AdapterInv, GenericInv, markVars
  <2> QED BY <2>1 DEF Zero
<1>7. Bounds'
  <2> SUFFICES ASSUME NEW s \in Outputs
               PROVE  /\ Len(written'[s]) <= MaxLines[provider][s]
                      /\ sunk'[s] <= SinkPieces /\ sunk'[s] <= Pieces(s)'
                      /\ base'[s] <= cursor'[s] /\ cursor'[s] <= sunk'[s]
    BY DEF Bounds
  <2>1. Pieces(s)' = 0
    BY <1>2 DEF Pieces
  <2>2. MaxLines[provider][s] \in Nat /\ SinkPieces \in Nat
    BY <1>3, AdaptersAssumption
  <2> QED BY <1>2, <1>6, <2>1, <2>2
<1>8. busy'.op = "idle"
  BY DEF Ready, Idle
<1>9. BusyInv'
  BY <1>8 DEF BusyInv
<1>10. CutsAreFinal' /\ Ordered(events')
  BY <1>2 DEF CutsAreFinal, Ordered
<1>11. MarkerInv'
  <2>1. \A s \in Outputs : cursor'[s] <= base'[s] + 1
    BY <1>6
  <2>2. \A s \in Outputs : \A i \in DOMAIN written'[s] :
           2 * i <= base'[s] /\ i \notin torn'[s] => Settled(s, i)'
    BY <1>2
  <2>3. \A s \in Outputs : \A i \in Nat : 2 * i = base'[s] + 1 => i \in torn'[s]
    BY <1>6
  <2> QED BY <1>2, <2>1, <2>2, <2>3 DEF MarkerInv
<1>12. GenericInv'
  <2> SUFFICES ASSUME provider' = "generic" PROVE GenericInv'
    BY DEF GenericInv
  <2>1. started' = TRUE /\ emitted' = 0 /\ completed' = FALSE /\ UNCHANGED markVars
    BY DEF Marker
  <2>2. session' = NoSession /\ cursor' = Zero /\ base' = Zero
    BY <2>1 DEF AdapterInv, GenericInv, markVars
  <2>3. 1..emitted' = {} /\ 2 * emitted' <= sunk'["out"]
    BY <1>2, <1>3, <2>1
  <2> QED BY <1>2, <2>1, <2>2, <2>3 DEF GenericInv
<1>13. SessionIsCurrent'
  <2>1. session' = NoSession
    BY DEF Reset, AdapterInv, GenericInv, markVars
  <2> QED BY <2>1 DEF SessionIsCurrent
<1> QED BY <1>5, <1>7, <1>9, <1>10, <1>11, <1>12, <1>13 DEF AdapterInv

-----------------------------------------------------------------------------
(* The drain of the generic adapter.                                        *)

\* Nothing follows a CommandCompleted.
DoneLast(q) == \A k \in DOMAIN q : q[k].type = "CommandCompleted" => k = Len(q)

\* A completion in the last part only stays the last event.
LEMMA JoinedDone ==
    ASSUME NEW e \in Seq(Event), NEW q \in Seq(Event), DoneLast(q),
           \A x \in Said(e) : x.type # "CommandCompleted"
    PROVE  DoneLast(e \o q)
<1> DEFINE c == e \o q
<1> SUFFICES ASSUME NEW k \in DOMAIN c, c[k].type = "CommandCompleted"
             PROVE  k = Len(c)
  BY DEF DoneLast
<1>1. /\ \/ k \in DOMAIN e /\ c[k] = e[k]
         \/ k > Len(e) /\ k - Len(e) \in DOMAIN q /\ c[k] = q[k - Len(e)]
      /\ Len(c) = Len(e) + Len(q) /\ k \in Nat /\ Len(e) \in Nat /\ Len(q) \in Nat
  BY JoinedSeq
<1> HIDE DEF c
<1>2. k \notin DOMAIN e \/ c[k] # e[k]
  BY DEF Said
<1>3. k - Len(e) = Len(q)
  BY <1>1, <1>2 DEF DoneLast
<1> QED BY <1>1, <1>3

\* A sequence of one event, which is of no line, and the empty one.
LEMMA OneEvent ==
    ASSUME NEW x \in Event, x.at \notin Outputs
    PROVE  /\ <<x>> \in Seq(Event) /\ Said(<<x>>) = {x}
           /\ Ordered(<<x>>) /\ DoneLast(<<x>>)
<1>1. /\ <<x>> \in Seq(Event) /\ DOMAIN <<x>> = {1} /\ <<x>>[1] = x /\ Len(<<x>>) = 1
  OBVIOUS
<1>2. Said(<<x>>) = {x}
  BY <1>1 DEF Said
<1>3. Ordered(<<x>>)
  BY <1>1 DEF Ordered
<1>4. DoneLast(<<x>>)
  BY <1>1 DEF DoneLast
<1> QED BY <1>1, <1>2, <1>3, <1>4

\* A drain that has nothing to say.
LEMMA NoEvent ==
    <<>> \in Seq(Event) /\ Said(<<>>) = {} /\ Ordered(<<>>) /\ DoneLast(<<>>)
BY DEF Said, Ordered, DoneLast

\* The events of the lines after from, up to to.
LinesSaid(q, from, to, n) ==
    /\ q \in Seq(Event) /\ Ordered(q)
    /\ \A x \in Said(q) :
          /\ x.at = "out" /\ x.type = "Unspecified" /\ from < x.no /\ x.no <= to
          /\ x.part # "whole" => 2 * x.no > n
    /\ \A i \in (from + 1)..to : \E x \in Said(q) : x.at = "out" /\ x.no = i

\* LineEvents says them.
LEMMA LineFacts ==
    ASSUME NEW from \in Nat, NEW to \in Nat, from <= to, NEW n \in Nat
    PROVE  LinesSaid(LineEvents(from, to, n), from, to, n)
<1> DEFINE q == LineEvents(from, to, n)
           ev(k) == [at |-> "out", no |-> from + k, type |-> "Unspecified",
                     part |-> IF 2 * (from + k) > n THEN "first" ELSE "whole"]
<1>1. \A k \in 1..(to - from) :
         /\ ev(k) \in Event /\ ev(k).at = "out" /\ ev(k).no = from + k
         /\ ev(k).type = "Unspecified" /\ (ev(k).part # "whole" => 2 * (from + k) > n)
  <2> SUFFICES ASSUME NEW k \in 1..(to - from)
               PROVE  /\ ev(k) \in Event /\ ev(k).at = "out" /\ ev(k).no = from + k
                      /\ ev(k).type = "Unspecified" /\ (ev(k).part # "whole" => 2 * (from + k) > n)
    OBVIOUS
  <2> DEFINE big == 2 * (from + k) > n
             no  == from + k
             half == IF big THEN "first" ELSE "whole"
  <2>1. half \in Part /\ (half # "whole" => big)
    BY DEF Part
  <2>2. no \in Nat /\ "out" \in Outputs \cup {"start", "exit"} /\ "Unspecified" \in EventType
    BY DEF Outputs, EventType
  <2>3. ev(k) = [at |-> "out", no |-> no, type |-> "Unspecified", part |-> half]
    BY Zenon
  <2> HIDE DEF big, no, half, ev
  <2>4. ev(k) \in Event
    BY <2>1, <2>2, <2>3 DEF Event
  <2>5. /\ ev(k).at = "out" /\ ev(k).no = no /\ ev(k).type = "Unspecified"
        /\ ev(k).part # "whole" => big
    BY <2>1, <2>3
  <2> QED BY <2>4, <2>5 DEF big, no
<1>2. q = [k \in 1..(to - from) |-> ev(k)]
  BY Zenon DEF LineEvents
<1> HIDE DEF q, ev
<1>3. to - from \in Nat /\ DOMAIN q = 1..(to - from) /\ \A k \in 1..(to - from) : q[k] = ev(k)
  BY <1>2
<1>4. q \in Seq(Event)
  BY <1>1, <1>2, <1>3
<1>5. Ordered(q)
  BY <1>1, <1>3 DEF Ordered, Before
<1>6. ASSUME NEW x \in Said(q)
      PROVE  /\ x.at = "out" /\ x.type = "Unspecified" /\ from < x.no /\ x.no <= to
             /\ x.part # "whole" => 2 * x.no > n
  <2>1. PICK k \in 1..(to - from) : x = ev(k)
    BY <1>3 DEF Said
  <2> QED BY <1>1, <1>3, <2>1
<1>7. ASSUME NEW i \in (from + 1)..to
      PROVE  \E x \in Said(q) : x.at = "out" /\ x.no = i
  <2> DEFINE k == i - from
  <2>1. k \in 1..(to - from) /\ from + k = i
    OBVIOUS
  <2> HIDE DEF k
  <2>2. q[k] \in Said(q) /\ q[k] = ev(k)
    BY <1>3, <2>1 DEF Said
  <2> QED BY <1>1, <2>1, <2>2
<1> QED BY <1>4, <1>5, <1>6, <1>7 DEF q, LinesSaid

\* The invariant of the generic adapter in terms of what was said.
SaidGeneric(e) ==
    /\ \A x \in Said(e) : /\ x.at \in Outputs => x.at = "out" /\ x.no <= emitted
                          /\ x.type = "CommandCompleted" => completed
    /\ \A i \in 1..emitted : \E x \in Said(e) : x.at = "out" /\ x.no = i
    /\ DoneLast(e)

\* The invariant says it of the present events.
LEMMA GenericSaid ==
    ASSUME AdapterInv, provider = "generic"
    PROVE  /\ session = NoSession /\ cursor = Zero /\ base = Zero
           /\ completed => ~started
           /\ ~completed => 2 * emitted <= sunk["out"]
           /\ SaidGeneric(events)
<1>1. events \in Seq(Event) /\ GenericInv
  BY DEF AdapterInv, Types, AdapterTypes
<1>2. \A i \in 1..emitted : \E x \in Said(events) : x.at = "out" /\ x.no = i
  BY <1>1, SaidInv DEF GenericInv
<1>3. /\ \A x \in Said(events) :
            /\ x.at \in Outputs => x.at = "out" /\ x.no <= emitted
            /\ x.type = "CommandCompleted" => completed
      /\ DoneLast(events)
  BY <1>1, Zenon DEF GenericInv, Said, DoneLast
<1> QED BY <1>1, <1>2, <1>3, Zenon DEF GenericInv, SaidGeneric

\* And the other way round, after a step.
LEMMA GenericBack ==
    ASSUME provider' = "generic",
           session' = NoSession, cursor' = Zero, base' = Zero, completed' => ~started',
           ~completed' => 2 * emitted' <= sunk'["out"],
           SaidGeneric(events)'
    PROVE  GenericInv'
<1>1. \A i \in 1..emitted' : Reported("out", i)'
  <2> SUFFICES ASSUME NEW i \in 1..emitted' PROVE Reported("out", i)'
    OBVIOUS
  <2>1. PICK x \in Said(events') : x.at = "out" /\ x.no = i
    BY DEF SaidGeneric
  <2>2. PICK k \in DOMAIN events' : events'[k] = x
    BY DEF Said
  <2> QED BY <2>1, <2>2 DEF Reported
<1>2. \A k \in DOMAIN events' :
         /\ events'[k].at \in Outputs => events'[k].at = "out" /\ events'[k].no <= emitted'
         /\ events'[k].type = "CommandCompleted" => completed' /\ k = Len(events')
  BY Zenon DEF SaidGeneric, Said, DoneLast
<1> QED BY <1>1, <1>2, Zenon DEF GenericInv

\* Nothing of a drain of the generic adapter concerns the others.
LEMMA GenericRest ==
    ASSUME AdapterInv, provider = "generic", provider' = provider,
           UNCHANGED <<run, alive, tree, code, written, open, sunk, markVars, torn>>,
           child' \in [some: BOOLEAN, seen: BOOLEAN], child'.some = child.some,
           busy' \in [op: {"idle", "marker", "generic"}, finished: BOOLEAN, out: Nat, err: Nat],
           started' \in BOOLEAN, completed' \in BOOLEAN,
           emitted' \in 0..MaxLines[provider]["out"], events' \in Seq(Event)
    PROVE  /\ Types' /\ Bounds' /\ MarkerInv' /\ SessionIsCurrent'
           /\ session' = NoSession /\ cursor' = Zero /\ base' = Zero
<1>1. UNCHANGED <<cursor, base, session, stopping, terminal>>
  BY DEF markVars
<1>2. ChildTypes'
  BY DEF AdapterInv, Types, ChildTypes
<1>3. AdapterTypes'
  BY <1>1 DEF AdapterInv, Types, AdapterTypes
<1>4. Bounds'
  BY <1>1 DEF AdapterInv, Bounds, Pieces
<1>5. MarkerInv'
  BY DEF MarkerInv, Marker
<1>6. session' = NoSession /\ cursor' = Zero /\ base' = Zero
  BY <1>1, GenericSaid
<1> QED BY <1>2, <1>3, <1>4, <1>5, <1>6 DEF Types, SessionIsCurrent

\* The first half of a generic drain: CommandStarted goes out once.
LEMMA GenericReadStep ==
    ASSUME AdapterInv, GenericDrainRead
    PROVE  AdapterInv'
<1>1. /\ provider = "generic" /\ Ready
      /\ events' = events \o StartedEvents /\ started' = FALSE
      /\ UNCHANGED <<provider, run, child, alive, tree, code, written, open, sunk, markVars>>
      /\ UNCHANGED <<emitted, completed, torn>>
  BY DEF GenericDrainRead, childVars
<1>2. /\ session = NoSession /\ cursor = Zero /\ base = Zero
      /\ completed => ~started
      /\ ~completed => 2 * emitted <= sunk["out"]
      /\ SaidGeneric(events)
  BY <1>1, GenericSaid
<1>3. /\ events \in Seq(Event) /\ child \in [some: BOOLEAN, seen: BOOLEAN]
      /\ emitted \in 0..MaxLines[provider]["out"] /\ completed \in BOOLEAN /\ Ordered(events)
      /\ sunk["out"] \in Nat /\ sunk["err"] \in Nat
  BY DEF AdapterInv, Types, ChildTypes, AdapterTypes, Outputs
<1>4. /\ busy' \in [op: {"idle", "marker", "generic"}, finished: BOOLEAN, out: Nat, err: Nat]
      /\ BusyInv'
  <2>1. CASE child.some /\ ~completed
    <3>1. busy' = [op |-> "generic", finished |-> child.seen, out |-> sunk["out"],
                   err |-> sunk["err"]]
      BY <2>1 DEF GenericDrainRead
    <3>2. /\ busy' \in [op: {"idle", "marker", "generic"}, finished: BOOLEAN, out: Nat, err: Nat]
          /\ busy'.op = "generic" /\ busy'.finished = child.seen /\ busy'.out = sunk["out"]
      BY <1>3, <3>1
    <3>3. sunk["out"] <= sunk["out"]
      BY <1>3
    <3> QED BY <1>1, <1>2, <2>1, <3>2, <3>3 DEF BusyInv
  <2>2. CASE ~(child.some /\ ~completed)
    <3>1. busy' = Idle
      BY <2>2 DEF GenericDrainRead
    <3> QED BY <3>1 DEF BusyInv, Idle
  <2> QED BY <2>1, <2>2
<1>5. CASE ~started
  <2>1. events' = events
    BY <1>1, <1>3, <1>5 DEF StartedEvents
  <2>2. SaidGeneric(events)'
    BY <1>1, <1>2, <2>1 DEF SaidGeneric, Said, DoneLast
  <2>3. /\ Types' /\ Bounds' /\ MarkerInv' /\ SessionIsCurrent'
        /\ session' = NoSession /\ cursor' = Zero /\ base' = Zero
    BY <1>1, <1>3, <1>4, <2>1, GenericRest
  <2>4. GenericInv'
    BY <1>1, <1>2, <2>2, <2>3, GenericBack
  <2>5. CutsAreFinal' /\ Ordered(events')
    BY <1>1, <1>3, <2>1 DEF AdapterInv, CutsAreFinal
  <2> QED BY <1>4, <2>3, <2>4, <2>5 DEF AdapterInv
<1>6. CASE started
  <2> DEFINE x == [at |-> "start", no |-> 0, type |-> "CommandStarted", part |-> "whole"]
  <2>1. StartedEvents = <<x>>
    BY <1>6 DEF StartedEvents
  <2>2. x \in Event /\ x.at \notin Outputs /\ x.type # "CommandCompleted"
        /\ x.part = "whole" /\ x.at # "out"
    BY DEF Event, EventType, Outputs, Part
  <2> HIDE DEF x
  <2>3. events' = events \o <<x>> /\ ~completed
    BY <1>1, <1>2, <1>6, <2>1
  <2>4. <<x>> \in Seq(Event) /\ Said(<<x>>) = {x} /\ Ordered(<<x>>) /\ DoneLast(<<x>>)
        /\ \A j \in DOMAIN <<x>> : <<x>>[j] = x
    BY <2>2, OneEvent
  <2>5. events' \in Seq(Event) /\ Said(events') = Said(events) \cup {x}
    BY <1>3, <2>3, <2>4, SaidJoined
  <2>6. Ordered(events')
    BY <1>3, <2>2, <2>3, <2>4, JoinedOrder
  <2>7. DoneLast(events')
    <3>1. \A y \in Said(events) : y.type # "CommandCompleted"
      BY <1>2, <2>3 DEF SaidGeneric
    <3> QED BY <1>3, <2>3, <2>4, <3>1, JoinedDone
  <2>8. SaidGeneric(events)'
    BY <1>1, <1>2, <2>2, <2>5, <2>7 DEF SaidGeneric
  <2>9. /\ Types' /\ Bounds' /\ MarkerInv' /\ SessionIsCurrent'
        /\ session' = NoSession /\ cursor' = Zero /\ base' = Zero
    BY <1>1, <1>3, <1>4, <2>5, GenericRest
  <2>10. GenericInv'
    BY <1>1, <1>2, <2>8, <2>9, GenericBack
  <2>11. CutsAreFinal'
    <3>1. /\ \A y \in Said(events) : y.part # "whole" /\ child.some => child.seen
          /\ \A s \in Outputs : torn[s] # {} /\ child.some => child.seen
      BY <1>3, SaidInv DEF AdapterInv
    <3>2. \A y \in Said(events') : y.part # "whole" /\ child.some => child.seen
      BY <2>2, <2>5, <3>1
    <3> QED BY <1>1, <3>1, <3>2 DEF CutsAreFinal, Said
  <2> QED BY <1>4, <2>6, <2>9, <2>10, <2>11 DEF AdapterInv
<1> QED BY <1>5, <1>6

\* Events are put together in any grouping.
LEMMA EventsAssociate ==
    ASSUME NEW s \in Seq(Event), NEW t \in Seq(Event), NEW u \in Seq(Event)
    PROVE  (s \o t) \o u = s \o (t \o u)
BY ConcatAssociative

\* The events of a generic drain: the lines, the word on stderr, the completion.
Stderr(hasExited, loud) == IF hasExited /\ loud THEN ExitEvent("ErrorOccurred") ELSE <<>>
Done(hasExited) == IF hasExited THEN ExitEvent("CommandCompleted") ELSE <<>>
DrainSays(from, to, n, hasExited, loud) ==
    (LineEvents(from, to, n) \o Stderr(hasExited, loud)) \o Done(hasExited)

\* What they say.
DrainSaid(q, from, to, n, hasExited) ==
    /\ q \in Seq(Event) /\ Ordered(q) /\ DoneLast(q)
    /\ \A x \in Said(q) :
          /\ x.at \in Outputs => x.at = "out" /\ from < x.no /\ x.no <= to
          /\ x.type = "CommandCompleted" => hasExited
          /\ x.part # "whole" => x.at = "out" /\ 2 * x.no > n
    /\ \A i \in (from + 1)..to : \E x \in Said(q) : x.at = "out" /\ x.no = i

\* The drain adds them one after the other.
Regroups(e, from, to, n, hasExited, loud) ==
    ((e \o LineEvents(from, to, n)) \o Stderr(hasExited, loud)) \o Done(hasExited)
        = e \o DrainSays(from, to, n, hasExited, loud)

\* Whatever the exit and stderr, a drain says no more than this.
LEMMA DrainEvents ==
    ASSUME NEW from \in Nat, NEW to \in Nat, from <= to, NEW n \in Nat,
           NEW hasExited \in BOOLEAN, NEW loud \in BOOLEAN, NEW e \in Seq(Event)
    PROVE  /\ DrainSaid(DrainSays(from, to, n, hasExited, loud), from, to, n, hasExited)
           /\ Regroups(e, from, to, n, hasExited, loud)
<1> DEFINE a == LineEvents(from, to, n)
           b == Stderr(hasExited, loud)
           c == Done(hasExited)
           x1 == [at |-> "exit", no |-> 0, type |-> "ErrorOccurred", part |-> "whole"]
           x2 == [at |-> "exit", no |-> 0, type |-> "CommandCompleted", part |-> "whole"]
<1>0. LinesSaid(a, from, to, n)
  BY LineFacts
<1>1. /\ a \in Seq(Event) /\ Ordered(a)
      /\ \A x \in Said(a) :
            /\ x.at = "out" /\ x.type = "Unspecified" /\ from < x.no /\ x.no <= to
            /\ x.part # "whole" => 2 * x.no > n
      /\ \A i \in (from + 1)..to : \E x \in Said(a) : x.at = "out" /\ x.no = i
  BY <1>0 DEF LinesSaid
<1>2. /\ x1 \in Event /\ x1.at = "exit" /\ x1.type = "ErrorOccurred"
      /\ x1.part = "whole" /\ x2.part = "whole"
      /\ x2 \in Event /\ x2.at = "exit" /\ x2.type = "CommandCompleted"
      /\ "exit" \notin Outputs
  BY DEF Event, EventType, Outputs, Part
<1>3. ExitEvent("ErrorOccurred") = <<x1>> /\ ExitEvent("CommandCompleted") = <<x2>>
  BY DEF ExitEvent
<1> HIDE DEF a, x1, x2
<1>4. /\ b \in Seq(Event) /\ Ordered(b) /\ Said(b) \subseteq {x1}
  <2>1. CASE hasExited /\ loud
    <3>1. b = <<x1>>
      BY <1>3, <2>1 DEF Stderr
    <3> QED BY <1>2, <3>1, OneEvent
  <2>2. CASE ~(hasExited /\ loud)
    <3>1. b = <<>>
      BY <2>2 DEF Stderr
    <3> QED BY <3>1, NoEvent
  <2> QED BY <2>1, <2>2
<1>5. /\ c \in Seq(Event) /\ Ordered(c) /\ DoneLast(c) /\ Said(c) \subseteq {x2}
      /\ ~hasExited => Said(c) = {}
  <2>1. CASE hasExited
    <3>1. c = <<x2>>
      BY <1>3, <2>1 DEF Done
    <3> QED BY <1>2, <2>1, <3>1, OneEvent
  <2>2. CASE ~hasExited
    <3>1. c = <<>>
      BY <2>2 DEF Done
    <3> QED BY <3>1, NoEvent
  <2> QED BY <2>1, <2>2
<1> HIDE DEF b, c
<1>6. a \o b \in Seq(Event) /\ Said(a \o b) = Said(a) \cup Said(b)
  BY <1>1, <1>4, SaidJoined
<1>7. /\ (a \o b) \o c \in Seq(Event)
      /\ Said((a \o b) \o c) = Said(a) \cup Said(b) \cup Said(c)
  BY <1>5, <1>6, SaidJoined
<1>8. Ordered(a \o b)
  <2>1. \A j \in DOMAIN b : b[j] \in Said(b)
    BY DEF Said
  <2>2. \A j \in DOMAIN b : b[j].at \notin Outputs
    BY <1>2, <1>4, <2>1
  <2> QED BY <1>1, <1>4, <2>2, JoinedOrder
<1>9. Ordered((a \o b) \o c)
  <2>1. \A j \in DOMAIN c : c[j] \in Said(c)
    BY DEF Said
  <2>2. \A j \in DOMAIN c : c[j].at \notin Outputs
    BY <1>2, <1>5, <2>1
  <2> QED BY <1>5, <1>6, <1>8, <2>2, JoinedOrder
<1>10. DoneLast((a \o b) \o c)
  <2>1. \A x \in Said(a \o b) : x.type # "CommandCompleted"
    BY <1>1, <1>2, <1>4, <1>6
  <2> QED BY <1>5, <1>6, <2>1, JoinedDone
<1>11. ASSUME NEW x \in Said((a \o b) \o c)
       PROVE  /\ x.at \in Outputs => x.at = "out" /\ from < x.no /\ x.no <= to
              /\ x.type = "CommandCompleted" => hasExited
              /\ x.part # "whole" => x.at = "out" /\ 2 * x.no > n
  <2>1. CASE x \in Said(a)
    BY <1>1, <2>1
  <2>2. CASE x = x1
    BY <1>2, <2>2
  <2>3. CASE x = x2 /\ hasExited
    BY <1>2, <2>3
  <2> QED BY <1>4, <1>5, <1>7, <2>1, <2>2, <2>3
<1>12. \A i \in (from + 1)..to : \E x \in Said((a \o b) \o c) : x.at = "out" /\ x.no = i
  BY <1>1, <1>7
<1>13. ((e \o a) \o b) \o c = e \o ((a \o b) \o c)
  <2>1. e \o a \in Seq(Event)
    BY <1>1, SaidJoined
  <2>2. ((e \o a) \o b) \o c = (e \o a) \o (b \o c)
    BY <1>4, <1>5, <2>1, EventsAssociate
  <2>3. b \o c \in Seq(Event)
    BY <1>4, <1>5, SaidJoined
  <2>4. (e \o a) \o (b \o c) = e \o (a \o (b \o c))
    BY <1>1, <2>3, EventsAssociate
  <2>5. a \o (b \o c) = (a \o b) \o c
    BY <1>1, <1>4, <1>5, EventsAssociate
  <2> QED BY <2>2, <2>4, <2>5
<1>14. DrainSaid((a \o b) \o c, from, to, n, hasExited)
  BY <1>7, <1>9, <1>10, <1>11, <1>12 DEF DrainSaid
<1>15. Regroups(e, from, to, n, hasExited, loud)
  BY <1>13 DEF a, b, c, DrainSays, Regroups
<1> QED BY <1>14, <1>15 DEF a, b, c, DrainSays

\* The arithmetic of a generic drain: what it may report lies between what was
\* reported and the lines of the child; without the exit no half line is in it.
UpToSays(to, hasExited) ==
    /\ to \in 0..MaxLines[provider]["out"] /\ emitted <= to /\ emitted \in Nat /\ to \in Nat
    /\ Min({emitted, to}) = emitted
    /\ ~hasExited => 2 * to <= busy.out /\ 2 * to <= sunk["out"]

\* EmitUpTo keeps to it.
LEMMA UpToFacts ==
    ASSUME AdapterInv, provider = "generic", busy.op = "generic", NEW hasExited \in BOOLEAN
    PROVE  UpToSays(EmitUpTo(busy.out, hasExited), hasExited)
<1> DEFINE to == EmitUpTo(busy.out, hasExited)
           len == Len(written["out"])
           top == MaxLines[provider]["out"]
           out == busy.out
<1>1. /\ emitted \in 0..top /\ top \in Nat /\ len \in Nat /\ out \in Nat
      /\ sunk["out"] \in Nat
  <2>1. MaxLines[provider] \in [Outputs -> Nat] /\ "out" \in Outputs
    BY AdaptersAssumption DEF AdapterInv, Types, AdapterTypes, Outputs
  <2> QED BY <2>1 DEF AdapterInv, Types, ChildTypes, AdapterTypes
<1>2. len <= top /\ sunk["out"] <= Pieces("out")
  BY DEF AdapterInv, Bounds, Outputs
<1>3. Pieces("out") \in Int /\ Pieces("out") <= 2 * len
  <2>1. Pieces("out") = 2 * len - (IF open["out"] THEN 1 ELSE 0)
    BY DEF Pieces
  <2> HIDE DEF len
  <2>2. CASE open["out"]
    BY <1>1, <2>1, <2>2
  <2>3. CASE ~open["out"]
    BY <1>1, <2>1, <2>3
  <2> QED BY <2>2, <2>3
<1>4. out <= sunk["out"] /\ 2 * emitted <= out
  BY DEF AdapterInv, BusyInv
<1>5. to = IF hasExited THEN (out + 1) \div 2 ELSE out \div 2
  BY DEF EmitUpTo
<1> HIDE DEF to, len, top, out
<1>6. out <= 2 * top
  BY <1>1, <1>2, <1>3, <1>4
<1>7. to \in Nat /\ to <= top /\ emitted <= to /\ (~hasExited => 2 * to <= out)
  BY <1>1, <1>4, <1>5, <1>6
<1>8. Min({emitted, to}) = emitted
  BY <1>1, <1>7, MinIs
<1>9. to \in 0..top
  BY <1>1, <1>7
<1>10. ~hasExited => 2 * to <= out /\ 2 * to <= sunk["out"]
  BY <1>1, <1>4, <1>7
<1>11. emitted \in Nat
  BY <1>1
<1> QED BY <1>7, <1>8, <1>9, <1>10, <1>11 DEF to, top, out, UpToSays

\* The second half of a generic drain: the lines, and with the exit the end.
LEMMA GenericDrainStep ==
    ASSUME AdapterInv, GenericDrain
    PROVE  AdapterInv'
<1> DEFINE hasExited == busy.finished \/ Polled
           loud == busy.err > 0
           to == EmitUpTo(busy.out, hasExited)
           q == DrainSays(emitted, to, busy.out, hasExited, loud)
<1>1. /\ provider = "generic" /\ busy.op = "generic"
      /\ emitted' = to /\ completed' = hasExited
      /\ child' = [child EXCEPT !.seen = hasExited] /\ busy' = Idle
      /\ UNCHANGED <<provider, run, alive, tree, code, written, open, sunk, markVars, started,
                     torn>>
  BY Zenon DEF GenericDrain, Completed
<1>2. /\ child \in [some: BOOLEAN, seen: BOOLEAN] /\ alive \in BOOLEAN /\ events \in Seq(Event)
      /\ busy \in [op: {"idle", "marker", "generic"}, finished: BOOLEAN, out: Nat, err: Nat]
      /\ Ordered(events) /\ CutsAreFinal /\ started \in BOOLEAN
  BY DEF AdapterInv, Types, ChildTypes, AdapterTypes
<1>3. child.some /\ ~completed /\ ~started
  BY <1>1 DEF AdapterInv, BusyInv
<1>4. hasExited \in BOOLEAN /\ loud \in BOOLEAN
  BY Z3
<1>5. child.seen => hasExited
  BY <1>3, Zenon DEF Polled
<1>6. events' = ((events \o LineEvents(Min({emitted, to}), to, busy.out)) \o Stderr(hasExited, loud))
                    \o Done(hasExited)
  BY Zenon DEF GenericDrain, Stderr, Done
<1>7. /\ session = NoSession /\ cursor = Zero /\ base = Zero
      /\ SaidGeneric(events)
  BY <1>1, GenericSaid
<1>8. UpToSays(to, hasExited)
  BY <1>1, <1>4, UpToFacts
<1> HIDE DEF hasExited, loud, to
<1>9. /\ to \in 0..MaxLines[provider]["out"] /\ emitted <= to /\ emitted \in Nat /\ to \in Nat
      /\ Min({emitted, to}) = emitted /\ busy.out \in Nat
      /\ ~hasExited => 2 * to <= busy.out /\ 2 * to <= sunk["out"]
  BY <1>2, <1>8 DEF UpToSays
<1>10. /\ DrainSaid(q, emitted, to, busy.out, hasExited)
       /\ events' = events \o q
  <2>1. /\ DrainSaid(q, emitted, to, busy.out, hasExited)
        /\ ((events \o LineEvents(emitted, to, busy.out)) \o Stderr(hasExited, loud)) \o Done(hasExited)
               = events \o q
    <3> DEFINE n == busy.out
    <3>1. n \in Nat
      BY <1>9
    <3> HIDE DEF n
    <3>2. emitted \in Nat /\ to \in Nat /\ emitted <= to /\ events \in Seq(Event)
      BY <1>2, <1>9
    <3>3. /\ DrainSaid(DrainSays(emitted, to, n, hasExited, loud), emitted, to, n, hasExited)
          /\ Regroups(events, emitted, to, n, hasExited, loud)
      BY <1>4, <3>1, <3>2, DrainEvents
    <3> QED BY <3>3 DEF n, Regroups
  <2>2. events' = ((events \o LineEvents(emitted, to, busy.out)) \o Stderr(hasExited, loud))
                      \o Done(hasExited)
    BY <1>6, <1>9
  <2> QED BY <2>1, <2>2
<1> HIDE DEF q
<1>11. /\ q \in Seq(Event) /\ Ordered(q) /\ DoneLast(q)
       /\ \A x \in Said(q) :
             /\ x.at \in Outputs => x.at = "out" /\ emitted < x.no /\ x.no <= to
             /\ x.type = "CommandCompleted" => hasExited
             /\ x.part # "whole" => x.at = "out" /\ 2 * x.no > busy.out
       /\ \A i \in (emitted + 1)..to : \E x \in Said(q) : x.at = "out" /\ x.no = i
  BY <1>10 DEF DrainSaid
<1>12. /\ \A x \in Said(events) : /\ x.at \in Outputs => x.at = "out" /\ x.no <= emitted
                                  /\ x.type # "CommandCompleted"
       /\ \A i \in 1..emitted : \E x \in Said(events) : x.at = "out" /\ x.no = i
  BY <1>3, <1>7 DEF SaidGeneric
<1>13. events' \in Seq(Event) /\ Said(events') = Said(events) \cup Said(q)
  BY <1>2, <1>10, <1>11, SaidJoined
<1>14. /\ child' \in [some: BOOLEAN, seen: BOOLEAN] /\ child'.some = child.some
       /\ child'.seen = hasExited
  BY <1>1, <1>2, <1>4
<1>15. Said(events) \subseteq Event /\ Said(q) \subseteq Event
  BY <1>2, <1>11, SaidType
<1>16. Ordered(events')
  <2>1. \A i \in DOMAIN events : events[i] \in Said(events)
    BY DEF Said
  <2>2. \A j \in DOMAIN q : q[j] \in Said(q)
    BY DEF Said
  <2>3. ASSUME NEW i \in DOMAIN events, NEW j \in DOMAIN q,
               events[i].at = q[j].at, events[i].at \in Outputs
        PROVE  Before(events[i], q[j])
    <3>1. events[i].no <= emitted /\ emitted < q[j].no
      BY <1>11, <1>12, <2>1, <2>2, <2>3
    <3>2. events[i].no \in Nat /\ q[j].no \in Nat
      BY <1>15, <2>1, <2>2 DEF Event
    <3>3. events[i].no < q[j].no
      BY <1>9, <3>1, <3>2
    <3> QED BY <3>3 DEF Before
  <2> QED BY <1>2, <1>10, <1>11, <2>3, JoinedOrder
<1>17. DoneLast(events')
  BY <1>2, <1>10, <1>11, <1>12, JoinedDone
<1>18. SaidGeneric(events)'
  <2>1. ASSUME NEW x \in Said(events')
        PROVE  /\ x.at \in Outputs => x.at = "out" /\ x.no <= to
               /\ x.type = "CommandCompleted" => hasExited
    <3>1. CASE x \in Said(events)
      <4>1. x.no \in Nat
        BY <1>15, <3>1 DEF Event
      <4> QED BY <1>9, <1>12, <3>1, <4>1
    <3>2. CASE x \in Said(q)
      BY <1>11, <3>2
    <3> QED BY <1>13, <3>1, <3>2
  <2>2. ASSUME NEW i \in 1..to
        PROVE  \E x \in Said(events') : x.at = "out" /\ x.no = i
    <3>1. i \in 1..emitted \/ i \in (emitted + 1)..to
      BY <1>9
    <3> QED BY <1>11, <1>12, <1>13, <3>1
  <2> QED BY <1>1, <1>17, <2>1, <2>2 DEF SaidGeneric
<1>19. CutsAreFinal'
  <2>1. ASSUME NEW x \in Said(events'), x.part # "whole" PROVE hasExited
    <3>1. CASE x \in Said(events)
      <4>1. child.seen
        BY <1>2, <1>3, <2>1, <3>1, SaidInv
      <4> QED BY <1>5, <4>1
    <3>2. CASE x \in Said(q)
      <4>1. x.no \in Nat
        BY <1>15, <3>2 DEF Event
      <4>2. x.no <= to /\ 2 * x.no > busy.out
        BY <1>11, <2>1, <3>2 DEF Outputs
      <4> QED BY <1>9, <4>1, <4>2
    <3> QED BY <1>13, <3>1, <3>2
  <2>2. \A s \in Outputs : torn'[s] # {} => hasExited
    BY <1>1, <1>2, <1>3, <1>5 DEF CutsAreFinal
  <2> QED BY <1>14, <2>1, <2>2, Zenon DEF CutsAreFinal, Said
<1>20. /\ busy' \in [op: {"idle", "marker", "generic"}, finished: BOOLEAN, out: Nat, err: Nat]
       /\ BusyInv'
  BY <1>1 DEF Idle, BusyInv
<1>21. completed' \in BOOLEAN /\ started' \in BOOLEAN /\ emitted' \in 0..MaxLines[provider]["out"]
  BY <1>1, <1>2, <1>4, <1>9
<1>22. /\ Types' /\ Bounds' /\ MarkerInv' /\ SessionIsCurrent'
       /\ session' = NoSession /\ cursor' = Zero /\ base' = Zero
  BY <1>1, <1>13, <1>14, <1>20, <1>21, GenericRest
<1>23. /\ completed' => ~started'
       /\ ~completed' => 2 * emitted' <= sunk'["out"]
  BY <1>1, <1>3, <1>9
<1>24. GenericInv'
  BY <1>1, <1>18, <1>22, <1>23, GenericBack
<1> QED BY <1>16, <1>19, <1>20, <1>22, <1>24 DEF AdapterInv

-----------------------------------------------------------------------------
(* The invariant.                                                           *)

\* Without a child nothing is written, read or reported.
LEMMA AdapterStarts == AdapterInit => AdapterInv
<1> SUFFICES ASSUME AdapterInit PROVE AdapterInv
  OBVIOUS
<1>1. /\ provider \in Providers /\ run = 0 /\ child = NoChild /\ code = 0
      /\ written = [s \in Outputs |-> <<>>] /\ open = [s \in Outputs |-> FALSE] /\ sunk = Zero
      /\ cursor = Zero /\ base = Zero /\ session = NoSession
      /\ emitted = 0 /\ busy = Idle /\ events = <<>> /\ torn = [s \in Outputs |-> {}]
  BY DEF AdapterInit
<1>2. alive \in BOOLEAN /\ tree \in BOOLEAN /\ stopping \in BOOLEAN /\ terminal \in BOOLEAN
      /\ started \in BOOLEAN /\ completed \in BOOLEAN /\ ~completed
  BY Zenon DEF AdapterInit
<1>3. /\ MaxRuns \in Nat /\ SinkPieces \in Nat /\ MaxLines[provider] \in [Outputs -> Nat]
      /\ "out" \in Outputs
  BY <1>1, AdaptersAssumption DEF Outputs
<1>4. /\ Zero \in [Outputs -> Nat] /\ \A s \in Outputs : Zero[s] = 0
  BY DEF Zero
<1>5. \A s \in Outputs : Len(written[s]) = 0 /\ DOMAIN written[s] = {} /\ ~open[s]
  BY <1>1
<1>6. /\ events \in Seq(Event) /\ DOMAIN events = {}
      /\ torn \in [Outputs -> SUBSET Nat] /\ \A s \in Outputs : torn[s] = {}
  BY <1>1
<1>7. ChildTypes
  <2>1. child \in [some: BOOLEAN, seen: BOOLEAN]
    BY <1>1 DEF NoChild
  <2>2. written \in [Outputs -> Seq(Lines)] /\ open \in [Outputs -> BOOLEAN]
    BY <1>1
  <2>3. run \in 0..MaxRuns /\ code \in 0..1
    BY <1>1, <1>3
  <2> QED BY <1>1, <1>2, <1>4, <2>1, <2>2, <2>3 DEF ChildTypes
<1>8. AdapterTypes
  <2>1. session \in [run: 0..MaxRuns, at: Outputs \cup {"none"}, no: Nat]
    BY <1>1, <1>3 DEF NoSession
  <2>2. busy \in [op: {"idle", "marker", "generic"}, finished: BOOLEAN, out: Nat, err: Nat]
    BY <1>1 DEF Idle
  <2>3. emitted \in 0..MaxLines[provider]["out"]
    BY <1>1, <1>3
  <2> QED BY <1>1, <1>2, <1>4, <1>6, <2>1, <2>2, <2>3 DEF AdapterTypes
<1>9. Bounds
  <2> SUFFICES ASSUME NEW s \in Outputs
               PROVE  /\ Len(written[s]) <= MaxLines[provider][s]
                      /\ sunk[s] <= SinkPieces /\ sunk[s] <= Pieces(s)
                      /\ base[s] <= cursor[s] /\ cursor[s] <= sunk[s]
    BY DEF Bounds
  <2>1. Pieces(s) = 0
    BY <1>5 DEF Pieces
  <2>2. MaxLines[provider][s] \in Nat
    BY <1>3
  <2> QED BY <1>1, <1>3, <1>4, <1>5, <2>1, <2>2
<1>10. BusyInv
  BY <1>1 DEF BusyInv, Idle
<1>11. Ordered(events) /\ CutsAreFinal
  BY <1>6 DEF Ordered, CutsAreFinal
<1>12. MarkerInv
  <2>1. \A s \in Outputs : cursor[s] <= base[s] + 1
    BY <1>1, <1>4
  <2>2. \A s \in Outputs : \A i \in Nat : 2 * i = base[s] + 1 => i \in torn[s]
    BY <1>1, <1>4
  <2> QED BY <1>5, <1>6, <2>1, <2>2 DEF MarkerInv
<1>13. GenericInv
  <2>1. 1..emitted = {} /\ 2 * emitted <= sunk["out"]
    BY <1>1, <1>3, <1>4
  <2> QED BY <1>1, <1>2, <1>6, <2>1 DEF GenericInv
<1>14. SessionIsCurrent
  BY <1>1 DEF SessionIsCurrent
<1> QED BY <1>7, <1>8, <1>9, <1>10, <1>11, <1>12, <1>13, <1>14 DEF AdapterInv, Types

\* The spawns of the marker adapters are one code.
LEMMA MarkerSpawnStep ==
    ASSUME AdapterInv, provider \in Marker, Reset, SpawnAfterReset
    PROVE  AdapterInv'
<1>1. Ready /\ (Replaced \/ Removed) /\ UNCHANGED <<provider, busy>> /\ UNCHANGED genericVars
  BY DEF SpawnAfterReset
<1> QED BY <1>1, FreshStep

\* Every step keeps the invariant: the spawns, stops, drains and snapshots of the
\* four adapters, and the child and its pumps.
LEMMA Step ==
    ASSUME AdapterInv, [AdapterNext]_adapterVars
    PROVE  AdapterInv'
<1>1. CASE Spawn
  <2>1. CASE GenericSpawn
    <3>1. /\ provider = "generic" /\ Ready /\ Replaced
          /\ started' = TRUE /\ emitted' = 0 /\ completed' = FALSE
          /\ UNCHANGED <<provider, busy>> /\ UNCHANGED markVars
      BY <2>1 DEF GenericSpawn
    <3> QED BY <3>1, FreshStep
  <2>2. CASE ClaudeSpawn \/ CodexSpawn \/ OpencodeSpawn
    <3>1. provider \in Marker /\ Reset /\ SpawnAfterReset
      BY <2>2 DEF ClaudeSpawn, CodexSpawn, OpencodeSpawn, CodexReset, OpencodeReset, Marker
    <3> QED BY <3>1, MarkerSpawnStep
  <2> QED BY <1>1, <2>1, <2>2 DEF Spawn
<1>2. CASE Stop
  <2>1. MarkerStop \/ GenericStop
    BY <1>2 DEF Stop, ClaudeStop, CodexStop, OpencodeStop
  <2> QED BY <2>1, StopStep
<1>3. CASE Drain
  <2>1. \/ provider \in Marker /\ MarkerDrainPoll
        \/ MarkerDrain \/ GenericDrainRead \/ GenericDrain
    BY <1>3 DEF Drain, ClaudeDrainPoll, CodexDrainPoll, OpencodeDrainPoll, ClaudeDrain, CodexDrain,
                OpencodeDrain, Marker
  <2> QED BY <2>1, PollStep, MarkerDrainStep, GenericReadStep, GenericDrainStep
<1>4. CASE Snapshot
  <2>1. \E p \in Known : Poll(p)
    BY <1>4 DEF Snapshot, ClaudeSnapshot, CodexSnapshot, OpencodeSnapshot, GenericSnapshot, Known
  <2> QED BY <2>1, PollStep
<1>5. CASE \/ \E s \in Outputs : (\E l \in Lines : StartLine(s, l)) \/ EndLine(s) \/ Deliver(s)
           \/ \E c \in 0..1 : Exit(c)
           \/ TreeExits
  BY <1>5, ChildStep
<1>6. CASE UNCHANGED adapterVars
  <2>1. /\ UNCHANGED <<provider, run, child, alive, tree, code, written, open, sunk>>
        /\ UNCHANGED <<cursor, base, session, stopping, terminal, started, emitted, completed>>
        /\ UNCHANGED <<busy, events, torn>>
    BY <1>6 DEF adapterVars, childVars, markVars, genericVars, told
  <2>2. Types'
    <3>1. ChildTypes'
      BY <2>1 DEF AdapterInv, Types, ChildTypes
    <3>2. AdapterTypes'
      BY <2>1 DEF AdapterInv, Types, AdapterTypes
    <3> QED BY <3>1, <3>2 DEF Types
  <2>3. Bounds' /\ BusyInv'
    BY <2>1 DEF AdapterInv, Bounds, Pieces, BusyInv
  <2>4. sunk["out"] <= sunk'["out"]
    BY <2>1 DEF AdapterInv, Types, ChildTypes, Outputs
  <2> QED BY <2>1, <2>2, <2>3, <2>4, Frame
<1> QED BY <1>1, <1>2, <1>3, <1>4, <1>5, <1>6 DEF AdapterNext

\* The invariant gives the properties.
LEMMA TypesHold == AdapterInv => AdapterTypeOK
<1> SUFFICES ASSUME AdapterInv PROVE AdapterTypeOK
  OBVIOUS
<1>1. ASSUME NEW s \in Outputs
      PROVE  /\ Len(written[s]) <= MaxLines[provider][s] /\ sunk[s] <= Min({SinkPieces, Pieces(s)})
             /\ base[s] <= cursor[s] /\ cursor[s] <= sunk[s]
  <2>1. /\ Len(written[s]) <= MaxLines[provider][s]
        /\ sunk[s] <= SinkPieces /\ sunk[s] <= Pieces(s)
        /\ base[s] <= cursor[s] /\ cursor[s] <= sunk[s]
    BY DEF AdapterInv, Bounds
  <2>2. SinkPieces \in Int
    BY AdaptersAssumption
  <2>3. Pieces(s) \in Int
    BY DEF AdapterInv, Types, ChildTypes, Pieces
  <2>4. Min({SinkPieces, Pieces(s)}) = IF SinkPieces <= Pieces(s) THEN SinkPieces ELSE Pieces(s)
    BY <2>2, <2>3, MinIs
  <2> QED BY <2>1, <2>4
<1>2. {sunk, cursor, base} \subseteq [Outputs -> Nat]
  BY DEF AdapterInv, Types, ChildTypes, AdapterTypes
<1> QED BY <1>1, <1>2 DEF AdapterInv, Types, ChildTypes, AdapterTypes, AdapterTypeOK

\* A whole line lies before the held back tail.
LEMMA LinesHold == AdapterInv => LinesReportedOnce
<1> SUFFICES ASSUME AdapterInv PROVE LinesReportedOnce
  OBVIOUS
<1>1. \A i, j \in DOMAIN events :
         i < j /\ events[i].at = events[j].at /\ events[i].at \in Outputs
             => Before(events[i], events[j])
  BY DEF AdapterInv, Ordered
<1>2. ASSUME provider \in Marker, NEW s \in Outputs, NEW i \in WholeLines(s) \ torn[s]
      PROVE  Settled(s, i)
  <2>1. i \in DOMAIN written[s] /\ 2 * i <= cursor[s] /\ i \in Nat
    BY DEF WholeLines, AdapterInv, Types, ChildTypes
  <2>2. cursor[s] <= base[s] + 1 /\ cursor[s] \in Nat /\ base[s] \in Nat
    BY <1>2 DEF AdapterInv, MarkerInv, Types, AdapterTypes
  <2>3. 2 * i # base[s] + 1
    BY <1>2, <2>1 DEF AdapterInv, MarkerInv
  <2>4. 2 * i <= base[s]
    BY <2>1, <2>2, <2>3
  <2> QED BY <1>2, <2>1, <2>4 DEF AdapterInv, MarkerInv
<1>3. ASSUME provider = "generic", NEW k \in DOMAIN events, events[k].at = "out",
             NEW i \in 1..events[k].no
      PROVE  Reported("out", i)
  <2>1. events[k].no \in Nat /\ emitted \in Nat
    <3>1. events \in Seq(Event) /\ emitted \in 0..MaxLines[provider]["out"]
      BY DEF AdapterInv, Types, AdapterTypes
    <3>2. events[k] \in Event
      BY <3>1
    <3> QED BY <3>1, <3>2 DEF Event
  <2>2. events[k].no <= emitted
    BY <1>3 DEF AdapterInv, GenericInv, Outputs
  <2>3. i \in 1..emitted
    BY <2>1, <2>2
  <2> QED BY <1>3, <2>3 DEF AdapterInv, GenericInv
<1>4. child.some /\ ~child.seen => /\ \A s \in Outputs : torn[s] = {}
                                   /\ \A k \in DOMAIN events : events[k].part = "whole"
  BY DEF AdapterInv, CutsAreFinal
<1> QED BY <1>1, <1>2, <1>3, <1>4 DEF LinesReportedOnce, Settled

\* A provider is a marker adapter or the generic one.
LEMMA ExitHolds == AdapterInv => ExitReportedOnce
<1> SUFFICES ASSUME AdapterInv PROVE ExitReportedOnce
  OBVIOUS
<1>1. provider \in Marker \/ provider = "generic"
  BY AdaptersAssumption DEF AdapterInv, Types, AdapterTypes, Known, Marker
<1>2. provider \in Marker =>
         \A i, j \in DOMAIN events : events[i].at = "exit" /\ events[j].at = "exit" => i = j
  BY DEF AdapterInv, MarkerInv
<1>3. provider = "generic" =>
         \A i \in DOMAIN events : events[i].type = "CommandCompleted" => i = Len(events)
  BY DEF AdapterInv, GenericInv
<1> QED BY <1>1, <1>2, <1>3 DEF ExitReportedOnce

\* The invariant holds throughout.
LEMMA Inductive == AdapterSpec => []AdapterInv
<1>1. AdapterInv /\ [AdapterNext]_adapterVars => AdapterInv'
  BY Step
<1> QED BY AdapterStarts, <1>1, PTL DEF AdapterSpec

\* Type correctness: what the adapter has read lies within what the sinks hold,
\* what they hold within the cap and within what the child wrote.
THEOREM AdapterTypeCorrect == AdapterSpec => []AdapterTypeOK
BY Inductive, TypesHold, PTL

\* However the pumps cut the output of a child into pieces, and however often it is
\* drained, no line and no part of one is reported twice or out of order, and a
\* line seen whole that no flush at the exit tore has the event of its verb, or
\* none; lines are torn only after the exit was seen; no generic line is skipped.
THEOREM LinesOnce == AdapterSpec => []LinesReportedOnce
BY Inductive, LinesHold, PTL

\* The end of a child is reported at most once, and nothing follows it for a
\* generic command.
THEOREM ExitOnceHolds == AdapterSpec => []ExitReportedOnce
BY Inductive, ExitHolds, PTL

\* The session pointer is of the child the adapter holds.
THEOREM SessionCurrent == AdapterSpec => []SessionIsCurrent
<1>1. AdapterInv => SessionIsCurrent
  BY DEF AdapterInv
<1> QED BY <1>1, Inductive, PTL
=============================================================================
