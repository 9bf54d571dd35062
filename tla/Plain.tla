-------------------------------- MODULE Plain --------------------------------
(***************************************************************************)
(* PlainChild of calcar-pty: one process with its stdout and stderr on     *)
(* pipes, in a kill-on-close job, with two pump threads filling capped     *)
(* sinks and a thread feeding stdin; and run_generic of calcar-connect,    *)
(* which runs one command through it and writes the tail file.  Bytes are  *)
(* counted, not named: a stream has one writer side and one pump, so what  *)
(* is kept of it is a prefix.  The child may start a grandchild at any     *)
(* time, also before spawn has put the child into the job.                 *)
(***************************************************************************)
EXTENDS Naturals, FiniteSets, FiniteSetsExt

CONSTANTS
    MaxBytes,      \* bound: bytes written to a stream
    MaxInput,      \* bound: bytes of PlainConfig::input
    Cap,           \* output_cap_bytes, clamped
    PipeCap,       \* buffer of an anonymous pipe
    Chunk,         \* PUMP_CHUNK_BYTES
    TailCap,       \* TAIL_FILE_BYTES
    Separator,     \* length of the line between stdout and stderr in a tail
    CharWidth,     \* longest encoding of a character
    Inherits       \* what a grandchild may be given of the three pipes

Streams == {"out", "err"}
Ends    == Streams \cup {"in"}
Threads == Ends
Procs   == {"child", "grandchild"}

ASSUME PlainAssumption ==
    /\ MaxBytes \in Nat /\ MaxInput \in Nat /\ Separator \in Nat
    /\ Cap \in Nat \ {0} /\ PipeCap \in Nat \ {0} /\ Chunk \in Nat \ {0}
    /\ TailCap \in Nat \ {0} /\ CharWidth \in Nat \ {0} /\ CharWidth <= TailCap
    /\ Inherits \subseteq SUBSET Ends

VARIABLES
    caller,   \* "server": run_generic; "client": any other user of PlainChild
    input,    \* bytes to feed; 0 is PlainConfig::input = None
    pc,       \* where the call on the PlainChild stands
    owned,    \* handles held by an OwnedHandle of spawn or Inner
    filed,    \* handles detached into a File
    closes,   \* history: [Handles -> number of CloseHandle calls]
    proc,     \* [Procs -> "none", "run" or "dead"]
    injob,    \* processes in the job
    holds,    \* [Procs -> pipe ends it has a handle to]
    thread,   \* [Threads -> "none", "run" or "done"]
    sent,     \* [Ends -> bytes put into the pipe]
    taken,    \* [Ends -> bytes read from it]
    kept,     \* [Streams -> length of CappedSink.buf]
    trunc,    \* [Streams -> CappedSink.truncated]
    exited,   \* Inner.exited: the exit was observed and cached
    tail      \* the tail file of run_generic's caller

vars == <<caller, input, pc, owned, filed, closes, proc, injob, holds, thread, sent, taken,
          kept, trunc, exited, tail>>

Handles == {"outR", "outW", "errR", "errW", "inR", "inW", "job", "process"}
Near    == [out |-> "outR", err |-> "errR", in |-> "inW"]   \* the agent's end
Far     == [out |-> "outW", err |-> "errW", in |-> "inR"]   \* the child's end
Opens   == [out |-> {"outR", "outW"}, err |-> {"errR", "errW"}, in |-> {"inR", "inW"},
            job |-> {"job"}]
After   == [out |-> "err", err |-> "in", in |-> "job", job |-> "create"]

Spawning == DOMAIN Opens \cup {"create", "assign", "feed", "pump_out", "pump_err"}
Ended    == {"failed", "joined", "dropped"}
PCs      == Spawning \cup {"up", "join", "poll", "collect", "drop", "release"} \cup Ended
NoTail   == [len |-> 0, text |-> 0, cut |-> FALSE, written |-> FALSE]

TypeOK ==
    /\ caller \in {"server", "client"} /\ input \in 0..MaxInput /\ pc \in PCs
    /\ owned \subseteq Handles /\ filed \subseteq Handles
    /\ closes \in [Handles -> 0..2]
    /\ proc \in [Procs -> {"none", "run", "dead"}] /\ injob \subseteq Procs
    /\ holds \in [Procs -> SUBSET Ends]
    /\ thread \in [Threads -> {"none", "run", "done"}]
    /\ sent \in [Ends -> 0..MaxBytes + MaxInput] /\ taken \in [Ends -> 0..MaxBytes + MaxInput]
    /\ \A s \in Streams : taken[s] <= sent[s] /\ sent[s] <= MaxBytes
    /\ kept \in [Streams -> 0..Cap] /\ trunc \in [Streams -> BOOLEAN]
    /\ exited \in BOOLEAN
    /\ tail \in [len: 0..TailCap, text: Nat, cut: BOOLEAN, written: BOOLEAN]

\* Every use of the connect server starts with stdin closed.
Init ==
    /\ caller \in {"server", "client"}
    /\ input \in IF caller = "server" THEN {0} ELSE {0, MaxInput}
    /\ pc = "out" /\ owned = {} /\ filed = {} /\ closes = [h \in Handles |-> 0]
    /\ proc = [p \in Procs |-> "none"] /\ injob = {} /\ holds = [p \in Procs |-> {}]
    /\ thread = [t \in Threads |-> "none"]
    /\ sent = [e \in Ends |-> 0] /\ taken = [e \in Ends |-> 0]
    /\ kept = [s \in Streams |-> 0] /\ trunc = [s \in Streams |-> FALSE]
    /\ exited = FALSE /\ tail = NoTail

Alive(p)   == proc[p] = "run"
Closing(H) == closes' = [h \in Handles |-> closes[h] + (IF h \in H THEN 1 ELSE 0)]
Killed(P)  == [p \in Procs |-> IF p \in P /\ Alive(p) THEN "dead" ELSE proc[p]]

\* TerminateJobObject, and the last handle of a kill-on-close job closing.
TerminateJob == proc' = Killed(injob)

\* A process outside the job still has an end of a pipe.
Escaped == \E p \in Procs \ injob : Alive(p) /\ holds[p] # {}

Busy(t) == thread[t] = "run"

\* Nobody is left at the other end of the pipe.
Hangup(e) == Far[e] \notin owned /\ \A p \in Procs : Alive(p) => e \notin holds[p]

procVars   == <<proc, injob, holds>>
streamVars == <<sent, taken, kept, trunc>>
setting    == <<caller, input>>

-----------------------------------------------------------------------------
(* PlainChild::spawn.                                                       *)

\* output_pipe twice, stdin_pipe when there is input, kill_on_close_job.
SpawnOpen ==
    /\ pc \in DOMAIN Opens
    /\ owned' = IF pc = "in" /\ input = 0 THEN owned ELSE owned \cup Opens[pc]
    /\ pc' = After[pc]
    /\ UNCHANGED <<setting, filed, closes, procVars, thread, streamVars, exited, tail>>

\* A call fails before there is a process: the owned handles close on return.
SpawnOpenFails ==
    /\ pc \in DOMAIN Opens \cup {"create"}
    /\ Closing(owned) /\ owned' = {}
    /\ pc' = "failed"
    /\ UNCHANGED <<setting, filed, procVars, thread, streamVars, exited, tail>>

\* CreateProcessW, not suspended; then the parent's copies of the child's
\* ends are closed.
CreateProcess ==
    /\ pc = "create"
    /\ proc' = [proc EXCEPT !["child"] = "run"]
    /\ holds' = [holds EXCEPT !["child"] = {e \in Ends : Far[e] \in owned}]
    /\ LET ends == {Far[e] : e \in Ends} \cap owned IN
       Closing(ends) /\ owned' = (owned \ ends) \cup {"process"}
    /\ pc' = "assign"
    /\ UNCHANGED <<setting, filed, injob, thread, streamVars, exited, tail>>

\* AssignProcessToJobObject covers the child and what it starts from here on.
AssignJob ==
    /\ pc = "assign"
    /\ injob' = IF Alive("child") THEN injob \cup {"child"} ELSE injob
    /\ pc' = "feed"
    /\ UNCHANGED <<setting, owned, filed, closes, proc, holds, thread, streamVars, exited, tail>>

\* Mutant: the job, which the child is not in, is terminated instead.
AssignJobFails_Job ==
    /\ pc = "assign"
    /\ TerminateJob
    /\ Closing(owned) /\ owned' = {}
    /\ pc' = "failed"
    /\ UNCHANGED <<setting, filed, injob, holds, thread, streamVars, exited, tail>>

\* The process is not in the job, so it is terminated by itself.
AssignJobFails ==
    /\ pc = "assign"
    /\ proc' = Killed({"child"})
    /\ Closing(owned) /\ owned' = {}
    /\ pc' = "failed"
    /\ UNCHANGED <<setting, filed, injob, holds, thread, streamVars, exited, tail>>

\* The thread a spawning step starts, the handles detached into Files before
\* it, and the step that follows.
Starts   == [feed |-> "in", pump_out |-> "out", pump_err |-> "err"]
Then     == [feed |-> "pump_out", pump_out |-> "pump_err", pump_err |-> "up"]
Detached == IF pc = "feed" THEN {"inW"} \cap owned
            ELSE IF pc = "pump_out" THEN {"outR", "errR"} ELSE {}

\* Mutant: the handle given to the thread keeps its owner.
StartThread_NoDetach ==
    /\ pc \in DOMAIN Starts
    /\ filed' = filed \cup Detached
    /\ thread' = IF Near[Starts[pc]] \in filed' THEN [thread EXCEPT ![Starts[pc]] = "run"]
                 ELSE thread
    /\ pc' = Then[pc]
    /\ UNCHANGED <<setting, owned, closes, procVars, streamVars, exited, tail>>

\* The stdin writer, if there is input, then the two pumps.
StartThread ==
    /\ pc \in DOMAIN Starts
    /\ owned' = owned \ Detached /\ filed' = filed \cup Detached
    /\ thread' = IF Near[Starts[pc]] \in filed' THEN [thread EXCEPT ![Starts[pc]] = "run"]
                 ELSE thread
    /\ pc' = Then[pc]
    /\ UNCHANGED <<setting, closes, procVars, streamVars, exited, tail>>

\* Files of spawn's frame, those of threads already running excepted.
Unstarted == {h \in filed \cup Detached : \A t \in Threads : Near[t] = h => thread[t] = "none"}

\* A thread does not start: the tree is terminated, the closure drops its
\* File, the frame drops the rest.  Threads already running are detached.
StartThreadFails ==
    /\ pc \in DOMAIN Starts
    /\ pc = "feed" => input > 0
    /\ TerminateJob
    /\ Closing(Unstarted \cup (owned \ Detached))
    /\ owned' = {} /\ filed' = (filed \cup Detached) \ Unstarted
    /\ pc' = "failed"
    /\ UNCHANGED <<setting, injob, holds, thread, streamVars, exited, tail>>

-----------------------------------------------------------------------------
(* The threads.                                                             *)

\* CappedSink::push: keep what fits, drop the rest and say so.
Pushed(s, n) ==
    LET keep == Min({Cap - kept[s], n}) IN
    [kept |-> kept[s] + keep, trunc |-> trunc[s] \/ keep < n]

\* pump_stream reads up to a chunk of what is there.
PumpRead(s) ==
    /\ Busy(s) /\ taken[s] < sent[s]
    /\ LET n == Min({Chunk, sent[s] - taken[s]}) IN
       /\ taken' = [taken EXCEPT ![s] = @ + n]
       /\ kept' = [kept EXCEPT ![s] = Pushed(s, n).kept]
       /\ trunc' = [trunc EXCEPT ![s] = Pushed(s, n).trunc]
    /\ UNCHANGED <<setting, pc, owned, filed, closes, procVars, thread, sent, exited, tail>>

ThreadEnds(t) ==
    /\ thread' = [thread EXCEPT ![t] = "done"]
    /\ Closing({Near[t]}) /\ filed' = filed \ {Near[t]}
    /\ UNCHANGED <<setting, pc, owned, procVars, streamVars, exited, tail>>

\* End of file: the pipe is empty and every write end is closed.
PumpEnds(s) ==
    /\ Busy(s) /\ taken[s] = sent[s] /\ Hangup(s)
    /\ ThreadEnds(s)

\* write_stdin blocks while the pipe is full.
WriteStdin ==
    /\ Busy("in") /\ sent["in"] < input
    /\ sent["in"] - taken["in"] < PipeCap /\ ~Hangup("in")
    /\ sent' = [sent EXCEPT !["in"] = @ + 1]
    /\ UNCHANGED <<setting, pc, owned, filed, closes, procVars, thread, taken, kept, trunc,
                   exited, tail>>

\* All written, or the pipe is broken.
WriterEnds ==
    /\ Busy("in") /\ (sent["in"] = input \/ Hangup("in"))
    /\ ThreadEnds("in")

-----------------------------------------------------------------------------
(* The processes.                                                           *)

\* Started before or after the child is in the job, with some of its pipes.
ForkGrandchild ==
    /\ Alive("child") /\ proc["grandchild"] = "none"
    /\ proc' = [proc EXCEPT !["grandchild"] = "run"]
    /\ injob' = IF "child" \in injob THEN injob \cup {"grandchild"} ELSE injob
    /\ \E H \in Inherits :
          holds' = [holds EXCEPT !["grandchild"] = H \cap holds["child"]]
    /\ UNCHANGED <<setting, pc, owned, filed, closes, thread, streamVars, exited, tail>>

ProcWrites(p, s) ==
    /\ Alive(p) /\ s \in holds[p]
    /\ sent[s] < MaxBytes /\ sent[s] - taken[s] < PipeCap
    /\ sent' = [sent EXCEPT ![s] = @ + 1]
    /\ UNCHANGED <<setting, pc, owned, filed, closes, procVars, thread, taken, kept, trunc,
                   exited, tail>>

ProcReads(p) ==
    /\ Alive(p) /\ "in" \in holds[p] /\ taken["in"] < sent["in"]
    /\ taken' = [taken EXCEPT !["in"] = @ + 1]
    /\ UNCHANGED <<setting, pc, owned, filed, closes, procVars, thread, sent, kept, trunc,
                   exited, tail>>

ProcExits(p) ==
    /\ Alive(p)
    /\ proc' = [proc EXCEPT ![p] = "dead"]
    /\ UNCHANGED <<setting, pc, owned, filed, closes, injob, holds, thread, streamVars, exited,
                   tail>>

-----------------------------------------------------------------------------
(* Calls on a PlainChild.                                                   *)

calls == <<setting, owned, filed, closes, injob, holds, thread, streamVars, tail>>

Kill == pc = "up" /\ caller = "client" /\ TerminateJob /\ UNCHANGED <<calls, pc, exited>>

\* wait: the exit is cached, a passed deadline changes nothing.
WaitExited ==
    /\ pc = "up" /\ caller = "client" /\ proc["child"] = "dead"
    /\ exited' = TRUE
    /\ UNCHANGED <<calls, pc, proc>>

Join == pc = "up" /\ caller = "client" /\ pc' = "join" /\ UNCHANGED <<calls, proc, exited>>

DropChild == pc = "up" /\ caller = "client" /\ pc' = "drop" /\ UNCHANGED <<calls, proc, exited>>

\* run_generic: the command ended within the timeout and is joined.
RunGenericDone ==
    /\ pc = "up" /\ caller = "server" /\ proc["child"] = "dead"
    /\ exited' = TRUE /\ pc' = "join"
    /\ UNCHANGED <<calls, proc>>

\* The timeout passed: kill, then drop.
RunGenericTimeout ==
    /\ pc = "up" /\ caller = "server" /\ Alive("child")
    /\ TerminateJob /\ pc' = "drop"
    /\ UNCHANGED <<calls, exited>>

\* A wait that fails returns through the drop of the PlainChild, in run_generic
\* and in join.
WaitFails ==
    /\ (pc = "join" /\ ~exited) \/ (pc = "up" /\ caller = "server")
    /\ pc' = "drop"
    /\ UNCHANGED <<calls, proc, exited>>

\* join: wait(None) for the direct child.
JoinWait ==
    /\ pc = "join" /\ (exited \/ proc["child"] = "dead")
    /\ exited' = TRUE /\ pc' = "poll"
    /\ UNCHANGED <<calls, proc>>

JoinPumpsDone ==
    /\ pc = "poll" /\ \A s \in Streams : ~Busy(s)
    /\ pc' = "collect"
    /\ UNCHANGED <<calls, proc, exited>>

\* Mutant: past the grace period the loop just stops.
JoinGraceOver_NoKill ==
    /\ pc = "poll" /\ \E s \in Streams : Busy(s)
    /\ pc' = "collect"
    /\ UNCHANGED <<calls, proc, exited>>

\* The grace period is over: a descendant still holds a pipe.
JoinGraceOver ==
    /\ pc = "poll" /\ \E s \in Streams : Busy(s)
    /\ TerminateJob /\ pc' = "collect"
    /\ UNCHANGED <<calls, exited>>

\* Mutant: a finished wait is enough, the threads are left to themselves.
Joined_Unjoined ==
    /\ pc = "collect"
    /\ TerminateJob /\ Closing(owned) /\ owned' = {}
    /\ pc' = "joined"
    /\ UNCHANGED <<setting, filed, injob, holds, thread, streamVars, exited, tail>>

\* The threads are joined and the sinks copied; dropping the PlainChild then
\* terminates the job and closes its handles.
Joined ==
    /\ pc = "collect" /\ \A t \in Threads : ~Busy(t)
    /\ TerminateJob /\ Closing(owned) /\ owned' = {}
    /\ pc' = "joined"
    /\ UNCHANGED <<setting, filed, injob, holds, thread, streamVars, exited, tail>>

\* Inner::drop: the tree kill, then the joins, then the handles.
DropTerminates ==
    /\ pc = "drop"
    /\ TerminateJob /\ pc' = "release"
    /\ UNCHANGED <<calls, exited>>

Dropped ==
    /\ pc = "release" /\ \A t \in Threads : ~Busy(t)
    /\ TerminateJob /\ Closing(owned) /\ owned' = {}
    /\ pc' = "dropped"
    /\ UNCHANGED <<setting, filed, injob, holds, thread, streamVars, exited, tail>>

-----------------------------------------------------------------------------
(* The tail file.                                                           *)

\* String::from_utf8_lossy: how long the text of n bytes can be.  Every invalid
\* sequence, of one to three bytes, becomes the three bytes of U+FFFD: a of them
\* stand for one byte, b for two, and three bytes keep their length.
Lossy(n) == {n + 2 * ab[1] + ab[2] : ab \in {x \in (0..n) \X (0..n) : x[1] + 2 * x[2] <= n}}

\* stdout, and the stderr part if there is any.
TextOf(out, err) == out + (IF err = 0 THEN 0 ELSE Separator + err)

\* The text of a run whose sinks kept this much.
Texts(out, err) == {TextOf(o, e) : o \in Lossy(out), e \in Lossy(err)}

\* tail_bytes: the newest bytes, from a character boundary on.
TailLengths(n) == IF n <= TailCap THEN {n} ELSE {TailCap - k : k \in 0..CharWidth - 1}

\* Mutant: only the file's own cut is marked.
TailCut_OwnOnly(n) == n > TailCap

TailCut(n) == n > TailCap \/ \E s \in Streams : trunc[s]

WriteTail ==
    /\ pc = "joined" /\ caller = "server" /\ ~tail.written
    /\ \E n \in Texts(kept["out"], kept["err"]) : \E m \in TailLengths(n) :
          tail' = [len |-> m, text |-> n, cut |-> TailCut(n), written |-> TRUE]
    /\ UNCHANGED <<setting, pc, owned, filed, closes, procVars, thread, streamVars, exited>>

-----------------------------------------------------------------------------
CallStep == Joined \/ JoinWait \/ JoinPumpsDone \/ JoinGraceOver \/ DropTerminates \/ Dropped

Next ==
    \/ SpawnOpen \/ SpawnOpenFails \/ CreateProcess \/ AssignJob \/ AssignJobFails
    \/ StartThread \/ StartThreadFails
    \/ \E s \in Streams : PumpRead(s) \/ PumpEnds(s)
    \/ WriteStdin \/ WriterEnds
    \/ ForkGrandchild
    \/ \E p \in Procs, s \in Streams : ProcWrites(p, s)
    \/ \E p \in Procs : ProcReads(p) \/ ProcExits(p)
    \/ Kill \/ WaitExited \/ Join \/ DropChild \/ RunGenericDone \/ RunGenericTimeout
    \/ WaitFails \/ CallStep \/ WriteTail

Spec == Init /\ [][Next]_vars

\* Threads and calls run and timeouts pass; the processes owe nothing.
FairSpec ==
    /\ Spec
    /\ \A s \in Streams : WF_vars(PumpRead(s) \/ PumpEnds(s))
    /\ WF_vars(WriteStdin \/ WriterEnds)
    /\ WF_vars(CallStep) /\ WF_vars(RunGenericDone \/ RunGenericTimeout)

-----------------------------------------------------------------------------
(* Properties.                                                              *)

\* "No handle is closed twice", and none is left open: on every way out of
\* spawn, join and drop, once the detached threads have ended, each handle
\* that was opened has been closed exactly once.
ClosedOnce ==
    /\ \A h \in Handles : closes[h] <= 1
    /\ pc \in Ended => owned = {} /\ filed = {Near[t] : t \in {u \in Threads : Busy(u)}}

\* "abandoning a PlainChild never leaks a process": when spawn has failed or
\* the child was joined or dropped, nothing runs but a process that was started
\* before its parent was put into the job.
NothingLeftRunning ==
    pc \in Ended => \A p \in Procs : Alive(p) => p = "grandchild" /\ p \notin injob

\* "Wait for the process, drain both pumps, and return the bounded output": the
\* output of join is all that was ever written, up to the cap, and truncated
\* tells exactly whether bytes were lost, whatever was killed on the way.
JoinedOutputIsComplete ==
    pc = "joined" => \A s \in Streams :
        kept[s] = Min({Cap, sent[s]}) /\ trunc[s] = (sent[s] > Cap)

\* A tail file that does not say "truncated" holds the whole text of the
\* command: all that it wrote to either stream was decoded, however much longer
\* the decoding made it, and no character of that text is left out (write_tail
\* over both limits, PRD 29/37).
UnmarkedTailIsWhole ==
    tail.written /\ ~tail.cut =>
        tail.len = tail.text /\ tail.text \in Texts(sent["out"], sent["err"])
                             /\ \A s \in Streams : kept[s] = sent[s]

\* Refuted: an unmarked tail holds the bytes themselves.  Bytes that are not
\* UTF-8 are replaced, and nothing says so.
TailIsVerbatim ==
    tail.written /\ ~tail.cut => tail.len = TextOf(sent["out"], sent["err"])

\* Drop "releases a writer blocked on a full stdin pipe and lets both pumps see
\* EOF": it returns unless a process outside the job still holds a pipe.
DropReturns == pc = "drop" ~> pc = "dropped" \/ Escaped

\* "`pump_grace` bounds how long join waits for inherited pipe ends": with no
\* stdin to feed, join returns after the exit of the direct child although a
\* descendant in the job lives on with the pipes.
JoinReturns == pc = "poll" /\ input = 0 ~> pc = "joined" \/ Escaped

\* "The wait is bounded by the configured timeout" (exec.rs): run_generic comes
\* back from a command that never ends.
RunGenericReturns == pc = "up" /\ caller = "server" ~> pc \in Ended \/ Escaped

\* No call on a PlainChild hangs: drop, join without input, and run_generic.
CallsReturn == DropReturns /\ JoinReturns /\ RunGenericReturns

\* Refuted: the stdin writer is not covered by the grace period.
JoinReturnsWithInput == pc = "poll" ~> pc = "joined" \/ Escaped

\* Refuted: "ends the whole tree, grandchildren included".
TreeIsEnded == pc \in Ended => \A p \in Procs : ~Alive(p)

=============================================================================
