--------------------------------- MODULE Pty ---------------------------------
(***************************************************************************)
(* WorkflowPty of calcar-pty: a process attached to a pseudo console and   *)
(* put into a kill-on-close job, whose output one pump thread moves from   *)
(* the console's pipe into a bounded channel.  spawn holds raw handles and *)
(* every failing call closes a list of its own; a chunk of output is its   *)
(* position in the stream.  The console library and the operating system   *)
(* are external: closing the pseudo console ends the processes attached.   *)
(***************************************************************************)
EXTENDS Naturals, Sequences

CONSTANTS
    BufferBytes,   \* SpawnConfig::output_buffer_bytes
    ChunkBytes,    \* PUMP_CHUNK_BYTES
    PipeChunks,    \* chunks the console's pipe can hold
    MaxChunks,     \* bound: chunks of output
    Markers        \* chunks that complete the marker of a read_until

ASSUME PtyAssumption ==
    /\ BufferBytes \in Nat /\ ChunkBytes \in Nat \ {0}
    /\ PipeChunks \in Nat \ {0} /\ MaxChunks \in Nat
    /\ Markers \subseteq 1..MaxChunks

VARIABLES
    pc,        \* the step of spawn, or where the WorkflowPty stands
    open,      \* open handles and the attribute list
    closes,    \* history: [Handles -> number of closes]
    proc,      \* [Procs -> "none", "run" or "dead"]
    injob,     \* processes in the job
    attached,  \* processes attached to the console
    sent,      \* chunks written by the processes
    pipe,      \* chunks in the console's pipe
    lost,      \* history: chunks that went with the pipe's read end
    hand,      \* the chunk the pump has read and not yet sent
    chan,      \* the bounded channel
    got,       \* chunks read by the consumer
    pump,      \* "none", "run" or "done"
    closed,    \* Inner.output_closed
    exited,    \* Inner.exited
    until,     \* a read_until: "no", "yes", or how it returned
    since      \* Len(got) when it began

vars == <<pc, open, closes, proc, injob, attached, sent, pipe, lost, hand, chan, got, pump, closed,
          exited, until, since>>

Procs   == {"child", "grandchild"}
Handles == {"inR", "inW", "outR", "outW", "console", "job", "attr", "process"}
Pipes   == {"inR", "inW", "outR", "outW"}

\* The slots of sync_channel.
Capacity == IF BufferBytes \div ChunkBytes = 0 THEN 1 ELSE BufferBytes \div ChunkBytes

\* The calls of spawn in order, what each opens, and the call after it.
Opens == [in |-> {"inR", "inW"}, out |-> {"outR", "outW"}, console |-> {"console"},
          job |-> {"job"}, limits |-> {}, attr |-> {"attr"}, update |-> {},
          create |-> {"process"}]
After == [in |-> "out", out |-> "console", console |-> "job", job |-> "limits",
          limits |-> "attr", attr |-> "update", update |-> "create", create |-> "assign"]

\* Mutant: the job object is left out of one list.
Cleanup_NoJob ==
    [in |-> {}, out |-> {"inR", "inW"}, console |-> Pipes, job |-> Pipes \cup {"console"},
     limits |-> Pipes \cup {"console", "job"}, attr |-> Pipes \cup {"console", "job"},
     update |-> Pipes \cup {"console", "job", "attr"},
     create |-> Pipes \cup {"console", "attr"},
     assign |-> Pipes \cup {"console", "job", "process"},
     pump |-> {"inW", "process", "job", "console", "inR", "outW", "outR"}]

\* What the error path of each call closes.  CreateProcessW deletes the
\* attribute list either way; the closure that was to be the pump drops the
\* File over outR.
Cleanup ==
    [in |-> {}, out |-> {"inR", "inW"}, console |-> Pipes, job |-> Pipes \cup {"console"},
     limits |-> Pipes \cup {"console", "job"}, attr |-> Pipes \cup {"console", "job"},
     update |-> Pipes \cup {"console", "job", "attr"},
     create |-> Pipes \cup {"console", "job", "attr"},
     assign |-> Pipes \cup {"console", "job", "process"},
     pump |-> {"inW", "process", "job", "console", "inR", "outW", "outR"}]

Ended == {"failed", "gone"}
PCs   == DOMAIN Cleanup \cup {"up", "joining"} \cup Ended

TypeOK ==
    /\ pc \in PCs /\ open \subseteq Handles /\ closes \in [Handles -> 0..2]
    /\ proc \in [Procs -> {"none", "run", "dead"}]
    /\ injob \subseteq Procs /\ attached \subseteq Procs
    /\ sent \in 0..MaxChunks /\ Len(pipe) <= PipeChunks
    /\ Len(hand) <= 1 /\ Len(chan) <= Capacity
    /\ \A s \in {pipe, lost, hand, chan, got} : s \in Seq(1..MaxChunks)
    /\ pump \in {"none", "run", "done"} /\ closed \in BOOLEAN /\ exited \in BOOLEAN
    /\ until \in {"no", "yes", "marker", "deadline", "closed"} /\ since \in 0..MaxChunks

Init ==
    /\ pc = "in" /\ open = {} /\ closes = [h \in Handles |-> 0]
    /\ proc = [p \in Procs |-> "none"] /\ injob = {} /\ attached = {}
    /\ sent = 0 /\ pipe = <<>> /\ lost = <<>> /\ hand = <<>> /\ chan = <<>> /\ got = <<>>
    /\ pump = "none" /\ closed = FALSE /\ exited = FALSE /\ until = "no" /\ since = 0

Alive(p)   == proc[p] = "run"
Closing(H) == closes' = [h \in Handles |-> closes[h] + (IF h \in H THEN 1 ELSE 0)]

\* TerminateJobObject ends the job's processes, ClosePseudoConsole those
\* attached to the console.
Ending(P)  == proc' = [p \in Procs |-> IF p \in P /\ Alive(p) THEN "dead" ELSE proc[p]]

outputVars == <<sent, pipe, lost, hand, chan, got, pump, closed, until, since>>

-----------------------------------------------------------------------------
(* Inner::spawn.                                                            *)

SpawnCall ==
    /\ pc \in DOMAIN Opens \ {"create"}
    /\ open' = open \cup Opens[pc]
    /\ pc' = After[pc]
    /\ UNCHANGED <<closes, proc, injob, attached, outputVars, exited>>

\* CreateProcessW, not suspended; the attribute list is deleted.
CreateProcess ==
    /\ pc = "create"
    /\ proc' = [proc EXCEPT !["child"] = "run"] /\ attached' = {"child"}
    /\ Closing({"attr"}) /\ open' = (open \ {"attr"}) \cup Opens[pc]
    /\ pc' = After[pc]
    /\ UNCHANGED <<injob, outputVars, exited>>

\* AssignProcessToJobObject.
AssignJob ==
    /\ pc = "assign"
    /\ injob' = {"child"}
    /\ pc' = "pump"
    /\ UNCHANGED <<open, closes, proc, attached, outputVars, exited>>

StartPump ==
    /\ pc = "pump"
    /\ pump' = "run" /\ pc' = "up"
    /\ UNCHANGED <<open, closes, proc, injob, attached, sent, pipe, lost, hand, chan, got,
                   closed, exited, until, since>>

\* Mutant: only the job is terminated; the console stays.
SpawnFails_JobOnly ==
    /\ pc \in DOMAIN Cleanup
    /\ Closing(Cleanup[pc]) /\ open' = open \ Cleanup[pc]
    /\ Ending(injob)
    /\ pc' = "failed"
    /\ UNCHANGED <<injob, attached, outputVars, exited>>

\* A call fails: its list is closed.  From assign on, the job is terminated
\* too (at assign it is still empty, and ends nothing); closing the console
\* ends what is attached to it.
SpawnFails ==
    /\ pc \in DOMAIN Cleanup
    /\ Closing(Cleanup[pc]) /\ open' = open \ Cleanup[pc]
    /\ Ending((IF pc \in {"assign", "pump"} THEN injob ELSE {})
              \cup (IF "console" \in Cleanup[pc] THEN attached ELSE {}))
    /\ pc' = "failed"
    /\ UNCHANGED <<injob, attached, outputVars, exited>>

-----------------------------------------------------------------------------
(* The processes and the console.                                           *)

\* A grandchild is in the job if its parent is by then; it is attached to its
\* parent's console, unless it is created detached.
ForkGrandchild ==
    /\ Alive("child") /\ proc["grandchild"] = "none"
    /\ proc' = [proc EXCEPT !["grandchild"] = "run"]
    /\ injob' = IF "child" \in injob THEN injob \cup {"grandchild"} ELSE injob
    /\ \/ "child" \in attached /\ attached' = attached \cup {"grandchild"}
       \/ UNCHANGED attached
    /\ UNCHANGED <<pc, open, closes, outputVars, exited>>

\* Any process, the direct child too, may give up its console.
LeavesConsole(p) ==
    /\ Alive(p) /\ p \in attached
    /\ attached' = attached \ {p}
    /\ UNCHANGED <<pc, open, closes, proc, injob, outputVars, exited>>

\* The console passes the output of an attached process to its pipe; with the
\* read end closed the write fails and the output is gone.
ConsoleWrites ==
    /\ \E p \in attached : Alive(p)
    /\ "console" \in open /\ sent < MaxChunks
    /\ sent' = sent + 1
    /\ \/ /\ "outR" \in open /\ Len(pipe) < PipeChunks
          /\ pipe' = Append(pipe, sent') /\ UNCHANGED lost
       \/ /\ "outR" \notin open
          /\ lost' = Append(lost, sent') /\ UNCHANGED pipe
    /\ UNCHANGED <<pc, open, closes, proc, injob, attached, hand, chan, got, pump, closed,
                   exited, until, since>>

ProcExits(p) ==
    /\ Alive(p)
    /\ proc' = [proc EXCEPT ![p] = "dead"]
    /\ UNCHANGED <<pc, open, closes, injob, attached, outputVars, exited>>

-----------------------------------------------------------------------------
(* pump_output.                                                             *)

procVars == <<pc, open, closes, proc, injob, attached>>

PumpRead ==
    /\ pump = "run" /\ hand = <<>> /\ pipe # <<>>
    /\ hand' = <<Head(pipe)>> /\ pipe' = Tail(pipe)
    /\ UNCHANGED <<procVars, sent, lost, chan, got, pump, closed, exited, until, since>>

\* Mutant: a full channel loses the chunk.
PumpSend_Try ==
    /\ pump = "run" /\ hand # <<>>
    /\ chan' = IF Len(chan) < Capacity THEN chan \o hand ELSE chan
    /\ hand' = <<>>
    /\ UNCHANGED <<procVars, sent, pipe, lost, got, pump, closed, exited, until, since>>

\* send blocks while the channel is full.
PumpSend ==
    /\ pump = "run" /\ hand # <<>> /\ Len(chan) < Capacity
    /\ chan' = chan \o hand /\ hand' = <<>>
    /\ UNCHANGED <<procVars, sent, pipe, lost, got, pump, closed, exited, until, since>>

\* The File over outR goes with the thread, and what is left in the pipe with it.
PumpStops ==
    /\ pump' = "done"
    /\ Closing({"outR"}) /\ open' = open \ {"outR"}
    /\ pipe' = <<>> /\ lost' = pipe
    /\ UNCHANGED <<pc, proc, injob, attached, sent, hand, chan, got, closed, exited, until, since>>

\* End of file: console and agent have closed the write end.
PumpEnds ==
    /\ pump = "run" /\ hand = <<>> /\ pipe = <<>>
    /\ open \cap {"console", "outW"} = {}
    /\ PumpStops

\* A read error ends the pump at any time.
PumpFails == pump = "run" /\ hand = <<>> /\ PumpStops

-----------------------------------------------------------------------------
(* Calls on a WorkflowPty.                                                  *)

\* The sender is gone and the channel drained.
Disconnected == chan = <<>> /\ pump = "done"

\* try_output and recv_output take a chunk, or learn that the stream ended.
TakeOutput ==
    /\ pc = "up"
    /\ \/ chan # <<>> /\ got' = Append(got, Head(chan)) /\ chan' = Tail(chan) /\ UNCHANGED closed
       \/ Disconnected /\ closed' = TRUE /\ UNCHANGED <<got, chan>>
    /\ UNCHANGED <<procVars, sent, pipe, lost, hand, pump, exited, until, since>>

ReadUntil ==
    /\ pc = "up" /\ until # "yes"
    /\ until' = "yes" /\ since' = Len(got)
    /\ UNCHANGED <<procVars, sent, pipe, lost, hand, chan, got, pump, closed, exited>>

\* The loop of read_until: the marker first, then the deadline, then the end
\* of the stream.
ReadUntilReturns ==
    /\ pc = "up" /\ until = "yes"
    /\ until' \in (IF \E i \in since + 1..Len(got) : got[i] \in Markers THEN {"marker"}
                   ELSE {"deadline"} \cup (IF closed THEN {"closed"} ELSE {}))
    /\ UNCHANGED <<procVars, sent, pipe, lost, hand, chan, got, pump, closed, exited, since>>

Kill ==
    /\ pc = "up" /\ until # "yes"
    /\ Ending(injob)
    /\ UNCHANGED <<pc, open, closes, injob, attached, outputVars, exited>>

\* wait caches the exit; a passed deadline changes nothing.
WaitExited ==
    /\ pc = "up" /\ until # "yes" /\ proc["child"] = "dead"
    /\ exited' = TRUE
    /\ UNCHANGED <<procVars, outputVars>>

\* Mutant: the write end is left to the drop of the fields.
DropCloses_KeepsOutput ==
    /\ pc = "up" /\ until # "yes"
    /\ Ending(injob \cup attached)
    /\ Closing({"console", "inR"}) /\ open' = open \ {"console", "inR"}
    /\ pc' = "joining"
    /\ UNCHANGED <<injob, attached, outputVars, exited>>

\* Inner::drop: kill the tree, close the console and the console's pipe ends.
DropCloses ==
    /\ pc = "up" /\ until # "yes"
    /\ Ending(injob \cup attached)
    /\ Closing({"console", "inR", "outW"}) /\ open' = open \ {"console", "inR", "outW"}
    /\ pc' = "joining"
    /\ UNCHANGED <<injob, attached, outputVars, exited>>

\* The pump is joined; the fields, the receiver among them, are dropped after.
DropJoins ==
    /\ pc = "joining" /\ pump = "done"
    /\ Closing(open) /\ open' = {}
    /\ chan' = <<>>
    /\ pc' = "gone"
    /\ UNCHANGED <<proc, injob, attached, sent, pipe, lost, hand, got, pump, closed, exited,
                   until, since>>

-----------------------------------------------------------------------------
Next ==
    \/ SpawnCall \/ CreateProcess \/ AssignJob \/ StartPump \/ SpawnFails
    \/ ForkGrandchild \/ ConsoleWrites \/ \E p \in Procs : ProcExits(p) \/ LeavesConsole(p)
    \/ PumpRead \/ PumpSend \/ PumpEnds \/ PumpFails
    \/ TakeOutput \/ ReadUntil \/ ReadUntilReturns
    \/ Kill \/ WaitExited \/ DropCloses \/ DropJoins

Spec == Init /\ [][Next]_vars

\* The pump and a drop run; deadlines pass.  Consumer and processes owe nothing.
FairSpec ==
    /\ Spec
    /\ WF_vars(PumpRead \/ PumpSend \/ PumpEnds)
    /\ WF_vars(DropJoins) /\ WF_vars(ReadUntilReturns)

-----------------------------------------------------------------------------
(* Properties.                                                              *)

\* "No handle is closed twice", and no error path forgets one: when spawn has
\* failed at any of its ten calls, or a drop is through, all that was opened
\* has been closed, once.
ClosedOnce ==
    /\ \A h \in Handles : closes[h] <= 1
    /\ pc \in Ended => open = {}

\* A failed spawn and a drop leave no process behind but one that never was in
\* the job, being older than it, and has left the console or never had it.
NothingLeftRunning ==
    pc \in Ended => \A p \in Procs : Alive(p) => p \notin injob \cup attached

\* Refuted: "killing the job or dropping the handle ends the whole tree,
\* grandchildren included" (lib.rs:4-5).
TreeIsKilled == pc \in Ended => \A p \in Procs : ~Alive(p)

\* "Nothing is dropped": while the WorkflowPty is there, what the consumer has
\* read, the channel, the pump's hand and the pipe hold the output in order and
\* from its beginning; what is missing went with the pipe when a read failed,
\* and is the end of the output.  The stream counts as closed only "once the
\* reader thread ended and the channel drained".
OutputIsWhole ==
    /\ pc \notin Ended => got \o chan \o hand \o pipe \o lost = [i \in 1..sent |-> i]
    /\ lost # <<>> => pump = "done"
    /\ closed => pump = "done" /\ chan \o hand = <<>>

\* Drop joins the pump: it returns when the output nobody has read fits the
\* channel.
DropReturnsWhenRead ==
    pc = "joining" /\ Len(chan \o hand \o pipe) <= Capacity ~> pc = "gone"

\* "Dropping it kills the job, closes the console, and joins the pump thread":
\* a drop comes to its end.
DropReturns == pc = "joining" ~> pc = "gone"

\* Refuted: the stream ends after the processes have (the agent's own write end
\* stays open until drop).
ExitEndsStream == (pc = "up" /\ \A p \in Procs : ~Alive(p)) ~> (pump = "done" \/ pc # "up")

=============================================================================
