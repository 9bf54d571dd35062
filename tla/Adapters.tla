------------------------------- MODULE Adapters ------------------------------
(***************************************************************************)
(* The provider adapters over a PlainChild: the three that parse marker    *)
(* lines (claude, codex and opencode, one code with three prefixes) and    *)
(* the generic one, behind the registry.  The child runs, exits, is killed *)
(* and leaves descendants that go on writing; the pumps of the PlainChild  *)
(* deliver its output late and cut anywhere.  A line is cut once, so it is *)
(* two pieces, the second ending in the newline: a position in a stream is *)
(* a number of pieces, and line i is pieces 2i-1 and 2i.  What the grammar *)
(* reads in a line depends on which pieces are together: a cut inside the  *)
(* prefix or the verb leaves nothing, and a cut in front of a prefix makes *)
(* a marker line of the rest.  A drain reads the exit state and the output *)
(* at two different moments.                                               *)
(***************************************************************************)
EXTENDS Naturals, Sequences, FiniteSetsExt

CONSTANTS
    Providers,   \* providers of the configuration, out of Known
    Lines,       \* lines a CLI may print: what parse_line reads in each part
    SinkPieces,  \* output_cap_bytes, in pieces
    MaxLines,    \* bound: [Providers -> [Outputs -> lines a run writes]]
    MaxRuns      \* bound: children started

Known   == {"claude", "codex", "opencode", "generic"}
Marker  == {"claude", "codex", "opencode"}
Outputs == {"out", "err"}

\* The verbs that make an event, and its type.
EventOf == [START    |-> "AgentStarted",      STEP    |-> "CommandStarted",
            DONE     |-> "CommandCompleted",  FILE    |-> "FileChanged",
            APPROVAL |-> "ApprovalRequired",  INPUT   |-> "InputRequired",
            ERROR    |-> "ErrorOccurred",     EXITok  |-> "WorkflowCompleted",
            EXITfail |-> "ErrorOccurred"]

\* "other" is a line of the grammar of no adapter, or of another one's.
Verb == DOMAIN EventOf \cup {"SESSION", "other"}
Part == {"whole", "first", "second"}

ASSUME AdaptersAssumption ==
    /\ Providers \subseteq Known /\ Lines \subseteq [Part -> Verb]
    /\ SinkPieces \in Nat \ {0} /\ MaxRuns \in Nat
    /\ MaxLines \in [Providers -> [Outputs -> Nat]]

VARIABLES
    provider,   \* the variant of Adapter
    run,        \* children started so far
    child,      \* Option<PlainChild>, and whether its exit is cached
    alive,      \* the direct child runs
    tree,       \* somebody holds the write ends
    code,       \* exit code of the direct child
    written,    \* [Outputs -> lines of the current child]
    open,       \* [Outputs -> the last line lacks its newline]
    sunk,       \* [Outputs -> pieces in the CappedSink]
    cursor,     \* [Outputs -> stdout_cursor, stderr_cursor]
    base,       \* [Outputs -> where the held back tail begins]
    session,    \* provider_session_id, as the line it came from
    stopping,   \* stop_requested
    terminal,   \* terminal_emitted
    started,    \* generic: pending_started
    emitted,    \* generic: emitted_lines
    completed,  \* generic: completed
    busy,       \* the drain under way and what it has read
    events,     \* history: events handed to the core since the last spawn
    torn        \* history: [Outputs -> lines whose first piece was flushed alone]

childVars  == <<run, child, alive, tree, code, written, open, sunk>>
markVars   == <<cursor, base, session, stopping, terminal>>
genericVars == <<started, emitted, completed>>
told       == <<events, torn>>
adapterVars == <<provider, childVars, markVars, genericVars, busy, told>>

NoSession == [run |-> 0, at |-> "none", no |-> 0]
NoChild   == [some |-> FALSE, seen |-> FALSE]
Idle      == [op |-> "idle", finished |-> FALSE, out |-> 0, err |-> 0]
EventType == {"AgentStarted", "CommandStarted", "CommandCompleted", "FileChanged",
              "ApprovalRequired", "InputRequired", "ErrorOccurred", "WorkflowCompleted",
              "WorkflowStopped", "Unspecified"}
Event     == [at: Outputs \cup {"start", "exit"}, no: Nat, type: EventType, part: Part]

Pieces(s) == 2 * Len(written[s]) - (IF open[s] THEN 1 ELSE 0)
Zero      == [s \in Outputs |-> 0]

AdapterTypeOK ==
    /\ provider \in Providers /\ run \in 0..MaxRuns
    /\ child \in [some: BOOLEAN, seen: BOOLEAN]
    /\ alive \in BOOLEAN /\ tree \in BOOLEAN /\ code \in 0..1
    /\ written \in [Outputs -> Seq(Lines)] /\ open \in [Outputs -> BOOLEAN]
    /\ {sunk, cursor, base} \subseteq [Outputs -> Nat]
    /\ \A s \in Outputs :
          /\ Len(written[s]) <= MaxLines[provider][s] /\ sunk[s] <= Min({SinkPieces, Pieces(s)})
          /\ base[s] <= cursor[s] /\ cursor[s] <= sunk[s]
    /\ session \in [run: 0..MaxRuns, at: Outputs \cup {"none"}, no: Nat]
    /\ stopping \in BOOLEAN /\ terminal \in BOOLEAN
    /\ started \in BOOLEAN /\ completed \in BOOLEAN
    /\ emitted \in 0..MaxLines[provider]["out"]
    /\ busy \in [op: {"idle", "marker", "generic"}, finished: BOOLEAN, out: Nat, err: Nat]
    /\ events \in Seq(Event) /\ torn \in [Outputs -> SUBSET Nat]

\* for_provider, then XAdapter::new: no child yet.
AdapterInit ==
    /\ provider \in Providers /\ run = 0 /\ child = NoChild
    /\ alive = FALSE /\ tree = FALSE /\ code = 0
    /\ written = [s \in Outputs |-> <<>>] /\ open = [s \in Outputs |-> FALSE] /\ sunk = Zero
    /\ cursor = Zero /\ base = Zero /\ session = NoSession
    /\ stopping = FALSE /\ terminal = FALSE
    /\ started = FALSE /\ emitted = 0 /\ completed = FALSE
    /\ busy = Idle /\ events = <<>> /\ torn = [s \in Outputs |-> {}]

-----------------------------------------------------------------------------
(* The child and the pumps of its PlainChild.                               *)

StartLine(s, l) ==
    /\ tree /\ ~open[s] /\ Len(written[s]) < MaxLines[provider][s]
    /\ written' = [written EXCEPT ![s] = Append(@, l)]
    /\ open' = [open EXCEPT ![s] = TRUE]
    /\ UNCHANGED <<provider, run, child, alive, tree, code, sunk, markVars, genericVars, busy,
                   told>>

EndLine(s) ==
    /\ tree /\ open[s]
    /\ open' = [open EXCEPT ![s] = FALSE]
    /\ UNCHANGED <<provider, run, child, alive, tree, code, written, sunk, markVars,
                   genericVars, busy, told>>

\* The direct child exits; a descendant may keep the pipes.
Exit(c) ==
    /\ alive
    /\ alive' = FALSE /\ tree' \in BOOLEAN /\ code' = c
    /\ UNCHANGED <<provider, run, child, written, open, sunk, markVars, genericVars, busy, told>>

TreeExits ==
    /\ tree /\ ~alive
    /\ tree' = FALSE
    /\ UNCHANGED <<provider, run, child, alive, code, written, open, sunk, markVars, genericVars,
                   busy, told>>

\* A pump moves a piece into its sink, up to the cap.
Deliver(s) ==
    /\ child.some /\ sunk[s] < Min({SinkPieces, Pieces(s)})
    /\ sunk' = [sunk EXCEPT ![s] = @ + 1]
    /\ UNCHANGED <<provider, run, child, alive, tree, code, written, open, markVars, genericVars,
                   busy, told>>

-----------------------------------------------------------------------------
(* Operations of the marker adapters.                                       *)

Ready == busy = Idle

\* wait with a zero timeout caches an exit that has happened.
Polled == child.some /\ (child.seen \/ ~alive)

\* A PlainChild replaces the one there was, which is dropped.
Replaced ==
    /\ run < MaxRuns
    /\ run' = run + 1 /\ child' = [some |-> TRUE, seen |-> FALSE]
    /\ alive' = TRUE /\ tree' = TRUE /\ code' = 0
    /\ written' = [s \in Outputs |-> <<>>] /\ open' = [s \in Outputs |-> FALSE] /\ sunk' = Zero
    /\ events' = <<>> /\ torn' = [s \in Outputs |-> {}]

\* The old child is dropped, which ends its tree.
Removed ==
    /\ child' = NoChild /\ alive' = FALSE /\ tree' = FALSE /\ code' = 0
    /\ written' = [s \in Outputs |-> <<>>] /\ open' = [s \in Outputs |-> FALSE] /\ sunk' = Zero
    /\ events' = <<>> /\ torn' = [s \in Outputs |-> {}]
    /\ UNCHANGED run

\* Mutant: the flags of the last run survive.
Reset_KeepsFlags ==
    /\ cursor' = Zero /\ base' = Zero /\ session' = NoSession
    /\ UNCHANGED <<stopping, terminal>>

\* Mutant: the session of the last run survives.
Reset_KeepsSession ==
    /\ cursor' = Zero /\ base' = Zero
    /\ stopping' = FALSE /\ terminal' = FALSE
    /\ UNCHANGED session

Reset ==
    /\ cursor' = Zero /\ base' = Zero /\ session' = NoSession
    /\ stopping' = FALSE /\ terminal' = FALSE

\* Refused while a child runs; otherwise everything is reset before the new
\* child is spawned, which may fail.  Interactive and empty requests change
\* nothing.
SpawnAfterReset ==
    /\ Ready /\ (child.some => Polled)
    /\ Replaced \/ Removed
    /\ UNCHANGED <<provider, genericVars, busy>>

\* A snapshot, as a refused spawn of a marker adapter, still polls the exit.
Poll(p) ==
    /\ provider = p /\ Ready /\ Polled /\ ~child.seen
    /\ child' = [child EXCEPT !.seen = TRUE]
    /\ UNCHANGED <<provider, run, alive, tree, code, written, open, sunk, markVars, genericVars,
                   busy, told>>

\* TerminateJobObject: a child still running ends with code 1, now or later, when
\* it is found to have exited; what is outside the job goes on.
KillTree ==
    /\ alive' \in {FALSE, alive} /\ tree' \in {FALSE, tree} /\ (alive' => tree')
    /\ code' = IF alive /\ ~alive' THEN 1 ELSE code

MarkerStop ==
    /\ Ready /\ child.some
    /\ KillTree
    /\ stopping' = TRUE
    /\ UNCHANGED <<provider, run, child, written, open, sunk, cursor, base, session, terminal,
                   genericVars, busy, told>>

\* The pieces of line i that lie after a position and up to another.
Has(i, half, from, to) == LET k == 2 * i - 2 + half IN from < k /\ k <= to

\* consume: the lines that a newline ends, and at the end what is left over.
Cut(from, to, finished) ==
    {i \in 1..(to + 1) \div 2 :
        \/ Has(i, 2, from, to)
        \/ finished /\ Has(i, 1, from, to) /\ 2 * i - 1 = to}

\* Mutant: the tail is kept after it has been flushed.
TailFrom_Kept(from, to, finished) == Max({from, 2 * (to \div 2)})

\* What is held back afterwards.
TailFrom(from, to, finished) == IF finished THEN to ELSE Max({from, 2 * (to \div 2)})

\* The lines a consume leaves in two parts: it flushed the first at the exit.
TornAt(to, finished) == {i \in 1..(to + 1) \div 2 : finished /\ 2 * i - 1 = to}

\* The part of line i that lies after a position and up to another.
PartOf(i, from, to) ==
    CASE ~Has(i, 2, from, to) -> "first"
      [] ~Has(i, 1, from, to) -> "second"
      [] OTHER -> "whole"

MakesEvent(verb) == verb \in DOMAIN EventOf

\* parse_line of that part: what is not in the grammar is skipped.
ParseLine(s, i, from, to) ==
    LET part == PartOf(i, from, to)
        verb == written[s][i][part]
    IN  IF MakesEvent(verb)
        THEN <<[at |-> s, no |-> i, type |-> EventOf[verb], part |-> part]>> ELSE <<>>

\* The events of one consume, in the order of the lines.
Parsed(s, to, finished) ==
    LET last == (to + 1) \div 2
        upTo[i \in 0..last] ==
            IF i = 0 THEN <<>>
            ELSE upTo[i - 1] \o (IF i \in Cut(base[s], to, finished)
                                THEN ParseLine(s, i, base[s], to) ELSE <<>>)
    IN  upTo[last]

\* The last SESSION line of a consume.
SessionIn(s, old) ==
    LET hits == {i \in Cut(base[s], sunk[s], busy.finished) :
                    written[s][i][PartOf(i, base[s], sunk[s])] = "SESSION"}
    IN  IF hits = {} THEN old ELSE [run |-> run, at |-> s, no |-> Max(hits)]

ExitEvent(type) == <<[at |-> "exit", no |-> 0, type |-> type, part |-> "whole"]>>

\* Mutant: the terminal event repeats with every drain.
TerminalEvents_Repeat ==
    IF ~busy.finished THEN <<>>
    ELSE IF stopping THEN ExitEvent("WorkflowStopped")
    ELSE IF code = 0 THEN ExitEvent("WorkflowCompleted")
    ELSE ExitEvent("ErrorOccurred")

TerminalEvents ==
    IF ~busy.finished \/ terminal THEN <<>>
    ELSE IF stopping THEN ExitEvent("WorkflowStopped")
    ELSE IF code = 0 THEN ExitEvent("WorkflowCompleted")
    ELSE ExitEvent("ErrorOccurred")

\* drain, first part: the exit is polled.
MarkerDrainPoll ==
    /\ Ready /\ child.some
    /\ child' = [child EXCEPT !.seen = Polled]
    /\ busy' = [Idle EXCEPT !.op = "marker", !.finished = Polled]
    /\ UNCHANGED <<provider, run, alive, tree, code, written, open, sunk, markVars, genericVars,
                   told>>

-----------------------------------------------------------------------------
(* The same code stands in claude.rs, codex.rs and opencode.rs.             *)

CodexReset == Reset
CodexParsed(s, to, finished) == Parsed(s, to, finished)

OpencodeReset == Reset
OpencodeParsed(s, to, finished) == Parsed(s, to, finished)

Heard(s) ==
    CASE provider = "claude"   -> Parsed(s, sunk[s], busy.finished)
      [] provider = "codex"    -> CodexParsed(s, sunk[s], busy.finished)
      [] provider = "opencode" -> OpencodeParsed(s, sunk[s], busy.finished)

\* drain, second part: the snapshot is taken and both streams consumed, stdout
\* first, then the exit is reported.
MarkerDrain ==
    /\ busy.op = "marker"
    /\ events' = events \o Heard("out") \o Heard("err") \o TerminalEvents
    /\ session' = SessionIn("err", SessionIn("out", session))
    /\ cursor' = sunk
    /\ base' = [s \in Outputs |-> TailFrom(base[s], sunk[s], busy.finished)]
    /\ torn' = [s \in Outputs |-> torn[s] \cup TornAt(sunk[s], busy.finished)]
    /\ terminal' = (terminal \/ busy.finished)
    /\ busy' = Idle
    /\ UNCHANGED <<provider, childVars, stopping, genericVars>>

ClaudeSpawn     == provider = "claude" /\ Reset /\ SpawnAfterReset
ClaudeStop      == provider = "claude" /\ MarkerStop
ClaudeDrainPoll == provider = "claude" /\ MarkerDrainPoll
ClaudeDrain     == provider = "claude" /\ MarkerDrain
ClaudeSnapshot  == Poll("claude")

CodexSpawn      == provider = "codex" /\ CodexReset /\ SpawnAfterReset
CodexStop       == provider = "codex" /\ MarkerStop
CodexDrainPoll  == provider = "codex" /\ MarkerDrainPoll
CodexDrain      == provider = "codex" /\ MarkerDrain
CodexSnapshot   == Poll("codex")

OpencodeSpawn     == provider = "opencode" /\ OpencodeReset /\ SpawnAfterReset
OpencodeStop      == provider = "opencode" /\ MarkerStop
OpencodeDrainPoll == provider = "opencode" /\ MarkerDrainPoll
OpencodeDrain     == provider = "opencode" /\ MarkerDrain
OpencodeSnapshot  == Poll("opencode")

-----------------------------------------------------------------------------
(* The generic adapter.                                                     *)

\* A running child is replaced; a spawn that fails changes nothing.
GenericSpawn ==
    /\ provider = "generic" /\ Ready
    /\ Replaced
    /\ started' = TRUE /\ emitted' = 0 /\ completed' = FALSE
    /\ UNCHANGED <<provider, markVars, busy>>

GenericStop ==
    /\ provider = "generic" /\ Ready /\ child.some
    /\ KillTree
    /\ UNCHANGED <<provider, run, child, written, open, sunk, markVars, genericVars, busy, told>>

StartedEvents ==
    IF started THEN <<[at |-> "start", no |-> 0, type |-> "CommandStarted", part |-> "whole"]>>
    ELSE <<>>

\* drain, first part: CommandStarted goes out; unless the run is complete the
\* snapshot is taken, with the exit as far as it was cached.
GenericDrainRead ==
    /\ provider = "generic" /\ Ready
    /\ events' = events \o StartedEvents /\ started' = FALSE
    /\ busy' = IF child.some /\ ~completed
               THEN [op |-> "generic", finished |-> child.seen, out |-> sunk["out"],
                     err |-> sunk["err"]]
               ELSE Idle
    /\ UNCHANGED <<provider, childVars, markVars, emitted, completed, torn>>

\* A line without its newline is held back until the exit.
EmitUpTo(n, exited) == IF exited THEN (n + 1) \div 2 ELSE n \div 2

LineEvents(from, to, n) ==
    [k \in 1..(to - from) |->
        [at |-> "out", no |-> from + k, type |-> "Unspecified",
         part |-> IF 2 * (from + k) > n THEN "first" ELSE "whole"]]

Completed(exited) == exited

\* drain, second part: the exit is polled, the lines are sent, and with the
\* exit stderr and CommandCompleted.
GenericDrain ==
    /\ provider = "generic" /\ busy.op = "generic"
    /\ LET exited == busy.finished \/ Polled
           upTo   == EmitUpTo(busy.out, exited)
       IN  /\ events' = events \o LineEvents(Min({emitted, upTo}), upTo, busy.out)
                   \o (IF exited /\ busy.err > 0 THEN ExitEvent("ErrorOccurred") ELSE <<>>)
                   \o (IF exited THEN ExitEvent("CommandCompleted") ELSE <<>>)
           /\ emitted' = upTo
           /\ completed' = Completed(exited)
           /\ child' = [child EXCEPT !.seen = exited]
    /\ busy' = Idle
    /\ UNCHANGED <<provider, run, alive, tree, code, written, open, sunk, markVars, started,
                   torn>>

GenericSnapshot == Poll("generic")

-----------------------------------------------------------------------------
(* The registry passes each call to the variant it holds.                   *)

Spawn == ClaudeSpawn \/ CodexSpawn \/ OpencodeSpawn \/ GenericSpawn
Stop  == ClaudeStop \/ CodexStop \/ OpencodeStop \/ GenericStop
Drain == \/ ClaudeDrainPoll \/ CodexDrainPoll \/ OpencodeDrainPoll \/ GenericDrainRead
         \/ ClaudeDrain \/ CodexDrain \/ OpencodeDrain \/ GenericDrain
Snapshot == ClaudeSnapshot \/ CodexSnapshot \/ OpencodeSnapshot \/ GenericSnapshot

AdapterNext ==
    \/ Spawn \/ Stop \/ Drain \/ Snapshot
    \/ \E s \in Outputs : (\E l \in Lines : StartLine(s, l)) \/ EndLine(s) \/ Deliver(s)
    \/ \E c \in 0..1 : Exit(c)
    \/ TreeExits

AdapterSpec == AdapterInit /\ [][AdapterNext]_adapterVars

\* The pumps run.  That somebody drains again and again is assumed of the caller,
\* as examples/e2e_exec.rs does until it has what it waits for; the trait asks
\* for it and no code of the agent does it yet.  The child owes nothing.
AdapterFairSpec ==
    /\ AdapterSpec
    /\ WF_adapterVars(Drain)
    /\ \A s \in Outputs : WF_adapterVars(Deliver(s))

-----------------------------------------------------------------------------
(* Properties.                                                              *)

Reported(at, no) == \E k \in DOMAIN events : events[k].at = at /\ events[k].no = no

\* Lines a drain has seen whole.
WholeLines(s) == {i \in DOMAIN written[s] : 2 * i <= cursor[s]}

\* One event comes before another of its stream: it is of an earlier line, or of
\* the first part of the same line, that the exit tore.
Before(e, f) == e.no < f.no \/ (e.no = f.no /\ e.part = "first" /\ f.part = "second")

\* "Feed newly collected stream bytes through the grammar. Holds back an
\* unterminated trailing fragment until a newline arrives or the child exits":
\* wherever the pumps cut the output, over all the drains of a run,
\* no line and no part of a line is reported twice, and the lines of a stream
\* come in their order; a line seen whole, unless the exit tore it, has the event
\* of its own verb, or none when it is not in the grammar, whatever its parts
\* would read as alone; only an exit that has been seen tears a line; and no line
\* of a generic command is skipped.
LinesReportedOnce ==
    /\ \A i, j \in DOMAIN events :
          i < j /\ events[i].at = events[j].at /\ events[i].at \in Outputs
              => Before(events[i], events[j])
    /\ provider \in Marker => \A s \in Outputs : \A i \in WholeLines(s) \ torn[s] :
          LET verb == written[s][i]["whole"] IN
          /\ MakesEvent(verb) <=> Reported(s, i)
          /\ \A k \in DOMAIN events : events[k].at = s /\ events[k].no = i
                => events[k].type = EventOf[verb]
    /\ child.some /\ ~child.seen => /\ \A s \in Outputs : torn[s] = {}
                                   /\ \A k \in DOMAIN events : events[k].part = "whole"
    /\ provider = "generic" => \A k \in DOMAIN events :
          events[k].at = "out" => \A i \in 1..events[k].no : Reported("out", i)

\* Refuted: every marker line seen whole is reported.  The exit is seen before
\* the pumps have delivered the rest of the line, the part there is is flushed,
\* and neither part need be in the grammar alone (claude.rs:231-241).
EveryLineIsReported ==
    provider \in Marker => \A s \in Outputs : \A i \in WholeLines(s) :
        MakesEvent(written[s][i]["whole"]) => Reported(s, i)

\* One exit event per run, in spite of repeated drains and of stops before,
\* during and after the exit; after the CommandCompleted of a generic command
\* "further drains return nothing, even if a pump delivers straggler bytes later".
ExitReportedOnce ==
    IF provider = "generic"
    THEN \A i \in DOMAIN events : events[i].type = "CommandCompleted" => i = Len(events)
    ELSE \A i, j \in DOMAIN events : events[i].at = "exit" /\ events[j].at = "exit" => i = j

\* The session pointer, which a resume would use, comes from the child that the
\* adapter holds, never from one it replaced or failed to start.
SessionIsCurrent ==
    session # NoSession => session.run = run /\ child.some

\* "The next drain after reaping emits one terminal event": the end of a child
\* is reported to a caller that goes on draining, unless the child is replaced
\* first.
ExitIsReported ==
    \A r \in 1..MaxRuns :
        (run = r /\ child.some /\ ~alive)
            ~> (Reported("exit", 0) \/ run # r \/ ~child.some)

\* Refuted: "The terminal event fires exactly once": an EXIT line makes one too.
TerminalOnce ==
    \A i, j \in DOMAIN events :
        i # j /\ events[i].type = "WorkflowCompleted" => events[j].type # "WorkflowCompleted"

\* Refuted: a line the child finished is reported whole (the exit is seen before
\* the pumps have delivered it).
FinishedLineIsWhole ==
    \A i \in DOMAIN events : LET e == events[i] IN
        e.part = "first" => 2 * e.no > SinkPieces \/ 2 * e.no > Pieces(e.at)

=============================================================================
