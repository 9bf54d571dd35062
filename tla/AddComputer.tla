---------------------------- MODULE AddComputer ----------------------------
(***************************************************************************)
(* The phone's Add Computer flow                                           *)
(* (src/mobile/lib/screens/wired/add_computer_controller.dart and the      *)
(* screen that gates it, wired_add_computer.dart).  One controller mints a *)
(* pairing session, re-reads it on a timer, decides the join and counts    *)
(* the TTL down, while its HTTP calls are answered late, out of order or   *)
(* never.  The backend is the latch Pairing is shown to implement          *)
(* (PairingLatch), one status per session, and the mark "consumed" its     *)
(* live record can carry without a verdict.                                *)
(***************************************************************************)
EXTENDS Naturals, FiniteSets

CONSTANTS
    MaxSessions,   \* bound: sessions the backend mints
    MaxPolls,      \* bound: session reads in flight at once
    MaxDecides     \* bound: decisions the Owner sends

ASSUME AddComputerAssumption == {MaxSessions, MaxPolls, MaxDecides} \subseteq Nat

Sessions == 1 .. MaxSessions
NoSession == 0

Live == {"create", "qr", "waiting", "approving", "rejecting"}
Terminal == {"done", "expired"}
Deciding == {"approving", "rejecting"}
Decided == {"approved", "rejected"}

VARIABLES
    \* the controller: AddComputerState and its private fields
    stage,       \* AddComputerStage
    sess,        \* state.sessionId, or NoSession
    join,        \* the session whose join state.join describes, or NoSession
    busy,        \* state.busy
    polling,     \* the periodic read is armed
    gone,        \* disposed
    lapsed,      \* sessions whose deadline the phone's clock has passed
    \* calls in flight
    create,      \* createPairingSession: how far it is, and what it minted
    polls,       \* slot -> getPairingSession: session, reply
    decides,     \* slot -> decidePairingSession: session, verdict, join, reply
    \* the backend
    server,      \* session -> status
    stamped,     \* sessions whose live record was marked consumed, verdict or none
    \* history
    shown,       \* sessions the flow has displayed
    spent        \* sessions the flow has shown as done or expired

phone == <<stage, sess, join, busy, polling, gone>>
shownVars == <<shown, spent>>
backend == <<server, stamped>>
addVars == <<phone, lapsed, create, polls, decides, backend, shownVars>>

NoPoll == [of |-> NoSession, reply |-> "idle"]
NoDecide == [of |-> NoSession, verdict |-> "approved", on |-> NoSession, reply |-> "idle"]

AddInit ==
    /\ stage = "create" /\ sess = NoSession /\ join = NoSession
    /\ busy = FALSE /\ polling = FALSE /\ gone = FALSE
    /\ lapsed = {}
    /\ create = [at |-> "idle", of |-> NoSession]
    /\ polls = [i \in 1 .. MaxPolls |-> NoPoll]
    /\ decides = [i \in 1 .. MaxDecides |-> NoDecide]
    /\ server = [n \in Sessions |-> "absent"] /\ stamped = {}
    /\ shown = {} /\ spent = {}

-----------------------------------------------------------------------------
\* _emit: a closed flow publishes nothing; otherwise the new state, and what
\* the Owner has now been shown.
Emit(st, s, j, b) ==
    /\ IF gone
         THEN UNCHANGED <<stage, sess, join, busy>>
         ELSE stage' = st /\ sess' = s /\ join' = j /\ busy' = b
    /\ shown' = IF gone \/ s = NoSession THEN shown ELSE shown \cup {s}
    /\ spent' = IF ~gone /\ s # NoSession /\ st \in Terminal
                  THEN spent \cup {s} ELSE spent

\* copyWith of the stage alone.
EmitStage(st) == Emit(st, sess, join, busy)

\* A call came back and changes nothing on the phone.
Ignore == UNCHANGED <<phone, shownVars>>

\* Bug: regenerate replaces a live session.
CreateSession_AnyTime ==
    /\ ~gone /\ ~busy /\ stage \notin Deciding
    /\ polling' = FALSE
    /\ Emit("create", NoSession, NoSession, TRUE)
    /\ create' = [at |-> "sent", of |-> NoSession]
    /\ UNCHANGED <<gone, lapsed, polls, decides, backend>>

\* createSession up to its await.  The button is live while nothing is busy.
CreateSession ==
    /\ ~gone /\ ~busy /\ stage \notin Deciding
    /\ sess = NoSession \/ stage \in Terminal
    /\ polling' = FALSE
    /\ Emit("create", NoSession, NoSession, TRUE)
    /\ create' = [at |-> "sent", of |-> NoSession]
    /\ UNCHANGED <<gone, lapsed, polls, decides, backend>>

\* createSession after its await: the QR and the poll timer, or the error.
CreateAnswered ==
    /\ create.at \in {"made", "failed"}
    /\ create' = [at |-> "idle", of |-> NoSession]
    /\ \/ /\ create.at = "made"
          /\ Emit("qr", create.of, join, FALSE)
          /\ polling' = TRUE
       \/ /\ create.at = "failed"
          /\ Emit(stage, sess, join, FALSE)
          /\ UNCHANGED polling
    /\ UNCHANGED <<gone, lapsed, polls, decides, backend>>

\* The poll timer fires: readSession up to its await.  Reads do not wait for
\* each other.
ReadSession(i) ==
    /\ polling /\ ~gone
    /\ sess # NoSession /\ stage \notin Terminal \cup Deciding
    /\ polls[i] = NoPoll
    /\ polls' = [polls EXCEPT ![i] = [of |-> sess, reply |-> "sent"]]
    /\ UNCHANGED <<phone, lapsed, create, decides, backend, shownVars>>

\* readSession after its await, with _applySession.  The stage and the
\* session are the flow's of NOW; the record is of the session that was read.
ReadAnswered(i) ==
    LET p == polls[i] IN
    /\ p.reply \notin {"idle", "sent"}
    /\ polls' = [polls EXCEPT ![i] = NoPoll]
    /\ \/ /\ p.reply = "expired"
          /\ polling' = FALSE
          /\ EmitStage("expired") /\ UNCHANGED gone
       \/ /\ p.reply \in Decided \cup {"consumed"}
          /\ polling' = FALSE
          /\ EmitStage("done") /\ UNCHANGED gone
       \/ /\ p.reply = "joined"
          /\ Emit("waiting", sess, p.of, busy)
          /\ UNCHANGED <<polling, gone>>
       \/ p.reply \in {"open", "error"} /\ Ignore
    /\ UNCHANGED <<lapsed, create, decides, backend>>

\* decide up to the call.  The card's two buttons are live while the stage is
\* waiting; the decision goes to the flow's session, bound to its join.
Decide(i, verdict) ==
    /\ ~gone /\ stage = "waiting" /\ sess # NoSession /\ join # NoSession
    /\ decides[i] = NoDecide
    /\ EmitStage(IF verdict = "approved" THEN "approving" ELSE "rejecting")
    /\ decides' = [decides EXCEPT ![i] =
                     [of |-> sess, verdict |-> verdict, on |-> join, reply |-> "sent"]]
    /\ UNCHANGED <<polling, gone, lapsed, create, polls, backend>>

\* Bug: a decision whose answer was lost counts as made.
DecideAnswered_AlwaysDone(i) ==
    LET d == decides[i] IN
    /\ d.reply \notin {"idle", "sent", "closed"}
    /\ decides' = [decides EXCEPT ![i].reply = "closed"]
    /\ polling' = FALSE
    /\ EmitStage(IF d.reply = "expired" THEN "expired" ELSE "done")
    /\ UNCHANGED <<gone, lapsed, create, polls, backend>>

\* decide after the call, with _failDecision.  Every outcome stops the poll.
DecideAnswered(i) ==
    LET d == decides[i] IN
    /\ d.reply \notin {"idle", "sent", "closed"}
    /\ decides' = [decides EXCEPT ![i].reply = "closed"]
    /\ polling' = FALSE
    /\ EmitStage(CASE d.reply \in {"ok", "consumed"} -> "done"
                   [] d.reply = "expired" -> "expired"
                   [] d.reply = "error" -> "waiting")
    /\ UNCHANGED <<gone, lapsed, create, polls, backend>>

\* Bug: the TTL is not counted while a decision is in flight.
Tick_NotDeciding ==
    /\ ~gone /\ stage \notin Terminal \cup Deciding
    /\ sess \in lapsed
    /\ polling' = FALSE
    /\ EmitStage("expired")
    /\ UNCHANGED <<gone, lapsed, create, polls, decides, backend>>

\* The screen's one second ticker: the TTL, on the phone's clock.
Tick ==
    /\ ~gone /\ stage \notin Terminal
    /\ sess \in lapsed
    /\ polling' = FALSE
    /\ EmitStage("expired")
    /\ UNCHANGED <<gone, lapsed, create, polls, decides, backend>>

\* The last viewer navigates away.
Dispose ==
    /\ ~gone
    /\ gone' = TRUE /\ polling' = FALSE
    /\ UNCHANGED <<stage, sess, join, busy, lapsed, create, polls, decides, backend,
                   shownVars>>

-----------------------------------------------------------------------------
\* The phone's clock passes a session's deadline.  It is not the backend's
\* clock: either may be first.
PhoneClock(n) ==
    /\ server[n] # "absent" /\ n \notin lapsed
    /\ lapsed' = lapsed \cup {n}
    /\ UNCHANGED <<phone, create, polls, decides, backend, shownVars>>

\* handleCreateSession answers with a session nobody had.
ServeCreate(n) ==
    /\ create.at = "sent"
    /\ server[n] = "absent" /\ \A m \in 1 .. n - 1 : server[m] # "absent"
    /\ server' = [server EXCEPT ![n] = "open"]
    /\ create' = [at |-> "made", of |-> n]
    /\ UNCHANGED <<phone, lapsed, polls, decides, stamped, shownVars>>

\* The computer joins; the TTL runs out.
ServerMove(n, to) ==
    /\ \/ server[n] = "open" /\ to = "joined"
       \/ server[n] \in {"open", "joined"} /\ to = "expired"
    /\ server' = [server EXCEPT ![n] = to]
    /\ UNCHANGED <<phone, lapsed, create, polls, decides, stamped, shownVars>>

\* SubmitJoinRequest won the live record and its audit row failed: the session
\* fails closed, marked consumed although nobody decided it.
AuditFails(n) ==
    /\ server[n] \in {"open", "joined"} /\ n \notin stamped
    /\ stamped' = stamped \cup {n}
    /\ UNCHANGED <<phone, lapsed, create, polls, decides, server, shownVars>>

\* handlePairingGet: the live record, which may carry the mark or may have
\* missed the verdict, or the audit row once Redis has dropped the record.
ServeRead(i) ==
    LET n == polls[i].of IN
    /\ polls[i].reply = "sent"
    /\ \E status \in {server[n]}
                       \cup {"consumed" : m \in stamped \cap {n}}
                       \cup {"joined" : v \in Decided \cap {server[n]}} :
          polls' = [polls EXCEPT ![i].reply = status]
    /\ UNCHANGED <<phone, lapsed, create, decides, backend, shownVars>>

\* handlePairingDecision: the first decision stands, a subject key other than
\* the joined one is refused, and the mark refuses a decision the row would
\* take, unless Redis has dropped the record.  A decision the row finds expired
\* or spent marks the record, if that write does not fail too.
ServeDecide(i) ==
    LET d == decides[i]
        Answer(r) == decides' = [decides EXCEPT ![i].reply = r]
    IN
    /\ d.reply = "sent"
    /\ \/ /\ server[d.of] = "joined" /\ d.on = d.of
          /\ server' = [server EXCEPT ![d.of] = d.verdict]
          /\ Answer("ok") /\ UNCHANGED stamped
       \/ /\ d.of \in stamped /\ d.on = d.of
          /\ Answer("consumed") /\ UNCHANGED backend
       \/ /\ server[d.of] \in Decided \cup {"expired"}
          /\ Answer(IF server[d.of] = "expired" THEN "expired" ELSE "consumed")
          /\ stamped' \in {stamped, stamped \cup {d.of}} /\ UNCHANGED server
       \/ /\ server[d.of] \in {"absent", "open"} \/ d.on # d.of
          /\ Answer("error") /\ UNCHANGED backend
    /\ UNCHANGED <<phone, lapsed, create, polls, shownVars>>

\* A call fails on the way out or on the way back.
LoseCreate ==
    /\ create.at \in {"sent", "made"}
    /\ create' = [at |-> "failed", of |-> NoSession]
    /\ UNCHANGED <<phone, lapsed, polls, decides, backend, shownVars>>

LoseRead(i) ==
    /\ polls[i].reply \notin {"idle", "error"}
    /\ polls' = [polls EXCEPT ![i].reply = "error"]
    /\ UNCHANGED <<phone, lapsed, create, decides, backend, shownVars>>

LoseDecide(i) ==
    /\ decides[i].reply \notin {"idle", "error", "closed"}
    /\ decides' = [decides EXCEPT ![i].reply = "error"]
    /\ UNCHANGED <<phone, lapsed, create, polls, backend, shownVars>>

AddNext ==
    \/ CreateSession \/ CreateAnswered \/ Tick \/ Dispose \/ LoseCreate
    \/ \E i \in 1 .. MaxPolls :
         ReadSession(i) \/ ReadAnswered(i) \/ ServeRead(i) \/ LoseRead(i)
    \/ \E i \in 1 .. MaxDecides :
         \/ DecideAnswered(i) \/ ServeDecide(i) \/ LoseDecide(i)
         \/ \E verdict \in Decided : Decide(i, verdict)
    \/ \E n \in Sessions :
         \/ PhoneClock(n) \/ ServeCreate(n) \/ AuditFails(n)
         \/ \E to \in {"joined", "expired"} : ServerMove(n, to)

AddSpec == AddInit /\ [][AddNext]_addVars

\* Time passes and the ticker runs every second while the screen is mounted;
\* nothing is assumed of the network.
AddFairSpec ==
    /\ AddSpec
    /\ WF_addVars(Tick)
    /\ \A n \in Sessions : WF_addVars(PhoneClock(n))

-----------------------------------------------------------------------------
\* What the controller, the calls and the backend range over.
AddTypeOK ==
    /\ stage \in Live \cup Terminal
    /\ sess \in Sessions \cup {NoSession} /\ join \in Sessions \cup {NoSession}
    /\ {busy, polling, gone} \subseteq BOOLEAN
    /\ lapsed \subseteq Sessions /\ shown \subseteq Sessions /\ spent \subseteq shown
    /\ create \in [at : {"idle", "sent", "made", "failed"}, of : Sessions \cup {NoSession}]
    /\ polls \in [1 .. MaxPolls ->
                    [of : Sessions \cup {NoSession},
                     reply : {"idle", "sent", "error", "open", "joined", "expired", "consumed"}
                               \cup Decided]]
    /\ decides \in [1 .. MaxDecides ->
                      [of : Sessions \cup {NoSession}, verdict : Decided,
                       on : Sessions \cup {NoSession},
                       reply : {"idle", "sent", "ok", "consumed", "expired", "error", "closed"}]]
    /\ \A i \in 1 .. MaxDecides : decides[i].reply # "idle" => decides[i].of \in Sessions
    /\ server \in [Sessions -> {"absent", "open", "joined", "expired"} \cup Decided]
    /\ stamped \subseteq Sessions

\* "A live session is never replaced mid flight": whatever late answers do to
\* the stage, a session the Owner was shown is either the one on the screen or
\* one the Owner was told is over (add_computer_controller.dart:187).
LiveNeverReplaced == shown \ {sess} \subseteq spent

\* Sessions nobody can decide any more: decided, or marked consumed.
Closed == {n \in Sessions : server[n] \in Decided} \cup stamped

\* "Done" is never a guess: however late, lost or repeated the answers were, the
\* backend has closed a session this flow has shown, the one on the screen or
\* one the Owner saw end before it (add_computer_controller.dart:279-284,
\* 310-318, 377-381).
DoneIsEarned == stage = "done" => spent \cap Closed # {}

\* "A spent session is done, not expired: the first outcome stands" (303-306):
\* done is about the session on the screen, and that session has an outcome.
DoneMeansDecided == stage = "done" => sess # NoSession /\ server[sess] \in Decided

\* "Nothing transitions back out of these": a session the Owner saw done or
\* expired never comes back to life on the screen (153-158).
TerminalStays == sess \in spent => stage \in Terminal

\* The card always describes the join of the session a tap would decide
\* (48-50).
CardIsOfSession == join # NoSession => join = sess

\* "Approve or reject the waiting join, once": a session never has two
\* decisions of this phone under way (233).
OneDecisionAtATime ==
    \A i, j \in 1 .. MaxDecides :
        i # j => ~ (/\ decides[i].of # NoSession /\ decides[i].of = decides[j].of
                    /\ {decides[i].reply, decides[j].reply} \cap {"idle", "closed"} = {})

\* "Dropped when the last viewer navigates away": a closed flow has no timer
\* (76, 179-185).
ClosedFlowHasNoTimer == gone => ~polling

\* However the network behaves, the Owner is not left with a live card for
\* ever: every session on the screen ends, decided or expired (290-301).
SessionEnds == (sess # NoSession /\ stage \notin Terminal) ~> (stage \in Terminal \/ gone)

=============================================================================
