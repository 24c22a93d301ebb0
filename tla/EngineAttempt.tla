---------------------------- MODULE EngineAttempt ----------------------------
(***************************************************************************)
(* One engine attempt, from its claim to its journaled result.             *)
(*                                                                         *)
(* Three programs take part. The runner (engine-attempt-runtime.mjs,       *)
(* engine-supervised-run.mjs) claims a run, keeps a directory of records   *)
(* per attempt (attempt-journal-*.mjs) and may be killed between any two   *)
(* of its steps. The supervisor (engine-supervisor-child.mjs) is a         *)
(* detached process that starts the engine when it is told to, and keeps   *)
(* the result until the runner, or the one that comes after it, has        *)
(* journaled it. The engine is a foreign program.                          *)
(*                                                                         *)
(* What becomes of a result once it is journaled (outbox, delivery,        *)
(* settlement) is not this module's. One runner process at a time owns the *)
(* directory: that is what RunnerLock is about.                            *)
(***************************************************************************)
EXTENDS Naturals, Sequences, FiniteSets

CONSTANTS
  Attempts,  \* attempt ids (random in the code; a quarantined id counts as unused again)
  Targets,   \* the run and engine a `serve` was given
  None       \* no attempt, no target

ASSUME NoneAssumption == None \notin Attempts \cup Targets

VARIABLES
  journal,     \* [Attempts -> the directory of an attempt]
  runner,      \* the execution loop of the runner process
  session,     \* the authenticated connection between runner and supervisor
  supervisor,  \* [Attempts -> the supervisor process of the attempt]
  engine       \* [Attempts -> the engine process of the attempt]

vars == <<journal, runner, session, supervisor, engine>>

-----------------------------------------------------------------------------
(* Receipts and events *)

(* Why an attempt may be stopped. "lease_lost" also stands for the reasons  *)
(* the code treats as it treats that one: engine_deadline_exhausted,        *)
(* engine_incompatible and the three prompt reasons.                        *)
StopReasons == {"cancel_requested", "lease_lost"}
PrestartReasons == StopReasons \cup {"spawn_failed"}

(* "ended" is every way an engine ends that nobody asked for: its exit,     *)
(* a timeout, too much output.                                              *)
Reasons == PrestartReasons \cup {"protocol_invalid", "ended"}

(* child: startedAt is that of a child process. output: it wrote something. *)
Receipts == [reason : Reasons, child : BOOLEAN, output : BOOLEAN]
NoReceipt == [reason |-> "none", child |-> FALSE, output |-> FALSE]
Prestart(reason) == [reason |-> reason, child |-> FALSE, output |-> FALSE]

(* An event of the supervisor; for a fault its code is the receipt's reason.*)
StateEvent(state) == [state |-> state, receipt |-> NoReceipt]
FaultEvent(code) == [state |-> "fault", receipt |-> Prestart(code)]
ResultEvent(receipt) == [state |-> "result", receipt |-> receipt]
NoEvent == StateEvent("none")

LiveStates == {"waiting_spawn", "waiting_input", "running"}
Events ==
  {StateEvent(s) : s \in LiveStates}
    \cup {FaultEvent(c) : c \in Reasons} \cup {ResultEvent(r) : r \in Receipts}

(* A control frame of the runner: arg is the reason of a terminate, and for *)
(* authorize_spawn whether the request equals the one already accepted.     *)
Frame(kind, arg) == [kind |-> kind, arg |-> arg]
Frames ==
  {Frame("terminate", r) : r \in StopReasons}
    \cup {Frame("authorize_spawn", x) : x \in {"same", "other"}}
    \cup {Frame(k, "none") : k \in {"authorize_input", "ack_result", "abandon"}}

-----------------------------------------------------------------------------
(* The journal: which sets of records are one attempt's *)

RecordStates ==
  {"claimed", "starting", "canceling", "spawning", "supervisor", "started", "result", "settled"}

NoJournal ==
  [made |-> FALSE, target |-> None, records |-> {}, wanted |-> FALSE, receipt |-> NoReceipt]

Journals ==
  [made : BOOLEAN, target : Targets \cup {None}, records : SUBSET RecordStates,
   wanted : BOOLEAN, receipt : Receipts \cup {NoReceipt}]

ValidPrestartReceipt(receipt) == receipt.reason \in PrestartReasons /\ ~receipt.output

(* The records a set has say which others it must have, and what a result   *)
(* may say.                                                                 *)
ValidAttemptRecordSet(j) ==
  LET R == j.records IN
  /\ "claimed" \in R
  /\ R \cap {"canceling", "spawning", "supervisor", "started", "result"} # {} => "starting" \in R
  /\ "canceling" \in R => R \cap {"spawning", "supervisor", "started"} = {}
  /\ "supervisor" \in R => "spawning" \in R
  /\ "started" \in R => "supervisor" \in R
  /\ "result" \in R =>
       IF "started" \in R
       THEN j.receipt.child
       ELSE /\ ValidPrestartReceipt(j.receipt)
            /\ j.receipt.reason = "cancel_requested" =>
                 j.wanted \/ R \cap {"canceling", "supervisor"} # {}
            /\ "canceling" \in R => j.receipt.reason = "cancel_requested"
  /\ "settled" \in R => R \cap {"canceling", "supervisor", "started", "result"} = {}

Terminal(a) == journal[a].records \cap {"result", "settled"} # {}
MayBeActive(a) == journal[a].records # {} /\ ~Terminal(a)
Corrupt(a) == journal[a].made /\ journal[a].records = {}
Has(a, state) == state \in journal[a].records

(* Nothing is appended to a terminal attempt, nothing is written twice, and *)
(* the set must stay valid.                                                 *)
Persist(a, state) ==
  LET next == [journal[a] EXCEPT !.records = @ \cup {state}] IN
  /\ ~Terminal(a) /\ ~Has(a, state)
  /\ ValidAttemptRecordSet(next)
  /\ journal' = [journal EXCEPT ![a] = next]

WithResult(a, receipt) ==
  [journal[a] EXCEPT !.records = @ \cup {"result"}, !.receipt = receipt]

PersistResult(a, receipt) ==
  /\ ~Terminal(a)
  /\ ValidAttemptRecordSet(WithResult(a, receipt))
  /\ journal' = [journal EXCEPT ![a] = WithResult(a, receipt)]

-----------------------------------------------------------------------------
(* Types *)

(* pc: off: no target is executed, because the process is down or because   *)
(* its loop is over; the others name the step the loop is at. stop, sent:   *)
(* the reason of the termination signal, and whether the supervisor has     *)
(* been told. input: the copy of the prompt it holds.                       *)
Runners ==
  [pc : {"off", "prepare", "directory", "claim", "decide", "plan", "canceling", "commit",
         "launch", "bootstrap", "connect", "drive", "identified"},
   target : Targets \cup {None}, attempt : Attempts \cup {None},
   stop : StopReasons \cup {"none"}, sent : BOOLEAN, input : {"none", "prompt", "zeroed"}]

RunnerOff ==
  [pc |-> "off", target |-> None, attempt |-> None, stop |-> "none", sent |-> FALSE,
   input |-> "none"]

NoSession == [attempt |-> None, events |-> <<>>, frames |-> <<>>]

(* phase: preparing and launching are both "spawning" in the code: while it *)
(* prepares the scratch directory there is no abort controller yet; spawned *)
(* is a child that has not been announced. released: the supervisor closed  *)
(* because it was told the result is durable; gone: for any other reason.   *)
SupervisorPhases ==
  {"none", "waiting_spawn", "preparing", "launching", "spawned", "waiting_input", "running",
   "terminal", "released", "gone"}

Supervisors ==
  [phase : SupervisorPhases, faulted : BOOLEAN, stop : StopReasons \cup {"none"},
   aborted : BOOLEAN, child : BOOLEAN, event : Events \cup {NoEvent}]

NewSupervisor(phase) ==
  [phase |-> phase, faulted |-> FALSE, stop |-> "none", aborted |-> FALSE, child |-> FALSE,
   event |-> NoEvent]

Engines == [spawns : 0..2, state : {"none", "idle", "prompted", "over"}, read : BOOLEAN]

TypeOK ==
  /\ journal \in [Attempts -> Journals]
  /\ runner \in Runners
  /\ session \in [attempt : Attempts \cup {None}, events : Seq(Events), frames : Seq(Frames)]
  /\ supervisor \in [Attempts -> Supervisors]
  /\ engine \in [Attempts -> Engines]

Init ==
  /\ journal = [a \in Attempts |-> NoJournal]
  /\ runner = RunnerOff
  /\ session = NoSession
  /\ supervisor = [a \in Attempts |-> NewSupervisor("none")]
  /\ engine = [a \in Attempts |-> [spawns |-> 0, state |-> "none", read |-> FALSE]]

-----------------------------------------------------------------------------
(* The runner: from a target to a decision *)

Goto(pc) == runner' = [runner EXCEPT !.pc = pc]
Stop == runner' = RunnerOff

(* One call of runEngineAttemptTarget that did not end the loop: the next   *)
(* call starts from the journal.                                            *)
Again ==
  runner' = [RunnerOff EXCEPT !.pc = "prepare", !.target = runner.target]

At(pc) == runner.pc = pc
OnlyRunner == UNCHANGED <<journal, session, supervisor, engine>>
OnlyJournal == UNCHANGED <<session, supervisor, engine>>

Serve(t) ==
  /\ At("off")
  /\ runner' = [RunnerOff EXCEPT !.pc = "prepare", !.target = t]
  /\ OnlyRunner

(* A directory without its first record is what a crash left: it is moved   *)
(* aside, and this process gives up.                                        *)
Quarantine ==
  /\ At("prepare") /\ \E a \in Attempts : Corrupt(a)
  /\ journal' = [a \in Attempts |-> IF Corrupt(a) THEN NoJournal ELSE journal[a]]
  /\ Stop
  /\ OnlyJournal

Matching == {a \in Attempts : journal[a].records # {} /\ journal[a].target = runner.target}
ForeignLive == \E a \in Attempts \ Matching : MayBeActive(a)
JournalsRead == At("prepare") /\ ~\E a \in Attempts : Corrupt(a)

(* Retried until the failure budget is used up: nothing this process does   *)
(* in between changes the journals.                                         *)
TargetBusy ==
  /\ JournalsRead /\ ForeignLive
  /\ Stop
  /\ OnlyRunner

AdoptAttempt(a) ==
  /\ JournalsRead /\ ~ForeignLive /\ Matching = {a}
  /\ IF Terminal(a)
     THEN Stop
     ELSE runner' = [runner EXCEPT !.attempt = a,
                       !.pc = IF Has(a, "starting") THEN "decide" ELSE "claim"]
  /\ OnlyRunner

MakeDirectory(a) ==
  /\ JournalsRead /\ ~ForeignLive /\ Matching = {} /\ ~journal[a].made
  /\ journal' = [journal EXCEPT ![a].made = TRUE]
  /\ runner' = [runner EXCEPT !.pc = "directory", !.attempt = a]
  /\ OnlyJournal

PersistClaimed(a) ==
  /\ At("directory") /\ runner.attempt = a
  /\ journal' = [journal EXCEPT ![a].records = {"claimed"}, ![a].target = runner.target]
  /\ Goto("claim")
  /\ OnlyJournal

(* The server's answer to the claim: a descriptor, which may say that the   *)
(* run is canceled; or a denial, or a descriptor that leaves no time.       *)
ClaimGranted(a, wanted) ==
  /\ At("claim") /\ runner.attempt = a
  /\ LET next == [journal[a] EXCEPT !.records = @ \cup {"starting"}, !.wanted = wanted] IN
     /\ ValidAttemptRecordSet(next)
     /\ journal' = [journal EXCEPT ![a] = next]
  /\ Goto("decide")
  /\ OnlyJournal

ClaimDenied(a) ==
  /\ At("claim") /\ runner.attempt = a
  /\ Persist(a, "settled")
  /\ Stop
  /\ OnlyJournal

(* A spawning record without a supervisor's: an earlier process may have    *)
(* started one. Nobody can tell, and the process gives up.                  *)
SpawningAmbiguous(a) ==
  /\ At("decide") /\ runner.attempt = a
  /\ Has(a, "spawning") /\ ~Has(a, "supervisor")
  /\ Stop
  /\ OnlyRunner

CompleteCancellation(a) ==
  /\ At("decide") /\ runner.attempt = a
  /\ Has(a, "canceling") \/ (journal[a].wanted /\ ~Has(a, "spawning"))
  /\ PersistResult(a, Prestart("cancel_requested"))
  /\ Stop
  /\ OnlyJournal

(* With a started child there is nothing to prepare: the prompt is not read *)
(* again.                                                                   *)
ResumeOrPlan(a) ==
  /\ At("decide") /\ runner.attempt = a
  /\ ~Has(a, "canceling")
  /\ Has(a, "spawning") => Has(a, "supervisor")
  /\ journal[a].wanted => Has(a, "spawning")
  /\ Goto(IF Has(a, "supervisor") /\ Has(a, "started") THEN "connect" ELSE "plan")
  /\ OnlyRunner

-----------------------------------------------------------------------------
(* The runner: preparing an execution *)

(* prepareExecution renews, reads the prompt, checks the engine and renews  *)
(* again; nothing is written in between, so its outcome is one step. Any    *)
(* effect may be retried until the call gives up.                           *)
RetryLater ==
  /\ runner.pc \in {"claim", "plan", "launch", "connect"}
  /\ Again
  /\ OnlyRunner

PlanReady(a) ==
  /\ At("plan") /\ runner.attempt = a
  /\ runner' = [runner EXCEPT !.input = "prompt",
                  !.pc = IF Has(a, "supervisor") THEN "connect" ELSE "commit"]
  /\ OnlyRunner

(* With a supervisor nothing may be concluded without it: the reason is     *)
(* what it will be told.                                                    *)
PlanTerminates(a, reason) ==
  /\ At("plan") /\ runner.attempt = a /\ Has(a, "supervisor")
  /\ runner' = [runner EXCEPT !.pc = "connect", !.stop = reason]
  /\ OnlyRunner

\* bug: the reason is recorded although a supervisor may have started the engine
PlanResultAnyway(a, reason) ==
  /\ At("plan") /\ runner.attempt = a
  /\ reason # "cancel_requested"
  /\ PersistResult(a, Prestart(reason))
  /\ Stop
  /\ OnlyJournal

PlanPrestartResult(a, reason) ==
  /\ At("plan") /\ runner.attempt = a /\ ~Has(a, "supervisor")
  /\ reason # "cancel_requested"
  /\ PersistResult(a, Prestart(reason))
  /\ Stop
  /\ OnlyJournal

PlanDenied(a) ==
  /\ At("plan") /\ runner.attempt = a /\ ~Has(a, "supervisor")
  /\ Persist(a, "settled")
  /\ Stop
  /\ OnlyJournal

(* A renewal that says the run is canceled: two records, and a crash may    *)
(* fall between them.                                                       *)
PlanCanceled(a) ==
  /\ At("plan") /\ runner.attempt = a /\ ~Has(a, "supervisor")
  /\ Persist(a, "canceling")
  /\ Goto("canceling")
  /\ OnlyJournal

FinishCancellation(a) ==
  /\ At("canceling") /\ runner.attempt = a
  /\ PersistResult(a, Prestart("cancel_requested"))
  /\ Stop
  /\ OnlyJournal

(* The last gate: lease and deadline are read once more.                    *)
CommitTooLate(a, reason) ==
  /\ At("commit") /\ runner.attempt = a /\ reason # "cancel_requested"
  /\ PersistResult(a, Prestart(reason))
  /\ Stop
  /\ OnlyJournal

CommitSpawning(a) ==
  /\ At("commit") /\ runner.attempt = a
  /\ Persist(a, "spawning")
  /\ Goto("launch")
  /\ OnlyJournal

(* The detached process is started, says which port it listens on, and only *)
(* then is its identity written down.                                       *)
SpawnSupervisor(a) ==
  /\ At("launch") /\ runner.attempt = a
  /\ supervisor' = [supervisor EXCEPT ![a] = NewSupervisor("waiting_spawn")]
  /\ Goto("bootstrap")
  /\ UNCHANGED <<journal, session, engine>>

PersistSupervisor(a) ==
  /\ At("bootstrap") /\ runner.attempt = a
  /\ Persist(a, "supervisor")
  /\ Goto("connect")
  /\ OnlyJournal

BootstrapFails(a) ==
  /\ At("bootstrap") /\ runner.attempt = a
  /\ supervisor' = [supervisor EXCEPT ![a].phase = "gone"]
  /\ Again
  /\ UNCHANGED <<journal, session, engine>>

-----------------------------------------------------------------------------
(* The runner: driving the supervisor *)

Listening(a) == supervisor[a].phase \notin {"none", "released", "gone"}
Attached(a) == session.attempt = a

(* What a supervisor tells whoever attaches: where it stands, and before a  *)
(* terminal event the identity of the child, if there was one.              *)
Snapshot(s) ==
  LET current == IF s.event = NoEvent THEN StateEvent("waiting_spawn") ELSE s.event IN
  IF s.phase = "terminal" /\ s.child
  THEN <<StateEvent("waiting_input"), current>>
  ELSE <<current>>

Connect(a) ==
  /\ At("connect") /\ runner.attempt = a
  /\ Listening(a) /\ session.attempt = None
  /\ session' = [attempt |-> a, events |-> Snapshot(supervisor[a]), frames |-> <<>>]
  /\ supervisor' = [supervisor EXCEPT ![a].event =
                      IF @ = NoEvent THEN StateEvent("waiting_spawn") ELSE @]
  /\ Goto("drive")
  /\ UNCHANGED <<journal, engine>>

Driving(a) == At("drive") /\ runner.attempt = a /\ Attached(a)
Told == runner.stop = "none" \/ runner.sent
Sees(states) == session.events # <<>> /\ Head(session.events).state \in states

(* The renewals that go on beside the session may end in a termination      *)
(* signal: the run was canceled, the lease was lost, the deadline is near.  *)
TerminationSignal(reason) ==
  /\ runner.pc \in {"launch", "bootstrap", "connect", "drive", "identified"}
  /\ runner.stop = "none"
  /\ runner' = [runner EXCEPT !.stop = reason]
  /\ OnlyRunner

(* A signal that is up when an event of a live supervisor is looked at goes *)
(* first: the supervisor is told, and the event is dropped for the one that *)
(* follows it.                                                              *)
SendTerminate(a) ==
  /\ Driving(a) /\ ~Told
  /\ session.events = <<>> \/ Sees(LiveStates)
  /\ session' = [session EXCEPT
                   !.frames = Append(@, Frame("terminate", runner.stop)),
                   !.events = IF @ = <<>> THEN @ ELSE Tail(@)]
  /\ runner' = [runner EXCEPT !.sent = TRUE]
  /\ UNCHANGED <<journal, supervisor, engine>>

(* The buffer is zeroed after the first frame, so a second one in the same  *)
(* session is never the same request. In another session it is the same     *)
(* only if no renewal moved the expiry.                                     *)
AuthorizeSpawn(a, request) ==
  /\ Driving(a) /\ Told /\ Sees({"waiting_spawn"})
  /\ ~Has(a, "started") /\ runner.input # "none"
  /\ runner.input = "zeroed" => request = "other"
  /\ session' = [session EXCEPT !.frames = Append(@, Frame("authorize_spawn", request)),
                                !.events = Tail(@)]
  /\ runner' = [runner EXCEPT !.input = "zeroed"]
  /\ UNCHANGED <<journal, supervisor, engine>>

\* bug: the identity is written down once the child runs
RecordStartedLate(a) ==
  /\ Driving(a) /\ Told /\ Sees({"waiting_input", "running"})
  /\ IF Has(a, "started") \/ Sees({"waiting_input"})
     THEN UNCHANGED journal
     ELSE Persist(a, "started")
  /\ Goto("identified")
  /\ OnlyJournal

RecordStarted(a) ==
  /\ Driving(a) /\ Told /\ Sees({"waiting_input", "running"})
  /\ IF Has(a, "started") THEN UNCHANGED journal ELSE Persist(a, "started")
  /\ Goto("identified")
  /\ OnlyJournal

AuthorizeInput(a) ==
  /\ At("identified") /\ runner.attempt = a /\ Attached(a)
  /\ session' = [session EXCEPT
                   !.frames = IF Sees({"waiting_input"})
                              THEN Append(@, Frame("authorize_input", "none")) ELSE @,
                   !.events = Tail(@)]
  /\ Goto("drive")
  /\ UNCHANGED <<journal, supervisor, engine>>

(* What the journal can take as the attempt's result.                       *)
Acceptable(a, receipt) ==
  /\ Has(a, "started") \/ receipt.reason \in PrestartReasons
  /\ ValidAttemptRecordSet(WithResult(a, receipt))

\* bug: the acknowledgement goes out before the record is written
AcknowledgeFirst(a) ==
  /\ Driving(a) /\ Sees({"result"})
  /\ Acceptable(a, Head(session.events).receipt)
  /\ session' = [session EXCEPT !.frames = Append(@, Frame("ack_result", "none")),
                                !.events = <<>>]
  /\ Again
  /\ UNCHANGED <<journal, supervisor, engine>>

RecordResult(a) ==
  /\ Driving(a) /\ Sees({"result"})
  /\ LET receipt == Head(session.events).receipt IN
     Acceptable(a, receipt) /\ PersistResult(a, receipt)
  /\ session' = [session EXCEPT !.frames = Append(@, Frame("ack_result", "none")),
                                !.events = <<>>]
  /\ Stop
  /\ UNCHANGED <<supervisor, engine>>

(* The journal refuses it: the call fails, and with it, for an invalid      *)
(* record set, the process.                                                 *)
RefuseResult(a) ==
  /\ Driving(a) /\ Sees({"result"})
  /\ ~Acceptable(a, Head(session.events).receipt)
  /\ session' = NoSession
  /\ Stop \/ Again
  /\ UNCHANGED <<journal, supervisor, engine>>

(* A fault is recorded as what it means for an attempt whose child is, or   *)
(* is not, on record; then the supervisor is told to go.                    *)
FaultReceipt(a, code) ==
  IF Has(a, "started")
  THEN [reason |-> code, child |-> TRUE, output |-> FALSE]
  ELSE Prestart(IF code \in StopReasons THEN code ELSE "spawn_failed")

RecordFault(a) ==
  /\ Driving(a) /\ Sees({"fault"})
  /\ LET receipt == FaultReceipt(a, Head(session.events).receipt.reason) IN
     Acceptable(a, receipt) /\ PersistResult(a, receipt)
  /\ session' = [session EXCEPT !.frames = Append(@, Frame("abandon", "none")), !.events = <<>>]
  /\ Stop
  /\ UNCHANGED <<supervisor, engine>>

Severed == runner' = IF runner.pc \in {"drive", "identified"}
                     THEN [RunnerOff EXCEPT !.pc = "prepare", !.target = runner.target]
                     ELSE runner

SessionLost ==
  /\ session.attempt # None
  /\ session' = NoSession
  /\ Severed
  /\ UNCHANGED <<journal, supervisor, engine>>

(* The process is killed, told to stop (it then detaches), or out of its    *)
(* failure budget.                                                          *)
RunnerEnds ==
  /\ ~At("off")
  /\ Stop
  /\ session' = NoSession
  /\ UNCHANGED <<journal, supervisor, engine>>

-----------------------------------------------------------------------------
(* The supervisor: control frames *)

Receives(a, kind) == Attached(a) /\ session.frames # <<>> /\ Head(session.frames).kind = kind
Arg == Head(session.frames).arg

(* Its events reach the connection of this attempt, if there is one.        *)
Tell(a, event) ==
  session' = IF Attached(a) THEN [session EXCEPT !.events = Append(@, event)] ELSE session
Answer(events) ==
  session' = [session EXCEPT !.frames = Tail(@), !.events = @ \o events]
Current(s) == IF s.event = NoEvent THEN <<>> ELSE <<s.event>>

Controlled(s) == s.phase \in {"launching", "spawned", "waiting_input", "running"}
Aborted(s) == [s EXCEPT !.aborted = @ \/ Controlled(s)]
Ended(s, event) == [s EXCEPT !.phase = "terminal", !.event = event]
FirstReason(s, reason) == [s EXCEPT !.stop = IF @ = "none" THEN reason ELSE @]

OnlySupervisor == UNCHANGED <<journal, runner, engine>>

\* bug: a request is taken whenever no engine has its prompt yet
TakeSpawnAgain(a, expired) ==
  /\ Receives(a, "authorize_spawn") /\ ~expired
  /\ supervisor[a].phase \in {"waiting_spawn", "waiting_input"}
  /\ supervisor' = [supervisor EXCEPT ![a].phase = "preparing"]
  /\ Answer(<<>>)
  /\ OnlySupervisor

(* The first request is taken if its lease is still ahead; any other is     *)
(* compared with the first, and one that differs ends the attempt.          *)
TakeSpawn(a, expired) ==
  /\ Receives(a, "authorize_spawn") /\ supervisor[a].phase = "waiting_spawn"
  /\ LET s == supervisor[a] IN
     IF expired
     THEN /\ supervisor' = [supervisor EXCEPT
                              ![a] = Ended([s EXCEPT !.stop = "lease_lost"], FaultEvent("lease_lost"))]
          /\ Answer(<<FaultEvent("lease_lost")>>)
     ELSE /\ supervisor' = [supervisor EXCEPT ![a].phase = "preparing"]
          /\ Answer(<<>>)
  /\ OnlySupervisor

CompareSpawn(a) ==
  /\ Receives(a, "authorize_spawn") /\ supervisor[a].phase # "waiting_spawn"
  /\ LET s == supervisor[a] IN
     /\ supervisor' = [supervisor EXCEPT
                         ![a] = IF Arg = "same" THEN s ELSE [Aborted(s) EXCEPT !.faulted = TRUE]]
     /\ Answer(Current(s))
  /\ OnlySupervisor

(* The gate to the child's stdin. An aborted child is past reading.         *)
TakeInput(a) ==
  /\ Receives(a, "authorize_input")
  /\ LET s == supervisor[a] IN
     IF s.phase = "waiting_input"
     THEN /\ supervisor' = [supervisor EXCEPT ![a].phase = "running",
                                              ![a].event = StateEvent("running")]
          /\ Answer(<<StateEvent("running")>>)
          /\ engine' = IF s.aborted THEN engine
                       ELSE [engine EXCEPT ![a].state = "prompted", ![a].read = TRUE]
     ELSE /\ Answer(Current(s))
          /\ UNCHANGED <<supervisor, engine>>
  /\ UNCHANGED <<journal, runner>>

TakeTerminate(a) ==
  /\ Receives(a, "terminate")
  /\ LET s == FirstReason(supervisor[a], Arg) IN
     IF s.phase = "waiting_spawn"
     THEN /\ supervisor' = [supervisor EXCEPT ![a] = Ended(s, FaultEvent(s.stop))]
          /\ Answer(<<FaultEvent(s.stop)>>)
     ELSE /\ supervisor' = [supervisor EXCEPT ![a] = Aborted(s)]
          /\ Answer(<<>>)
  /\ OnlySupervisor

(* Acknowledged or abandoned, it closes.                                    *)
TakeRelease(a) ==
  /\ Receives(a, "ack_result") \/ Receives(a, "abandon")
  /\ supervisor[a].phase = "terminal"
  /\ supervisor' = [supervisor EXCEPT ![a].phase = "released"]
  /\ session' = NoSession
  /\ OnlySupervisor

-----------------------------------------------------------------------------
(* The supervisor: its own steps *)

(* The last acknowledged expiry of the lease has come. Before there is a    *)
(* controller only the reason is kept.                                      *)
LeaseHorizon(a) ==
  /\ supervisor[a].phase \notin {"none", "waiting_spawn", "terminal", "released", "gone"}
  /\ supervisor' = [supervisor EXCEPT ![a] = Aborted(FirstReason(@, "lease_lost"))]
  /\ UNCHANGED <<journal, runner, session, engine>>

ConcludeWith(a, event) ==
  /\ supervisor' = [supervisor EXCEPT ![a] = Ended(@, event)]
  /\ Tell(a, event)

PreparationEnds(a, ready) ==
  /\ supervisor[a].phase = "preparing"
  /\ LET s == supervisor[a] IN
     CASE ~ready -> ConcludeWith(a, FaultEvent("spawn_failed"))
       [] ready /\ s.faulted -> ConcludeWith(a, FaultEvent("protocol_invalid"))
       [] ready /\ ~s.faulted /\ s.stop # "none" -> ConcludeWith(a, FaultEvent(s.stop))
       [] OTHER -> /\ supervisor' = [supervisor EXCEPT ![a].phase = "launching"]
                   /\ UNCHANGED session
  /\ OnlySupervisor

SpawnEngine(a) ==
  /\ supervisor[a].phase = "launching" /\ ~supervisor[a].aborted
  /\ supervisor' = [supervisor EXCEPT ![a].phase = "spawned"]
  /\ engine' = [engine EXCEPT ![a].spawns = @ + 1, ![a].state = "idle", ![a].read = FALSE]
  /\ UNCHANGED <<journal, runner, session>>

(* No child, or one that was gone before it could be announced.             *)
SpawnFails(a) ==
  /\ \/ supervisor[a].phase = "launching" /\ UNCHANGED engine
     \/ /\ supervisor[a].phase = "spawned" /\ supervisor[a].aborted
        /\ engine' = [engine EXCEPT ![a].state = "over"]
  /\ ConcludeWith(a, FaultEvent("spawn_failed"))
  /\ UNCHANGED <<journal, runner>>

AnnounceChild(a) ==
  /\ supervisor[a].phase = "spawned" /\ ~supervisor[a].aborted
  /\ supervisor' = [supervisor EXCEPT ![a].phase = "waiting_input", ![a].child = TRUE,
                                      ![a].event = StateEvent("waiting_input")]
  /\ Tell(a, StateEvent("waiting_input"))
  /\ OnlySupervisor

(* The engine's process is closed, by itself or because it was aborted. A   *)
(* child that was ending anyway when the abort came ends as it would have.  *)
EngineEnds(a, reason, output) ==
  /\ supervisor[a].phase \in {"waiting_input", "running"}
  /\ LET s == supervisor[a] IN
     /\ reason = "ended" \/ (s.aborted /\ reason = s.stop)
     /\ ConcludeWith(a, IF s.faulted THEN FaultEvent("protocol_invalid")
                        ELSE ResultEvent([reason |-> reason, child |-> TRUE, output |-> output]))
  /\ engine' = [engine EXCEPT ![a].state = "over"]
  /\ UNCHANGED <<journal, runner>>

(* Nobody came for the result in time, or to authorize the spawn.           *)
HoldEnds(a) ==
  /\ \/ supervisor[a].phase = "terminal"
     \/ supervisor[a].phase = "waiting_spawn" /\ ~Attached(a)
  /\ supervisor' = [supervisor EXCEPT ![a].phase = "gone"]
  /\ IF Attached(a)
     THEN session' = NoSession /\ Severed
     ELSE UNCHANGED <<session, runner>>
  /\ UNCHANGED <<journal, engine>>

(* The supervisor is killed. Its engine is in a process group of its own    *)
(* and goes on.                                                             *)
SupervisorDies(a) ==
  /\ Listening(a)
  /\ supervisor' = [supervisor EXCEPT ![a].phase = "gone"]
  /\ IF Attached(a)
     THEN session' = NoSession /\ Severed
     ELSE UNCHANGED <<session, runner>>
  /\ UNCHANGED <<journal, engine>>

OrphanEnds(a) ==
  /\ supervisor[a].phase = "gone" /\ engine[a].state \in {"idle", "prompted"}
  /\ engine' = [engine EXCEPT ![a].state = "over"]
  /\ UNCHANGED <<journal, runner, session, supervisor>>

-----------------------------------------------------------------------------
RunnerNext ==
  \/ \E t \in Targets : Serve(t)
  \/ Quarantine \/ TargetBusy \/ RetryLater
  \/ \E a \in Attempts :
       \/ AdoptAttempt(a) \/ MakeDirectory(a) \/ PersistClaimed(a)
       \/ \E wanted \in BOOLEAN : ClaimGranted(a, wanted)
       \/ ClaimDenied(a)
       \/ SpawningAmbiguous(a) \/ CompleteCancellation(a) \/ ResumeOrPlan(a)
       \/ PlanReady(a) \/ PlanDenied(a) \/ PlanCanceled(a) \/ FinishCancellation(a)
       \/ \E r \in StopReasons : PlanTerminates(a, r) \/ PlanPrestartResult(a, r)
       \/ \E r \in StopReasons : CommitTooLate(a, r)
       \/ CommitSpawning(a)
       \/ SpawnSupervisor(a) \/ PersistSupervisor(a) \/ BootstrapFails(a)

DriveNext ==
  \/ \E r \in StopReasons : TerminationSignal(r)
  \/ SessionLost \/ RunnerEnds
  \/ \E a \in Attempts :
       \/ Connect(a) \/ SendTerminate(a)
       \/ \E request \in {"same", "other"} : AuthorizeSpawn(a, request)
       \/ RecordStarted(a) \/ AuthorizeInput(a)
       \/ RecordResult(a) \/ RefuseResult(a) \/ RecordFault(a)

SupervisorNext ==
  \E a \in Attempts :
    \/ \E expired \in BOOLEAN : TakeSpawn(a, expired)
    \/ CompareSpawn(a) \/ TakeInput(a) \/ TakeTerminate(a) \/ TakeRelease(a)
    \/ LeaseHorizon(a)
    \/ \E ready \in BOOLEAN : PreparationEnds(a, ready)
    \/ SpawnEngine(a) \/ SpawnFails(a) \/ AnnounceChild(a)
    \/ \E r \in StopReasons \cup {"ended"}, o \in BOOLEAN : EngineEnds(a, r, o)
    \/ HoldEnds(a) \/ SupervisorDies(a) \/ OrphanEnds(a)

Next == RunnerNext \/ DriveNext \/ SupervisorNext

Spec == Init /\ [][Next]_vars

-----------------------------------------------------------------------------
(* Properties *)

Alive(a) == engine[a].state \in {"idle", "prompted"}

(* An attempt starts its engine at most once, whatever is killed and        *)
(* however often the runner comes back (the accepted property of the ADR:   *)
(* "at-most-one engine spawn per durable attempt journal").                 *)
OneSpawn == \A a \in Attempts : engine[a].spawns <= 1

(* One engine at a time runs for a state directory, over all attempts: the  *)
(* next target waits until the result of the one before it is on disk, and  *)
(* then that engine is really gone.                                         *)
OneEngine == \A a, b \in Attempts : Alive(a) /\ Alive(b) => a = b

(* The engine has read the prompt only if its identity is in the journal.   *)
PromptAfterStarted == \A a \in Attempts : engine[a].read => Has(a, "started")

(* A result is final: the engine it is about is over, and a result without  *)
(* a started child says why nothing was asked of the engine.                *)
ResultIsFinal ==
  \A a \in Attempts :
    Has(a, "result") => ~Alive(a) /\ (journal[a].receipt.reason = "spawn_failed" => ~engine[a].read)

(* A supervisor that was told to go has its outcome in the journal, as it   *)
(* reported it.                                                             *)
ReleasedWhenDurable ==
  \A a \in Attempts : supervisor[a].phase = "released" =>
    /\ Has(a, "result")
    /\ supervisor[a].event.state = "result" => journal[a].receipt = supervisor[a].event.receipt

(* A target has at most one journal, and an attempt is never left for       *)
(* another one of its target.                                               *)
OneJournal ==
  \A a, b \in Attempts :
    journal[a].records # {} /\ journal[b].records # {} /\ journal[a].target = journal[b].target
      => a = b

(* The three together: one journal for a target, one engine for a journal   *)
(* and one engine at a time.                                                *)
OneOfEach == OneSpawn /\ OneEngine /\ OneJournal

(* What the supervisor has to say about the end of the attempt can be       *)
(* journaled by the runner that hears it (the ADR: a new parent             *)
(* "reconnects to that same supervisor and journals the replayed            *)
(* identity/result").                                                       *)
ReplayJournaled ==
  \A a \in Attempts :
    Driving(a) /\ Sees({"result"}) => Acceptable(a, Head(session.events).receipt)

=============================================================================
