----------------------- MODULE EngineAttemptProofs ------------------------
(***************************************************************************)
(* What EngineAttempt keeps for every set of attempts and of targets. The  *)
(* invariant joins the journal on disk to the process the journal is       *)
(* about: what a record says of the supervisor and its engine              *)
(* (JournalTells), what the two may still have under way (SessionOf), and  *)
(* what a runner that starts anew may find (RunnerSound). It is proved per *)
(* actor: steps of the supervisor, of the session, of the runner and       *)
(* crashes, each against one attempt.                                      *)
(***************************************************************************)
EXTENDS EngineAttempt, SequenceTheorems, TLAPS

(* Records are those of one attempt, and at most one attempt is open. *)
JournalsValid ==
  \A a \in Attempts : journal[a].records # {} => journal[a].made /\ ValidAttemptRecordSet(journal[a])
OneActive == \A a, b \in Attempts : MayBeActive(a) /\ MayBeActive(b) => a = b
JournalSound == journal \in [Attempts -> Journals] /\ JournalsValid /\ OneActive /\ OneJournal

Before == {"none", "waiting_spawn", "preparing", "launching"}
Unannounced == Before \cup {"spawned"}
NotStarted == [spawns |-> 0, state |-> "none", read |-> FALSE]

(* What the phase of a supervisor says about its engine and its last event. *)
SupervisorSound(s, e) ==
  /\ s.phase \in Before => e = NotStarted
  /\ s.phase = "spawned" => e.spawns = 1
  /\ s.phase \in Unannounced => ~s.child /\ s.event \in {NoEvent, StateEvent("waiting_spawn")}
  /\ s.phase = "waiting_input" => s.child /\ s.event = StateEvent("waiting_input")
  /\ s.phase = "running" => s.child /\ s.event = StateEvent("running")
  /\ s.phase \in {"terminal", "released"} =>
       /\ e.state \notin {"idle", "prompted"} /\ s.event.state \in {"fault", "result"}
       /\ s.event.receipt.reason = "spawn_failed" => s.event.state = "fault" /\ ~s.child
  /\ e.read => s.child
  /\ e.spawns <= 1

(* What the journal says about both. *)
JournalTells(j, s, e) ==
  /\ "spawning" \notin j.records => s.phase = "none"
  /\ "started" \in j.records => s.child
  /\ e.read => "started" \in j.records
  /\ j.records \cap {"result", "settled"} # {} =>
       s.phase \in {"none", "terminal", "released", "gone"} /\ e.state \notin {"idle", "prompted"}
  /\ "result" \in j.records /\ j.receipt.reason = "spawn_failed" => ~e.read
  /\ s.phase = "released" =>
       "result" \in j.records /\ (s.event.state = "result" => j.receipt = s.event.receipt)

AttemptSound(a) ==
  SupervisorSound(supervisor[a], engine[a]) /\ JournalTells(journal[a], supervisor[a], engine[a])
AttemptsSound ==
  /\ supervisor \in [Attempts -> Supervisors] /\ engine \in [Attempts -> Engines]
  /\ \A a \in Attempts : AttemptSound(a)

(* What may be under way between the runner and the supervisor of an attempt. *)
Said(a) ==
  {e \in Events :
     /\ e.state \in {"waiting_input", "running"} => supervisor[a].child
     /\ e.state \in {"fault", "result"} =>
          supervisor[a].phase = "terminal" /\ e = supervisor[a].event}
Asked(a) ==
  {f \in Frames :
     /\ f.kind = "authorize_input" => Has(a, "started")
     /\ f.kind \in {"ack_result", "abandon"} =>
          /\ Has(a, "result") /\ supervisor[a].phase = "terminal"
          /\ supervisor[a].event.state = "result" => journal[a].receipt = supervisor[a].event.receipt}
SessionOf(a) ==
  /\ Has(a, "supervisor") /\ Listening(a)
  /\ session.events \in Seq(Said(a)) /\ session.frames \in Seq(Asked(a))
Sessions == [attempt : Attempts \cup {None}, events : Seq(Events), frames : Seq(Frames)]
SessionSound ==
  /\ session \in Sessions
  /\ \A a \in Attempts : Attached(a) => SessionOf(a)

(* Where the runner stands. *)
StepSound(a) ==
  LET pc == runner.pc IN
  /\ pc = "directory" =>
       /\ journal[a].made /\ journal[a].records = {}
       /\ \A b \in Attempts : ~MayBeActive(b) /\ (journal[b].records # {} => journal[b].target # runner.target)
  /\ pc # "directory" => MayBeActive(a)
  /\ pc = "claim" => ~Has(a, "starting")
  /\ pc = "decide" => Has(a, "starting")
  /\ pc = "plan" => (Has(a, "spawning") => Has(a, "supervisor"))
  /\ pc = "canceling" => Has(a, "canceling")
  /\ pc = "commit" => ~Has(a, "spawning")
  /\ pc = "launch" => supervisor[a].phase = "none"
  /\ pc \in {"launch", "bootstrap"} => Has(a, "spawning") /\ ~Has(a, "supervisor")
  /\ pc \in {"connect", "drive", "identified"} => Has(a, "supervisor")
  /\ pc \in {"drive", "identified"} => Attached(a)
  /\ pc = "identified" => Has(a, "started") /\ session.events # << >>
RunnerSound ==
  /\ runner \in Runners
  /\ runner.attempt = None <=> runner.pc \in {"off", "prepare"}
  /\ runner.pc # "off" => runner.target \in Targets
  /\ \A a \in Attempts : runner.attempt = a => StepSound(a)

IInv == JournalSound /\ RunnerSound /\ SessionSound /\ AttemptsSound

-----------------------------------------------------------------------------

LEMMA TypedAt ==
  ASSUME IInv, NEW a \in Attempts
  PROVE  /\ DOMAIN journal = Attempts /\ DOMAIN supervisor = Attempts /\ DOMAIN engine = Attempts
         /\ journal[a] \in Journals /\ supervisor[a] \in Supervisors /\ engine[a] \in Engines
         /\ AttemptSound(a) /\ (journal[a].records # {} => journal[a].made /\ ValidAttemptRecordSet(journal[a]))
  BY DEF IInv, JournalSound, JournalsValid, AttemptsSound

LEMMA ReceiptsTyped ==
  /\ \A r \in Reasons : Prestart(r) \in Receipts /\ Prestart(r).reason = r
  /\ NoReceipt \notin Receipts /\ NoReceipt.reason = "none"
  /\ StopReasons \subseteq PrestartReasons /\ PrestartReasons \subseteq Reasons
  /\ "spawn_failed" \notin StopReasons /\ "spawn_failed" \in PrestartReasons
  BY DEF Prestart, Receipts, NoReceipt, PrestartReasons, Reasons, StopReasons

LEMMA SeqGrows == ASSUME NEW S, NEW T, S \subseteq T, NEW seq \in Seq(S) PROVE seq \in Seq(T)
<1>1. Len(seq) \in Nat /\ seq \in [1..Len(seq) -> S]
  BY LenProperties
<1>2. seq \in [1..Len(seq) -> T]
  BY <1>1
<1>3. QED
  BY <1>1, <1>2

-----------------------------------------------------------------------------
(* Steps that leave three of the four parts alone *)

LEMMA SameAttempts ==
  ASSUME IInv, UNCHANGED <<journal, supervisor, engine>>
  PROVE  JournalSound' /\ AttemptsSound'
<1>1. JournalSound'
  BY DEF IInv, JournalSound, JournalsValid, OneActive, OneJournal, MayBeActive, Terminal
<1>2. AttemptsSound'
  BY DEF IInv, AttemptsSound, AttemptSound
<1>3. QED
  BY <1>1, <1>2

LEMMA SameSession ==
  ASSUME IInv, UNCHANGED <<journal, supervisor, session>>
  PROVE  SessionSound'
<1>1. \A a \in Attempts : Said(a)' = Said(a) /\ Asked(a)' = Asked(a)
  BY DEF Said, Asked, Has
<1>2. \A a \in Attempts : Attached(a)' => SessionOf(a)'
  BY <1>1 DEF IInv, SessionSound, SessionOf, Attached, Listening, Has
<1>3. QED
  BY <1>2 DEF IInv, SessionSound

LEMMA NoSessionSound == ASSUME session' = NoSession PROVE SessionSound'
<1>1. session' \in Sessions
  BY DEF NoSession, Sessions
<1>2. \A a \in Attempts : ~Attached(a)'
  BY NoneAssumption DEF NoSession, Attached
<1>3. QED
  BY <1>1, <1>2 DEF SessionSound

LEMMA OffSound == ASSUME runner' = RunnerOff PROVE RunnerSound'
  BY NoneAssumption DEF RunnerSound, RunnerOff, Runners

LEMMA AgainSound == ASSUME IInv, runner.pc # "off", Again PROVE RunnerSound'
<1>1. runner.target \in Targets
  BY DEF IInv, RunnerSound
<1>2. runner' \in Runners /\ runner'.pc = "prepare" /\ runner'.attempt = None /\ runner'.target = runner.target
  BY <1>1 DEF Again, RunnerOff, Runners
<1>3. QED
  BY <1>1, <1>2, NoneAssumption DEF RunnerSound

LEMMA RunnerMoves ==
  ASSUME IInv, UNCHANGED <<journal, session, supervisor, engine>>, RunnerSound'
  PROVE  IInv'
  BY SameAttempts, SameSession DEF IInv

LEMMA SeveredSound ==
  ASSUME IInv, Severed, UNCHANGED journal,
         \A a \in Attempts : supervisor[a].phase = "none" => supervisor'[a].phase = "none"
  PROVE  RunnerSound'
<1>1. CASE runner.pc \in {"drive", "identified"}
  <2>1. runner.pc # "off" /\ Again
    BY <1>1 DEF Severed, Again
  <2>2. QED
    BY <2>1, AgainSound
<1>2. CASE runner.pc \notin {"drive", "identified"}
  <2>1. runner' = runner
    BY <1>2 DEF Severed
  <2>2. \A a \in Attempts : StepSound(a) => StepSound(a)'
    BY <1>2, <2>1 DEF StepSound, MayBeActive, Terminal, Has
  <2>3. QED
    BY <2>1, <2>2 DEF IInv, RunnerSound
<1>3. QED
  BY <1>1, <1>2

-----------------------------------------------------------------------------
(* Steps that write a record *)

Writes(a, state) ==
  /\ journal' \in [Attempts -> Journals] /\ \A b \in Attempts \ {a} : journal'[b] = journal[b]
  /\ ~Terminal(a) /\ ValidAttemptRecordSet(journal'[a])
  /\ journal'[a].records = journal[a].records \cup {state}
  /\ journal'[a].made = journal[a].made /\ journal'[a].target = journal[a].target

LEMMA PersistWrites ==
  ASSUME IInv, NEW a \in Attempts, NEW state \in RecordStates, Persist(a, state)
  PROVE  Writes(a, state) /\ ~Has(a, state) /\ journal'[a].receipt = journal[a].receipt
<1> DEFINE next == [journal[a] EXCEPT !.records = journal[a].records \cup {state}]
<1>1. journal[a] \in Journals /\ DOMAIN journal = Attempts
  BY TypedAt
<1>2. next \in Journals /\ next.records = journal[a].records \cup {state} /\ next.made = journal[a].made
      /\ next.target = journal[a].target /\ next.receipt = journal[a].receipt
  BY <1>1 DEF Journals
<1>3. journal' = [journal EXCEPT ![a] = next] /\ ~Terminal(a) /\ ~Has(a, state) /\ ValidAttemptRecordSet(next)
  BY DEF Persist
<1> HIDE DEF next
<1>4. journal \in [Attempts -> Journals]
  BY DEF IInv, JournalSound
<1>5. journal' \in [Attempts -> Journals] /\ journal'[a] = next /\ \A b \in Attempts \ {a} : journal'[b] = journal[b]
  BY <1>2, <1>3, <1>4
<1>6. QED
  BY <1>2, <1>3, <1>5 DEF Writes

LEMMA ResultWrites ==
  ASSUME IInv, NEW a \in Attempts, NEW receipt \in Receipts, PersistResult(a, receipt)
  PROVE  Writes(a, "result") /\ journal'[a].receipt = receipt
<1> DEFINE next == WithResult(a, receipt)
<1>1. journal[a] \in Journals /\ DOMAIN journal = Attempts
  BY TypedAt
<1>2. next \in Journals /\ next.records = journal[a].records \cup {"result"} /\ next.made = journal[a].made
      /\ next.target = journal[a].target /\ next.receipt = receipt
  BY <1>1 DEF Journals, WithResult, RecordStates
<1>3. journal' = [journal EXCEPT ![a] = next] /\ ~Terminal(a) /\ ValidAttemptRecordSet(next)
  BY DEF PersistResult
<1> HIDE DEF next
<1>4. journal \in [Attempts -> Journals]
  BY DEF IInv, JournalSound
<1>5. journal' \in [Attempts -> Journals] /\ journal'[a] = next /\ \A b \in Attempts \ {a} : journal'[b] = journal[b]
  BY <1>2, <1>3, <1>4
<1>6. QED
  BY <1>2, <1>3, <1>5 DEF Writes

LEMMA WriteKeepsJournals ==
  ASSUME IInv, NEW a \in Attempts, NEW state, Writes(a, state), MayBeActive(a)
  PROVE  JournalSound'
<1>1. \A b \in Attempts : journal'[b].records # {} => journal'[b].made /\ ValidAttemptRecordSet(journal'[b])
  BY TypedAt DEF Writes, MayBeActive
<1>2. \A b \in Attempts : MayBeActive(b)' => MayBeActive(b)
  BY DEF Writes, MayBeActive, Terminal
<1>3. \A b \in Attempts : journal'[b].target = journal[b].target /\ (journal'[b].records # {} => journal[b].records # {})
  BY DEF Writes, MayBeActive
<1>4. OneActive'
  BY <1>2 DEF OneActive, IInv, JournalSound
<1>5. OneJournal'
  BY <1>3 DEF OneJournal, IInv, JournalSound
<1>6. QED
  BY <1>1, <1>4, <1>5 DEF JournalSound, JournalsValid, Writes

LEMMA WriteKeepsAttempts ==
  ASSUME IInv, NEW a \in Attempts, NEW state, Writes(a, state), UNCHANGED <<supervisor, engine>>,
         state # "result" => journal'[a].receipt = journal[a].receipt,
         state = "started" => supervisor[a].child,
         state \in {"result", "settled"} => supervisor[a].phase \in {"none", "terminal"},
         state = "result" /\ journal'[a].receipt.reason = "spawn_failed" => ~engine[a].read
  PROVE  AttemptsSound'
<1>1. ASSUME NEW b \in Attempts PROVE AttemptSound(b)'
  <2>1. AttemptSound(b)
    BY TypedAt
  <2>2. CASE b # a
    BY <2>1, <2>2 DEF Writes, AttemptSound
  <2>3. CASE b = a
    <3> DEFINE j == journal[a]
               k == journal'[a]
               s == supervisor[a]
               e == engine[a]
    <3>1. /\ SupervisorSound(s, e) /\ JournalTells(j, s, e) /\ k.records = j.records \cup {state}
          /\ j.records \cap {"result", "settled"} = {} /\ (state # "result" => k.receipt = j.receipt)
      BY <2>1, <2>3 DEF AttemptSound, Writes, Terminal
    <3>2. s.phase \in {"none", "terminal"} => e.state \notin {"idle", "prompted"}
      BY <3>1 DEF SupervisorSound, Before, NotStarted
    <3>3. s.phase # "released"
      BY <3>1 DEF JournalTells
    <3> HIDE DEF j, k, s, e
    <3>4. JournalTells(k, s, e)
      <4>1. "spawning" \notin k.records => s.phase = "none"
        BY <3>1 DEF JournalTells
      <4>2. "started" \in k.records => s.child
        BY <3>1 DEF JournalTells, s
      <4>3. e.read => "started" \in k.records
        BY <3>1 DEF JournalTells
      <4>4. k.records \cap {"result", "settled"} # {} =>
              s.phase \in {"none", "terminal", "released", "gone"} /\ e.state \notin {"idle", "prompted"}
        BY <3>1, <3>2 DEF s
      <4>5. "result" \in k.records /\ k.receipt.reason = "spawn_failed" => ~e.read
        BY <3>1 DEF k, e
      <4>6. QED
        BY <3>3, <4>1, <4>2, <4>3, <4>4, <4>5 DEF JournalTells
    <3>5. QED
      BY <2>3, <3>1, <3>4 DEF AttemptSound, k, s, e
  <2>4. QED
    BY <2>2, <2>3
<1>2. QED
  BY <1>1 DEF AttemptsSound, IInv

\* what is under way stays sayable
LEMMA WriteKeepsSession ==
  ASSUME IInv, NEW a \in Attempts, NEW state, Writes(a, state), UNCHANGED supervisor
  PROVE  /\ \A b \in Attempts : Said(b)' = Said(b) /\ Asked(b) \subseteq Asked(b)'
         /\ \A b \in Attempts : Has(b, "supervisor") => Has(b, "supervisor")'
         /\ UNCHANGED session => SessionSound'
<1>1. \A b \in Attempts : Said(b)' = Said(b) /\ Asked(b) \subseteq Asked(b)'
  <2>1. ASSUME NEW b \in Attempts PROVE Said(b)' = Said(b)
    BY DEF Said
  <2>2. ASSUME NEW b \in Attempts PROVE Asked(b) \subseteq Asked(b)'
    BY DEF Asked, Has, Writes, Terminal
  <2>3. QED
    BY <2>1, <2>2
<1>2. \A b \in Attempts : Has(b, "supervisor") => Has(b, "supervisor")'
  BY DEF Has, Writes
<1>3. ASSUME UNCHANGED session, NEW b \in Attempts, Attached(b)' PROVE SessionOf(b)'
  <2>1. SessionOf(b)
    BY <1>3 DEF Attached, IInv, SessionSound
  <2>2. session'.frames \in Seq(Asked(b)')
    BY <1>1, <1>3, <2>1, SeqGrows DEF SessionOf
  <2>3. QED
    BY <1>1, <1>2, <1>3, <2>1, <2>2 DEF SessionOf, Listening
<1>4. UNCHANGED session => SessionSound'
  BY <1>3 DEF SessionSound, IInv
<1>5. QED
  BY <1>1, <1>2, <1>4

-----------------------------------------------------------------------------
(* The runner, alone *)

LEMMA RunnerAt ==
  ASSUME IInv, NEW a \in Attempts, runner.attempt = a
  PROVE  StepSound(a) /\ runner \in Runners /\ runner.pc \notin {"off", "prepare"} /\ runner.target \in Targets
  BY NoneAssumption DEF IInv, RunnerSound

\* the loop goes on with the same attempt
LEMMA GoesOn ==
  ASSUME IInv, NEW a \in Attempts, runner.attempt = a, runner' \in Runners,
         runner'.attempt = a, runner'.target = runner.target, runner'.pc \notin {"off", "prepare"}, StepSound(a)'
  PROVE  RunnerSound'
  BY RunnerAt, NoneAssumption DEF RunnerSound

LEMMA ServeKeeps == ASSUME IInv, NEW t \in Targets, Serve(t) PROVE IInv'
<1>1. runner' \in Runners /\ runner'.pc = "prepare" /\ runner'.attempt = None /\ runner'.target = t
  BY DEF Serve, RunnerOff, Runners
<1>2. RunnerSound'
  BY <1>1, NoneAssumption DEF RunnerSound
<1>3. QED
  BY <1>2, RunnerMoves DEF Serve, OnlyRunner

LEMMA BusyKeeps == ASSUME IInv, TargetBusy PROVE IInv'
  BY OffSound, RunnerMoves DEF TargetBusy, Stop, OnlyRunner

LEMMA RetryKeeps == ASSUME IInv, RetryLater PROVE IInv'
  BY AgainSound, RunnerMoves DEF RetryLater, OnlyRunner

LEMMA AmbiguousKeeps == ASSUME IInv, NEW a \in Attempts, SpawningAmbiguous(a) PROVE IInv'
  BY OffSound, RunnerMoves DEF SpawningAmbiguous, Stop, OnlyRunner

LEMMA AdoptKeeps == ASSUME IInv, NEW a \in Attempts, AdoptAttempt(a) PROVE IInv'
<1>1. a \in Matching /\ UNCHANGED <<journal, session, supervisor, engine>> /\ runner.pc = "prepare" /\ runner \in Runners
  BY DEF AdoptAttempt, OnlyRunner, JournalsRead, At, IInv, RunnerSound
<1>2. CASE Terminal(a)
  BY <1>1, <1>2, OffSound, RunnerMoves DEF AdoptAttempt, Stop
<1>3. CASE ~Terminal(a)
  <2> DEFINE pc == IF Has(a, "starting") THEN "decide" ELSE "claim"
  <2>1. runner' = [runner EXCEPT !.attempt = a, !.pc = pc]
    BY <1>3 DEF AdoptAttempt
  <2>2. runner' \in Runners /\ runner'.pc = pc /\ runner'.attempt = a /\ runner'.target = runner.target
    BY <1>1, <2>1 DEF Runners
  <2>3. MayBeActive(a)
    BY <1>1, <1>3 DEF Matching, MayBeActive
  <2>4. StepSound(a)'
    BY <1>1, <2>2, <2>3 DEF StepSound, MayBeActive, Terminal, Has
  <2>5. RunnerSound'
    BY <1>1, <2>2, <2>4, NoneAssumption DEF RunnerSound, IInv
  <2>6. QED
    BY <1>1, <2>5, RunnerMoves
<1>4. QED
  BY <1>2, <1>3

LEMMA ResumeKeeps == ASSUME IInv, NEW a \in Attempts, ResumeOrPlan(a) PROVE IInv'
<1> DEFINE pc == IF Has(a, "supervisor") /\ Has(a, "started") THEN "connect" ELSE "plan"
<1>1. /\ UNCHANGED <<journal, session, supervisor, engine>> /\ runner.pc = "decide" /\ runner.attempt = a
      /\ runner' = [runner EXCEPT !.pc = pc] /\ (Has(a, "spawning") => Has(a, "supervisor"))
  BY DEF ResumeOrPlan, OnlyRunner, At, Goto
<1>2. runner' \in Runners /\ runner'.pc = pc /\ runner'.attempt = a /\ runner'.target = runner.target
  BY <1>1, RunnerAt DEF Runners
<1>3. StepSound(a)'
  BY <1>1, <1>2, RunnerAt DEF StepSound, MayBeActive, Terminal, Has
<1>4. RunnerSound'
  BY <1>1, <1>2, <1>3, GoesOn
<1>5. QED
  BY <1>1, <1>4, RunnerMoves

LEMMA PlanReadyKeeps == ASSUME IInv, NEW a \in Attempts, PlanReady(a) PROVE IInv'
<1> DEFINE pc == IF Has(a, "supervisor") THEN "connect" ELSE "commit"
<1>1. /\ UNCHANGED <<journal, session, supervisor, engine>> /\ runner.pc = "plan" /\ runner.attempt = a
      /\ runner' = [runner EXCEPT !.input = "prompt", !.pc = pc]
  BY DEF PlanReady, OnlyRunner, At
<1>2. runner' \in Runners /\ runner'.pc = pc /\ runner'.attempt = a /\ runner'.target = runner.target
  BY <1>1, RunnerAt DEF Runners
<1>3. StepSound(a)'
  BY <1>1, <1>2, RunnerAt DEF StepSound, MayBeActive, Terminal, Has
<1>4. RunnerSound'
  BY <1>1, <1>2, <1>3, GoesOn
<1>5. QED
  BY <1>1, <1>4, RunnerMoves

LEMMA PlanTerminatesKeeps == ASSUME IInv, NEW a \in Attempts, NEW r \in StopReasons, PlanTerminates(a, r) PROVE IInv'
<1>1. /\ UNCHANGED <<journal, session, supervisor, engine>> /\ runner.pc = "plan" /\ runner.attempt = a
      /\ runner' = [runner EXCEPT !.pc = "connect", !.stop = r] /\ Has(a, "supervisor")
  BY DEF PlanTerminates, OnlyRunner, At
<1>2. runner' \in Runners /\ runner'.pc = "connect" /\ runner'.attempt = a /\ runner'.target = runner.target
  BY <1>1, RunnerAt DEF Runners
<1>3. StepSound(a)'
  BY <1>1, <1>2, RunnerAt DEF StepSound, MayBeActive, Terminal, Has
<1>4. RunnerSound'
  BY <1>1, <1>2, <1>3, GoesOn
<1>5. QED
  BY <1>1, <1>4, RunnerMoves

LEMMA SignalKeeps == ASSUME IInv, NEW r \in StopReasons, TerminationSignal(r) PROVE IInv'
<1>1. /\ UNCHANGED <<journal, session, supervisor, engine>> /\ runner' = [runner EXCEPT !.stop = r]
      /\ runner \in Runners /\ RunnerSound
  BY DEF TerminationSignal, OnlyRunner, IInv, RunnerSound
<1>2. runner' \in Runners /\ runner'.pc = runner.pc /\ runner'.attempt = runner.attempt /\ runner'.target = runner.target
  BY <1>1 DEF Runners
<1>3. \A a \in Attempts : StepSound(a) => StepSound(a)'
  BY <1>1, <1>2 DEF StepSound, MayBeActive, Terminal, Has, Attached
<1>4. RunnerSound'
  BY <1>1, <1>2, <1>3 DEF RunnerSound
<1>5. QED
  BY <1>1, <1>4, RunnerMoves

-----------------------------------------------------------------------------
(* The runner, writing its journal *)

LEMMA WriteStep ==
  ASSUME IInv, NEW a \in Attempts, NEW state, Writes(a, state), MayBeActive(a), OnlyJournal, RunnerSound',
         state # "result" => journal'[a].receipt = journal[a].receipt,
         state = "started" => supervisor[a].child,
         state \in {"result", "settled"} => supervisor[a].phase \in {"none", "terminal"},
         state = "result" /\ journal'[a].receipt.reason = "spawn_failed" => ~engine[a].read
  PROVE  IInv'
<1>1. JournalSound'
  BY WriteKeepsJournals
<1>2. AttemptsSound'
  BY WriteKeepsAttempts DEF OnlyJournal
<1>3. SessionSound'
  BY WriteKeepsSession DEF OnlyJournal
<1>4. QED
  BY <1>1, <1>2, <1>3 DEF IInv

\* a result before any engine
LEMMA PrestartStops ==
  ASSUME IInv, NEW a \in Attempts, MayBeActive(a), supervisor[a].phase = "none",
         NEW r \in StopReasons, PersistResult(a, Prestart(r)), Stop, OnlyJournal
  PROVE  IInv'
<1>1. Prestart(r) \in Receipts /\ Prestart(r).reason # "spawn_failed"
  BY ReceiptsTyped
<1>2. Writes(a, "result") /\ journal'[a].receipt = Prestart(r)
  BY <1>1, ResultWrites
<1>3. RunnerSound'
  BY OffSound DEF Stop
<1>4. QED
  BY <1>1, <1>2, <1>3, WriteStep

LEMMA SettledStops ==
  ASSUME IInv, NEW a \in Attempts, MayBeActive(a), supervisor[a].phase = "none",
         Persist(a, "settled"), Stop, OnlyJournal
  PROVE  IInv'
<1>1. Writes(a, "settled") /\ journal'[a].receipt = journal[a].receipt
  BY PersistWrites DEF RecordStates
<1>2. RunnerSound'
  BY OffSound DEF Stop
<1>3. QED
  BY <1>1, <1>2, WriteStep

\* without a spawning record no supervisor was started
LEMMA Unspawned == ASSUME IInv, NEW a \in Attempts, ~Has(a, "spawning") PROVE supervisor[a].phase = "none"
  BY TypedAt DEF AttemptSound, JournalTells, Has

LEMMA ValidAt ==
  ASSUME IInv, NEW a \in Attempts, MayBeActive(a)
  PROVE  /\ Has(a, "spawning") => Has(a, "starting") /\ ~Has(a, "canceling")
         /\ Has(a, "supervisor") => Has(a, "spawning")
         /\ Has(a, "started") => Has(a, "supervisor")
  BY TypedAt DEF MayBeActive, ValidAttemptRecordSet, Has

LEMMA ClaimDeniedKeeps == ASSUME IInv, NEW a \in Attempts, ClaimDenied(a) PROVE IInv'
<1>1. MayBeActive(a) /\ ~Has(a, "starting")
  BY RunnerAt DEF ClaimDenied, At, StepSound
<1>2. supervisor[a].phase = "none"
  BY <1>1, ValidAt, Unspawned
<1>3. QED
  BY <1>1, <1>2, SettledStops DEF ClaimDenied

LEMMA CompleteCancellationKeeps == ASSUME IInv, NEW a \in Attempts, CompleteCancellation(a) PROVE IInv'
<1>1. MayBeActive(a)
  BY RunnerAt DEF CompleteCancellation, At, StepSound
<1>2. ~Has(a, "spawning")
  BY <1>1, ValidAt DEF CompleteCancellation
<1>3. supervisor[a].phase = "none"
  BY <1>2, Unspawned
<1>4. QED
  BY <1>1, <1>3, PrestartStops DEF CompleteCancellation, StopReasons

\* planning without a supervisor
LEMMA PlanUnspawned ==
  ASSUME IInv, NEW a \in Attempts, At("plan"), runner.attempt = a, ~Has(a, "supervisor")
  PROVE  MayBeActive(a) /\ ~Has(a, "spawning") /\ supervisor[a].phase = "none"
<1>1. MayBeActive(a) /\ ~Has(a, "spawning")
  BY RunnerAt DEF At, StepSound
<1>2. QED
  BY <1>1, Unspawned

LEMMA PlanPrestartKeeps == ASSUME IInv, NEW a \in Attempts, NEW r \in StopReasons, PlanPrestartResult(a, r) PROVE IInv'
  BY PlanUnspawned, PrestartStops DEF PlanPrestartResult

LEMMA PlanDeniedKeeps == ASSUME IInv, NEW a \in Attempts, PlanDenied(a) PROVE IInv'
  BY PlanUnspawned, SettledStops DEF PlanDenied

LEMMA FinishCancellationKeeps == ASSUME IInv, NEW a \in Attempts, FinishCancellation(a) PROVE IInv'
<1>1. MayBeActive(a) /\ Has(a, "canceling")
  BY RunnerAt DEF FinishCancellation, At, StepSound
<1>2. supervisor[a].phase = "none"
  BY <1>1, ValidAt, Unspawned
<1>3. QED
  BY <1>1, <1>2, PrestartStops DEF FinishCancellation, StopReasons

LEMMA CommitTooLateKeeps == ASSUME IInv, NEW a \in Attempts, NEW r \in StopReasons, CommitTooLate(a, r) PROVE IInv'
<1>1. MayBeActive(a) /\ ~Has(a, "spawning")
  BY RunnerAt DEF CommitTooLate, At, StepSound
<1>2. QED
  BY <1>1, Unspawned, PrestartStops DEF CommitTooLate

\* a record is written and the loop goes on at another step
LEMMA PersistGoesOn ==
  ASSUME IInv, NEW a \in Attempts, runner.attempt = a, MayBeActive(a),
         NEW state \in RecordStates \ {"result", "settled"}, Persist(a, state), OnlyJournal,
         NEW pc \in {"canceling", "launch", "connect", "identified"}, Goto(pc),
         state = "started" => supervisor[a].child,
         pc = "canceling" => state = "canceling",
         pc = "launch" => state = "spawning" /\ ~Has(a, "supervisor") /\ supervisor[a].phase = "none",
         pc = "connect" => state = "supervisor",
         pc = "identified" => /\ Has(a, "supervisor") /\ state = "started" /\ Attached(a) /\ session.events # << >>
  PROVE  IInv'
<1>1. Writes(a, state) /\ journal'[a].receipt = journal[a].receipt
  BY PersistWrites
<1>2. runner' \in Runners /\ runner'.pc = pc /\ runner'.attempt = a /\ runner'.target = runner.target
  BY RunnerAt DEF Goto, Runners
<1>3. MayBeActive(a)'
  BY <1>1 DEF MayBeActive, Terminal, Writes
<1>4. journal'[a].records = journal[a].records \cup {state} /\ UNCHANGED <<session, supervisor, engine>>
  BY <1>1 DEF Writes, OnlyJournal
<1>5. StepSound(a)'
  BY <1>2, <1>3, <1>4 DEF StepSound, Has, Attached
<1>6. RunnerSound'
  BY <1>2, <1>5, GoesOn
<1>7. QED
  BY <1>1, <1>6, WriteStep

LEMMA PlanCanceledKeeps == ASSUME IInv, NEW a \in Attempts, PlanCanceled(a) PROVE IInv'
  BY PlanUnspawned, PersistGoesOn DEF PlanCanceled, RecordStates

LEMMA CommitSpawningKeeps == ASSUME IInv, NEW a \in Attempts, CommitSpawning(a) PROVE IInv'
<1>1. MayBeActive(a) /\ ~Has(a, "spawning")
  BY RunnerAt DEF CommitSpawning, At, StepSound
<1>2. ~Has(a, "supervisor") /\ supervisor[a].phase = "none"
  BY <1>1, ValidAt, Unspawned
<1>3. QED
  BY <1>1, <1>2, PersistGoesOn DEF CommitSpawning, RecordStates

LEMMA PersistSupervisorKeeps == ASSUME IInv, NEW a \in Attempts, PersistSupervisor(a) PROVE IInv'
<1>1. MayBeActive(a)
  BY RunnerAt DEF PersistSupervisor, At, StepSound
<1>2. QED
  BY <1>1, PersistGoesOn DEF PersistSupervisor, RecordStates

\* the claim's descriptor is written with the starting record
LEMMA ClaimGrantedKeeps == ASSUME IInv, NEW a \in Attempts, NEW wanted \in BOOLEAN, ClaimGranted(a, wanted) PROVE IInv'
<1> DEFINE next == [journal[a] EXCEPT !.records = journal[a].records \cup {"starting"}, !.wanted = wanted]
<1>1. /\ journal[a] \in Journals /\ DOMAIN journal = Attempts /\ MayBeActive(a) /\ runner.attempt = a
      /\ journal \in [Attempts -> Journals]
  BY TypedAt, RunnerAt DEF ClaimGranted, At, StepSound, IInv, JournalSound
<1>2. /\ next \in Journals /\ next.records = journal[a].records \cup {"starting"} /\ next.made = journal[a].made
      /\ next.target = journal[a].target /\ next.receipt = journal[a].receipt
  BY <1>1 DEF Journals, RecordStates
<1>3. journal' = [journal EXCEPT ![a] = next] /\ ValidAttemptRecordSet(next) /\ Goto("decide") /\ OnlyJournal
  BY DEF ClaimGranted
<1> HIDE DEF next
<1>4. journal' \in [Attempts -> Journals] /\ journal'[a] = next /\ \A b \in Attempts \ {a} : journal'[b] = journal[b]
  BY <1>1, <1>2, <1>3
<1>5. Writes(a, "starting") /\ journal'[a].receipt = journal[a].receipt
  BY <1>1, <1>2, <1>3, <1>4 DEF Writes, MayBeActive
<1>6. runner' \in Runners /\ runner'.pc = "decide" /\ runner'.attempt = a /\ runner'.target = runner.target
  BY <1>1, <1>3, RunnerAt DEF Goto, Runners
<1>7. MayBeActive(a)' /\ Has(a, "starting")'
  BY <1>1, <1>2, <1>4 DEF MayBeActive, Terminal, Has
<1>8. StepSound(a)'
  BY <1>6, <1>7 DEF StepSound
<1>9. RunnerSound'
  BY <1>1, <1>6, <1>8, GoesOn
<1>10. QED
  BY <1>1, <1>3, <1>5, <1>9, WriteStep

-----------------------------------------------------------------------------
(* The runner, making and clearing directories *)

\* a directory without records has no supervisor, no engine and no session
LEMMA EmptyDirectory ==
  ASSUME IInv, NEW a \in Attempts, journal[a].records = {}
  PROVE  supervisor[a].phase = "none" /\ engine[a] = NotStarted /\ ~Attached(a)
<1>1. ~Has(a, "spawning") /\ ~Has(a, "supervisor")
  BY DEF Has
<1>2. supervisor[a].phase = "none"
  BY <1>1, Unspawned
<1>3. engine[a] = NotStarted
  BY <1>2, TypedAt DEF AttemptSound, SupervisorSound, Before
<1>4. ~Attached(a)
  BY <1>1 DEF IInv, SessionSound, SessionOf
<1>5. QED
  BY <1>2, <1>3, <1>4

\* journals that have records keep them, the others stay without or have only a claim
LEMMA FirstRecords ==
  ASSUME IInv, OnlyJournal, journal' \in [Attempts -> Journals],
         \A a \in Attempts : journal[a].records # {} => journal'[a] = journal[a],
         \A a \in Attempts : journal[a].records = {} =>
           \/ journal'[a].records = {}
           \/ journal'[a].records = {"claimed"} /\ journal'[a].made
  PROVE  AttemptsSound' /\ SessionSound' /\ JournalsValid'
<1>1. ASSUME NEW a \in Attempts PROVE AttemptSound(a)'
  <2>1. CASE journal[a].records # {}
    BY <2>1, TypedAt DEF OnlyJournal, AttemptSound
  <2>2. CASE journal[a].records = {}
    <3>1. supervisor[a].phase = "none" /\ engine[a] = NotStarted /\ AttemptSound(a)
      BY <2>2, EmptyDirectory, TypedAt
    <3>2. journal'[a].records \subseteq {"claimed"}
      BY <2>2
    <3>3. JournalTells(journal'[a], supervisor[a], engine[a])
      BY <3>1, <3>2 DEF JournalTells, NotStarted
    <3>4. QED
      BY <3>1, <3>3 DEF AttemptSound, OnlyJournal
  <2>3. QED
    BY <2>1, <2>2
<1>2. AttemptsSound'
  BY <1>1 DEF AttemptsSound, IInv, OnlyJournal
<1>3. ASSUME NEW a \in Attempts, Attached(a)' PROVE SessionOf(a)'
  <2>1. Attached(a) /\ SessionOf(a) /\ journal'[a] = journal[a]
    BY <1>3, EmptyDirectory DEF Attached, IInv, SessionSound, OnlyJournal
  <2>2. Said(a)' = Said(a) /\ Asked(a)' = Asked(a)
    BY <2>1 DEF Said, Asked, Has, OnlyJournal
  <2>3. QED
    BY <2>1, <2>2 DEF SessionOf, Has, Listening, OnlyJournal
<1>4. SessionSound'
  BY <1>3 DEF SessionSound, IInv, OnlyJournal
<1>5. JournalsValid'
  <2>1. ASSUME NEW a \in Attempts, journal'[a].records # {} PROVE journal'[a].made /\ ValidAttemptRecordSet(journal'[a])
    <3>1. CASE journal[a].records # {}
      BY <3>1, TypedAt
    <3>2. CASE journal[a].records = {}
      <4>1. journal'[a].records = {"claimed"} /\ journal'[a].made
        BY <2>1, <3>2
      <4>2. QED
        BY <4>1 DEF ValidAttemptRecordSet
    <3>3. QED
      BY <3>1, <3>2
  <2>2. QED
    BY <2>1 DEF JournalsValid
<1>6. QED
  BY <1>2, <1>4, <1>5

LEMMA QuarantineKeeps == ASSUME IInv, Quarantine PROVE IInv'
<1>1. journal \in [Attempts -> Journals] /\ NoJournal \in Journals /\ NoJournal.records = {}
  BY DEF IInv, JournalSound, NoJournal, Journals
<1>2. journal' \in [Attempts -> Journals] /\ OnlyJournal /\ runner' = RunnerOff
      /\ \A a \in Attempts : journal'[a] = IF Corrupt(a) THEN NoJournal ELSE journal[a]
  BY <1>1 DEF Quarantine, Stop
<1>3. \A a \in Attempts : /\ journal[a].records # {} => journal'[a] = journal[a]
                          /\ journal[a].records = {} => journal'[a].records = {}
  BY <1>1, <1>2 DEF Corrupt
<1>4. AttemptsSound' /\ SessionSound' /\ JournalsValid'
  BY <1>2, <1>3, FirstRecords
<1>5. \A a \in Attempts : journal'[a].records # {} => journal'[a] = journal[a] /\ journal[a].records # {}
  BY <1>3
<1>6. OneActive' /\ OneJournal'
  BY <1>5 DEF OneActive, OneJournal, MayBeActive, Terminal, IInv, JournalSound
<1>7. RunnerSound'
  BY <1>2, OffSound
<1>8. QED
  BY <1>2, <1>4, <1>6, <1>7 DEF IInv, JournalSound

LEMMA MakeDirectoryKeeps == ASSUME IInv, NEW a \in Attempts, MakeDirectory(a) PROVE IInv'
<1>1. /\ journal \in [Attempts -> Journals] /\ journal[a] \in Journals /\ runner.pc = "prepare" /\ OnlyJournal
      /\ Matching = {} /\ ~ForeignLive /\ runner \in Runners /\ runner.target \in Targets
      /\ runner' = [runner EXCEPT !.pc = "directory", !.attempt = a]
  BY TypedAt DEF MakeDirectory, JournalsRead, At, IInv, RunnerSound, JournalSound
<1>2. \A b \in Attempts : journal[b].records # {} => journal[b].target # runner.target
  BY <1>1 DEF Matching
<1>3. \A b \in Attempts : ~MayBeActive(b)
  BY <1>1 DEF ForeignLive
<1>4. journal[a].records = {}
  BY <1>1, TypedAt DEF MakeDirectory, JournalsRead, Corrupt, Journals
<1>5. /\ journal' \in [Attempts -> Journals] /\ journal'[a].made /\ journal'[a].records = {}
      /\ \A b \in Attempts \ {a} : journal'[b] = journal[b]
  <2> DEFINE next == [journal[a] EXCEPT !.made = TRUE]
  <2>1. next \in Journals /\ next.made /\ next.records = journal[a].records
    BY <1>1 DEF Journals
  <2>2. journal' = [journal EXCEPT ![a] = next]
    BY DEF MakeDirectory
  <2> HIDE DEF next
  <2>3. QED
    BY <1>1, <1>4, <2>1, <2>2
<1>6. \A b \in Attempts : /\ journal[b].records # {} => journal'[b] = journal[b]
                          /\ journal[b].records = {} => journal'[b].records = {}
  BY <1>4, <1>5
<1>7. AttemptsSound' /\ SessionSound' /\ JournalsValid'
  BY <1>1, <1>5, <1>6, FirstRecords
<1>8. \A b \in Attempts : journal'[b].records # {} => journal'[b] = journal[b] /\ journal[b].records # {}
  BY <1>6
<1>9. OneActive' /\ OneJournal' /\ \A b \in Attempts : ~MayBeActive(b)'
  BY <1>3, <1>8 DEF OneActive, OneJournal, MayBeActive, Terminal, IInv, JournalSound
<1>10. runner' \in Runners /\ runner'.pc = "directory" /\ runner'.attempt = a /\ runner'.target = runner.target
  BY <1>1 DEF Runners
<1>11. StepSound(a)'
  BY <1>2, <1>5, <1>8, <1>9, <1>10 DEF StepSound
<1>12. RunnerSound'
  BY <1>1, <1>10, <1>11, NoneAssumption DEF RunnerSound
<1>13. QED
  BY <1>5, <1>7, <1>9, <1>12 DEF IInv, JournalSound

LEMMA PersistClaimedKeeps == ASSUME IInv, NEW a \in Attempts, PersistClaimed(a) PROVE IInv'
<1>1. /\ journal \in [Attempts -> Journals] /\ journal[a] \in Journals /\ runner.pc = "directory" /\ OnlyJournal
      /\ runner.attempt = a /\ runner.target \in Targets /\ StepSound(a) /\ runner \in Runners /\ Goto("claim")
  BY TypedAt, RunnerAt DEF PersistClaimed, At, IInv, JournalSound
<1>2. /\ journal[a].records = {} /\ journal[a].made
      /\ \A b \in Attempts : ~MayBeActive(b) /\ (journal[b].records # {} => journal[b].target # runner.target)
  BY <1>1 DEF StepSound
<1>3. /\ journal' \in [Attempts -> Journals] /\ journal'[a].records = {"claimed"} /\ journal'[a].target = runner.target
      /\ journal'[a].made
      /\ \A b \in Attempts \ {a} : journal'[b] = journal[b]
  <2> DEFINE next == [[journal[a] EXCEPT !.records = {"claimed"}] EXCEPT !.target = runner.target]
  <2>1. next \in Journals /\ next.records = {"claimed"} /\ next.target = runner.target /\ next.made
    BY <1>1, <1>2 DEF Journals, RecordStates
  <2>2. journal' = [journal EXCEPT ![a] = next]
    BY <1>1 DEF PersistClaimed
  <2> HIDE DEF next
  <2>3. QED
    BY <1>1, <2>1, <2>2
<1>4. AttemptsSound' /\ SessionSound' /\ JournalsValid'
  <2>1. \A b \in Attempts : /\ journal[b].records # {} => journal'[b] = journal[b]
                            /\ journal[b].records = {} =>
                                 \/ journal'[b].records = {}
                                 \/ journal'[b].records = {"claimed"} /\ journal'[b].made
    BY <1>2, <1>3
  <2>2. QED
    BY <1>1, <1>3, <2>1, FirstRecords
<1>5. OneActive' /\ MayBeActive(a)'
  BY <1>2, <1>3 DEF OneActive, MayBeActive, Terminal
<1>6. OneJournal'
  BY <1>2, <1>3 DEF OneJournal, IInv, JournalSound
<1>7. runner' \in Runners /\ runner'.pc = "claim" /\ runner'.attempt = a /\ runner'.target = runner.target
  BY <1>1 DEF Goto, Runners
<1>8. StepSound(a)'
  BY <1>3, <1>5, <1>7 DEF StepSound, Has
<1>9. RunnerSound'
  BY <1>1, <1>7, <1>8, GoesOn
<1>10. QED
  BY <1>3, <1>4, <1>5, <1>6, <1>9 DEF IInv, JournalSound

-----------------------------------------------------------------------------
(* Steps of one supervisor and its engine *)

LEMMA EventsTyped ==
  /\ \A s : StateEvent(s).state = s /\ StateEvent(s).receipt = NoReceipt
  /\ \A c : FaultEvent(c).state = "fault" /\ FaultEvent(c).receipt.reason = c
  /\ \A r : ResultEvent(r).state = "result" /\ ResultEvent(r).receipt = r
  /\ \A s \in LiveStates : StateEvent(s) \in Events
  /\ \A c \in Reasons : FaultEvent(c) \in Events
  /\ \A r \in Receipts : ResultEvent(r) \in Events
  /\ NoEvent.state = "none" /\ NoEvent.receipt.reason = "none"
  BY DEF StateEvent, FaultEvent, ResultEvent, Events, NoEvent, NoReceipt, Prestart

\* the step touches one attempt's supervisor and engine alone
Moved(a) ==
  /\ supervisor' \in [Attempts -> Supervisors] /\ engine' \in [Attempts -> Engines]
  /\ \A b \in Attempts \ {a} : supervisor'[b] = supervisor[b] /\ engine'[b] = engine[b]
  /\ journal' = journal

LEMMA SupervisorMoved ==
  ASSUME IInv, NEW a \in Attempts, NEW new \in Supervisors, supervisor' = [supervisor EXCEPT ![a] = new],
         UNCHANGED <<journal, engine>>
  PROVE  Moved(a) /\ supervisor'[a] = new
  BY TypedAt DEF Moved, IInv, AttemptsSound

LEMMA BothMoved ==
  ASSUME IInv, NEW a \in Attempts, NEW new \in Supervisors, supervisor' = [supervisor EXCEPT ![a] = new],
         NEW e \in Engines, engine' = [engine EXCEPT ![a] = e], UNCHANGED journal
  PROVE  Moved(a) /\ supervisor'[a] = new /\ engine'[a] = e
  BY TypedAt DEF Moved, IInv, AttemptsSound

LEMMA MovedSound ==
  ASSUME IInv, NEW a \in Attempts, Moved(a), AttemptSound(a)'
  PROVE  JournalSound' /\ AttemptsSound'
<1>1. JournalSound'
  BY DEF Moved, IInv, JournalSound, JournalsValid, OneActive, OneJournal, MayBeActive, Terminal
<1>2. \A b \in Attempts \ {a} : AttemptSound(b)'
  BY DEF Moved, AttemptSound, IInv, AttemptsSound
<1>3. QED
  BY <1>1, <1>2 DEF Moved, AttemptsSound

LEMMA OtherSessions ==
  ASSUME IInv, NEW a \in Attempts, Moved(a), NEW b \in Attempts \ {a}
  PROVE  /\ Said(b)' = Said(b) /\ Asked(b)' = Asked(b)
         /\ Listening(b)' = Listening(b) /\ Has(b, "supervisor")' = Has(b, "supervisor")
<1>1. supervisor'[b] = supervisor[b] /\ journal' = journal
  BY DEF Moved
<1>2. QED
  BY <1>1 DEF Said, Asked, Has, Listening

LEMMA DetachedSession ==
  ASSUME IInv, NEW a \in Attempts, Moved(a), ~Attached(a), session' = session
  PROVE  SessionSound'
<1>1. ASSUME NEW b \in Attempts, Attached(b)' PROVE SessionOf(b)'
  <2>1. b \in Attempts \ {a} /\ SessionOf(b)
    BY <1>1 DEF Attached, IInv, SessionSound
  <2>2. QED
    BY <2>1, OtherSessions DEF SessionOf
<1>2. QED
  BY <1>1 DEF SessionSound, IInv

\* what was said and asked before may still be under way
Forward(a) ==
  /\ supervisor[a].child => supervisor'[a].child
  /\ supervisor[a].phase = "terminal" =>
       supervisor'[a].phase = "terminal" /\ supervisor'[a].event = supervisor[a].event

LEMMA ForwardSays ==
  ASSUME IInv, NEW a \in Attempts, Moved(a), Forward(a)
  PROVE  Said(a) \subseteq Said(a)' /\ Asked(a) \subseteq Asked(a)' /\ (Has(a, "supervisor") => Has(a, "supervisor")')
<1>1. Said(a) \subseteq Said(a)'
  BY DEF Said, Forward
<1>2. Asked(a) \subseteq Asked(a)'
  BY DEF Asked, Forward, Moved, Has
<1>3. QED
  BY <1>1, <1>2 DEF Moved, Has

LEMMA SessionMoves ==
  ASSUME IInv, NEW a \in Attempts, Moved(a), Attached(a), Listening(a)', Forward(a),
         NEW events, NEW frames, events \in Seq(Said(a)'), frames \in Seq(Asked(a)'),
         session' = [session EXCEPT !.frames = frames, !.events = events]
  PROVE  SessionSound'
<1>1. session \in Sessions /\ SessionOf(a)
  BY DEF IInv, SessionSound
<1>2. session'.attempt = session.attempt /\ session'.events = events /\ session'.frames = frames
  BY <1>1 DEF Sessions
<1>3. Said(a)' \subseteq Events /\ Asked(a)' \subseteq Frames
  BY DEF Said, Asked
<1>4. events \in Seq(Events) /\ frames \in Seq(Frames)
  BY <1>3, SeqGrows
<1>5. session' \in Sessions
  BY <1>1, <1>4 DEF Sessions
<1>6. Has(a, "supervisor")'
  BY <1>1, ForwardSays DEF SessionOf
<1>7. SessionOf(a)'
  BY <1>2, <1>6 DEF SessionOf
<1>8. \A b \in Attempts : Attached(b)' => b = a
  BY <1>2 DEF Attached
<1>9. QED
  BY <1>5, <1>7, <1>8 DEF SessionSound

LEMMA SameEvents ==
  ASSUME IInv, NEW a \in Attempts, Moved(a), Listening(a)', Forward(a), session' = session
  PROVE  SessionSound'
<1>1. CASE ~Attached(a)
  BY <1>1, DetachedSession
<1>2. CASE Attached(a)
  <2>1. session \in Sessions /\ SessionOf(a)
    BY <1>2 DEF IInv, SessionSound
  <2>2. session.events \in Seq(Said(a)') /\ session.frames \in Seq(Asked(a)')
    BY <2>1, ForwardSays, SeqGrows DEF SessionOf
  <2>3. session' = [session EXCEPT !.frames = session.frames, !.events = session.events]
    BY <2>1 DEF Sessions
  <2>4. QED
    BY <1>2, <2>2, <2>3, SessionMoves
<1>3. QED
  BY <1>1, <1>2

LEMMA TellKeeps ==
  ASSUME IInv, NEW a \in Attempts, Moved(a), Listening(a)', Forward(a), NEW event, event \in Said(a)', Tell(a, event)
  PROVE  /\ SessionSound' /\ session'.attempt = session.attempt
         /\ session.events # << >> => session'.events # << >>
<1>1. CASE ~Attached(a)
  BY <1>1, DetachedSession DEF Tell
<1>2. CASE Attached(a)
  <2>1. session \in Sessions /\ SessionOf(a)
    BY <1>2 DEF IInv, SessionSound
  <2>2. session.events \in Seq(Said(a)') /\ session.frames \in Seq(Asked(a)')
    BY <2>1, ForwardSays, SeqGrows DEF SessionOf
  <2> DEFINE more == Append(session.events, event)
  <2>3. more \in Seq(Said(a)') /\ more # << >>
    BY <2>2, AppendProperties
  <2>4. session' = [session EXCEPT !.events = more]
    BY <1>2 DEF Tell
  <2> HIDE DEF more
  <2>5. session' = [session EXCEPT !.frames = session.frames, !.events = more]
    BY <2>1, <2>4 DEF Sessions
  <2>6. session'.events = more /\ session'.attempt = session.attempt
    BY <2>1, <2>4 DEF Sessions
  <2>7. QED
    BY <1>2, <2>2, <2>3, <2>5, <2>6, SessionMoves
<1>3. QED
  BY <1>1, <1>2

LEMMA AnswerKeeps ==
  ASSUME IInv, NEW a \in Attempts, Moved(a), Listening(a)', Forward(a), Attached(a), session.frames # << >>,
         NEW events \in Seq(Said(a)'), Answer(events)
  PROVE  /\ SessionSound' /\ session'.attempt = session.attempt
         /\ session.events # << >> => session'.events # << >>
<1>1. session \in Sessions /\ SessionOf(a)
  BY DEF IInv, SessionSound
<1>2. session.events \in Seq(Said(a)') /\ session.frames \in Seq(Asked(a)')
  BY <1>1, ForwardSays, SeqGrows DEF SessionOf
<1> DEFINE more == session.events \o events
           rest == Tail(session.frames)
<1>3. more \in Seq(Said(a)') /\ (session.events # << >> => more # << >>)
  <2>1. more \in Seq(Said(a)') /\ Len(more) = Len(session.events) + Len(events) /\ Len(events) \in Nat
    BY <1>2, ConcatProperties, LenProperties
  <2>2. session.events # << >> => Len(session.events) \in Nat \ {0}
    BY <1>2, EmptySeq
  <2>3. Len(<< >>) = 0
    OBVIOUS
  <2>4. session.events # << >> => Len(more) # 0
    BY <2>1, <2>2
  <2> HIDE DEF more
  <2>5. QED
    BY <2>1, <2>3, <2>4
<1>4. rest \in Seq(Asked(a)')
  BY <1>2, HeadTailProperties
<1>5. session' = [session EXCEPT !.frames = rest, !.events = more]
  BY DEF Answer
<1> HIDE DEF more, rest
<1>6. session'.events = more /\ session'.attempt = session.attempt
  BY <1>1, <1>5 DEF Sessions
<1>7. QED
  BY <1>3, <1>4, <1>5, <1>6, SessionMoves

LEMMA RunnerStays ==
  ASSUME IInv, NEW a \in Attempts, Moved(a), supervisor[a].phase # "none", runner' = runner,
         session'.attempt = session.attempt, session.events # << >> => session'.events # << >>
  PROVE  RunnerSound'
<1>1. \A b \in Attempts : supervisor[b].phase = "none" => supervisor'[b] = supervisor[b]
  BY DEF Moved
<1>2. \A b \in Attempts : StepSound(b) => StepSound(b)'
  BY <1>1 DEF StepSound, MayBeActive, Terminal, Has, Attached, Moved
<1>3. QED
  BY <1>2 DEF RunnerSound, IInv

-----------------------------------------------------------------------------
(* The runner and its supervisor *)

LEMMA SpawnSupervisorKeeps == ASSUME IInv, NEW a \in Attempts, SpawnSupervisor(a) PROVE IInv'
<1> DEFINE new == NewSupervisor("waiting_spawn")
<1>1. /\ new \in Supervisors /\ new.phase = "waiting_spawn" /\ ~new.child /\ new.event = NoEvent
  BY DEF NewSupervisor, Supervisors, SupervisorPhases
<1>2. /\ runner.attempt = a /\ MayBeActive(a) /\ Has(a, "spawning") /\ ~Has(a, "supervisor")
      /\ supervisor[a].phase = "none" /\ runner \in Runners /\ runner.pc = "launch"
  BY RunnerAt DEF SpawnSupervisor, At, StepSound
<1>3. supervisor' = [supervisor EXCEPT ![a] = new] /\ UNCHANGED <<journal, session, engine>> /\ Goto("bootstrap")
  BY DEF SpawnSupervisor
<1> HIDE DEF new
<1>4. Moved(a) /\ supervisor'[a] = new
  BY <1>1, <1>3, SupervisorMoved
<1>5. engine[a] = NotStarted /\ ~Has(a, "started")
  BY <1>2, ValidAt, TypedAt DEF AttemptSound, SupervisorSound, Before
<1>6. SupervisorSound(new, engine[a])
  BY <1>1, <1>5 DEF SupervisorSound, Before, Unannounced, NotStarted
<1>7. JournalTells(journal[a], new, engine[a])
  BY <1>1, <1>2, <1>5 DEF JournalTells, MayBeActive, Terminal, NotStarted, Has
<1>8. AttemptSound(a)'
  BY <1>3, <1>4, <1>6, <1>7 DEF AttemptSound
<1>9. SessionSound'
  <2>1. ~Attached(a)
    BY <1>2 DEF IInv, SessionSound, SessionOf
  <2>2. QED
    BY <1>3, <1>4, <2>1, DetachedSession
<1>10. runner' \in Runners /\ runner'.pc = "bootstrap" /\ runner'.attempt = a /\ runner'.target = runner.target
  BY <1>2, <1>3 DEF Goto, Runners
<1>11. StepSound(a)'
  BY <1>2, <1>3, <1>10 DEF StepSound, MayBeActive, Terminal, Has
<1>12. RunnerSound'
  BY <1>2, <1>10, <1>11, GoesOn
<1>13. QED
  BY <1>4, <1>8, <1>9, <1>12, MovedSound DEF IInv

\* a supervisor that is gone is only that
LEMMA GoneMoves ==
  ASSUME IInv, NEW a \in Attempts, Has(a, "spawning"),
         supervisor' = [supervisor EXCEPT ![a].phase = "gone"], UNCHANGED <<journal, engine>>
  PROVE  Moved(a) /\ AttemptSound(a)' /\ supervisor'[a].phase = "gone"
<1> DEFINE s == supervisor[a]
           new == [s EXCEPT !.phase = "gone"]
<1>1. s \in Supervisors /\ AttemptSound(a)
  BY TypedAt
<1>2. new \in Supervisors /\ new.phase = "gone" /\ new.child = s.child /\ new.event = s.event
  BY <1>1 DEF Supervisors, SupervisorPhases
<1>3. supervisor' = [supervisor EXCEPT ![a] = new]
  OBVIOUS
<1> HIDE DEF new
<1>4. Moved(a) /\ supervisor'[a] = new
  BY <1>2, <1>3, SupervisorMoved
<1>5. SupervisorSound(new, engine[a])
  BY <1>1, <1>2 DEF SupervisorSound, AttemptSound, Before, Unannounced
<1>6. JournalTells(journal[a], new, engine[a])
  BY <1>1, <1>2 DEF JournalTells, AttemptSound, Has
<1>7. QED
  BY <1>2, <1>4, <1>5, <1>6 DEF AttemptSound

LEMMA BootstrapFailsKeeps == ASSUME IInv, NEW a \in Attempts, BootstrapFails(a) PROVE IInv'
<1>1. /\ runner.attempt = a /\ Has(a, "spawning") /\ ~Has(a, "supervisor") /\ runner.pc = "bootstrap"
  BY RunnerAt DEF BootstrapFails, At, StepSound
<1>2. ~Attached(a)
  BY <1>1 DEF IInv, SessionSound, SessionOf
<1>3. Moved(a) /\ AttemptSound(a)' /\ Again /\ session' = session
  BY <1>1, GoneMoves DEF BootstrapFails
<1>4. SessionSound'
  BY <1>2, <1>3, DetachedSession
<1>5. RunnerSound'
  BY <1>1, <1>3, AgainSound
<1>6. QED
  BY <1>3, <1>4, <1>5, MovedSound DEF IInv

\* the session of an attempt becomes another one of it
LEMMA SessionBecomes ==
  ASSUME IInv, NEW a \in Attempts, Listening(a)', Has(a, "supervisor")',
         NEW events, NEW frames, events \in Seq(Said(a)'), frames \in Seq(Asked(a)'),
         session' = [attempt |-> a, events |-> events, frames |-> frames]
  PROVE  SessionSound'
<1>1. Said(a)' \subseteq Events /\ Asked(a)' \subseteq Frames
  BY DEF Said, Asked
<1>2. events \in Seq(Events) /\ frames \in Seq(Frames)
  BY <1>1, SeqGrows
<1>3. session' \in Sessions
  BY <1>2 DEF Sessions
<1>4. SessionOf(a)'
  BY DEF SessionOf
<1>5. \A b \in Attempts : Attached(b)' => b = a
  BY DEF Attached
<1>6. QED
  BY <1>3, <1>4, <1>5 DEF SessionSound

\* what one who attaches is told
LEMMA SnapshotSays ==
  ASSUME IInv, NEW a \in Attempts, Listening(a), Moved(a), engine' = engine,
         supervisor' = [supervisor EXCEPT ![a].event = IF @ = NoEvent THEN StateEvent("waiting_spawn") ELSE @]
  PROVE  /\ AttemptSound(a)' /\ Listening(a)'
         /\ Snapshot(supervisor[a]) \in Seq(Said(a)')
<1> DEFINE s == supervisor[a]
           t == supervisor'[a]
<1>1. s \in Supervisors /\ t \in Supervisors /\ SupervisorSound(s, engine[a]) /\ JournalTells(journal[a], s, engine[a])
      /\ DOMAIN supervisor = Attempts
  BY TypedAt DEF Moved, AttemptSound
<1>2. t = [s EXCEPT !.event = IF s.event = NoEvent THEN StateEvent("waiting_spawn") ELSE s.event]
  BY <1>1
<1> HIDE DEF t
<1>3. /\ t.phase = s.phase /\ t.child = s.child
      /\ t.event = IF s.event = NoEvent THEN StateEvent("waiting_spawn") ELSE s.event
  BY <1>1, <1>2 DEF Supervisors
<1>4. s.phase \in Unannounced \cup {"waiting_input", "running", "terminal"}
  BY <1>1 DEF Listening, Unannounced, Before, Supervisors, SupervisorPhases
<1>5. /\ NoEvent # StateEvent("waiting_input") /\ NoEvent # StateEvent("running")
      /\ NoEvent.state \notin {"fault", "result"}
  BY EventsTyped DEF NoEvent
<1>6. s.phase \in Unannounced => t.event = StateEvent("waiting_spawn")
  BY <1>1, <1>3 DEF SupervisorSound
<1>7. s.phase \notin Unannounced => t.event = s.event
  BY <1>1, <1>3, <1>4, <1>5 DEF SupervisorSound
<1>8. SupervisorSound(t, engine[a])
  <2>1. CASE s.phase \in Unannounced
    BY <1>1, <1>3, <1>6, <2>1 DEF SupervisorSound, Unannounced, Before
  <2>2. CASE s.phase \notin Unannounced
    BY <1>1, <1>3, <1>7, <2>2 DEF SupervisorSound
  <2>3. QED
    BY <2>1, <2>2
<1>9. JournalTells(journal[a], t, engine[a])
  BY <1>1, <1>3 DEF JournalTells, Listening
<1>10. AttemptSound(a)' /\ Listening(a)'
  BY <1>3, <1>8, <1>9 DEF AttemptSound, Moved, Listening, t
<1>11. t.event \in Said(a)'
  <2>1. t.event \in Events
    <3>1. t.event \in Events \cup {NoEvent}
      BY <1>1 DEF Supervisors
    <3>2. StateEvent("waiting_spawn") \in Events /\ StateEvent("waiting_spawn") # NoEvent
      BY EventsTyped DEF LiveStates
    <3>3. QED
      BY <1>3, <3>1, <3>2
  <2>2. /\ t.event.state \in {"waiting_input", "running"} => t.child
        /\ t.event.state \in {"fault", "result"} => t.phase = "terminal"
    <3>1. CASE s.phase \in Unannounced
      BY <1>6, <3>1, EventsTyped
    <3>2. CASE s.phase \in {"waiting_input", "running"}
      BY <1>1, <1>3, <1>7, <3>2, EventsTyped DEF SupervisorSound, Unannounced, Before
    <3>3. CASE s.phase = "terminal"
      BY <1>1, <1>3, <1>7, <3>3 DEF SupervisorSound, Unannounced, Before
    <3>4. QED
      BY <1>4, <3>1, <3>2, <3>3
  <2>3. QED
    BY <2>1, <2>2 DEF Said, t
<1>12. s.phase = "terminal" /\ s.child => StateEvent("waiting_input") \in Said(a)'
  BY <1>3, EventsTyped DEF Said, t, LiveStates
<1>13. Snapshot(s) = IF s.phase = "terminal" /\ s.child THEN <<StateEvent("waiting_input"), t.event>> ELSE <<t.event>>
  BY <1>3 DEF Snapshot
<1>14. QED
  BY <1>10, <1>11, <1>12, <1>13

LEMMA ConnectKeeps == ASSUME IInv, NEW a \in Attempts, Connect(a) PROVE IInv'
<1>1. /\ runner.attempt = a /\ MayBeActive(a) /\ Has(a, "supervisor") /\ runner.pc = "connect" /\ runner \in Runners
      /\ Listening(a) /\ session' = [attempt |-> a, events |-> Snapshot(supervisor[a]), frames |-> << >>]
      /\ UNCHANGED <<journal, engine>> /\ Goto("drive")
  BY RunnerAt DEF Connect, At, StepSound
<1> DEFINE s == supervisor[a]
           new == [s EXCEPT !.event = IF s.event = NoEvent THEN StateEvent("waiting_spawn") ELSE s.event]
<1>2. new \in Supervisors
  <2>1. StateEvent("waiting_spawn") \in Events
    BY EventsTyped DEF LiveStates
  <2>2. QED
    BY <2>1, TypedAt DEF Supervisors
<1>3. supervisor' = [supervisor EXCEPT ![a] = new]
  BY DEF Connect
<1> HIDE DEF new
<1>4. Moved(a)
  BY <1>1, <1>2, <1>3, SupervisorMoved
<1>5. AttemptSound(a)' /\ Listening(a)' /\ Snapshot(supervisor[a]) \in Seq(Said(a)')
  BY <1>1, <1>4, SnapshotSays DEF Connect
<1>6. SessionSound' /\ Attached(a)'
  <2>1. Has(a, "supervisor")' /\ << >> \in Seq(Asked(a)')
    BY <1>1 DEF Has
  <2>2. QED
    BY <1>1, <1>5, <2>1, SessionBecomes DEF Attached
<1>7. runner' \in Runners /\ runner'.pc = "drive" /\ runner'.attempt = a /\ runner'.target = runner.target
  BY <1>1 DEF Goto, Runners
<1>8. StepSound(a)'
  BY <1>1, <1>6, <1>7 DEF StepSound, MayBeActive, Terminal, Has
<1>9. RunnerSound'
  BY <1>1, <1>7, <1>8, GoesOn
<1>10. QED
  BY <1>4, <1>5, <1>6, <1>9, MovedSound DEF IInv

\* what is known of a session that is driven
LEMMA DrivenSession ==
  ASSUME IInv, NEW a \in Attempts, Attached(a)
  PROVE  /\ Has(a, "supervisor") /\ Listening(a) /\ session \in Sessions
         /\ session.events \in Seq(Said(a)) /\ session.frames \in Seq(Asked(a))
         /\ session.events # << >> =>
              Head(session.events) \in Said(a) /\ Tail(session.events) \in Seq(Said(a))
         /\ \A f \in Asked(a) : Append(session.frames, f) \in Seq(Asked(a))
<1>1. SessionOf(a) /\ session \in Sessions
  BY DEF IInv, SessionSound
<1>2. session.events \in Seq(Said(a)) /\ session.frames \in Seq(Asked(a))
  BY <1>1 DEF SessionOf
<1>3. session.events # << >> => Head(session.events) \in Said(a) /\ Tail(session.events) \in Seq(Said(a))
  BY <1>2, HeadTailProperties
<1>4. \A f \in Asked(a) : Append(session.frames, f) \in Seq(Asked(a))
  BY <1>2, AppendProperties
<1>5. QED
  BY <1>1, <1>2, <1>3, <1>4 DEF SessionOf

\* the runner says something, or nothing, and reads on
LEMMA Speaks ==
  ASSUME IInv, NEW a \in Attempts, Attached(a), runner.attempt = a, UNCHANGED <<journal, supervisor, engine>>,
         NEW events \in Seq(Said(a)), NEW frames \in Seq(Asked(a)),
         session' = [session EXCEPT !.frames = frames, !.events = events],
         runner' \in Runners, runner'.pc = "drive", runner'.attempt = a, runner'.target = runner.target,
         runner.pc \in {"drive", "identified"}
  PROVE  IInv'
<1>1. Said(a)' = Said(a) /\ Asked(a)' = Asked(a) /\ Listening(a)' /\ Has(a, "supervisor")'
  BY DrivenSession DEF Said, Asked, Has, Listening
<1>2. session' = [attempt |-> a, events |-> events, frames |-> frames]
  BY DrivenSession DEF Sessions, Attached
<1>3. SessionSound' /\ Attached(a)'
  BY <1>1, <1>2, SessionBecomes DEF Attached
<1>4. StepSound(a)'
  <2>1. MayBeActive(a)
    BY RunnerAt DEF StepSound
  <2>2. QED
    BY <1>1, <1>3, <2>1 DEF StepSound, MayBeActive, Terminal
<1>5. RunnerSound'
  BY <1>4, GoesOn
<1>6. QED
  BY <1>3, <1>5, SameAttempts DEF IInv

LEMMA SendTerminateKeeps == ASSUME IInv, NEW a \in Attempts, SendTerminate(a) PROVE IInv'
<1>1. /\ Attached(a) /\ runner.attempt = a /\ runner.pc = "drive" /\ UNCHANGED <<journal, supervisor, engine>>
      /\ runner \in Runners /\ runner' = [runner EXCEPT !.sent = TRUE]
  BY RunnerAt DEF SendTerminate, Driving, At
<1>2. runner.stop \in StopReasons
  BY <1>1 DEF SendTerminate, Told, Runners
<1> DEFINE f == Frame("terminate", runner.stop)
           frames == Append(session.frames, f)
           events == IF session.events = << >> THEN session.events ELSE Tail(session.events)
<1>3. f \in Asked(a)
  BY <1>2 DEF Asked, Frames, Frame
<1>4. frames \in Seq(Asked(a)) /\ events \in Seq(Said(a))
  BY <1>1, <1>3, DrivenSession
<1>5. session' = [session EXCEPT !.frames = frames, !.events = events]
  BY DEF SendTerminate
<1> HIDE DEF frames, events
<1>6. runner' \in Runners /\ runner'.pc = "drive" /\ runner'.attempt = a /\ runner'.target = runner.target
  BY <1>1 DEF Runners
<1>7. QED
  BY <1>1, <1>4, <1>5, <1>6, Speaks

LEMMA AuthorizeSpawnKeeps ==
  ASSUME IInv, NEW a \in Attempts, NEW request \in {"same", "other"}, AuthorizeSpawn(a, request) PROVE IInv'
<1>1. /\ Attached(a) /\ runner.attempt = a /\ runner.pc = "drive" /\ UNCHANGED <<journal, supervisor, engine>>
      /\ runner \in Runners /\ runner' = [runner EXCEPT !.input = "zeroed"] /\ session.events # << >>
  BY RunnerAt DEF AuthorizeSpawn, Driving, At, Sees
<1> DEFINE f == Frame("authorize_spawn", request)
           frames == Append(session.frames, f)
           events == Tail(session.events)
<1>2. f \in Asked(a)
  BY DEF Asked, Frames, Frame
<1>3. frames \in Seq(Asked(a)) /\ events \in Seq(Said(a))
  BY <1>1, <1>2, DrivenSession
<1>4. session' = [session EXCEPT !.frames = frames, !.events = events]
  BY DEF AuthorizeSpawn
<1> HIDE DEF frames, events
<1>5. runner' \in Runners /\ runner'.pc = "drive" /\ runner'.attempt = a /\ runner'.target = runner.target
  BY <1>1 DEF Runners
<1>6. QED
  BY <1>1, <1>3, <1>4, <1>5, Speaks

LEMMA AuthorizeInputKeeps == ASSUME IInv, NEW a \in Attempts, AuthorizeInput(a) PROVE IInv'
<1>1. /\ Attached(a) /\ runner.attempt = a /\ runner.pc = "identified" /\ UNCHANGED <<journal, supervisor, engine>>
      /\ runner \in Runners /\ Goto("drive") /\ session.events # << >> /\ Has(a, "started")
  BY RunnerAt DEF AuthorizeInput, At, StepSound
<1> DEFINE f == Frame("authorize_input", "none")
           frames == IF Sees({"waiting_input"}) THEN Append(session.frames, f) ELSE session.frames
           events == Tail(session.events)
<1>2. f \in Asked(a)
  BY <1>1 DEF Asked, Frames, Frame
<1>3. frames \in Seq(Asked(a)) /\ events \in Seq(Said(a))
  BY <1>1, <1>2, DrivenSession
<1>4. session' = [session EXCEPT !.frames = frames, !.events = events]
  BY DEF AuthorizeInput
<1> HIDE DEF frames, events
<1>5. runner' \in Runners /\ runner'.pc = "drive" /\ runner'.attempt = a /\ runner'.target = runner.target
  BY <1>1 DEF Goto, Runners
<1>6. QED
  BY <1>1, <1>3, <1>4, <1>5, Speaks

LEMMA RecordStartedKeeps == ASSUME IInv, NEW a \in Attempts, RecordStarted(a) PROVE IInv'
<1>1. /\ Attached(a) /\ runner.attempt = a /\ runner.pc = "drive" /\ runner \in Runners /\ MayBeActive(a)
      /\ Has(a, "supervisor") /\ session.events # << >> /\ Goto("identified") /\ OnlyJournal
  BY RunnerAt DEF RecordStarted, Driving, At, Sees, StepSound
<1>2. supervisor[a].child
  BY <1>1, DrivenSession DEF RecordStarted, Sees, Said
<1>3. CASE Has(a, "started")
  <2>1. UNCHANGED <<journal, session, supervisor, engine>>
    BY <1>1, <1>3 DEF RecordStarted, OnlyJournal
  <2>2. runner' \in Runners /\ runner'.pc = "identified" /\ runner'.attempt = a /\ runner'.target = runner.target
    BY <1>1 DEF Goto, Runners
  <2>3. StepSound(a)'
    BY <1>1, <1>3, <2>1, <2>2 DEF StepSound, MayBeActive, Terminal, Has, Attached
  <2>4. RunnerSound'
    BY <1>1, <2>2, <2>3, GoesOn
  <2>5. QED
    BY <2>1, <2>4, RunnerMoves
<1>4. CASE ~Has(a, "started")
  <2>1. Persist(a, "started")
    BY <1>4 DEF RecordStarted
  <2>2. QED
    BY <1>1, <1>2, <2>1, PersistGoesOn DEF RecordStates
<1>5. QED
  BY <1>3, <1>4

\* what the event that ends an attempt says
LEMMA LastEvent ==
  ASSUME IInv, NEW a \in Attempts, Driving(a), Sees({"fault", "result"})
  PROVE  LET e == Head(session.events) IN
         /\ supervisor[a].phase = "terminal" /\ supervisor[a].event = e
         /\ e.state = "result" => e.receipt \in Receipts /\ e.receipt.reason # "spawn_failed"
         /\ e.state = "fault" => e.receipt.reason \in Reasons /\ (e.receipt.reason = "spawn_failed" => ~engine[a].read)
<1> DEFINE e == Head(session.events)
<1>1. e \in Said(a)
  BY DrivenSession DEF Driving, Sees
<1>2. e \in Events /\ supervisor[a].phase = "terminal" /\ supervisor[a].event = e
  BY <1>1 DEF Said, Sees
<1>3. SupervisorSound(supervisor[a], engine[a])
  BY TypedAt DEF AttemptSound
<1> HIDE DEF e
<1>4. e.receipt.reason = "spawn_failed" => e.state = "fault" /\ ~engine[a].read
  BY <1>2, <1>3 DEF SupervisorSound
<1>5. e.state = "result" => e.receipt \in Receipts
  BY <1>2 DEF Events, StateEvent, FaultEvent, ResultEvent, LiveStates
<1>6. e.state = "fault" => e.receipt.reason \in Reasons
  BY <1>2 DEF Events, StateEvent, FaultEvent, ResultEvent, LiveStates, Prestart
<1>7. QED
  BY <1>2, <1>4, <1>5, <1>6 DEF e

\* the result is written, and the supervisor told
LEMMA Concludes ==
  ASSUME IInv, NEW a \in Attempts, Driving(a), supervisor[a].phase = "terminal",
         NEW receipt \in Receipts, PersistResult(a, receipt),
         receipt.reason = "spawn_failed" => ~engine[a].read,
         supervisor[a].event.state = "result" => receipt = supervisor[a].event.receipt,
         NEW kind \in {"ack_result", "abandon"},
         session' = [session EXCEPT !.frames = Append(@, Frame(kind, "none")), !.events = << >>],
         Stop, UNCHANGED <<supervisor, engine>>
  PROVE  IInv'
<1>1. Attached(a) /\ runner.attempt = a /\ MayBeActive(a)
  BY RunnerAt DEF Driving, At, StepSound
<1>2. Writes(a, "result") /\ journal'[a].receipt = receipt
  BY ResultWrites
<1>3. JournalSound'
  BY <1>1, <1>2, WriteKeepsJournals
<1>4. AttemptsSound'
  BY <1>2, WriteKeepsAttempts
<1>5. SessionSound'
  <2>1. Asked(a) \subseteq Asked(a)' /\ Has(a, "supervisor")' /\ Listening(a)'
    BY <1>1, <1>2, WriteKeepsSession, DrivenSession DEF Listening
  <2>2. Frame(kind, "none") \in Asked(a)'
    BY <1>2 DEF Asked, Has, Frames, Frame, Writes
  <2>3. session.frames \in Seq(Asked(a)')
    BY <1>1, <2>1, DrivenSession, SeqGrows
  <2> DEFINE frames == Append(session.frames, Frame(kind, "none"))
  <2>4. frames \in Seq(Asked(a)') /\ << >> \in Seq(Said(a)')
    BY <2>2, <2>3, AppendProperties
  <2>5. session' = [attempt |-> a, events |-> << >>, frames |-> frames]
    BY <1>1, DrivenSession DEF Sessions, Attached
  <2> HIDE DEF frames
  <2>6. QED
    BY <2>1, <2>4, <2>5, SessionBecomes
<1>6. RunnerSound'
  BY OffSound DEF Stop
<1>7. QED
  BY <1>3, <1>4, <1>5, <1>6 DEF IInv

LEMMA RecordResultKeeps == ASSUME IInv, NEW a \in Attempts, RecordResult(a) PROVE IInv'
<1> DEFINE receipt == Head(session.events).receipt
<1>1. Driving(a) /\ Sees({"result"}) /\ Sees({"fault", "result"}) /\ PersistResult(a, receipt)
  BY DEF RecordResult, Sees
<1>2. supervisor[a].phase = "terminal" /\ receipt \in Receipts /\ receipt.reason # "spawn_failed"
      /\ supervisor[a].event.receipt = receipt
  BY <1>1, LastEvent DEF Sees
<1> HIDE DEF receipt
<1>3. QED
  BY <1>1, <1>2, Concludes DEF RecordResult

LEMMA RecordFaultKeeps == ASSUME IInv, NEW a \in Attempts, RecordFault(a) PROVE IInv'
<1> DEFINE code == Head(session.events).receipt.reason
           receipt == FaultReceipt(a, code)
<1>1. Driving(a) /\ Sees({"fault"}) /\ Sees({"fault", "result"}) /\ PersistResult(a, receipt)
  BY DEF RecordFault, Sees
<1>2. /\ supervisor[a].phase = "terminal" /\ code \in Reasons /\ (code = "spawn_failed" => ~engine[a].read)
      /\ supervisor[a].event.state = "fault"
  BY <1>1, LastEvent DEF Sees
<1>3. ~Has(a, "started") => ~engine[a].read
  BY TypedAt DEF AttemptSound, JournalTells, Has
<1> HIDE DEF code
<1>4. receipt \in Receipts /\ (receipt.reason = "spawn_failed" => ~engine[a].read)
  BY <1>2, <1>3 DEF FaultReceipt, Receipts, Prestart, Reasons, PrestartReasons
<1> HIDE DEF receipt
<1>5. QED
  BY <1>1, <1>2, <1>4, Concludes DEF RecordFault

LEMMA RefuseResultKeeps == ASSUME IInv, NEW a \in Attempts, RefuseResult(a) PROVE IInv'
<1>1. runner.pc # "off" /\ (Stop \/ Again) /\ session' = NoSession /\ UNCHANGED <<journal, supervisor, engine>>
  BY DEF RefuseResult, Driving, At
<1>2. RunnerSound'
  BY <1>1, OffSound, AgainSound DEF Stop
<1>3. QED
  BY <1>1, <1>2, SameAttempts, NoSessionSound DEF IInv

LEMMA SessionLostKeeps == ASSUME IInv, SessionLost PROVE IInv'
  BY SameAttempts, NoSessionSound, SeveredSound DEF SessionLost, IInv

LEMMA RunnerEndsKeeps == ASSUME IInv, RunnerEnds PROVE IInv'
  BY SameAttempts, NoSessionSound, OffSound DEF RunnerEnds, Stop, IInv

-----------------------------------------------------------------------------
(* The supervisor *)

LEMMA SupervisorStep ==
  ASSUME IInv, NEW a \in Attempts, Moved(a), AttemptSound(a)', SessionSound', supervisor[a].phase # "none",
         runner' = runner, session'.attempt = session.attempt, session.events # << >> => session'.events # << >>
  PROVE  IInv'
  BY MovedSound, RunnerStays DEF IInv

LEMMA QuietStep ==
  ASSUME IInv, NEW a \in Attempts, Moved(a), AttemptSound(a)', supervisor[a].phase # "none", Listening(a)', Forward(a),
         UNCHANGED <<runner, session>>
  PROVE  IInv'
  BY SameEvents, SupervisorStep

LEMMA TellStep ==
  ASSUME IInv, NEW a \in Attempts, Moved(a), AttemptSound(a)', supervisor[a].phase # "none", Listening(a)', Forward(a),
         runner' = runner, NEW event, event \in Said(a)', Tell(a, event)
  PROVE  IInv'
<1>1. SessionSound' /\ session'.attempt = session.attempt /\ (session.events # << >> => session'.events # << >>)
  BY TellKeeps
<1>2. QED
  BY <1>1, SupervisorStep

LEMMA AnswerStep ==
  ASSUME IInv, NEW a \in Attempts, Moved(a), AttemptSound(a)', supervisor[a].phase # "none", Listening(a)', Forward(a),
         runner' = runner, Attached(a), session.frames # << >>, NEW events \in Seq(Said(a)'), Answer(events)
  PROVE  IInv'
<1>1. SessionSound' /\ session'.attempt = session.attempt /\ (session.events # << >> => session'.events # << >>)
  BY AnswerKeeps
<1>2. QED
  BY <1>1, SupervisorStep

\* the phases of an attempt that is under way
LEMMA UnderWay ==
  ASSUME IInv, NEW a \in Attempts, supervisor[a].phase \notin {"none", "terminal", "released", "gone"}
  PROVE  ~Terminal(a) /\ Has(a, "spawning")
  BY TypedAt DEF AttemptSound, JournalTells, Terminal, Has

\* the supervisor reports the end
LEMMA EndSound ==
  ASSUME IInv, NEW a \in Attempts, Moved(a), supervisor[a].phase \notin {"none", "terminal", "released", "gone"},
         supervisor'[a].phase = "terminal", supervisor'[a].child = supervisor[a].child,
         NEW event \in Events, supervisor'[a].event = event, event.state \in {"fault", "result"},
         event.receipt.reason = "spawn_failed" => event.state = "fault" /\ ~supervisor[a].child,
         engine'[a].read = engine[a].read, engine'[a].spawns = engine[a].spawns,
         engine'[a].state \notin {"idle", "prompted"}
  PROVE  AttemptSound(a)' /\ Forward(a) /\ Listening(a)' /\ event \in Said(a)'
<1>1. SupervisorSound(supervisor[a], engine[a]) /\ JournalTells(journal[a], supervisor[a], engine[a])
  BY TypedAt DEF AttemptSound
<1>2. SupervisorSound(supervisor'[a], engine'[a])
  BY <1>1 DEF SupervisorSound, Before, Unannounced
<1>3. JournalTells(journal[a], supervisor'[a], engine'[a])
  BY <1>1, UnderWay DEF JournalTells, Terminal, Has
<1>4. event.state \notin {"waiting_input", "running"}
  OBVIOUS
<1>5. QED
  BY <1>2, <1>3, <1>4 DEF AttemptSound, Moved, Forward, Listening, Said

\* only the flags of a supervisor change
LEMMA FlagsMove ==
  ASSUME IInv, NEW a \in Attempts, NEW new \in Supervisors, supervisor' = [supervisor EXCEPT ![a] = new],
         new.phase = supervisor[a].phase, new.child = supervisor[a].child, new.event = supervisor[a].event,
         UNCHANGED <<journal, engine>>
  PROVE  Moved(a) /\ AttemptSound(a)' /\ Forward(a) /\ (Listening(a) => Listening(a)') /\ Said(a)' = Said(a)
<1>1. Moved(a) /\ supervisor'[a] = new
  BY SupervisorMoved
<1>2. AttemptSound(a)'
  BY <1>1, TypedAt DEF AttemptSound, SupervisorSound, JournalTells
<1>3. QED
  BY <1>1, <1>2 DEF Forward, Listening, Said

LEMMA FlagsTyped ==
  ASSUME NEW s \in Supervisors, NEW r \in StopReasons
  PROVE  /\ Aborted(s) \in Supervisors /\ Aborted(s).phase = s.phase /\ Aborted(s).child = s.child
         /\ Aborted(s).event = s.event
         /\ FirstReason(s, r) \in Supervisors /\ FirstReason(s, r).phase = s.phase
         /\ FirstReason(s, r).child = s.child /\ FirstReason(s, r).event = s.event
         /\ FirstReason(s, r).stop \in StopReasons
<1>1. s.aborted \in BOOLEAN /\ s.stop \in StopReasons \cup {"none"}
  BY DEF Supervisors
<1> DEFINE flag == s.aborted \/ Controlled(s)
           reason == IF s.stop = "none" THEN r ELSE s.stop
<1>2. flag \in BOOLEAN
  BY <1>1 DEF Controlled
<1>3. reason \in StopReasons
  BY <1>1
<1> HIDE DEF flag, reason
<1>4. [s EXCEPT !.aborted = flag] \in Supervisors
  BY <1>2 DEF Supervisors
<1>5. [s EXCEPT !.stop = reason] \in Supervisors
  BY <1>3 DEF Supervisors
<1>6. Aborted(s) = [s EXCEPT !.aborted = flag] /\ FirstReason(s, r) = [s EXCEPT !.stop = reason]
  BY DEF Aborted, FirstReason, flag, reason
<1>7. QED
  BY <1>3, <1>4, <1>5, <1>6 DEF Supervisors

LEMMA EndTyped ==
  ASSUME NEW s \in Supervisors, NEW event \in Events
  PROVE  /\ Ended(s, event) \in Supervisors /\ Ended(s, event).phase = "terminal"
         /\ Ended(s, event).child = s.child /\ Ended(s, event).event = event
<1>1. Ended(s, event) = [[s EXCEPT !.phase = "terminal"] EXCEPT !.event = event]
  BY DEF Ended
<1>2. [s EXCEPT !.phase = "terminal"] \in Supervisors
  BY DEF Supervisors, SupervisorPhases
<1>3. QED
  BY <1>1, <1>2 DEF Supervisors

\* an end reported to whoever is attached
LEMMA ConcludeKeeps ==
  ASSUME IInv, NEW a \in Attempts, supervisor[a].phase \notin {"none", "terminal", "released", "gone"},
         NEW event \in Events, ConcludeWith(a, event), event.state \in {"fault", "result"},
         event.receipt.reason = "spawn_failed" => event.state = "fault" /\ ~supervisor[a].child,
         engine' \in [Attempts -> Engines], \A b \in Attempts \ {a} : engine'[b] = engine[b],
         engine'[a].read = engine[a].read, engine'[a].spawns = engine[a].spawns,
         engine'[a].state \notin {"idle", "prompted"}, UNCHANGED <<journal, runner>>
  PROVE  IInv'
<1> DEFINE new == Ended(supervisor[a], event)
<1>1. new \in Supervisors /\ new.phase = "terminal" /\ new.child = supervisor[a].child /\ new.event = event
  BY TypedAt, EndTyped
<1>2. supervisor' = [supervisor EXCEPT ![a] = new]
  BY DEF ConcludeWith
<1> HIDE DEF new
<1>3. Moved(a) /\ supervisor'[a] = new
  BY <1>1, <1>2, TypedAt DEF Moved, IInv, AttemptsSound
<1>4. AttemptSound(a)' /\ Forward(a) /\ Listening(a)' /\ event \in Said(a)'
  BY <1>1, <1>3, EndSound
<1>5. QED
  BY <1>3, <1>4, TellStep DEF ConcludeWith

\* an end answered to a frame
LEMMA AnswerEnd ==
  ASSUME IInv, NEW a \in Attempts, supervisor[a].phase = "waiting_spawn", Attached(a), session.frames # << >>,
         NEW s \in Supervisors, s.child = supervisor[a].child, NEW r \in StopReasons,
         supervisor' = [supervisor EXCEPT ![a] = Ended(s, FaultEvent(r))], Answer(<<FaultEvent(r)>>), OnlySupervisor
  PROVE  IInv'
<1> DEFINE new == Ended(s, FaultEvent(r))
<1>1. FaultEvent(r) \in Events /\ FaultEvent(r).state = "fault" /\ FaultEvent(r).receipt.reason # "spawn_failed"
  BY EventsTyped, ReceiptsTyped
<1>2. new \in Supervisors /\ new.phase = "terminal" /\ new.child = supervisor[a].child /\ new.event = FaultEvent(r)
  BY <1>1, EndTyped
<1>3. supervisor' = [supervisor EXCEPT ![a] = new] /\ UNCHANGED <<journal, runner, engine>>
  BY DEF OnlySupervisor
<1> HIDE DEF new
<1>4. Moved(a) /\ supervisor'[a] = new
  BY <1>2, <1>3, SupervisorMoved
<1>5. engine[a].state \notin {"idle", "prompted"}
  BY TypedAt DEF AttemptSound, SupervisorSound, Before, NotStarted
<1>6. AttemptSound(a)' /\ Forward(a) /\ Listening(a)' /\ FaultEvent(r) \in Said(a)'
  BY <1>1, <1>2, <1>3, <1>4, <1>5, EndSound
<1> DEFINE events == <<FaultEvent(r)>>
<1>7. events \in Seq(Said(a)') /\ Answer(events)
  BY <1>6
<1> HIDE DEF events
<1>8. supervisor[a].phase # "none" /\ runner' = runner
  BY <1>3
<1>9. QED
  BY <1>4, <1>6, <1>7, <1>8, AnswerStep

\* the frame a supervisor looks at
LEMMA Received ==
  ASSUME IInv, NEW a \in Attempts, NEW kind, Receives(a, kind)
  PROVE  /\ Attached(a) /\ session.frames # << >> /\ Head(session.frames) \in Asked(a) /\ Head(session.frames).kind = kind
         /\ Listening(a) /\ supervisor[a].phase \notin {"none", "released", "gone"}
<1>1. session.frames \in Seq(Asked(a)) /\ Listening(a)
  BY DrivenSession DEF Receives
<1>2. Head(session.frames) \in Asked(a)
  BY <1>1, HeadTailProperties DEF Receives
<1>3. QED
  BY <1>1, <1>2 DEF Receives, Listening

LEMMA TakeSpawnKeeps == ASSUME IInv, NEW a \in Attempts, NEW expired \in BOOLEAN, TakeSpawn(a, expired) PROVE IInv'
<1> DEFINE s == supervisor[a]
<1>1. Attached(a) /\ session.frames # << >> /\ s.phase = "waiting_spawn" /\ s \in Supervisors /\ OnlySupervisor
  BY Received, TypedAt DEF TakeSpawn
<1>2. CASE expired
  <2> DEFINE told == [s EXCEPT !.stop = "lease_lost"]
  <2>1. told \in Supervisors /\ told.child = s.child /\ "lease_lost" \in StopReasons
    BY <1>1 DEF Supervisors, StopReasons
  <2>2. supervisor' = [supervisor EXCEPT ![a] = Ended(told, FaultEvent("lease_lost"))] /\ Answer(<<FaultEvent("lease_lost")>>)
    BY <1>2 DEF TakeSpawn
  <2> HIDE DEF told
  <2>3. QED
    BY <1>1, <2>1, <2>2, AnswerEnd
<1>3. CASE ~expired
  <2> DEFINE new == [s EXCEPT !.phase = "preparing"]
  <2>1. new \in Supervisors /\ new.phase = "preparing" /\ new.child = s.child /\ new.event = s.event
    BY <1>1 DEF Supervisors, SupervisorPhases
  <2>2. supervisor' = [supervisor EXCEPT ![a] = new] /\ Answer(<< >>)
    BY <1>3 DEF TakeSpawn
  <2> HIDE DEF new
  <2>3. Moved(a) /\ supervisor'[a] = new
    BY <1>1, <2>1, <2>2, SupervisorMoved DEF OnlySupervisor
  <2>4. AttemptSound(a)'
    BY <1>1, <2>1, <2>3, TypedAt DEF OnlySupervisor, AttemptSound, SupervisorSound, JournalTells, Before, Unannounced
  <2>5. Forward(a) /\ Listening(a)' /\ << >> \in Seq(Said(a)')
    BY <1>1, <2>1, <2>3 DEF Forward, Listening
  <2>6. QED
    BY <1>1, <2>2, <2>3, <2>4, <2>5, AnswerStep DEF OnlySupervisor
<1>4. QED
  BY <1>2, <1>3

\* the last event may be said again
LEMMA CurrentSays ==
  ASSUME IInv, NEW a \in Attempts, Listening(a)
  PROVE  Current(supervisor[a]) \in Seq(Said(a))
<1> DEFINE s == supervisor[a]
<1>1. s \in Supervisors /\ SupervisorSound(s, engine[a])
  BY TypedAt DEF AttemptSound
<1>2. s.phase \in Unannounced \cup {"waiting_input", "running", "terminal"}
  BY <1>1 DEF Listening, Unannounced, Before, Supervisors, SupervisorPhases
<1>3. ASSUME s.event # NoEvent PROVE s.event \in Said(a)
  <2>1. s.event \in Events
    BY <1>1, <1>3 DEF Supervisors
  <2>2. CASE s.phase \in Unannounced
    <3>1. s.event = StateEvent("waiting_spawn")
      BY <1>1, <1>3, <2>2 DEF SupervisorSound
    <3>2. QED
      BY <2>1, <3>1, EventsTyped DEF Said
  <2>3. CASE s.phase \in {"waiting_input", "running"}
    BY <1>1, <2>1, <2>3, EventsTyped DEF Said, SupervisorSound
  <2>4. CASE s.phase = "terminal"
    BY <1>1, <2>1, <2>4 DEF Said, SupervisorSound
  <2>5. QED
    BY <1>2, <2>2, <2>3, <2>4
<1>4. QED
  BY <1>3 DEF Current

LEMMA CompareSpawnKeeps == ASSUME IInv, NEW a \in Attempts, CompareSpawn(a) PROVE IInv'
<1> DEFINE s == supervisor[a]
           new == IF Arg = "same" THEN s ELSE [Aborted(s) EXCEPT !.faulted = TRUE]
<1>1. Attached(a) /\ session.frames # << >> /\ Listening(a) /\ s \in Supervisors /\ OnlySupervisor /\ s.phase # "none"
  BY Received, TypedAt DEF CompareSpawn
<1>2. new \in Supervisors /\ new.phase = s.phase /\ new.child = s.child /\ new.event = s.event
  <2>1. "lease_lost" \in StopReasons
    BY DEF StopReasons
  <2>2. /\ Aborted(s) \in Supervisors /\ Aborted(s).phase = s.phase /\ Aborted(s).child = s.child
        /\ Aborted(s).event = s.event
    BY <1>1, <2>1, FlagsTyped
  <2>3. QED
    BY <1>1, <2>2 DEF Supervisors
<1>3. supervisor' = [supervisor EXCEPT ![a] = new] /\ Answer(Current(s))
  BY DEF CompareSpawn
<1> HIDE DEF new
<1>4. Moved(a) /\ AttemptSound(a)' /\ Forward(a) /\ Listening(a)' /\ Said(a)' = Said(a)
  BY <1>1, <1>2, <1>3, FlagsMove DEF OnlySupervisor
<1>5. Current(s) \in Seq(Said(a)')
  BY <1>1, <1>4, CurrentSays
<1>6. QED
  BY <1>1, <1>3, <1>4, <1>5, AnswerStep DEF OnlySupervisor

LEMMA TakeTerminateKeeps == ASSUME IInv, NEW a \in Attempts, TakeTerminate(a) PROVE IInv'
<1> DEFINE s == FirstReason(supervisor[a], Arg)
<1>1. /\ Attached(a) /\ session.frames # << >> /\ Listening(a) /\ supervisor[a] \in Supervisors /\ OnlySupervisor
      /\ supervisor[a].phase # "none"
  BY Received, TypedAt DEF TakeTerminate
<1>2. Arg \in StopReasons
  <2>1. Head(session.frames) \in Frames /\ Head(session.frames).kind = "terminate"
    BY Received DEF TakeTerminate, Asked
  <2>2. QED
    BY <2>1 DEF Frames, Frame, Arg
<1>3. /\ s \in Supervisors /\ s.phase = supervisor[a].phase /\ s.child = supervisor[a].child
      /\ s.event = supervisor[a].event /\ s.stop \in StopReasons
  BY <1>1, <1>2, FlagsTyped
<1>4. CASE s.phase = "waiting_spawn"
  <2>1. supervisor' = [supervisor EXCEPT ![a] = Ended(s, FaultEvent(s.stop))] /\ Answer(<<FaultEvent(s.stop)>>)
    BY <1>4 DEF TakeTerminate
  <2> HIDE DEF s
  <2>2. QED
    BY <1>1, <1>3, <1>4, <2>1, AnswerEnd
<1>5. CASE s.phase # "waiting_spawn"
  <2> DEFINE new == Aborted(s)
  <2>1. supervisor' = [supervisor EXCEPT ![a] = new] /\ Answer(<< >>)
    BY <1>5 DEF TakeTerminate
  <2>2. /\ new \in Supervisors /\ new.phase = supervisor[a].phase /\ new.child = supervisor[a].child
        /\ new.event = supervisor[a].event
    BY <1>2, <1>3, FlagsTyped
  <2> HIDE DEF new, s
  <2>3. UNCHANGED <<journal, runner, engine>> /\ << >> \in Seq(Said(a)')
    BY <1>1 DEF OnlySupervisor
  <2>4. Moved(a) /\ AttemptSound(a)' /\ Forward(a) /\ Listening(a)'
    BY <1>1, <2>1, <2>2, <2>3, FlagsMove
  <2>5. QED
    BY <1>1, <2>1, <2>3, <2>4, AnswerStep
<1>6. QED
  BY <1>4, <1>5

LEMMA TakeInputKeeps == ASSUME IInv, NEW a \in Attempts, TakeInput(a) PROVE IInv'
<1> DEFINE s == supervisor[a]
           e == engine[a]
<1>1. /\ Attached(a) /\ session.frames # << >> /\ Listening(a) /\ s \in Supervisors /\ e \in Engines
      /\ s.phase # "none" /\ UNCHANGED <<journal, runner>> /\ SupervisorSound(s, e) /\ JournalTells(journal[a], s, e)
  BY Received, TypedAt DEF TakeInput, AttemptSound
<1>2. Has(a, "started")
  BY Received DEF TakeInput, Asked
<1>3. CASE s.phase = "waiting_input"
  <2> DEFINE new == [[s EXCEPT !.phase = "running"] EXCEPT !.event = StateEvent("running")]
             f == IF s.aborted THEN e ELSE [[e EXCEPT !.state = "prompted"] EXCEPT !.read = TRUE]
  <2>1. StateEvent("running") \in Events /\ StateEvent("running").state = "running"
    BY EventsTyped DEF LiveStates
  <2>2. new \in Supervisors /\ new.phase = "running" /\ new.child = s.child /\ new.event = StateEvent("running")
    BY <1>1, <2>1 DEF Supervisors, SupervisorPhases
  <2>3. f \in Engines /\ f.spawns = e.spawns
    BY <1>1 DEF Engines
  <2>4. supervisor' = [supervisor EXCEPT ![a] = new] /\ Answer(<<StateEvent("running")>>)
    BY <1>1, <1>3, TypedAt DEF TakeInput
  <2>5. engine' = [engine EXCEPT ![a] = f]
    <3>1. engine \in [Attempts -> Engines]
      BY DEF IInv, AttemptsSound
    <3>2. engine = [engine EXCEPT ![a] = e]
      BY <3>1
    <3>3. QED
      BY <1>3, <3>1, <3>2 DEF TakeInput
  <2> HIDE DEF new, f
  <2>6. Moved(a) /\ supervisor'[a] = new /\ engine'[a] = f
    BY <1>1, <2>2, <2>3, <2>4, <2>5, BothMoved
  <2>7. s.child
    BY <1>1, <1>3 DEF SupervisorSound
  <2>8. SupervisorSound(new, f)
    BY <1>1, <2>2, <2>3, <2>7 DEF SupervisorSound, Before, Unannounced
  <2>9. ~Terminal(a) /\ Has(a, "spawning")
    BY <1>3, UnderWay
  <2>10. JournalTells(journal[a], new, f)
    BY <1>1, <1>2, <2>2, <2>7, <2>9 DEF JournalTells, Has, Terminal
  <2>11. AttemptSound(a)'
    BY <1>1, <2>6, <2>8, <2>10 DEF AttemptSound
  <2>12. Forward(a) /\ Listening(a)'
    BY <1>3, <2>2, <2>6, <2>7 DEF Forward, Listening
  <2> DEFINE events == <<StateEvent("running")>>
  <2>13. StateEvent("running") \in Said(a)'
    BY <2>1, <2>2, <2>6, <2>7 DEF Said
  <2>14. events \in Seq(Said(a)') /\ Answer(events)
    BY <2>4, <2>13
  <2> HIDE DEF events
  <2>15. QED
    BY <1>1, <2>6, <2>11, <2>12, <2>14, AnswerStep
<1>4. CASE s.phase # "waiting_input"
  <2>1. UNCHANGED <<supervisor, engine, journal, runner>> /\ Answer(Current(s))
    BY <1>1, <1>4 DEF TakeInput
  <2>2. Moved(a) /\ AttemptSound(a)' /\ Forward(a) /\ Listening(a)' /\ Said(a)' = Said(a)
    BY <1>1, <2>1, TypedAt DEF Moved, IInv, AttemptsSound, AttemptSound, Forward, Listening, Said
  <2>3. Current(s) \in Seq(Said(a)')
    BY <1>1, <2>2, CurrentSays
  <2>4. QED
    BY <1>1, <2>1, <2>2, <2>3, AnswerStep
<1>5. QED
  BY <1>3, <1>4

LEMMA TakeReleaseKeeps == ASSUME IInv, NEW a \in Attempts, TakeRelease(a) PROVE IInv'
<1> DEFINE s == supervisor[a]
           new == [s EXCEPT !.phase = "released"]
<1>1. /\ Attached(a) /\ s \in Supervisors /\ s.phase = "terminal" /\ UNCHANGED <<journal, runner, engine>>
      /\ session' = NoSession /\ SupervisorSound(s, engine[a]) /\ JournalTells(journal[a], s, engine[a])
  BY Received, TypedAt DEF TakeRelease, AttemptSound, OnlySupervisor
<1>2. Has(a, "result") /\ (s.event.state = "result" => journal[a].receipt = s.event.receipt)
  <2>1. PICK kind \in {"ack_result", "abandon"} : Receives(a, kind)
    BY DEF TakeRelease
  <2>2. Head(session.frames) \in Asked(a) /\ Head(session.frames).kind = kind
    BY <2>1, Received
  <2>3. QED
    BY <2>2 DEF Asked
<1>3. new \in Supervisors /\ new.phase = "released" /\ new.child = s.child /\ new.event = s.event
  BY <1>1 DEF Supervisors, SupervisorPhases
<1>4. supervisor' = [supervisor EXCEPT ![a] = new]
  BY DEF TakeRelease
<1> HIDE DEF new
<1>5. Moved(a) /\ supervisor'[a] = new
  BY <1>1, <1>3, <1>4, SupervisorMoved
<1>6. SupervisorSound(new, engine[a])
  BY <1>1, <1>3 DEF SupervisorSound, Before, Unannounced
<1>7. JournalTells(journal[a], new, engine[a])
  BY <1>1, <1>2, <1>3 DEF JournalTells, Has
<1>8. AttemptSound(a)'
  BY <1>1, <1>5, <1>6, <1>7 DEF AttemptSound
<1>9. RunnerSound'
  <2>1. ASSUME NEW b \in Attempts, runner.attempt = b PROVE StepSound(b)'
    <3>1. StepSound(b)
      BY <2>1, RunnerAt
    <3>2. b # a
      BY <1>2, <3>1 DEF StepSound, MayBeActive, Terminal, Has
    <3>3. runner.pc \notin {"drive", "identified"}
      BY <1>1, <3>1, <3>2 DEF StepSound, Attached
    <3>4. supervisor'[b] = supervisor[b]
      BY <1>5, <3>2 DEF Moved
    <3>5. QED
      BY <1>1, <3>1, <3>3, <3>4 DEF StepSound, MayBeActive, Terminal, Has
  <2>2. QED
    BY <1>1, <2>1 DEF RunnerSound, IInv
<1>10. QED
  BY <1>1, <1>5, <1>8, <1>9, NoSessionSound, MovedSound DEF IInv

LEMMA LeaseHorizonKeeps == ASSUME IInv, NEW a \in Attempts, LeaseHorizon(a) PROVE IInv'
<1> DEFINE told == FirstReason(supervisor[a], "lease_lost")
           new == Aborted(told)
<1>1. /\ supervisor[a] \in Supervisors /\ Listening(a) /\ supervisor[a].phase # "none"
      /\ UNCHANGED <<journal, runner, session, engine>> /\ "lease_lost" \in StopReasons
  BY TypedAt DEF LeaseHorizon, Listening, StopReasons
<1>2. /\ told \in Supervisors /\ told.phase = supervisor[a].phase /\ told.child = supervisor[a].child
      /\ told.event = supervisor[a].event
  BY <1>1, FlagsTyped
<1>3. supervisor' = [supervisor EXCEPT ![a] = new]
  BY DEF LeaseHorizon
<1>4. /\ new \in Supervisors /\ new.phase = told.phase /\ new.child = told.child /\ new.event = told.event
  <2> HIDE DEF told
  <2>1. QED
    BY <1>1, <1>2, FlagsTyped
<1> HIDE DEF told, new
<1>5. Moved(a) /\ AttemptSound(a)' /\ Forward(a) /\ Listening(a)'
  BY <1>1, <1>2, <1>3, <1>4, FlagsMove
<1>6. QED
  BY <1>1, <1>5, QuietStep

LEMMA PreparationEndsKeeps == ASSUME IInv, NEW a \in Attempts, NEW ready \in BOOLEAN, PreparationEnds(a, ready) PROVE IInv'
<1> DEFINE s == supervisor[a]
<1>1. /\ s \in Supervisors /\ s.phase = "preparing" /\ UNCHANGED <<journal, runner, engine>>
      /\ SupervisorSound(s, engine[a]) /\ JournalTells(journal[a], s, engine[a]) /\ engine \in [Attempts -> Engines]
  BY TypedAt DEF PreparationEnds, OnlySupervisor, AttemptSound, IInv, AttemptsSound
<1>2. engine[a] = NotStarted /\ ~s.child /\ engine[a].state \notin {"idle", "prompted"}
  BY <1>1 DEF SupervisorSound, Before, Unannounced, NotStarted
<1>3. ASSUME NEW code \in Reasons, ConcludeWith(a, FaultEvent(code)) PROVE IInv'
  <2> DEFINE event == FaultEvent(code)
  <2>1. event \in Events /\ event.state = "fault"
    BY EventsTyped
  <2> HIDE DEF event
  <2>2. ConcludeWith(a, event)
    BY <1>3 DEF event
  <2>3. QED
    BY <1>1, <1>2, <2>1, <2>2, ConcludeKeeps
<1>4. CASE ~ready
  BY <1>3, <1>4 DEF PreparationEnds, Reasons, PrestartReasons
<1>5. CASE ready /\ s.faulted
  BY <1>3, <1>5 DEF PreparationEnds, Reasons, PrestartReasons
<1>6. CASE ready /\ ~s.faulted /\ s.stop # "none"
  <2>1. s.stop \in Reasons
    BY <1>1, <1>6 DEF Supervisors, Reasons, PrestartReasons
  <2>2. ConcludeWith(a, FaultEvent(s.stop))
    BY <1>6 DEF PreparationEnds
  <2>3. QED
    BY <1>3, <2>1, <2>2
<1>7. CASE ready /\ ~s.faulted /\ s.stop = "none"
  <2> DEFINE new == [s EXCEPT !.phase = "launching"]
  <2>1. new \in Supervisors /\ new.phase = "launching" /\ new.child = s.child /\ new.event = s.event
    BY <1>1 DEF Supervisors, SupervisorPhases
  <2>2. supervisor' = [supervisor EXCEPT ![a] = new] /\ session' = session
    BY <1>7 DEF PreparationEnds
  <2> HIDE DEF new
  <2>3. Moved(a) /\ supervisor'[a] = new
    BY <1>1, <2>1, <2>2, SupervisorMoved
  <2>4. AttemptSound(a)'
    BY <1>1, <2>1, <2>3 DEF AttemptSound, SupervisorSound, JournalTells, Before, Unannounced
  <2>5. Forward(a) /\ Listening(a)'
    BY <1>1, <2>1, <2>3 DEF Forward, Listening
  <2>6. QED
    BY <1>1, <2>2, <2>3, <2>4, <2>5, QuietStep
<1>8. QED
  BY <1>4, <1>5, <1>6, <1>7

LEMMA SpawnEngineKeeps == ASSUME IInv, NEW a \in Attempts, SpawnEngine(a) PROVE IInv'
<1> DEFINE s == supervisor[a]
           new == [s EXCEPT !.phase = "spawned"]
           f == [[[engine[a] EXCEPT !.spawns = engine[a].spawns + 1] EXCEPT !.state = "idle"] EXCEPT !.read = FALSE]
<1>1. /\ s \in Supervisors /\ s.phase = "launching" /\ UNCHANGED <<journal, runner, session>>
      /\ SupervisorSound(s, engine[a]) /\ JournalTells(journal[a], s, engine[a]) /\ engine \in [Attempts -> Engines]
  BY TypedAt DEF SpawnEngine, AttemptSound, IInv, AttemptsSound
<1>2. engine[a] = NotStarted /\ ~s.child
  BY <1>1 DEF SupervisorSound, Before, Unannounced
<1>3. new \in Supervisors /\ new.phase = "spawned" /\ new.child = s.child /\ new.event = s.event
  BY <1>1 DEF Supervisors, SupervisorPhases
<1>4. f \in Engines /\ f.spawns = 1 /\ f.state = "idle" /\ ~f.read
  <2>1. engine[a].spawns = 0
    BY <1>2 DEF NotStarted
  <2> DEFINE n == engine[a].spawns + 1
  <2>2. n = 1 /\ n \in 0..2
    BY <2>1
  <2> HIDE DEF n
  <2>3. engine[a] \in Engines
    BY <1>1
  <2>4. [[[engine[a] EXCEPT !.spawns = n] EXCEPT !.state = "idle"] EXCEPT !.read = FALSE] \in Engines
    BY <2>2, <2>3 DEF Engines
  <2>5. f = [[[engine[a] EXCEPT !.spawns = n] EXCEPT !.state = "idle"] EXCEPT !.read = FALSE]
    BY DEF n
  <2> HIDE DEF f
  <2>6. QED
    BY <2>2, <2>3, <2>4, <2>5 DEF Engines
<1>5. supervisor' = [supervisor EXCEPT ![a] = new] /\ engine' = [engine EXCEPT ![a] = f]
  BY <1>1 DEF SpawnEngine
<1> HIDE DEF new, f
<1>6. Moved(a) /\ supervisor'[a] = new /\ engine'[a] = f
  BY <1>1, <1>3, <1>4, <1>5, BothMoved
<1>7. SupervisorSound(new, f)
  BY <1>1, <1>2, <1>3, <1>4 DEF SupervisorSound, Before, Unannounced
<1>8. ~Terminal(a) /\ Has(a, "spawning")
  BY <1>1, UnderWay
<1>9. JournalTells(journal[a], new, f)
  BY <1>1, <1>3, <1>4, <1>8 DEF JournalTells, Has, Terminal
<1>10. AttemptSound(a)'
  BY <1>1, <1>6, <1>7, <1>9 DEF AttemptSound
<1>11. Forward(a) /\ Listening(a)'
  BY <1>1, <1>3, <1>6 DEF Forward, Listening
<1>12. QED
  BY <1>1, <1>6, <1>10, <1>11, QuietStep

LEMMA SpawnFailsKeeps == ASSUME IInv, NEW a \in Attempts, SpawnFails(a) PROVE IInv'
<1> DEFINE s == supervisor[a]
           e == engine[a]
           f == IF s.phase = "launching" THEN e ELSE [e EXCEPT !.state = "over"]
           event == FaultEvent("spawn_failed")
<1>1. /\ s.phase \in {"launching", "spawned"} /\ UNCHANGED <<journal, runner>> /\ ConcludeWith(a, event)
      /\ SupervisorSound(s, e) /\ engine \in [Attempts -> Engines] /\ e \in Engines
  BY TypedAt DEF SpawnFails, AttemptSound, IInv, AttemptsSound
<1>2. event \in Events /\ event.state = "fault"
  BY EventsTyped DEF Reasons, PrestartReasons
<1>3. ~s.child /\ (s.phase = "launching" => e = NotStarted)
  BY <1>1 DEF SupervisorSound, Before, Unannounced
<1>4. f \in Engines /\ f.read = e.read /\ f.spawns = e.spawns /\ f.state \notin {"idle", "prompted"}
  BY <1>1, <1>3 DEF Engines, NotStarted
<1>5. engine' = [engine EXCEPT ![a] = f]
  <2>1. engine = [engine EXCEPT ![a] = e]
    BY <1>1
  <2>2. QED
    BY <1>1, <2>1 DEF SpawnFails
<1> HIDE DEF f, event
<1>6. engine' \in [Attempts -> Engines] /\ engine'[a] = f /\ \A b \in Attempts \ {a} : engine'[b] = engine[b]
  BY <1>1, <1>4, <1>5
<1>7. QED
  BY <1>1, <1>2, <1>3, <1>4, <1>6, ConcludeKeeps

LEMMA AnnounceChildKeeps == ASSUME IInv, NEW a \in Attempts, AnnounceChild(a) PROVE IInv'
<1> DEFINE s == supervisor[a]
           event == StateEvent("waiting_input")
           new == [[[s EXCEPT !.phase = "waiting_input"] EXCEPT !.child = TRUE] EXCEPT !.event = event]
<1>1. /\ s \in Supervisors /\ s.phase = "spawned" /\ UNCHANGED <<journal, runner, engine>> /\ Tell(a, event)
      /\ SupervisorSound(s, engine[a]) /\ JournalTells(journal[a], s, engine[a])
  BY TypedAt DEF AnnounceChild, OnlySupervisor, AttemptSound
<1>2. event \in Events /\ event.state = "waiting_input"
  BY EventsTyped DEF LiveStates
<1>3. new \in Supervisors /\ new.phase = "waiting_input" /\ new.child /\ new.event = event
  BY <1>1, <1>2 DEF Supervisors, SupervisorPhases
<1>4. supervisor' = [supervisor EXCEPT ![a] = new]
  BY DEF AnnounceChild
<1>5. event = StateEvent("waiting_input")
  OBVIOUS
<1> HIDE DEF new, event
<1>6. Moved(a) /\ supervisor'[a] = new
  BY <1>1, <1>3, <1>4, SupervisorMoved
<1>7. SupervisorSound(new, engine[a])
  BY <1>1, <1>3, <1>5 DEF SupervisorSound, Before, Unannounced
<1>8. ~Terminal(a) /\ Has(a, "spawning")
  BY <1>1, UnderWay
<1>9. JournalTells(journal[a], new, engine[a])
  BY <1>1, <1>3, <1>8 DEF JournalTells, Has, Terminal
<1>10. AttemptSound(a)'
  BY <1>1, <1>6, <1>7, <1>9 DEF AttemptSound
<1>11. Forward(a) /\ Listening(a)'
  BY <1>1, <1>3, <1>6 DEF Forward, Listening
<1>12. event \in Said(a)'
  BY <1>2, <1>3, <1>6 DEF Said
<1>13. QED
  BY <1>1, <1>6, <1>10, <1>11, <1>12, TellStep

LEMMA EngineEndsKeeps ==
  ASSUME IInv, NEW a \in Attempts, NEW r \in StopReasons \cup {"ended"}, NEW o \in BOOLEAN, EngineEnds(a, r, o)
  PROVE  IInv'
<1> DEFINE s == supervisor[a]
           f == [engine[a] EXCEPT !.state = "over"]
           receipt == [reason |-> r, child |-> TRUE, output |-> o]
           event == IF s.faulted THEN FaultEvent("protocol_invalid") ELSE ResultEvent(receipt)
<1>1. /\ s.phase \in {"waiting_input", "running"} /\ UNCHANGED <<journal, runner>> /\ ConcludeWith(a, event)
      /\ engine \in [Attempts -> Engines] /\ engine[a] \in Engines /\ engine' = [engine EXCEPT ![a] = f]
  BY TypedAt DEF EngineEnds, IInv, AttemptsSound
<1>2. receipt \in Receipts /\ receipt.reason # "spawn_failed"
  BY DEF Receipts, Reasons, PrestartReasons, StopReasons
<1>3. /\ event \in Events /\ event.state \in {"fault", "result"} /\ event.receipt.reason # "spawn_failed"
  <2> HIDE DEF receipt
  <2>1. QED
    BY <1>2, EventsTyped DEF Reasons
<1>4. f \in Engines /\ f.read = engine[a].read /\ f.spawns = engine[a].spawns /\ f.state \notin {"idle", "prompted"}
  BY <1>1 DEF Engines
<1> HIDE DEF f, event
<1>5. engine' \in [Attempts -> Engines] /\ engine'[a] = f /\ \A b \in Attempts \ {a} : engine'[b] = engine[b]
  BY <1>1, <1>4
<1>6. QED
  BY <1>1, <1>3, <1>4, <1>5, ConcludeKeeps

\* the supervisor is gone, and whoever was attached hears it
LEMMA GoneKeeps ==
  ASSUME IInv, NEW a \in Attempts, supervisor[a].phase # "none",
         supervisor' = [supervisor EXCEPT ![a].phase = "gone"], UNCHANGED <<journal, engine>>,
         IF Attached(a) THEN session' = NoSession /\ Severed ELSE UNCHANGED <<session, runner>>
  PROVE  IInv'
<1>1. Has(a, "spawning")
  BY Unspawned
<1>2. Moved(a) /\ AttemptSound(a)'
  BY <1>1, GoneMoves
<1>3. CASE Attached(a)
  <2>1. \A b \in Attempts : supervisor[b].phase = "none" => supervisor'[b].phase = "none"
    BY <1>2 DEF Moved
  <2>2. RunnerSound' /\ SessionSound'
    BY <1>3, <2>1, SeveredSound, NoSessionSound
  <2>3. QED
    BY <1>2, <2>2, MovedSound DEF IInv
<1>4. CASE ~Attached(a)
  <2>1. SessionSound'
    BY <1>2, <1>4, DetachedSession
  <2>2. QED
    BY <1>2, <1>4, <2>1, SupervisorStep
<1>5. QED
  BY <1>3, <1>4

LEMMA HoldEndsKeeps == ASSUME IInv, NEW a \in Attempts, HoldEnds(a) PROVE IInv'
  BY GoneKeeps DEF HoldEnds

LEMMA SupervisorDiesKeeps == ASSUME IInv, NEW a \in Attempts, SupervisorDies(a) PROVE IInv'
  BY GoneKeeps DEF SupervisorDies, Listening

LEMMA OrphanEndsKeeps == ASSUME IInv, NEW a \in Attempts, OrphanEnds(a) PROVE IInv'
<1> DEFINE f == [engine[a] EXCEPT !.state = "over"]
<1>1. /\ supervisor[a].phase = "gone" /\ UNCHANGED <<journal, runner, session, supervisor>>
      /\ engine \in [Attempts -> Engines] /\ engine[a] \in Engines /\ engine' = [engine EXCEPT ![a] = f]
      /\ AttemptSound(a) /\ supervisor \in [Attempts -> Supervisors]
  BY TypedAt DEF OrphanEnds, IInv, AttemptsSound
<1>2. f \in Engines /\ f.read = engine[a].read /\ f.spawns = engine[a].spawns /\ f.state \notin {"idle", "prompted"}
  BY <1>1 DEF Engines
<1> HIDE DEF f
<1>3. Moved(a) /\ engine'[a] = f
  BY <1>1, <1>2 DEF Moved
<1>4. AttemptSound(a)'
  BY <1>1, <1>2, <1>3 DEF AttemptSound, SupervisorSound, JournalTells, Before, Unannounced
<1>5. SessionSound'
  BY <1>1, SameSession
<1>6. QED
  BY <1>1, <1>3, <1>4, <1>5, SupervisorStep

-----------------------------------------------------------------------------
(* Every step *)

LEMMA InitHolds == Init => IInv
<1> SUFFICES ASSUME Init PROVE IInv
  OBVIOUS
<1>1. /\ journal = [a \in Attempts |-> NoJournal] /\ runner = RunnerOff /\ session = NoSession
      /\ supervisor = [a \in Attempts |-> NewSupervisor("none")]
      /\ engine = [a \in Attempts |-> NotStarted]
  BY DEF Init, NotStarted
<1>2. NoJournal \in Journals /\ NoJournal.records = {}
  BY DEF NoJournal, Journals
<1>3. JournalSound
  BY <1>1, <1>2 DEF JournalSound, JournalsValid, OneActive, OneJournal, MayBeActive
<1>4. RunnerSound
  BY <1>1, NoneAssumption DEF RunnerSound, RunnerOff, Runners
<1>5. SessionSound
  BY <1>1, NoneAssumption DEF SessionSound, NoSession, Sessions, Attached
<1>6. AttemptsSound
  <2> DEFINE s == NewSupervisor("none")
  <2>1. s \in Supervisors /\ s.phase = "none" /\ ~s.child /\ s.event = NoEvent
    BY DEF NewSupervisor, Supervisors, SupervisorPhases
  <2>2. NotStarted \in Engines
    BY DEF NotStarted, Engines
  <2> HIDE DEF s
  <2>3. SupervisorSound(s, NotStarted)
    BY <2>1 DEF SupervisorSound, Before, Unannounced, NotStarted
  <2>4. JournalTells(NoJournal, s, NotStarted)
    BY <1>2, <2>1 DEF JournalTells, NotStarted
  <2>5. supervisor = [a \in Attempts |-> s]
    BY <1>1 DEF s
  <2>6. QED
    BY <1>1, <2>1, <2>2, <2>3, <2>4, <2>5 DEF AttemptsSound, AttemptSound
<1>7. QED
  BY <1>3, <1>4, <1>5, <1>6 DEF IInv

LEMMA RunnerKeeps == ASSUME IInv, RunnerNext PROVE IInv'
<1>1. CASE \E t \in Targets : Serve(t)
  BY <1>1, ServeKeeps
<1>2. CASE Quarantine
  BY <1>2, QuarantineKeeps
<1>3. CASE TargetBusy
  BY <1>3, BusyKeeps
<1>4. CASE RetryLater
  BY <1>4, RetryKeeps
<1>5. ASSUME NEW a \in Attempts,
             \/ AdoptAttempt(a) \/ MakeDirectory(a) \/ PersistClaimed(a)
             \/ \E wanted \in BOOLEAN : ClaimGranted(a, wanted)
             \/ ClaimDenied(a)
      PROVE  IInv'
  BY <1>5, AdoptKeeps, MakeDirectoryKeeps, PersistClaimedKeeps, ClaimGrantedKeeps, ClaimDeniedKeeps
<1>6. ASSUME NEW a \in Attempts,
             \/ SpawningAmbiguous(a) \/ CompleteCancellation(a) \/ ResumeOrPlan(a)
             \/ PlanReady(a) \/ PlanDenied(a) \/ PlanCanceled(a) \/ FinishCancellation(a)
      PROVE  IInv'
  BY <1>6, AmbiguousKeeps, CompleteCancellationKeeps, ResumeKeeps, PlanReadyKeeps, PlanDeniedKeeps,
     PlanCanceledKeeps, FinishCancellationKeeps
<1>7. ASSUME NEW a \in Attempts,
             \/ \E r \in StopReasons : PlanTerminates(a, r) \/ PlanPrestartResult(a, r)
             \/ \E r \in StopReasons : CommitTooLate(a, r)
             \/ CommitSpawning(a)
             \/ SpawnSupervisor(a) \/ PersistSupervisor(a) \/ BootstrapFails(a)
      PROVE  IInv'
  BY <1>7, PlanTerminatesKeeps, PlanPrestartKeeps, CommitTooLateKeeps, CommitSpawningKeeps, SpawnSupervisorKeeps,
     PersistSupervisorKeeps, BootstrapFailsKeeps
<1>8. QED
  BY <1>1, <1>2, <1>3, <1>4, <1>5, <1>6, <1>7 DEF RunnerNext

LEMMA DriveKeeps == ASSUME IInv, DriveNext PROVE IInv'
  BY SignalKeeps, SessionLostKeeps, RunnerEndsKeeps, ConnectKeeps, SendTerminateKeeps, AuthorizeSpawnKeeps,
     RecordStartedKeeps, AuthorizeInputKeeps, RecordResultKeeps, RefuseResultKeeps, RecordFaultKeeps DEF DriveNext

LEMMA SupervisorKeeps == ASSUME IInv, SupervisorNext PROVE IInv'
  BY TakeSpawnKeeps, CompareSpawnKeeps, TakeInputKeeps, TakeTerminateKeeps, TakeReleaseKeeps, LeaseHorizonKeeps,
     PreparationEndsKeeps, SpawnEngineKeeps, SpawnFailsKeeps, AnnounceChildKeeps, EngineEndsKeeps, HoldEndsKeeps,
     SupervisorDiesKeeps, OrphanEndsKeeps DEF SupervisorNext

LEMMA UnchangedKeeps == ASSUME IInv, UNCHANGED vars PROVE IInv'
<1>1. JournalSound' /\ AttemptsSound' /\ SessionSound'
  BY SameAttempts, SameSession DEF vars
<1>2. \A a \in Attempts : StepSound(a)' = StepSound(a)
  BY DEF StepSound, MayBeActive, Terminal, Has, Attached, vars
<1>3. RunnerSound'
  BY <1>2 DEF RunnerSound, IInv, vars
<1>4. QED
  BY <1>1, <1>3 DEF IInv

LEMMA StepKeeps == IInv /\ [Next]_vars => IInv'
  BY RunnerKeeps, DriveKeeps, SupervisorKeeps, UnchangedKeeps DEF Next

(* What journal, runner, connection, supervisor and engine know of one     *)
(* another stays true, whoever is killed and whatever is resumed.          *)
THEOREM AttemptInvariant == Spec => []IInv
  BY InitHolds, StepKeeps, PTL DEF Spec

(* An attempt starts its engine once, one engine at a time runs for a      *)
(* state directory, and a target has one journal.                          *)
THEOREM OneOfEachHolds == Spec => []OneOfEach
<1>1. ASSUME IInv, NEW a \in Attempts, Alive(a) PROVE MayBeActive(a)
  <2>1. SupervisorSound(supervisor[a], engine[a]) /\ JournalTells(journal[a], supervisor[a], engine[a])
    BY <1>1, TypedAt DEF AttemptSound
  <2>2. supervisor[a].phase # "none" /\ ~Terminal(a)
    BY <1>1, <2>1 DEF Alive, SupervisorSound, JournalTells, Before, NotStarted, Terminal
  <2>3. Has(a, "spawning")
    BY <1>1, <2>2, Unspawned
  <2>4. QED
    BY <2>2, <2>3 DEF MayBeActive, Has
<1>2. IInv => OneEngine
  BY <1>1 DEF OneEngine, IInv, JournalSound, OneActive
<1>3. IInv => OneSpawn
  BY DEF OneSpawn, IInv, AttemptsSound, AttemptSound, SupervisorSound
<1>4. IInv => OneOfEach
  BY <1>2, <1>3 DEF OneOfEach, IInv, JournalSound
<1>5. QED
  BY <1>4, AttemptInvariant, PTL

(* The engine reads the prompt only after its identity is in the journal.  *)
THEOREM PromptAfterStartedHolds == Spec => []PromptAfterStarted
<1>1. IInv => PromptAfterStarted
  BY DEF PromptAfterStarted, IInv, AttemptsSound, AttemptSound, JournalTells, Has
<1>2. QED
  BY <1>1, AttemptInvariant, PTL

(* The engine of a journaled result is over, and a result that says the    *)
(* engine could not be started is of one that never read the prompt.       *)
THEOREM ResultIsFinalHolds == Spec => []ResultIsFinal
<1>1. IInv => ResultIsFinal
  BY DEF ResultIsFinal, IInv, AttemptsSound, AttemptSound, JournalTells, Has, Alive
<1>2. QED
  BY <1>1, AttemptInvariant, PTL

(* A supervisor that was told to go left its outcome in the journal.       *)
THEOREM ReleasedHolds == Spec => []ReleasedWhenDurable
<1>1. IInv => ReleasedWhenDurable
  BY DEF ReleasedWhenDurable, IInv, AttemptsSound, AttemptSound, JournalTells, Has
<1>2. QED
  BY <1>1, AttemptInvariant, PTL

(* Every variable keeps its type.                                          *)
THEOREM AttemptTypes == Spec => []TypeOK
<1>1. IInv => TypeOK
  BY DEF TypeOK, IInv, JournalSound, RunnerSound, SessionSound, Sessions, AttemptsSound
<1>2. QED
  BY <1>1, AttemptInvariant, PTL
=============================================================================
