---------------------------- MODULE RunnerOutbox ----------------------------
(***************************************************************************)
(* The durable outbox of a runner's state directory, and the commands that *)
(* work on it.                                                             *)
(*                                                                         *)
(* An operation is a file: pending until the server's answer is known,     *)
(* then a terminal tombstone until it is pruned (durable-outbox.mjs). The  *)
(* recovery cycle of `serve` carries the result of an engine attempt from  *)
(* its journal into the outbox, delivers it and settles the journal        *)
(* (engine-attempt-coordinator.mjs, engine-serve-cycle.mjs). The commands  *)
(* `report`, `engines report`, `diagnose` and `outbox` (nexus-runner.mjs)  *)
(* share the directory, one at a time (RunnerLock), and any of them may    *)
(* die between two of its steps. A file may become unreadable.             *)
(*                                                                         *)
(* The server is what the answers say of it: an operation it applied is    *)
(* applied once (RunControl) and answered as applied from then on, unless  *)
(* its answer was compacted or the runner was revoked.                     *)
(***************************************************************************)
EXTENDS Naturals, FiniteSets

CONSTANTS
  Attempts,     \* attempt ids; the id of an attempt's completion is derived from its own
  LocalOps,     \* operation ids the other commands draw
  DiagRuns,     \* runs `diagnose` is called for
  Commands,     \* the commands that are started
  Corruptible,  \* operations whose file may become unreadable
  AttemptMax,   \* RECOVERY_ATTEMPT_MAX: attempts of one cycle
  DeliveryMax,  \* RECOVERY_DELIVERY_MAX: deliveries of one cycle
  OutboxDays,   \* ACK_RETENTION_MS: age at which a tombstone may go
  JournalDays,  \* age at which a settled journal may go
  NoOp, NoRun   \* no operation, no run

AllCommands == {"cycle", "report", "engines", "diagnose", "outbox"}

ASSUME OutboxAssumption ==
  /\ Attempts \cap LocalOps = {} /\ NoOp \notin Attempts \cup LocalOps
  /\ NoRun \notin DiagRuns
  /\ Commands \subseteq AllCommands
  /\ Corruptible \subseteq Attempts \cup LocalOps
  /\ AttemptMax \in Nat \ {0} /\ DeliveryMax \in Nat \ {0}
  /\ OutboxDays \in Nat \ {0} /\ JournalDays \in Nat /\ OutboxDays < JournalDays

Ops == Attempts \cup LocalOps

VARIABLES
  tail,     \* [Attempts -> the journal from the result on]
  box,      \* [Ops -> the file of an operation]
  applied,  \* the attempts whose completion the server has applied
  heard,    \* the attempts whose final answer has been written into the outbox
  leased,   \* acknowledged claims whose lease has not expired
  command,  \* the command that owns the directory
  plan      \* the locals of a recovery cycle

ovars == <<tail, box, applied, heard, leased, command, plan>>

-----------------------------------------------------------------------------
(* Files *)

Kinds == {"engine.complete", "engine.report", "capability.report", "lease.claim", "run.complete"}
TerminalStates == {"acked", "rejected", "superseded", "abandoned"}
NoEntry == [kind |-> "none", status |-> "none", age |-> 0, run |-> NoRun, bad |-> FALSE]
PendingFile(kind, run) ==
  [kind |-> kind, status |-> "pending", age |-> 0, run |-> run, bad |-> FALSE]
Files ==
  [kind : Kinds, status : TerminalStates \cup {"pending"}, age : 0..OutboxDays,
   run : DiagRuns \cup {NoRun}, bad : BOOLEAN]

(* From the result of an attempt to its settlement; "open" is every attempt *)
(* that has no result yet, "gone" a journal that was pruned.                *)
Stages == {"open", "result", "outboxed", "settled", "gone"}
Tails ==
  [stage : Stages \ {"settled", "gone"}, outcome : {"none"}, age : {0}]
    \cup [stage : {"settled", "gone"}, outcome : TerminalStates, age : 0..JournalDays]

Idle == [name |-> "none", step |-> "none", op |-> NoOp, run |-> NoRun, flag |-> FALSE]
CommandStates ==
  [name : AllCommands \cup {"none"},
   step : {"none", "reconcile", "send", "adopt", "settle", "finalize", "deliver", "write",
           "recover", "recovered", "drain", "drain_more", "claim", "expired", "hold", "complete"},
   op : Ops \cup {NoOp}, run : DiagRuns \cup {NoRun}, flag : BOOLEAN]

NoPlan ==
  [todo |-> {}, initial |-> {}, deliver |-> {}, intents |-> {}, corrupt |-> {},
   whole |-> FALSE, answer |-> "none"]
Answers == {"ok", "superseded", "rejected", "gone", "auth", "retry", "protocol"}
Plans ==
  [todo : SUBSET Attempts, initial : SUBSET Attempts, deliver : SUBSET Attempts,
   intents : SUBSET Attempts, corrupt : SUBSET Ops, whole : BOOLEAN,
   answer : Answers \cup {"none"}]

Here(op) == box[op].status # "none"
PendingOp(op) == box[op].status = "pending"
TerminalOp(op) == box[op].status \in TerminalStates
OfKind(kind) == {op \in Ops : box[op].kind = kind}

(* recoverOutbox: what cannot be read is moved aside, and reported.         *)
UnreadableOps == {op \in Ops : box[op].bad}
Readable == [op \in Ops |-> IF box[op].bad THEN NoEntry ELSE box[op]]

(* pruneOutbox, on what can be read. Kinds of the older formats keep their  *)
(* abandoned entries.                                                       *)
\* bug: age alone decides
PrunableOld(file) == file.age = OutboxDays
Prunable(file) ==
  /\ file.status \in TerminalStates
  /\ file.status # "abandoned" \/ file.kind \in {"engine.complete", "engine.report"}
  /\ file.age = OutboxDays
Pruned(files) == [op \in Ops |-> IF Prunable(files[op]) THEN NoEntry ELSE files[op]]

(* transitionOperation: computed from the entry in hand, written over the   *)
(* file. An entry in hand that is terminal stays as it is.                  *)
Transitioned(files, op, status) ==
  [files EXCEPT ![op].status = status, ![op].age = 0, ![op].bad = FALSE]

-----------------------------------------------------------------------------
(* The server's answer to the operation a command sends *)

(* "retry" is every answer that leaves the entry pending and says nothing:  *)
(* no answer, one that cannot be read to its end, 5xx, 429, a conflict to   *)
(* be tried again. The operation may have been applied all the same.        *)
Answered(op, answer) ==
  \/ answer = "ok" /\ applied' = applied \cup {op}
  \/ answer \in {"retry", "protocol"} /\ applied' \in {applied, applied \cup {op}}
  \/ answer \in {"superseded", "rejected"} /\ op \notin applied /\ UNCHANGED applied
  \/ answer = "gone" /\ op \in applied /\ UNCHANGED applied
  \/ answer = "auth" /\ UNCHANGED applied

(* classifyEngineCompleteResponse and deliverEngineReport: what an answer   *)
(* makes of a declaration.                                                  *)
\* bug: any 2xx answer is an acknowledgement
DeclarationTrusting(answer) ==
  CASE answer \in {"ok", "protocol"} -> "acked" [] answer = "superseded" -> "superseded"
    [] answer \in {"rejected", "gone", "auth"} -> "rejected" [] OTHER -> "pending"
DeclarationStatus(answer) ==
  CASE answer = "ok" -> "acked" [] answer = "superseded" -> "superseded"
    [] answer \in {"rejected", "gone", "auth"} -> "rejected" [] OTHER -> "pending"

(* terminalOutboxStatus: the same for the older kinds.                      *)
LegacyStatus(answer) == IF answer = "gone" THEN "abandoned" ELSE DeclarationStatus(answer)

-----------------------------------------------------------------------------
(* The recovery cycle of `serve` *)

Unsettled == {a \in Attempts : tail[a].stage \in {"open", "result", "outboxed"}}
Priority(a) == CASE tail[a].stage = "outboxed" -> 0 [] tail[a].stage = "result" -> 1 [] OTHER -> 2
Smaller(x, y) == IF x < y THEN x ELSE y

(* The attempts a cycle takes up: the first AttemptMax in recovery order.   *)
Window(selected) ==
  /\ selected \subseteq Unsettled
  /\ Cardinality(selected) = Smaller(AttemptMax, Cardinality(Unsettled))
  /\ \A a \in selected, b \in Unsettled \ selected : Priority(a) <= Priority(b)

(* prepareEngineAttemptRecoveryCore up to the first attempt: settled        *)
(* journals of age are removed, the outbox is read.                         *)
StartCycle ==
  /\ command = Idle /\ "cycle" \in Commands
  /\ \E selected \in SUBSET Attempts :
       /\ Window(selected)
       /\ plan' = [NoPlan EXCEPT
            !.todo = {a \in selected : tail[a].stage # "open"},
            !.initial = {a \in Attempts : Readable[a].status # "none"},
            !.corrupt = UnreadableOps,
            !.whole = (selected = Unsettled)]
  /\ tail' = [a \in Attempts |->
       IF tail[a].stage = "settled" /\ tail[a].age = JournalDays
       THEN [tail[a] EXCEPT !.stage = "gone"] ELSE tail[a]]
  /\ box' = Readable
  /\ command' = [Idle EXCEPT !.name = "cycle", !.step = "reconcile"]
  /\ UNCHANGED <<applied, heard, leased>>

Reconciling(a) == command.name = "cycle" /\ command.step = "reconcile" /\ a \in plan.todo
Done(a) == plan' = [plan EXCEPT !.todo = @ \ {a}]
Deliverable(a) == plan' = [plan EXCEPT !.todo = @ \ {a}, !.deliver = @ \cup {a}]

Settle(a) ==
  tail' = [tail EXCEPT ![a] = [stage |-> "settled", outcome |-> box[a].status, age |-> 0]]

(* bridgeCompletion, first half: the pending entry. It is written only if   *)
(* the outbox held none for the operation.                                  *)
Bridges(a) == tail[a].stage = "result" /\ a \notin plan.initial /\ ~Here(a)
WriteCompletion(a) ==
  /\ Reconciling(a) /\ a \notin plan.corrupt /\ Bridges(a)
  /\ box' = [box EXCEPT ![a] = PendingFile("engine.complete", NoRun)]
  /\ UNCHANGED <<tail, applied, heard, leased, command, plan>>

(* bridgeCompletion, second half: the journal's `outboxed` record. An entry *)
(* that was there before may be terminal; reconcileAttempt then settles.    *)
RecordOutboxed(a) ==
  /\ Reconciling(a) /\ a \notin plan.corrupt
  /\ tail[a].stage = "result" /\ Here(a)
  /\ tail' = [tail EXCEPT ![a].stage = "outboxed"]
  /\ IF a \in plan.initial /\ TerminalOp(a) THEN UNCHANGED plan ELSE Deliverable(a)
  /\ UNCHANGED <<box, applied, heard, leased, command>>

(* reconcileAttempt of an outboxed attempt: its one entry decides.          *)
Reconcile(a) ==
  /\ Reconciling(a) /\ a \notin plan.corrupt
  /\ tail[a].stage = "outboxed" /\ a \in plan.initial
  /\ IF TerminalOp(a) THEN Settle(a) /\ Done(a) ELSE Deliverable(a) /\ UNCHANGED tail
  /\ UNCHANGED <<box, applied, heard, leased, command>>

(* bridgeCompletion and verifyOutboxedAttempt: the operator must look.      *)
Attention(a) ==
  /\ Reconciling(a)
  /\ a \in plan.corrupt \/ (tail[a].stage = "outboxed" /\ a \notin plan.initial /\ ~Bridges(a))
  /\ Done(a)
  /\ UNCHANGED <<tail, box, applied, heard, leased, command>>

(* correlateDeliverableEntries: the outbox is read again; what is terminal  *)
(* settles its attempt, what is pending may be delivered.                   *)
Correlated(files) == [a \in Attempts |->
  IF a \in plan.deliver /\ tail[a].stage = "outboxed" /\ files[a].status \in TerminalStates
  THEN [stage |-> "settled", outcome |-> files[a].status, age |-> 0] ELSE tail[a]]
StillPending(files) == {a \in plan.deliver : files[a].status = "pending"}

Correlate ==
  /\ command.name = "cycle" /\ command.step = "reconcile" /\ plan.todo = {}
  /\ box' = Readable /\ tail' = Correlated(Readable)
  /\ \E intents \in SUBSET StillPending(Readable) :
       /\ Cardinality(intents) = Smaller(DeliveryMax, Cardinality(StillPending(Readable)))
       /\ plan' = [plan EXCEPT !.intents = intents, !.deliver = StillPending(Readable),
                               !.corrupt = {}, !.initial = {}]
  /\ command' = [command EXCEPT !.step = "send"]
  /\ UNCHANGED <<applied, heard, leased>>

(* createEngineCompletionHttpEffect: the network step, outside of the       *)
(* borrowed capability. The entry sent is the one in the plan.              *)
SendCompletion(a) ==
  /\ command.name = "cycle" /\ command.step = "send" /\ a \in plan.intents
  /\ \E answer \in Answers :
       Answered(a, answer) /\ plan' = [plan EXCEPT !.intents = @ \ {a}, !.answer = answer]
  /\ command' = [command EXCEPT !.step = "adopt", !.op = a]
  /\ UNCHANGED <<tail, box, heard, leased>>

AfterDelivery(halt) ==
  command' = [command EXCEPT !.step = IF halt THEN "finalize" ELSE "send", !.op = NoOp, !.flag = FALSE]

(* finalizeEngineCompletionEffectHeld, applyCompletionEffect: the entry     *)
(* must still be the pending one of the plan; an answer that is final makes *)
(* it terminal. Anything else halts the cycle's deliveries.                 *)
AdoptAnswer ==
  LET a == command.op
      status == DeclarationStatus(plan.answer) IN
  /\ command.name = "cycle" /\ command.step = "adopt"
  /\ plan' = [plan EXCEPT !.answer = "none"]
  /\ IF Readable[a].status = "pending" /\ status # "pending"
     THEN /\ box' = Transitioned(Readable, a, status) /\ heard' = heard \cup {a}
          /\ command' = [command EXCEPT !.step = "settle", !.flag = (plan.answer = "auth")]
     ELSE box' = Readable /\ AfterDelivery(TRUE) /\ UNCHANGED heard
  /\ UNCHANGED <<tail, applied, leased>>

(* transitionAndAdopt, second half: the tombstone is read back, and the     *)
(* journal is settled as it says.                                           *)
SettleDelivered ==
  LET a == command.op IN
  /\ command.name = "cycle" /\ command.step = "settle"
  /\ box' = Readable
  /\ IF Readable[a].status = "none"
     THEN UNCHANGED tail /\ AfterDelivery(TRUE)
     ELSE Settle(a) /\ AfterDelivery(command.flag)
  /\ UNCHANGED <<applied, heard, leased, plan>>

(* finalizeEngineAttemptRecoveryCore: correlate once more, then prune, but  *)
(* only if every attempt was taken up and no tombstone waits for its        *)
(* journal.                                                                 *)
PrunesOutbox(files, tails) ==
  /\ plan.whole
  /\ \A a \in Attempts :
       files[a].status \in TerminalStates => tails[a].stage \notin {"result", "outboxed"}
FinishCycle ==
  /\ command.name = "cycle"
  /\ command.step = "finalize" \/ (command.step = "send" /\ plan.intents = {})
  /\ tail' = Correlated(Readable)
  /\ box' = IF PrunesOutbox(Readable, tail') THEN Pruned(Readable) ELSE Readable
  /\ command' = Idle /\ plan' = NoPlan
  /\ UNCHANGED <<applied, heard, leased>>

-----------------------------------------------------------------------------
(* The commands of one shot *)

Starts(name) == command = Idle /\ name \in Commands
Step(name, step) == command.name = name /\ command.step = step
Enter(name, step, op, run) ==
  command' = [name |-> name, step |-> step, op |-> op, run |-> run, flag |-> FALSE]
Stop == command' = Idle
PendingOf(kind, files) == {op \in Ops : files[op].kind = kind /\ files[op].status = "pending"}

(* A fresh operation id: ids are random, one that no file has stands for it.*)
Draw(op, kind, run, files) ==
  /\ op \in LocalOps /\ files[op].status = "none"
  /\ box' = [files EXCEPT ![op] = PendingFile(kind, run)]
  /\ leased' = leased \ {op}

(* inspectOutbox: `outbox` prunes before it lists.                          *)
InspectOutbox ==
  /\ Starts("outbox")
  /\ box' = Pruned(Readable)
  /\ UNCHANGED <<tail, applied, heard, leased, command, plan>>

(* reportCapabilities: a pending report goes first, whatever it says.       *)
StartReport ==
  LET files == Pruned(Readable)
      pending == PendingOf("capability.report", files) IN
  /\ Starts("report")
  /\ IF pending # {}
     THEN /\ box' = files /\ UNCHANGED leased
          /\ \E op \in pending : Enter("report", "deliver", op, NoRun)
     ELSE \E op \in LocalOps :
            Draw(op, "capability.report", NoRun, files) /\ Enter("report", "deliver", op, NoRun)
  /\ UNCHANGED <<tail, applied, heard, plan>>

(* reportEngines: a pending report of what the engines still are is sent    *)
(* again, one of what they were is abandoned; without one, nothing is said  *)
(* until something changed or a new report is due (suppressed).             *)
\* bug: the report of what the engines were is left pending
LeaveStale(op, files) == files
AbandonStale(op, files) == Transitioned(files, op, "abandoned")
StartEngines ==
  LET files == Pruned(Readable)
      pending == PendingOf("engine.report", files) IN
  /\ Starts("engines") /\ Cardinality(pending) < 2
  /\ \/ /\ box' = files /\ UNCHANGED leased
        /\ \E op \in pending : Enter("engines", "deliver", op, NoRun)
     \/ \E old \in pending :
          /\ box' = AbandonStale(old, files) /\ Enter("engines", "write", NoOp, NoRun)
          /\ UNCHANGED leased
     \/ /\ pending = {}
        /\ \/ box' = files /\ Stop /\ UNCHANGED leased
           \/ \E op \in LocalOps :
                Draw(op, "engine.report", NoRun, files) /\ Enter("engines", "deliver", op, NoRun)
  /\ UNCHANGED <<tail, applied, heard, plan>>

WriteEngineReport ==
  /\ Step("engines", "write")
  /\ \E op \in LocalOps :
       Draw(op, "engine.report", NoRun, box) /\ Enter("engines", "deliver", op, NoRun)
  /\ UNCHANGED <<tail, applied, heard, plan>>

(* deliverCapabilityReport and deliverEngineReport: send, and if the answer *)
(* is final, write it over the file. The answer reaches the file in a step  *)
(* of its own.                                                              *)
Send ==
  /\ command.name \in {"report", "engines", "diagnose"}
  /\ command.step \in {"deliver", "drain", "drain_more", "claim", "complete"} /\ ~command.flag
  /\ \E answer \in Answers :
       /\ answer = "superseded" => command.name = "diagnose"
       /\ plan' = [plan EXCEPT !.answer = answer]
       /\ leased' = IF command.step = "claim" /\ answer = "ok"
                    THEN leased \cup {command.op} ELSE leased
  /\ command' = [command EXCEPT !.flag = TRUE]
  /\ UNCHANGED <<tail, box, applied, heard>>

StatusOf(op, answer) ==
  IF box[op].kind = "engine.report" THEN DeclarationStatus(answer) ELSE LegacyStatus(answer)
Answering(step) == command.flag /\ command.step = step
Adopted(op) ==
  LET status == StatusOf(op, plan.answer) IN
  box' = IF status = "pending" THEN box ELSE Transitioned(box, op, status)

ReportAnswered ==
  /\ Answering("deliver") /\ Adopted(command.op) /\ Stop
  /\ plan' = NoPlan
  /\ UNCHANGED <<tail, applied, heard, leased>>

-----------------------------------------------------------------------------
(* diagnose: claim a run, hold it, complete it; all from the outbox *)

StartDiagnose(run) ==
  /\ Starts("diagnose")
  /\ box' = Pruned(Readable)
  /\ Enter("diagnose", "recover", NoOp, run)
  /\ UNCHANGED <<tail, applied, heard, leased, plan>>

(* A completion that is still pending is delivered before anything else.    *)
OldCompletions(run) == PendingOf("run.complete", box)
DrainCompletion ==
  /\ Step("diagnose", "recover") \/ Step("diagnose", "recovered")
  /\ \E op \in OldCompletions(command.run) :
       Enter("diagnose", IF command.step = "recover" THEN "drain" ELSE "drain_more", op, command.run)
  /\ UNCHANGED <<tail, box, applied, heard, leased, plan>>

(* A completion that was delivered for this run ends the command; so does   *)
(* one that was acknowledged before, and a claim of another run. A claim    *)
(* that is on record and not expired is taken up again.                     *)
StoredClaims(run, files) ==
  {op \in leased :
     files[op].kind = "lease.claim" /\ files[op].status = "acked" /\ files[op].run = run}
ResumeDiagnose ==
  LET run == command.run
      files == Readable
      claims == PendingOf("lease.claim", files)
      completed == \E op \in Ops :
        files[op].kind = "run.complete" /\ files[op].status = "acked" /\ files[op].run = run
      stored == StoredClaims(run, files)
      found == box' = files /\ UNCHANGED leased IN
  /\ Step("diagnose", "recover") /\ OldCompletions(run) = {}
  /\ CASE completed \/ (\E op \in claims : files[op].run # run) -> Stop /\ found
       [] stored # {} -> (\E op \in stored : Enter("diagnose", "hold", op, run)) /\ found
       [] claims # {} -> (\E op \in claims : Enter("diagnose", "claim", op, run)) /\ found
       [] OTHER ->
            \E op \in LocalOps :
              Draw(op, "lease.claim", run, files) /\ Enter("diagnose", "claim", op, run)
  /\ UNCHANGED <<tail, applied, heard, plan>>

EndRecovered ==
  /\ Step("diagnose", "recovered") /\ OldCompletions(command.run) = {} /\ Stop
  /\ UNCHANGED <<tail, box, applied, heard, leased, plan>>

(* deliverClaim: the answer to a claim is adopted; a lease that is over by  *)
(* then is superseded by one fresh claim.                                   *)
ClaimAnswered ==
  LET op == command.op
      run == command.run IN
  /\ Answering("claim") /\ Adopted(op) /\ plan' = NoPlan
  /\ IF plan.answer = "ok"
     THEN Enter("diagnose", IF op \in leased THEN "hold" ELSE "expired", op, run) ELSE Stop
  /\ UNCHANGED <<tail, applied, heard, leased>>

(* The entry in hand is the pending one that was sent, so the transition    *)
(* goes over the acknowledged file.                                         *)
SupersedeClaim ==
  /\ Step("diagnose", "expired")
  /\ \E op \in LocalOps :
       /\ Draw(op, "lease.claim", command.run, Transitioned(box, command.op, "superseded"))
       /\ Enter("diagnose", "claim", op, command.run)
  /\ UNCHANGED <<tail, applied, heard, plan>>

(* holdDiagnosticLease: a refused renewal ends the command; else the        *)
(* outcome is written down as an operation.                                 *)
HoldLease ==
  /\ Step("diagnose", "hold")
  /\ \/ Stop /\ UNCHANGED <<box, leased>>
     \/ \E op \in LocalOps :
          /\ Draw(op, "run.complete", command.run, box)
          /\ Enter("diagnose", "complete", op, command.run)
  /\ UNCHANGED <<tail, applied, heard, plan>>

(* deliverCompletion: sent until there is an answer.                        *)
CompletionAnswered ==
  LET own == box[command.op].run = command.run \/ command.step = "drain_more" IN
  /\ Answering("drain") \/ Answering("drain_more") \/ Answering("complete")
  /\ Adopted(command.op) /\ plan' = NoPlan
  /\ \/ plan.answer \in {"retry", "protocol"} /\ command' = [command EXCEPT !.flag = FALSE]
     \/ plan.answer # "retry" /\ (plan.answer # "ok" \/ command.step = "complete") /\ Stop
     \/ /\ plan.answer = "ok" /\ command.step # "complete"
        /\ Enter("diagnose", IF own THEN "recovered" ELSE "recover", NoOp, command.run)
  /\ UNCHANGED <<tail, applied, heard, leased>>

-----------------------------------------------------------------------------
(* What happens to the runner *)

(* appendOrVerifyResultRecord, in another loop of `serve`.                  *)
JournalResult(a) ==
  /\ command.name \in {"none", "cycle"} /\ tail[a].stage = "open"
  /\ tail' = [tail EXCEPT ![a].stage = "result"]
  /\ UNCHANGED <<box, applied, heard, leased, command, plan>>

(* The command dies, or a write fails and it gives up.                      *)
Dies ==
  /\ command # Idle
  /\ command' = Idle /\ plan' = NoPlan
  /\ UNCHANGED <<tail, box, applied, heard, leased>>

Spoil(op) ==
  /\ op \in Corruptible /\ Here(op) /\ ~box[op].bad
  /\ box' = [box EXCEPT ![op].bad = TRUE]
  /\ UNCHANGED <<tail, applied, heard, leased, command, plan>>

Older(age, bound) == Smaller(age + 1, bound)
Day ==
  /\ command.step \notin {"drain", "drain_more", "complete"}  \* bounds the retries of a delivery
  /\ box' = [op \in Ops |->
       IF Here(op) THEN [box[op] EXCEPT !.age = Older(@, OutboxDays)] ELSE box[op]]
  /\ tail' = [a \in Attempts |->
       IF tail[a].stage = "settled" THEN [tail[a] EXCEPT !.age = Older(@, JournalDays)] ELSE tail[a]]
  /\ leased' = {}
  /\ UNCHANGED <<applied, heard, command, plan>>

LeaseEnds(op) ==
  /\ op \in leased /\ leased' = leased \ {op}
  /\ UNCHANGED <<tail, box, applied, heard, command, plan>>

OutboxInit ==
  /\ tail = [a \in Attempts |-> [stage |-> "open", outcome |-> "none", age |-> 0]]
  /\ box = [op \in Ops |-> NoEntry]
  /\ applied = {} /\ heard = {} /\ leased = {}
  /\ command = Idle /\ plan = NoPlan

CycleStep ==
  \/ Correlate \/ AdoptAnswer \/ SettleDelivered \/ FinishCycle
  \/ \E a \in Attempts :
       WriteCompletion(a) \/ RecordOutboxed(a) \/ Reconcile(a) \/ Attention(a) \/ SendCompletion(a)

CommandStep ==
  \/ InspectOutbox \/ StartReport \/ StartEngines \/ WriteEngineReport \/ Send \/ ReportAnswered
  \/ DrainCompletion \/ ResumeDiagnose \/ EndRecovered \/ ClaimAnswered \/ SupersedeClaim \/ HoldLease
  \/ CompletionAnswered
  \/ \E run \in DiagRuns : StartDiagnose(run)

OutboxNext ==
  \/ StartCycle \/ CycleStep \/ CommandStep \/ Dies \/ Day
  \/ \E a \in Attempts : JournalResult(a)
  \/ \E op \in Ops : Spoil(op) \/ LeaseEnds(op)

OutboxSpec == OutboxInit /\ [][OutboxNext]_ovars

-----------------------------------------------------------------------------
(* Properties *)

OutboxTypeOK ==
  /\ tail \in [Attempts -> Tails]
  /\ box \in [Ops -> Files \cup {NoEntry}]
  /\ applied \subseteq Attempts /\ heard \subseteq Attempts /\ leased \subseteq LocalOps
  /\ command \in CommandStates /\ plan \in Plans

(* A result that was put into the outbox stays there, pending, until the    *)
(* server's answer is written over it: no crash, no other command and no    *)
(* retention loses it (only a file that became unreadable may go).          *)
UndeliveredKept ==
  \A a \in Attempts \ Corruptible :
    tail[a].stage = "outboxed" /\ a \notin heard => PendingOp(a)

(* A completion whose answer was written down is never sent again, not even *)
(* after its tombstone was pruned or lost.                                  *)
NoRedelivery == command.name = "cycle" => plan.intents \cap heard = {}

(* An attempt is settled as the server's answer says, also when the runner  *)
(* died between the tombstone and the journal: acknowledged only if it was  *)
(* applied, superseded only if it was not.                                  *)
SettledAsServed ==
  \A a \in Attempts : tail[a].stage = "settled" =>
    /\ a \in heard
    /\ tail[a].outcome = "acked" => a \in applied
    /\ tail[a].outcome = "superseded" => a \notin applied
    /\ tail[a].outcome \in {"acked", "superseded", "rejected"}

(* A completion is kept until it is answered, sent until then, and settled  *)
(* as it was answered.                                                      *)
DeliveredOnce == UndeliveredKept /\ NoRedelivery /\ SettledAsServed

(* The one-shot commands leave at most one operation of a kind pending      *)
(* behind them, wherever they die: the next one finishes it first.          *)
OnePendingPerKind ==
  \A kind \in Kinds \ {"engine.complete"} : Cardinality(PendingOf(kind, box)) <= 1
=============================================================================
