---------------------------- MODULE RunCreation ----------------------------
(***************************************************************************)
(* The creation of an engine run under the caller's key: the rows          *)
(* engine_run_creations, runs and operations, the three handlers that      *)
(* write them (createEngineRun and reconcileEngineRunCreation of           *)
(* run-repository.ts, createOperation of operation-repository.ts), the     *)
(* retention of proofs, and the tab that creates runs                      *)
(* (app/engine-runs-controller.tsx), which never sends a key twice: an     *)
(* ambiguous outcome is settled by reconciling the same key. A handler     *)
(* reads in statements of their own and writes in one batch.               *)
(***************************************************************************)
EXTENDS Naturals, Sequences, FiniteSets

CONSTANTS
  TabKeys,       \* creation ids the tab generates
  ApiKeys,       \* creation ids of other clients, which may resend and reconcile them
  OperationKeys, \* the ApiKeys that come from an operation id
  Bodies,        \* request bodies, up to their hash
  Posts,         \* requests under way together
  CreateRetries, \* LEDGER_RETRY_LIMIT
  RetainDays,    \* days a negative proof is kept
  LastDay,       \* bound of the days
  MaxEntries,    \* bound of the ledger
  Missing        \* no key, no body

ASSUME CreationAssumption ==
  /\ TabKeys \cap ApiKeys = {} /\ OperationKeys \subseteq ApiKeys
  /\ CreateRetries \in Nat \ {0} /\ RetainDays \in Nat \ {0} /\ {LastDay, MaxEntries} \subseteq Nat
  /\ Missing \notin TabKeys \cup ApiKeys \cup Bodies

VARIABLES
  creations,  \* engine_run_creations, by key
  made,       \* the engine runs, in order: the key and the body of each
  bound,      \* operations: the run of each operation
  entries,    \* entries of the organization's ledger
  post,       \* the requests under way
  page,       \* the tab: its pending creation, what sessionStorage holds
  told,       \* what the tab has shown as the outcome of each of its keys
  answers,    \* the resolutions the server ever answered
  day

kvars == <<creations, made, bound, entries, post, page, told, answers, day>>
creationRows == <<creations, made, bound, entries>>
client == <<page, told, day>>

-----------------------------------------------------------------------------

Keys == TabKeys \cup ApiKeys
NoCreation == [state |-> "none", body |-> Missing, run |-> 0, day |-> 0]
Creations == [state : {"none", "created", "confirmed_not_created"}, body : Bodies \cup {Missing},
              run : 0..MaxEntries, day : 0..LastDay]

(* What a request is answered: a resolution, or an error by its code; "201" *)
(* to "5xx" of createOperation come from the same ones.                     *)
Resolutions == [state : {"created", "confirmed_not_created"}, run : 0..MaxEntries]
Error(code) == [state |-> code, run |-> 0]
ErrorCodes == {"key_reused", "conflict_retry", "not_active", "binding_conflict", "failed"}
NoAnswer == Error("none")
Answers == Resolutions \cup {Error(code) : code \in ErrorCodes \cup {"none"}}

Steps == {"none", "lookup", "read", "head", "commit", "insert", "again", "answered"}
IdlePost == [step |-> "none", kind |-> "create", key |-> Missing, body |-> Missing, from |-> "nobody",
             tries |-> 0, head |-> 0, answer |-> NoAnswer]
PostRecords == [step : Steps, kind : {"create", "operate", "reconcile"}, key : Keys \cup {Missing},
                body : Bodies \cup {Missing}, from : {"tab", "other", "nobody"},
                tries : 0..CreateRetries, head : 0..MaxEntries, answer : Answers]

IdlePage == [pending |-> Missing, stored |-> Missing, phase |-> "idle"]
Pages == [pending : TabKeys \cup {Missing}, stored : TabKeys \cup {Missing},
          phase : {"idle", "submitting", "unknown", "reconciling"}]

-----------------------------------------------------------------------------
(* The handlers *)

Go(q, step) == post' = [post EXCEPT ![q].step = step]
Settled(row) == [state |-> row.state, run |-> row.run]

(* The unique index on the key, the last statement of each batch.           *)
\* bug: the row of the key is replaced
TakenNever(key) == FALSE
Taken(key) == creations[key].state # "none"

(* resolveEngineRunCreationForPost: another body does not get the run.      *)
Resolved(q, row) ==
  IF post[q].kind # "reconcile" /\ row.state = "created" /\ row.body # post[q].body
  THEN Error("key_reused") ELSE Settled(row)

(* createOperation takes whatever is not a run it has just made for a       *)
(* failure and looks its own row up again.                                  *)
Fails(q, answer) ==
  post' = [post EXCEPT ![q].answer = answer,
                       ![q].step = IF @ # "again" /\ post[q].kind = "operate" THEN "again" ELSE "answered"]
Replies(q, answer) ==
  IF post[q].kind = "operate"
  THEN Fails(q, Error(IF answer.state \in ErrorCodes THEN answer.state ELSE "binding_conflict"))
       /\ UNCHANGED answers
  ELSE /\ post' = [post EXCEPT ![q].answer = answer, ![q].step = "answered"]
       /\ answers' = IF answer \in Resolutions
                     THEN answers \cup {[key |-> post[q].key, state |-> answer.state, run |-> answer.run]}
                     ELSE answers

(* createOperation: the row of the operation, before and after it tries.    *)
OperationAnswer(q) ==
  LET run == bound[post[q].key] IN
  IF made[run].body # post[q].body THEN Error("key_reused") ELSE [state |-> "created", run |-> run]
AnswerOperation(q, answer) ==
  /\ post' = [post EXCEPT ![q].answer = answer, ![q].step = "answered"]
  /\ answers' = IF answer.state = "created"
                THEN answers \cup {[key |-> post[q].key, state |-> "created", run |-> answer.run]}
                ELSE answers
LookUp(q) ==
  /\ post[q].step \in {"lookup", "again"}
  /\ IF bound[post[q].key] # 0
     THEN AnswerOperation(q, OperationAnswer(q))
     ELSE UNCHANGED answers /\
          IF post[q].step = "again" THEN Go(q, "answered") ELSE Go(q, "read")
  /\ UNCHANGED <<creationRows, client>>

ReadCreation(q) ==
  LET row == creations[post[q].key] IN
  /\ post[q].step = "read"
  /\ IF row.state # "none"
     THEN Replies(q, Resolved(q, row))
     ELSE Go(q, IF post[q].kind = "reconcile" THEN "insert" ELSE "head") /\ UNCHANGED answers
  /\ UNCHANGED <<creationRows, client>>

(* requireAssignableRunner, loadOperationSnapshot and the triggers that ask *)
(* the same: the runner, the work item or the agent may have changed.       *)
RefusePost(q) ==
  /\ post[q].kind # "reconcile" /\ post[q].step \in {"read", "head", "commit"}
  /\ Fails(q, Error("not_active"))
  /\ UNCHANGED <<creationRows, client, answers>>

ReadLedger(q) ==
  /\ post[q].step = "head"
  /\ post' = [post EXCEPT ![q].head = entries, ![q].step = "commit"]
  /\ UNCHANGED <<creationRows, client, answers>>

(* The batch, the creation row last, the operation before it. Its error is  *)
(* that of the first statement that fails; a batch that went through may    *)
(* look as if it failed.                                                    *)
CreateBatch(q) ==
  /\ entries < MaxEntries
  /\ entries' = entries + 1
  /\ made' = Append(made, [key |-> post[q].key, body |-> post[q].body])
  /\ bound' = IF post[q].kind = "operate" THEN [bound EXCEPT ![post[q].key] = Len(made')] ELSE bound
  /\ creations' = [creations EXCEPT ![post[q].key] =
       [state |-> "created", body |-> post[q].body, run |-> Len(made'), day |-> day]]
  /\ \/ LET created == [state |-> "created", run |-> Len(made')] IN
        IF post[q].kind = "operate" THEN AnswerOperation(q, created) ELSE Replies(q, created)
     \/ Fails(q, Error("failed")) /\ UNCHANGED answers

CommitCreation(q) ==
  /\ post[q].step = "commit"
  /\ CASE post[q].head # entries ->
            /\ IF post[q].tries + 1 < CreateRetries
               THEN post' = [post EXCEPT ![q].tries = @ + 1, ![q].step = "read"]
               ELSE Fails(q, Error("conflict_retry"))
            /\ UNCHANGED <<creationRows, answers>>
       [] post[q].head = entries /\ post[q].kind = "operate" /\ bound[post[q].key] # 0 ->
            Fails(q, Error("failed")) /\ UNCHANGED <<creationRows, answers>>
       [] post[q].head = entries /\ Taken(post[q].key) ->
            Replies(q, Resolved(q, creations[post[q].key])) /\ UNCHANGED creationRows
       [] OTHER -> CreateBatch(q)
  /\ UNCHANGED client

(* reconcileEngineRunCreation: the proof, or whoever was first.             *)
InsertProof(q) ==
  LET key == post[q].key IN
  /\ post[q].step = "insert"
  /\ IF ~Taken(key)
     THEN /\ creations' = [creations EXCEPT ![key] =
               [state |-> "confirmed_not_created", body |-> Missing, run |-> 0, day |-> day]]
          /\ \/ Replies(q, Settled(creations'[key]))
             \/ Fails(q, Error("failed")) /\ UNCHANGED answers
          /\ UNCHANGED <<made, bound, entries>>
     ELSE Replies(q, Settled(creations[key])) /\ UNCHANGED creationRows
  /\ UNCHANGED client

(* The database or the worker fails before the batch.                       *)
FailPost(q) ==
  /\ post[q].step \in {"read", "head", "commit", "insert"}
  /\ Fails(q, Error("failed"))
  /\ UNCHANGED <<creationRows, client, answers>>

-----------------------------------------------------------------------------
(* Clients *)

Send(q, kind, key, body, from) ==
  /\ post[q] = IdlePost
  /\ post' = [post EXCEPT ![q] = [IdlePost EXCEPT !.kind = kind, !.key = key, !.body = body,
       !.from = from, !.step = IF kind = "operate" THEN "lookup" ELSE "read"]]

(* Another client sends, resends and reconciles as it likes.                *)
OtherSends(q, kind, key, body) ==
  /\ kind = "operate" <=> key \in OperationKeys /\ kind # "reconcile"
  /\ kind = "reconcile" <=> body = Missing
  /\ Send(q, kind, key, body, "other")
  /\ UNCHANGED <<creationRows, client, answers>>
HangUp(q) ==
  /\ post[q].step = "answered" /\ post[q].from # "tab"
  /\ post' = [post EXCEPT ![q] = IdlePost]
  /\ UNCHANGED <<creationRows, client, answers>>

(* createRun: the key is stored before anything is sent.                    *)
Create(q, key, body) ==
  /\ page.pending = Missing /\ told[key] = "nothing"
  /\ Send(q, "create", key, body, "tab")
  /\ page' = [pending |-> key, stored |-> key, phase |-> "submitting"]
  /\ UNCHANGED <<creationRows, told, answers, day>>

(* reconcileUnknown *)
Reconcile(q) ==
  /\ page.phase = "unknown"
  /\ Send(q, "reconcile", page.pending, Missing, "tab")
  /\ page' = [page EXCEPT !.phase = "reconciling"]
  /\ UNCHANGED <<creationRows, told, answers, day>>

(* classifyEngineRunCreateResponse, classifyEngineRunReconcileResponse      *)
\* bug: whatever does not confirm the run denies it
ConclusionHasty(q) ==
  IF post[q].answer.state = "created" THEN "created" ELSE "not created"
Conclusion(q) ==
  CASE post[q].answer.state = "created" -> "created"
    [] post[q].answer.state = "failed" -> "unknown"
    [] OTHER -> "not created"

(* An answer that settles the key releases the tab (confirmCreated and the  *)
(* failures); clearPendingCreation may be denied.                           *)
Hear(q) ==
  /\ post[q].step = "answered" /\ post[q].from = "tab"
  /\ post' = [post EXCEPT ![q] = IdlePost]
  /\ IF Conclusion(q) = "unknown"
     THEN page' = [page EXCEPT !.phase = "unknown"] /\ UNCHANGED told
     ELSE /\ told' = [told EXCEPT ![page.pending] = Conclusion(q)]
          /\ \E left \in {Missing, page.stored} : page' = [IdlePage EXCEPT !.stored = left]
  /\ UNCHANGED <<creationRows, answers, day>>

(* The tab stops listening, its request does not stop for it: the time is   *)
(* up, the connection breaks, the page is loaded again.                     *)
Abandoned == [q \in Posts |-> IF post[q].from = "tab" THEN [post[q] EXCEPT !.from = "nobody"] ELSE post[q]]
GiveUp ==
  /\ page.phase \in {"submitting", "reconciling"}
  /\ post' = Abandoned
  /\ page' = [page EXCEPT !.phase = "unknown"]
  /\ UNCHANGED <<creationRows, told, answers, day>>
Reload ==
  /\ post' = Abandoned
  /\ page' = [pending |-> page.stored, stored |-> page.stored,
              phase |-> IF page.stored = Missing THEN "idle" ELSE "unknown"]
  /\ UNCHANGED <<creationRows, told, answers, day>>

-----------------------------------------------------------------------------
(* The environment *)

(* No request lasts as long as a proof is kept.                             *)
NextDay ==
  /\ day < LastDay /\ \A q \in Posts : post[q] = IdlePost
  /\ day' = day + 1
  /\ UNCHANGED <<creationRows, post, page, told, answers>>

(* reconcileDueEngineRunCreationRetention                                   *)
DueProofs ==
  {key \in Keys : creations[key].state = "confirmed_not_created" /\ creations[key].day + RetainDays <= day}
CollectProofs ==
  /\ DueProofs # {}
  /\ creations' = [key \in Keys |-> IF key \in DueProofs THEN NoCreation ELSE creations[key]]
  /\ UNCHANGED <<made, bound, entries, post, client, answers>>

LedgerGrows ==
  /\ entries < MaxEntries
  /\ entries' = entries + 1
  /\ UNCHANGED <<creations, made, bound, post, client, answers>>

-----------------------------------------------------------------------------

CreationInit ==
  /\ creations = [key \in Keys |-> NoCreation]
  /\ made = <<>> /\ bound = [key \in OperationKeys |-> 0] /\ entries = 0
  /\ post = [q \in Posts |-> IdlePost]
  /\ page = IdlePage /\ told = [key \in TabKeys |-> "nothing"]
  /\ answers = {} /\ day = 0

HandlePost(q) ==
  LookUp(q) \/ ReadCreation(q) \/ RefusePost(q) \/ ReadLedger(q) \/ CommitCreation(q)
    \/ InsertProof(q) \/ FailPost(q)

CreationNext ==
  \/ \E q \in Posts : HandlePost(q) \/ HangUp(q) \/ Reconcile(q) \/ Hear(q)
  \/ \E q \in Posts, key \in TabKeys, body \in Bodies : Create(q, key, body)
  \/ \E q \in Posts, kind \in {"create", "operate", "reconcile"}, key \in ApiKeys, body \in Bodies \cup {Missing} :
       OtherSends(q, kind, key, body)
  \/ GiveUp \/ Reload \/ NextDay \/ CollectProofs \/ LedgerGrows

CreationSpec == CreationInit /\ [][CreationNext]_kvars

-----------------------------------------------------------------------------
(* Properties *)

(* Every variable keeps its type.                                           *)
CreationTypeOK ==
  /\ creations \in [Keys -> Creations] /\ entries \in 0..MaxEntries /\ Len(made) <= entries
  /\ \A k \in DOMAIN made : made[k] \in [key : Keys, body : Bodies]
  /\ bound \in [OperationKeys -> 0..Len(made)]
  /\ post \in [Posts -> PostRecords] /\ page \in Pages
  /\ told \in [TabKeys -> {"nothing", "created", "not created"}]
  /\ answers \subseteq [key : Keys, state : {"created", "confirmed_not_created"}, run : 0..MaxEntries]
  /\ day \in 0..LastDay

RunsOf(key) == {k \in DOMAIN made : made[k].key = key}

(* The tab lets go of a key only with an outcome that stays true: a key it  *)
(* has shown as created has its run, of one it has shown as not created no  *)
(* run will come, though a request for it be still under way; and it        *)
(* forgets no key that may have a run (createRun, reconcileUnknown).        *)
ReleasedOnlyWhenSettled ==
  /\ \A key \in TabKeys :
       /\ told[key] = "created" => Cardinality(RunsOf(key)) = 1
       /\ told[key] = "not created" => RunsOf(key) = {}
       /\ RunsOf(key) # {} => told[key] = "created" \/ page.stored = key

(* All that the server ever answered about a key agrees, whoever asked and  *)
(* in whatever order creations, reconciliations and resends went through:   *)
(* one run, or none as long as a negative proof is kept; and a run made for *)
(* an operation is never without its operation (createEngineRun).           *)
AnswersAgree ==
  /\ \A a \in answers : a.state = "created" => RunsOf(a.key) = {a.run}
  /\ \A key \in Keys : Cardinality(RunsOf(key)) <= 1
  /\ \A key \in OperationKeys, k \in DOMAIN made : k \in RunsOf(key) => bound[key] = k
  /\ \A a \in answers : a.state = "confirmed_not_created" /\ RunsOf(a.key) # {} => day >= RetainDays
=============================================================================
