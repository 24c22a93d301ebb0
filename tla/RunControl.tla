----------------------------- MODULE RunControl -----------------------------
(***************************************************************************)
(* The execution control plane: runs, their fenced leases, and the         *)
(* requests that change them (src/adapters/d1/run-repository.ts, revoke in *)
(* runner-repository.ts, deadline-reconciliation-repository.ts) over the   *)
(* tables and triggers of drizzle/*.sql.                                   *)
(*                                                                         *)
(* A request is served by a slot (one Worker invocation) in three steps:   *)
(* it is accepted, it reads the rows it decides on, and it sends ONE       *)
(* atomic d1.batch guarded by what it read.  Requests of other slots may   *)
(* run between any two of these steps.  A batch that a trigger aborts      *)
(* changes nothing and is retried from the read; a batch whose guarded     *)
(* statements match no row commits without them.                           *)
(*                                                                         *)
(* A lease row is identified by its run and fence: the unique index        *)
(* run_leases_run_fence_uidx binds one lease id to each pair.  One unit of *)
(* `clock` is one millisecond; 0 stands for SQL NULL in a time.  claim_count *)
(* and lease_generation are advanced together by the attach trigger and    *)
(* only there, so `gen` stands for both.                                   *)
(***************************************************************************)
EXTENDS Integers, Sequences, FiniteSets

CONSTANTS
  Runs,            \* run ids
  EngineRuns,      \* the runs of kind engine_prompt; the others are diagnostic
  Runners,         \* enrolled runners
  AssignedRunner,  \* [Runs -> Runners \cup {None}], None: any runner may claim
  Ops,             \* operation ids chosen by runners
  Nonces,          \* nonces a runner signs requests with
  Outcomes,        \* outcomes a runner may report
  Slots,           \* concurrent server invocations
  CronSlots,       \* the slots that run the deadline reconciler
  MaxClaims,       \* [Runs -> Nat]: max_claims of a run
  LeaseTtl,        \* lease TTL
  RunDeadline,     \* time from the creation of a run to its deadline
  ClaimReserve,    \* time an engine claim must leave before the deadline
  NonceTtl,        \* life of a nonce row
  OperationTtl,    \* life of the response kept with an operation
  RetryLimit,      \* attempts of a handler
  Cancelable,      \* the runs their owner may cancel
  Revocable,       \* the runners their owner may revoke
  CreateBy,        \* bound: runs are asked for until then
  MaxTime,         \* bound of the clock
  MaxRenews,       \* bound: renewals asked of one lease
  MaxReports,      \* bound: inventory reports of one runner
  None             \* SQL NULL for ids

ASSUME IdsAssumption ==
  /\ EngineRuns \subseteq Runs
  /\ CronSlots \subseteq Slots
  /\ Cancelable \subseteq Runs \ EngineRuns
  /\ Revocable \subseteq Runners
  /\ None \notin Runs \cup Runners \cup Ops \cup Nonces
  /\ AssignedRunner \in [Runs -> Runners \cup {None}]

ASSUME NumbersAssumption ==
  /\ MaxClaims \in [Runs -> Nat]
  /\ {LeaseTtl, RunDeadline, NonceTtl, OperationTtl, RetryLimit} \subseteq Nat \ {0}
  /\ {ClaimReserve, CreateBy, MaxTime, MaxRenews, MaxReports} \subseteq Nat

VARIABLES
  clock,        \* wall clock of the server
  run,          \* table runs
  lease,        \* table run_leases, by run and fence
  events,       \* table run_events, by run, in sequence order
  ops,          \* table runner_operations
  nonces,       \* table runner_lease_nonces
  ledger,       \* table ledger_entries of the organization, in sequence order
  deadlineOps,  \* table run_deadline_operations
  runner,       \* status of each runner and of its principal
  report,       \* latest engine inventory of each runner
  promised,     \* history: latest expiry a 200 answer gave the holder of a lease
  req           \* the request each slot serves

rows == <<run, lease, events, ops, nonces, ledger, deadlineOps, runner, promised>>
vars == <<clock, run, lease, events, ops, nonces, ledger, deadlineOps, runner,
          report, promised, req>>

-----------------------------------------------------------------------------
(* Rows *)

Terminal == {"completed", "canceled", "expired"}
Fences(r) == 1..MaxClaims[r]
IsEngine(r) == r \in EngineRuns
Earlier(a, b) == IF a <= b THEN a ELSE b

NoRun == [status |-> "absent", version |-> 0, gen |-> 0, lease |-> 0,
          cancel |-> FALSE, outcome |-> "none", doneBy |-> None, deadline |-> 0]

NoLease == [status |-> "none", runner |-> None, issued |-> 0, expires |-> 0,
            renews |-> 0]

NoHead == [seq |-> 0, version |-> 0, status |-> "absent", gen |-> 0,
           renews |-> 0, expires |-> 0, cancel |-> FALSE, other |-> None,
           otherFence |-> 0, otherSeq |-> 0, ledger |-> 0, rev |-> 0]

Idle == [phase |-> "idle", kind |-> "none", at |-> 0, runner |-> None,
         run |-> None, fence |-> 0, op |-> None, outcome |-> "none",
         nonce |-> None, tries |-> 0, head |-> NoHead]

Entry(kind, subject) == [kind |-> kind, subject |-> subject]
Event(kind, fence) == [kind |-> kind, fence |-> fence]

(* The bytes a runner signs, less nonce and time: what both request hashes
   are computed from. *)
Message(q) == [kind |-> q.kind, runner |-> q.runner, run |-> q.run,
               fence |-> q.fence, op |-> q.op, outcome |-> q.outcome]

-----------------------------------------------------------------------------
(* What the triggers and the statements of a batch test or do *)

ActiveLease(r, f) == f \in Fences(r) /\ lease[r][f].status = "active"
Held(r) == run[r].status = "leased" /\ ActiveLease(r, run[r].lease)
\* bug: the lease is taken for expired a millisecond early
ExpiredEarly(l, t) == l.expires <= t + 1
Expired(l, t) == l.expires <= t

\* the active leases of a runner; the unique index allows one
LeasesOf(w) == {x \in Runs \X UNION {Fences(r) : r \in Runs} :
                  ActiveLease(x[1], x[2]) /\ lease[x[1]][x[2]].runner = w}

\* assertCurrentLease: the lease named by the request is the run's current one
IsCurrent(r, f, w) ==
  /\ run[r].status = "leased" /\ run[r].lease = f /\ run[r].gen = f
  /\ ActiveLease(r, f) /\ lease[r][f].runner = w

\* bug: the run keeps its old fence
AttachUnfenced(row, f) == [row EXCEPT !.status = "leased", !.lease = f, !.version = @ + 1]
\* run_leases_attach_after_insert
Attach(row, f) == [row EXCEPT !.status = "leased", !.gen = f, !.lease = f,
                              !.version = @ + 1]

\* bug: any end of a lease queues its run again
DetachClosed(row, f) == [row EXCEPT !.status = "queued", !.lease = 0, !.version = @ + 1]
\* run_leases_detach_after_update: only the current lease of a leased run
Detach(row, f) ==
  IF row.status = "leased" /\ row.lease = f
  THEN [row EXCEPT !.status = "queued", !.lease = 0, !.version = @ + 1]
  ELSE row

\* bug: the expiry is not capped at the deadline
LeaseUncapped(r, t) == t + LeaseTtl
LeaseUntil(r, t) == Earlier(t + LeaseTtl, run[r].deadline)

\* bug: events are appended at MAX(sequence) + 1 instead of the number read
SeqUnchecked(r, seq) == TRUE
SeqFresh(r, seq) == seq = Len(events[r])
LedgerFresh(q) == q.head.ledger = Len(ledger)
\* bug: operation ids are not remembered
OpUnchecked(r, o) == TRUE
OpFresh(r, o) == ~ \E x \in ops : x.run = r /\ x.op = o
NonceFresh(w, n) == ~ \E x \in nonces : x.runner = w /\ x.nonce = n

Log(r, more) == events' = [events EXCEPT ![r] = @ \o more]

OpRow(q, fence, grant) ==
  [run |-> q.run, op |-> q.op, message |-> Message(q), fence |-> fence,
   grant |-> grant, at |-> q.at, compacted |-> FALSE]

NonceRow(q) == [runner |-> q.runner, nonce |-> q.nonce, message |-> Message(q),
                until |-> q.at + NonceTtl]

-----------------------------------------------------------------------------
(* Slots *)

Finish(s) == req' = [req EXCEPT ![s] = Idle]

\* the next turn of the handler's loop
Again(q) == [q EXCEPT !.phase = "open", !.tries = @ + 1, !.head = NoHead]

\* retryJitter and the next turn, or conflict_retry after the last
Retry(s) ==
  LET q == req[s]
  IN  req' = [req EXCEPT ![s] = IF q.tries + 1 < RetryLimit THEN Again(q) ELSE Idle]

Init ==
  /\ clock = 1
  /\ run = [r \in Runs |-> NoRun]
  /\ lease = [r \in Runs |-> [f \in Fences(r) |-> NoLease]]
  /\ events = [r \in Runs |-> <<>>]
  /\ ops = {} /\ nonces = {} /\ ledger = <<>> /\ deadlineOps = {}
  /\ runner = [w \in Runners |-> "active"]
  /\ report = [w \in Runners |-> [rev |-> 0, fit |-> TRUE]]
  /\ promised = [r \in Runs |-> [f \in Fences(r) |-> 0]]
  /\ req = [s \in Slots |-> Idle]

Tick == /\ clock < MaxTime
        /\ clock' = clock + 1
        /\ UNCHANGED <<rows, report, req>>

\* A new engine inventory (or admission policy) replaces the latest one.
NewReport(w) ==
  /\ report[w].rev < MaxReports
  /\ \E fit \in BOOLEAN : report' = [report EXCEPT ![w] = [rev |-> @.rev + 1, fit |-> fit]]
  /\ UNCHANGED <<clock, rows, req>>

-----------------------------------------------------------------------------
(* Signed runner requests: claim, renew, complete *)

RunnerRequest(kind, w, r, f, o, out, n) ==
  [Idle EXCEPT !.phase = "open", !.kind = kind, !.at = clock, !.runner = w,
               !.run = r, !.fence = f, !.op = o, !.outcome = out, !.nonce = n]

(* The messages runner w may sign about run r: a claim, and a renewal or a
   completion of any lease it was ever given, superseded ones included.  A
   claim of a closed run is refused at once, so none is submitted. *)
RunnerRequests(w, r, n) ==
  LET mine == {f \in Fences(r) : lease[r][f].runner = w}
  IN  {RunnerRequest("claim", w, r, 0, o, "none", n) :
         o \in {x \in Ops : run[r].status \in {"queued", "leased"}}}
      \cup {RunnerRequest("renew", w, r, f, None, "none", n) :
              f \in {x \in mine : lease[r][x].renews < MaxRenews}}
      \cup {RunnerRequest("complete", w, r, f, o, out, n) :
              f \in mine, o \in Ops, out \in Outcomes}

(* signedRunRoute and the replay lookups before the handler's loop.  A known
   nonce is answered from its row (or refused as nonce_reused) and changes
   nothing; a known operation is Resubmit's. *)
Submit(s, q) ==
  /\ s \notin CronSlots /\ req[s].phase = "idle"
  /\ runner[q.runner] = "active"
  /\ NonceFresh(q.runner, q.nonce)
  /\ q.op # None => OpFresh(q.run, q.op)
  /\ req' = [req EXCEPT ![s] = q]
  /\ UNCHANGED <<clock, rows, report>>

\* replayOperation: the stored answer of an operation, under the new nonce
Replays(q) == \E x \in ops : /\ x.run = q.run /\ x.op = q.op
                             /\ x.message = Message(q) /\ ~x.compacted

Resubmit(q) ==
  /\ runner[q.runner] = "active"
  /\ NonceFresh(q.runner, q.nonce)
  /\ q.op # None /\ Replays(q)
  /\ nonces' = nonces \cup {NonceRow(q)}
  /\ UNCHANGED <<clock, run, lease, events, ops, ledger, deadlineOps, runner,
                 report, promised, req>>

(* evaluateClaimAdmission and evaluateEngineClaimAdmission *)
AdmitsClaim(q) ==
  LET r == q.run
      w == q.runner
  IN  /\ runner[w] = "active"
      /\ run[r].status \in {"queued", "leased"}
      /\ run[r].deadline > q.at
      /\ run[r].gen < MaxClaims[r]
      /\ Held(r) => Expired(lease[r][run[r].lease], q.at)
      /\ AssignedRunner[r] \in {None, w}
      /\ \A x \in LeasesOf(w) : x[1] # r => Expired(lease[x[1]][x[2]], q.at)
      /\ IsEngine(r) => /\ ~run[r].cancel
                        /\ run[r].deadline - q.at >= ClaimReserve
                        /\ report[w].fit

ClaimHead(q) ==
  LET foreign == {x \in LeasesOf(q.runner) : x[1] # q.run}
      x == CHOOSE y \in foreign : TRUE
      head == [NoHead EXCEPT !.seq = Len(events[q.run]), !.gen = run[q.run].gen,
                             !.status = run[q.run].status,
                             !.rev = report[q.runner].rev]
  IN  IF foreign = {} THEN head
      ELSE [head EXCEPT !.other = x[1], !.otherFence = x[2],
                        !.otherSeq = Len(events[x[1]])]

\* assertCurrentLease and what renewRunLease refuses after it
AdmitsRenewal(q) ==
  LET l == lease[q.run][q.fence]
  IN  /\ IsCurrent(q.run, q.fence, q.runner)
      /\ ~Expired(l, q.at) /\ run[q.run].deadline > q.at
      /\ IsEngine(q.run) => LeaseUntil(q.run, q.at) > l.expires

RenewalHead(q) ==
  [NoHead EXCEPT !.seq = Len(events[q.run]), !.renews = lease[q.run][q.fence].renews]

\* what completeDiagnosticRun and completeEngineRun refuse
AdmitsCompletion(q) ==
  LET r == q.run
  IN  /\ IsCurrent(r, q.fence, q.runner)
      /\ ~IsEngine(r) => (run[r].cancel => q.outcome = "canceled")
      /\ IsEngine(r) => /\ ~Expired(lease[r][q.fence], q.at)
                        /\ q.at <= run[r].deadline
                        /\ r \notin deadlineOps
                        /\ q.outcome = "canceled" => run[r].cancel

CompletionHead(q) ==
  [NoHead EXCEPT !.seq = Len(events[q.run]), !.ledger = Len(ledger)]

-----------------------------------------------------------------------------
(* The claim batch *)

\* prepareExpiredLeaseUpdate matches the lease it was prepared for
Supersedes(r, f, t) == ActiveLease(r, f) /\ Expired(lease[r][f], t)
Supersede(l) == [l EXCEPT !.status = "superseded"]

(* The statements of the claim batch, in order: supersede the runner's own
   expired lease on another run and log it, supersede the run's expired lease
   and log it, insert the lease, the operation, the event and the nonce.  A
   lease that was superseded or ended by somebody else meanwhile is left alone
   and not logged. *)
ClaimsForeign(q) == /\ q.head.other # None
                    /\ Supersedes(q.head.other, q.head.otherFence, q.at)
ClaimsOwn(q) == /\ q.head.status = "leased"
                /\ Supersedes(q.run, q.head.gen, q.at)

\* the leases the batch supersedes, by run and fence
EndedByClaim(q) ==
  {x \in {<<q.head.other, q.head.otherFence>>} : ClaimsForeign(q)}
  \cup {x \in {<<q.run, q.head.gen>>} : ClaimsOwn(q)}

RunBeforeClaim(q) ==
  IF ClaimsOwn(q) THEN Detach(run[q.run], q.head.gen) ELSE run[q.run]

\* bug: the unique index on a runner's active lease is missing
HoldsAny(w, ended) == TRUE
\* w holds no lease besides those the batch ends
HoldsOnly(w, ended) == LeasesOf(w) \subseteq ended

\* bug: the batch trusts the inventory the claim was admitted with
AdmissionTrusted(q) == TRUE
\* the lease row's trigger: the inventory read is still the latest
AdmissionStands(q) == IsEngine(q.run) => report[q.runner].rev = q.head.rev

(* No statement of the batch aborts: the sequence numbers are still free, the
   runner holds no other lease (its row would then not be inserted, and the
   operation's trigger finds no lease to attach to), and
   run_leases_validate_before_insert accepts the row. *)
ClaimCommits(q) ==
  LET r == q.run
      w == q.runner
      h == q.head
      row == RunBeforeClaim(q)
  IN  /\ ClaimsForeign(q) => SeqFresh(h.other, h.otherSeq)
      /\ ClaimsOwn(q) => SeqFresh(r, h.seq)
      /\ Len(events[r]) + (IF ClaimsOwn(q) THEN 1 ELSE 0)
           = h.seq + (IF h.status = "leased" THEN 1 ELSE 0)
      /\ HoldsOnly(w, EndedByClaim(q))
      /\ row.status = "queued"
      /\ row.gen = h.gen /\ row.gen < MaxClaims[r]
      /\ row.deadline > q.at /\ q.at < LeaseUntil(r, q.at)
      /\ r \notin deadlineOps
      /\ runner[w] = "active" /\ AssignedRunner[r] \in {None, w}
      /\ AdmissionStands(q)
      /\ OpFresh(r, q.op) /\ NonceFresh(w, q.nonce)

GrantedLease(q) ==
  [status |-> "active", runner |-> q.runner, issued |-> q.at,
   expires |-> LeaseUntil(q.run, q.at), renews |-> 0]

LeasesAfterClaim(q) ==
  [r \in Runs |-> [f \in Fences(r) |->
     IF r = q.run /\ f = q.head.gen + 1 THEN GrantedLease(q)
     ELSE IF <<r, f>> \in EndedByClaim(q) THEN Supersede(lease[r][f])
     ELSE lease[r][f]]]

RunsAfterClaim(q) ==
  [r \in Runs |->
     IF r = q.run THEN Attach(RunBeforeClaim(q), q.head.gen + 1)
     ELSE IF ClaimsForeign(q) /\ r = q.head.other THEN Detach(run[r], q.head.otherFence)
     ELSE run[r]]

\* a stream ends with the supersession of the run's old lease, then the grant
EventsAfterClaim(q) ==
  LET superseded(r, f) == Append(events[r], Event("lease.superseded", f))
      mine == IF ClaimsOwn(q) THEN superseded(q.run, q.head.gen) ELSE events[q.run]
  IN  [r \in Runs |->
         IF r = q.run THEN Append(mine, Event("lease.claimed", q.head.gen + 1))
         ELSE IF ClaimsForeign(q) /\ r = q.head.other THEN superseded(r, q.head.otherFence)
         ELSE events[r]]

ClaimCommit(s) ==
  LET q == req[s]
      f == q.head.gen + 1
      until == LeaseUntil(q.run, q.at)
  IN  /\ q.phase = "ready" /\ q.kind = "claim" /\ ClaimCommits(q)
      /\ run' = RunsAfterClaim(q)
      /\ lease' = LeasesAfterClaim(q)
      /\ events' = EventsAfterClaim(q)
      /\ ops' = ops \cup {OpRow(q, f, until)}
      /\ nonces' = nonces \cup {NonceRow(q)}
      /\ promised' = [promised EXCEPT ![q.run][f] = until]
      /\ Finish(s)
      /\ UNCHANGED <<clock, ledger, deadlineOps, runner, report>>

-----------------------------------------------------------------------------
(* The renewal batch *)

\* the UPDATE of run_leases matches its row
RenewalMatches(q) ==
  ActiveLease(q.run, q.fence) /\ ~Expired(lease[q.run][q.fence], q.at)

\* bug: a renewal that arrives late shortens the lease
RenewalShortens(q) == TRUE
\* run_leases_validate_before_update: expires_at never falls, and an engine
\* renewal moves it forward
RenewalAccepted(q) ==
  LET e == LeaseUntil(q.run, q.at)
      l == lease[q.run][q.fence]
  IN  IF IsEngine(q.run) THEN e > l.expires ELSE e >= l.expires

\* the guard of the event: nobody renewed since the read
RenewalLogged(q) == lease[q.run][q.fence].renews = q.head.renews

RenewalCommits(q) ==
  RenewalMatches(q) =>
    /\ RenewalAccepted(q)
    /\ RenewalLogged(q) => SeqFresh(q.run, q.head.seq) /\ NonceFresh(q.runner, q.nonce)

Renewed(l, until) == [l EXCEPT !.expires = until, !.renews = @ + 1]
RenewedLease(q) ==
  [lease EXCEPT ![q.run][q.fence] = Renewed(@, LeaseUntil(q.run, q.at))]

\* all three statements took effect: the renewal is answered
RenewCommit(s) ==
  LET q == req[s]
  IN  /\ q.phase = "ready" /\ q.kind = "renew" /\ RenewalCommits(q)
      /\ RenewalMatches(q) /\ RenewalLogged(q)
      /\ lease' = RenewedLease(q)
      /\ Log(q.run, <<Event("lease.renewed", q.fence)>>)
      /\ nonces' = nonces \cup {NonceRow(q)}
      /\ promised' = [promised EXCEPT ![q.run][q.fence] = LeaseUntil(q.run, q.at)]
      /\ Finish(s)
      /\ UNCHANGED <<clock, run, ops, ledger, deadlineOps, runner, report>>

(* The batch commits without its event: another renewal was recorded since the
   read, or the lease ended.  The lease row may be extended all the same.  The
   nonce is recorded only when the other renewal bears the same millisecond:
   its event then satisfies the nonce's guard. *)
RenewUnlogged(s) ==
  LET q == req[s]
      twin == /\ q.head.seq < Len(events[q.run])
              /\ events[q.run][q.head.seq + 1] = Event("lease.renewed", q.fence)
  IN  /\ q.phase = "ready" /\ q.kind = "renew" /\ RenewalCommits(q)
      /\ ~(RenewalMatches(q) /\ RenewalLogged(q))
      /\ lease' = IF RenewalMatches(q) THEN RenewedLease(q) ELSE lease
      /\ \/ nonces' = nonces
         \/ /\ twin /\ NonceFresh(q.runner, q.nonce) /\ runner[q.runner] = "active"
            /\ nonces' = nonces \cup {NonceRow(q)}
      /\ Retry(s)
      /\ UNCHANGED <<clock, run, events, ops, ledger, deadlineOps, runner,
                     report, promised>>

-----------------------------------------------------------------------------
(* The completion batch *)

(* runner_operations_validate_before_insert is the first statement's trigger:
   it finds the run leased under this fence, so every later guard matches. *)
CompletionCommits(q) ==
  LET r == q.run
  IN  /\ Held(r) /\ run[r].gen = q.fence /\ run[r].lease = q.fence
      /\ OpFresh(r, q.op)
      /\ SeqFresh(r, q.head.seq)
      /\ LedgerFresh(q)
      /\ NonceFresh(q.runner, q.nonce) /\ runner[q.runner] = "active"
      /\ IsEngine(r) => /\ ~Expired(lease[r][q.fence], q.at)
                        /\ q.at <= run[r].deadline
                        /\ r \notin deadlineOps

Completed(row, q) == [row EXCEPT !.status = "completed", !.outcome = q.outcome,
                                 !.doneBy = q.op, !.version = @ + 1]

CompleteCommit(s) ==
  LET q == req[s]
      r == q.run
  IN  /\ q.phase = "ready" /\ q.kind = "complete" /\ CompletionCommits(q)
      /\ run' = [run EXCEPT ![r] = Detach(Completed(@, q), q.fence)]
      /\ lease' = [lease EXCEPT ![r][q.fence].status = "released"]
      /\ Log(r, <<Event("lease.released", q.fence), Event("run.completed", q.fence)>>)
      /\ ops' = ops \cup {OpRow(q, q.fence, 0)}
      /\ nonces' = nonces \cup {NonceRow(q)}
      /\ ledger' = Append(ledger, Entry("run.completed", r))
      /\ Finish(s)
      /\ UNCHANGED <<clock, deadlineOps, runner, report, promised>>

-----------------------------------------------------------------------------
(* Owner requests: create, cancel, revoke a runner *)

OwnerRequest(kind, r, w) ==
  [Idle EXCEPT !.phase = "open", !.kind = kind, !.at = clock, !.run = r, !.runner = w]

AskCreate(s, r) ==
  /\ s \notin CronSlots /\ req[s].phase = "idle"
  /\ run[r].status = "absent" /\ \A x \in Slots : req[x].run # r
  /\ clock <= CreateBy
  /\ req' = [req EXCEPT ![s] = OwnerRequest("create", r, None)]
  /\ UNCHANGED <<clock, rows, report>>

AskCancel(s, r) ==
  /\ s \notin CronSlots /\ req[s].phase = "idle"
  /\ r \in Cancelable /\ run[r].status \in {"queued", "leased"}
  /\ req' = [req EXCEPT ![s] = OwnerRequest("cancel", r, None)]
  /\ UNCHANGED <<clock, rows, report>>

AskRevoke(s, w) ==
  /\ s \notin CronSlots /\ req[s].phase = "idle"
  /\ w \in Revocable /\ runner[w] = "active"
  /\ req' = [req EXCEPT ![s] = OwnerRequest("revoke", None, w)]
  /\ UNCHANGED <<clock, rows, report>>

\* the primary key of runs, and the ledger's sequence number
CreateCommits(q) == run[q.run].status = "absent" /\ LedgerFresh(q)

CreateCommit(s) ==
  LET q == req[s]
      r == q.run
  IN  /\ q.phase = "ready" /\ q.kind = "create" /\ CreateCommits(q)
      /\ run' = [run EXCEPT ![r] = [NoRun EXCEPT !.status = "queued", !.version = 1,
                                                 !.deadline = q.at + RunDeadline]]
      /\ Log(r, <<Event("run.created", 0)>>)
      /\ ledger' = Append(ledger, Entry("run.requested", r))
      /\ Finish(s)
      /\ UNCHANGED <<clock, lease, ops, nonces, deadlineOps, runner, report, promised>>

CancelHead(q) ==
  LET row == run[q.run]
  IN  [NoHead EXCEPT !.seq = Len(events[q.run]), !.version = row.version,
                     !.status = row.status, !.gen = row.gen, !.cancel = row.cancel,
                     !.expires = IF Held(q.run) THEN lease[q.run][row.lease].expires ELSE 0]

\* the lease the handler read has run out by the time t it then reads the clock
CancelFindsExpired(q, t) ==
  q.head.status = "leased" /\ (q.head.expires <= t \/ run[q.run].deadline <= t)

\* the UPDATE of runs: a queued run is closed, a leased one marked
Canceled(row, status) == [row EXCEPT !.status = status, !.cancel = TRUE, !.version = @ + 1]

(* The run was read queued, or leased with a live lease and no cancellation. *)
CancelCommit(s) ==
  LET q == req[s]
      r == q.run
      hits == run[r].status = q.head.status /\ run[r].version = q.head.version
      queued == q.head.status = "queued"
  IN  /\ q.phase = "ready" /\ q.kind = "cancel"
      /\ \E t \in q.at..clock : ~CancelFindsExpired(q, t)
      /\ queued \/ ~q.head.cancel
      /\ hits /\ SeqFresh(r, q.head.seq)
      /\ run' = [run EXCEPT ![r] = Canceled(@, IF queued THEN "canceled" ELSE "leased")]
      /\ Log(r, <<Event(IF queued THEN "run.canceled" ELSE "run.cancel_requested", 0)>>)
      /\ Finish(s)
      /\ UNCHANGED <<clock, lease, ops, nonces, ledger, deadlineOps, runner,
                     report, promised>>

\* bug: the UPDATE of run_leases does not ask for an active row
CancelReleasesAny(q, t) == TRUE
\* the lease the batch of the expired path releases, if its row still matches
CancelReleases(q, t) ==
  /\ ActiveLease(q.run, q.head.gen)
  /\ Expired(lease[q.run][q.head.gen], t) \/ run[q.run].deadline <= t

RunAfterRelease(q, t) ==
  IF CancelReleases(q, t) THEN Detach(run[q.run], q.head.gen) ELSE run[q.run]

\* the UPDATE of runs matches: one version past the one read
CancelHits(q, t) ==
  LET row == RunAfterRelease(q, t)
  IN  row.status = "queued" /\ row.version = q.head.version + 1

LeaseAfterRelease(q, t) ==
  IF CancelReleases(q, t) THEN [lease EXCEPT ![q.run][q.head.gen].status = "released"]
                          ELSE lease

(* The run was read leased under a lease that has run out. *)
CancelExpiredCommit(s) ==
  LET q == req[s]
      r == q.run
  IN  /\ q.phase = "ready" /\ q.kind = "cancel"
      /\ \E t \in q.at..clock :
           /\ CancelFindsExpired(q, t)
           /\ CancelHits(q, t) /\ SeqFresh(r, q.head.seq)
           /\ run' = [run EXCEPT ![r] = Canceled(RunAfterRelease(q, t), "canceled")]
           /\ lease' = LeaseAfterRelease(q, t)
      /\ Log(r, <<Event("lease.released", q.head.gen), Event("run.canceled", 0)>>)
      /\ Finish(s)
      /\ UNCHANGED <<clock, ops, nonces, ledger, deadlineOps, runner, report, promised>>

(* The same batch when the UPDATE of runs matches no row: it commits all the
   same, so the lease may be released, and the run queued again, unlogged. *)
CancelExpiredMiss(s) ==
  LET q == req[s]
      r == q.run
  IN  /\ q.phase = "ready" /\ q.kind = "cancel"
      /\ \E t \in q.at..clock :
           /\ CancelFindsExpired(q, t)
           /\ ~CancelHits(q, t)
           /\ run' = [run EXCEPT ![r] = RunAfterRelease(q, t)]
           /\ lease' = LeaseAfterRelease(q, t)
      /\ IF run'[r].status = "canceled" THEN Finish(s) ELSE Retry(s)
      /\ UNCHANGED <<clock, events, ops, nonces, ledger, deadlineOps, runner,
                     report, promised>>

RevokeHead(q) ==
  LET held == LeasesOf(q.runner)
      x == CHOOSE y \in held : TRUE
      head == [NoHead EXCEPT !.ledger = Len(ledger)]
  IN  IF held = {} THEN head
      ELSE [head EXCEPT !.other = x[1], !.otherFence = x[2],
                        !.otherSeq = Len(events[x[1]])]

\* the lease the revocation read is still active
RevokesLease(q) == q.head.other # None /\ ActiveLease(q.head.other, q.head.otherFence)

\* bug: the UPDATE of runners does not look for leases
RevokedAnyway(w, ended) == TRUE
\* the UPDATE of runners: the batch leaves the runner without a lease
RevokedFree(w, ended) == LeasesOf(w) \subseteq ended

(* The trigger of the ledger row refuses a runner that the batch did not
   revoke, and the UPDATE of runners skips one that still holds a lease. *)
RevokeCommits(q) ==
  /\ runner[q.runner] = "active"
  /\ RevokesLease(q) => SeqFresh(q.head.other, q.head.otherSeq)
  /\ RevokedFree(q.runner, IF RevokesLease(q) THEN {<<q.head.other, q.head.otherFence>>} ELSE {})
  /\ LedgerFresh(q)

RevokeCommit(s) ==
  LET q == req[s]
      r == q.head.other
      f == q.head.otherFence
  IN  /\ q.phase = "ready" /\ q.kind = "revoke" /\ RevokeCommits(q)
      /\ runner' = [runner EXCEPT ![q.runner] = "revoked"]
      /\ IF RevokesLease(q)
         THEN /\ lease' = [lease EXCEPT ![r][f].status = "revoked"]
              /\ run' = [run EXCEPT ![r] = Detach(@, f)]
              /\ Log(r, <<Event("lease.revoked", f)>>)
         ELSE UNCHANGED <<run, lease, events>>
      /\ ledger' = Append(ledger, Entry("runner.revoked", q.runner))
      /\ Finish(s)
      /\ UNCHANGED <<clock, ops, nonces, deadlineOps, report, promised>>

-----------------------------------------------------------------------------
(* The deadline reconciler (worker cron, or the owner's reconcile route) *)

\* reconcileDueEngineRunDeadlines takes its observedAt
StartReconcile(s) ==
  /\ s \in CronSlots /\ req[s].phase = "idle"
  /\ req' = [req EXCEPT ![s] = [Idle EXCEPT !.phase = "open", !.kind = "expire",
                                            !.at = clock]]
  /\ UNCHANGED <<clock, rows, report>>

\* bug: only queued runs are listed
DueQueued(t) == {r \in EngineRuns : run[r].status = "queued" /\ run[r].deadline <= t}
\* listDueEngineRuns
Due(t) == {r \in EngineRuns : /\ run[r].status \in {"queued", "leased"}
                              /\ run[r].deadline <= t}

ExpiryHead(r) ==
  [NoHead EXCEPT !.version = run[r].version, !.status = run[r].status,
                 !.gen = run[r].gen, !.ledger = Len(ledger)]

\* one candidate of the pass; the others are passes of their own
ReadDue(s) ==
  /\ req[s].phase = "open" /\ req[s].kind = "expire"
  /\ \E r \in Due(req[s].at) :
       req' = [req EXCEPT ![s].phase = "ready", ![s].run = r, ![s].head = ExpiryHead(r)]
  /\ UNCHANGED <<clock, rows, report>>

\* the candidate is still as it was read, so the trigger of
\* run_deadline_operations accepts the operation and every guard matches
ExpiryCommits(q) ==
  LET r == q.run
      h == q.head
      row == IF h.status = "leased" THEN Detach(run[r], h.gen) ELSE run[r]
  IN  /\ r \notin deadlineOps
      /\ run[r].status = h.status
      /\ h.status = "leased" => run[r].gen = h.gen /\ ActiveLease(r, h.gen)
      /\ row.status = "queued" /\ row.gen = h.gen
      /\ row.version = IF h.status = "leased" THEN h.version + 1 ELSE h.version
      /\ run[r].deadline <= q.at
      /\ LedgerFresh(q)

ExpiredRow(row) == [row EXCEPT !.status = "expired", !.version = @ + 1]

ExpireCommit(s) ==
  LET q == req[s]
      r == q.run
      f == q.head.gen
      held == q.head.status = "leased"
      row == IF held THEN Detach(run[r], f) ELSE run[r]
  IN  /\ q.phase = "ready" /\ q.kind = "expire" /\ ExpiryCommits(q)
      /\ deadlineOps' = deadlineOps \cup {r}
      /\ lease' = IF held THEN [lease EXCEPT ![r][f].status = "revoked"] ELSE lease
      /\ run' = [run EXCEPT ![r] = ExpiredRow(row)]
      /\ Log(r, <<Event("run.expired", 0)>>)
      /\ ledger' = Append(ledger, Entry("run.expired", r))
      /\ Finish(s)
      /\ UNCHANGED <<clock, ops, nonces, runner, report, promised>>

SameCandidate(q) == [q EXCEPT !.tries = @ + 1, !.head.ledger = Len(ledger)]

\* a ledger conflict retries the same candidate, any other race skips it
ExpireAbort(s) ==
  /\ req[s].phase = "ready" /\ req[s].kind = "expire" /\ ~ExpiryCommits(req[s])
  /\ IF ~LedgerFresh(req[s]) /\ req[s].tries + 1 < RetryLimit
     THEN req' = [req EXCEPT ![s] = SameCandidate(@)]
     ELSE Finish(s)
  /\ UNCHANGED <<clock, rows, report>>

-----------------------------------------------------------------------------
(* Reads, refusals, aborted batches, and what may happen to any request *)

Admits(q) ==
  CASE q.kind = "claim"    -> AdmitsClaim(q)
    [] q.kind = "renew"    -> AdmitsRenewal(q)
    [] q.kind = "complete" -> AdmitsCompletion(q)
    [] q.kind = "create"   -> TRUE
    [] q.kind = "cancel"   -> run[q.run].status \in {"queued", "leased"}
    [] q.kind = "revoke"   -> runner[q.runner] = "active"
    [] q.kind = "expire"   -> Due(q.at) # {}

HeadOf(q) ==
  CASE q.kind = "claim"    -> ClaimHead(q)
    [] q.kind = "renew"    -> RenewalHead(q)
    [] q.kind = "complete" -> CompletionHead(q)
    [] q.kind = "create"   -> [NoHead EXCEPT !.ledger = Len(ledger)]
    [] q.kind = "cancel"   -> CancelHead(q)
    [] q.kind = "revoke"   -> RevokeHead(q)

Ready(q, h, t) == [q EXCEPT !.phase = "ready", !.head = h, !.at = t]

(* The cancellation reads its clock after its rows, so its `at` is the time of
   the read; every other handler keeps the time the request arrived. *)
Read(s) ==
  LET q == req[s]
  IN  /\ q.phase = "open" /\ q.kind # "expire" /\ Admits(q)
      /\ req' = [req EXCEPT ![s] =
                   Ready(q, HeadOf(q), IF q.kind = "cancel" THEN clock ELSE q.at)]
      /\ UNCHANGED <<clock, rows, report>>

Refuse(s) ==
  /\ req[s].phase = "open" /\ ~Admits(req[s])
  /\ Finish(s)
  /\ UNCHANGED <<clock, rows, report>>

\* the run is already canceling under a live lease: nothing to write
CancelSettled(s) ==
  LET q == req[s]
  IN  /\ q.phase = "ready" /\ q.kind = "cancel"
      /\ q.head.status = "leased" /\ q.head.cancel
      /\ \E t \in q.at..clock : ~CancelFindsExpired(q, t)
      /\ Finish(s)
      /\ UNCHANGED <<clock, rows, report>>

\* the batch of the request aborts, or (cancel, queued or live) matches no row
Aborts(q) ==
  CASE q.kind = "claim"    -> ~ClaimCommits(q)
    [] q.kind = "renew"    -> ~RenewalCommits(q)
    [] q.kind = "complete" -> ~CompletionCommits(q)
    [] q.kind = "create"   -> ~CreateCommits(q)
    [] q.kind = "revoke"   -> ~RevokeCommits(q)
    [] q.kind = "cancel"   ->
         \E t \in q.at..clock :
           IF CancelFindsExpired(q, t)
           THEN CancelHits(q, t) /\ ~SeqFresh(q.run, q.head.seq)
           ELSE /\ ~(q.head.status = "leased" /\ q.head.cancel)
                /\ \/ run[q.run].status # q.head.status
                   \/ run[q.run].version # q.head.version
                   \/ ~SeqFresh(q.run, q.head.seq)
    [] q.kind = "expire"   -> FALSE

(* After an aborted batch a runner request looks itself up again: its nonce or
   its operation may have been recorded by a copy of it. *)
Abort(s) ==
  LET q == req[s]
      signed == q.nonce # None
      known == signed /\ ~NonceFresh(q.runner, q.nonce)
      done == signed /\ q.op # None /\ ~OpFresh(q.run, q.op)
  IN  /\ q.phase = "ready" /\ Aborts(q)
      /\ IF known \/ done THEN Finish(s) ELSE Retry(s)
      /\ IF ~known /\ done /\ Replays(q) /\ runner[q.runner] = "active"
         THEN nonces' = nonces \cup {NonceRow(q)}
         ELSE nonces' = nonces
      /\ UNCHANGED <<clock, run, lease, events, ops, ledger, deadlineOps, runner,
                     report, promised>>

\* the invocation dies, or its caller is cut off, before its batch
Crash(s) ==
  /\ req[s].phase # "idle" /\ clock < MaxTime
  /\ Finish(s)
  /\ UNCHANGED <<clock, rows, report>>

(* cleanupRunOperationalState, started after a success and not awaited: nonces
   past their life go, responses past theirs are compacted to a tombstone. *)
Cleanup ==
  LET old(x) == x.at + OperationTtl <= clock
  IN  /\ \/ \E n \in nonces : n.until <= clock
         \/ \E x \in ops : old(x) /\ ~x.compacted
      /\ nonces' = {n \in nonces : n.until > clock}
      /\ ops' = {IF old(x) THEN [x EXCEPT !.compacted = TRUE] ELSE x : x \in ops}
      /\ UNCHANGED <<clock, run, lease, events, ledger, deadlineOps, runner,
                     report, promised, req>>

SlotStep(s) ==
  \/ StartReconcile(s) \/ ReadDue(s) \/ ExpireCommit(s) \/ ExpireAbort(s)
  \/ Read(s) \/ Refuse(s) \/ Abort(s)
  \/ ClaimCommit(s) \/ RenewCommit(s) \/ RenewUnlogged(s) \/ CompleteCommit(s)
  \/ CreateCommit(s) \/ RevokeCommit(s)
  \/ CancelCommit(s) \/ CancelExpiredCommit(s) \/ CancelExpiredMiss(s) \/ CancelSettled(s)

Ask(s) ==
  \/ \E r \in Runs : AskCreate(s, r) \/ AskCancel(s, r)
  \/ \E w \in Runners : AskRevoke(s, w)
  \/ \E w \in Runners, r \in Runs, n \in Nonces :
       \E q \in RunnerRequests(w, r, n) : Submit(s, q)

Next ==
  \/ Tick \/ Cleanup
  \/ \E w \in Runners : NewReport(w)
  \/ \E s \in Slots : Ask(s) \/ SlotStep(s) \/ Crash(s)
  \/ \E w \in Runners, r \in Runs, n \in Nonces :
       \E q \in RunnerRequests(w, r, n) : Resubmit(q)

Spec == Init /\ [][Next]_vars

(* The cron trigger fires for ever and its passes are not always killed; time
   passes.  Nothing is assumed of runners, owners or the other slots. *)
Fairness == WF_vars(Tick) /\ \A s \in CronSlots : WF_vars(SlotStep(s))
FairSpec == Spec /\ Fairness

-----------------------------------------------------------------------------
(* Properties *)

RunRow == [status : {"absent", "queued", "leased"} \cup Terminal, version : Nat,
           gen : Nat, lease : Nat, cancel : BOOLEAN,
           outcome : Outcomes \cup {"none"}, doneBy : Ops \cup {None}, deadline : Nat]
LeaseRow == [status : {"none", "active", "superseded", "released", "revoked"},
             runner : Runners \cup {None}, issued : Nat, expires : Nat, renews : Nat]
EventRow == [kind : {"run.created", "run.cancel_requested", "run.canceled",
                     "run.completed", "run.expired", "lease.claimed", "lease.renewed",
                     "lease.superseded", "lease.released", "lease.revoked"},
             fence : Nat]
LedgerRow == [kind : {"run.requested", "run.completed", "run.expired", "runner.revoked"},
              subject : Runs \cup Runners]
SignedMessage == [kind : {"claim", "renew", "complete"}, runner : Runners, run : Runs,
                  fence : Nat, op : Ops \cup {None}, outcome : Outcomes \cup {"none"}]
OperationRow == [run : Runs, op : Ops, message : SignedMessage, fence : Nat,
                 grant : Nat, at : Nat, compacted : BOOLEAN]
UsedNonce == [runner : Runners, nonce : Nonces, message : SignedMessage, until : Nat]
HeadRow == [seq : Nat, version : Nat, status : {"absent", "queued", "leased"} \cup Terminal,
            gen : Nat, renews : Nat, expires : Nat, cancel : BOOLEAN,
            other : Runs \cup {None}, otherFence : Nat, otherSeq : Nat,
            ledger : Nat, rev : Nat]
Request == [phase : {"idle", "open", "ready"},
            kind : {"none", "claim", "renew", "complete", "create", "cancel",
                    "revoke", "expire"},
            at : Nat, runner : Runners \cup {None}, run : Runs \cup {None},
            fence : Nat, op : Ops \cup {None}, outcome : Outcomes \cup {"none"},
            nonce : Nonces \cup {None}, tries : Nat, head : HeadRow]

LeasesTyped(l) == DOMAIN l = Runs /\ \A r \in Runs : l[r] \in [Fences(r) -> LeaseRow]

TablesTyped ==
  /\ clock \in Nat
  /\ run \in [Runs -> RunRow]
  /\ LeasesTyped(lease)
  /\ events \in [Runs -> Seq(EventRow)]
  /\ ops \subseteq OperationRow
  /\ nonces \subseteq UsedNonce
  /\ ledger \in Seq(LedgerRow)
  /\ deadlineOps \subseteq EngineRuns
  /\ runner \in [Runners -> {"active", "revoked"}]
  /\ report \in [Runners -> [rev : Nat, fit : BOOLEAN]]
  /\ DOMAIN promised = Runs /\ \A r \in Runs : promised[r] \in [Fences(r) -> Nat]

(* Every table holds rows of its columns' types, rows only for what exists, and
   every request in flight has read such rows. *)
TypeOK == TablesTyped /\ req \in [Slots -> Request]

Count(seq, e) == Cardinality({i \in 1..Len(seq) : seq[i] = e})
ClaimOps(r, f) == {x \in ops : x.run = r /\ x.fence = f /\ x.message.kind = "claim"}
CompletionOps(r) == {x \in ops : x.run = r /\ x.message.kind = "complete"}

\* a run's row and its leases, by fence, tell the same story
Agree(r, row, leases) ==
  /\ row.status = "leased" => /\ row.lease = row.gen /\ row.lease \in Fences(r)
                              /\ leases[row.lease].status = "active"
  /\ \A f \in Fences(r) :
       /\ leases[f].status = "active" => row.status = "leased" /\ f = row.lease
       /\ leases[f].status = "none" <=> f > row.gen
  /\ row.gen <= MaxClaims[r]
  /\ row.status = "absent" => row.gen = 0
  /\ row.status \in {"absent", "queued", "canceled", "expired"} => row.lease = 0
  /\ row.status = "completed" => /\ row.gen > 0 /\ row.lease = row.gen
                                 /\ leases[row.gen].status = "released"

(* A run and its leases agree: a leased run points to its newest lease and that
   lease is active; no other lease of the run is; a lease row exists for every
   fence handed out and for no other; a completed run points to the lease it was
   completed under.  (The attach and detach triggers against every batch.) *)
LeaseAgreement == \A r \in Runs : Agree(r, run[r], lease[r])

(* A runner holds at most one active lease over all runs, though the claim that
   ends its old lease and the one that grants the new read different runs. *)
RunnerHoldsOne == \A w \in Runners : \A x, y \in LeasesOf(w) : x = y

(* A runner is never displaced while time it was promised is left: a lease
   outlasts every expiry its holder was told, and it is superseded, or released
   by a cancellation, only once that expiry has passed on the server's clock. *)
PromiseKept ==
  \A r \in Runs : \A f \in Fences(r) :
    /\ promised[r][f] <= lease[r][f].expires
    /\ \/ lease[r][f].status = "superseded"
       \/ lease[r][f].status = "released" /\ run[r].status # "completed"
       => promised[r][f] <= clock

(* The outcome of a canceled diagnostic run is "canceled", also when the request
   to cancel overtakes a completion between its read and its batch. *)
CancelRespected ==
  \A r \in Runs \ EngineRuns :
    run[r].cancel /\ run[r].status = "completed" => run[r].outcome = "canceled"

Closing == [completed |-> "run.completed", canceled |-> "run.canceled", expired |-> "run.expired"]
ClosingKinds == {Closing[status] : status \in Terminal}

(* A closed run has exactly one closing event, the last one of its stream, and an
   open one has none; the ledger tells of its completion or expiry exactly once. *)
ClosedOnce ==
  \A r \in Runs :
    LET closing == {i \in 1..Len(events[r]) : events[r][i].kind \in ClosingKinds}
    IN  /\ closing = IF run[r].status \in Terminal THEN {Len(events[r])} ELSE {}
        /\ run[r].status \in Terminal =>
             events[r][Len(events[r])].kind = Closing[run[r].status]
        /\ \A k \in {"completed", "expired"} :
             Count(ledger, Entry(Closing[k], r)) = IF run[r].status = k THEN 1 ELSE 0

(* An operation id is applied at most once to a run, for the life of the run, its
   copies and retries included: every lease was granted to exactly one operation of
   the runner that holds it, and the outcome of a run was written by exactly one
   operation, signed by the holder of its newest lease under that lease's fence. *)
AppliedOnce ==
  \A r \in Runs :
    /\ \A x, y \in ops : x.run = r /\ y.run = r /\ x.op = y.op => x = y
    /\ \A f \in Fences(r) :
         /\ Cardinality(ClaimOps(r, f)) = IF f <= run[r].gen THEN 1 ELSE 0
         /\ \A x \in ClaimOps(r, f) : x.message.runner = lease[r][f].runner
    /\ CompletionOps(r) # {} <=> run[r].status = "completed"
    /\ \A x \in CompletionOps(r) : /\ x.fence = run[r].gen /\ x.op = run[r].doneBy
                                   /\ x.message.runner = lease[r][run[r].gen].runner
                                   /\ x.message.outcome = run[r].outcome

(* A revoked runner holds no lease, whatever claims were in flight. *)
RevokedHoldNothing == \A w \in Runners : runner[w] = "revoked" => LeasesOf(w) = {}

(* What a runner may hold: one active lease at most over all runs, and none once it
   is revoked, whatever claims read before. *)
HoldingSound == RunnerHoldsOne /\ RevokedHoldNothing

(* Exactly the runs with a deadline operation are expired, only engine runs past
   their deadline are, and no lease is granted beyond the deadline. *)
DeadlineRespected ==
  \A r \in Runs :
    /\ run[r].status = "expired" <=> r \in deadlineOps
    /\ r \in deadlineOps => IsEngine(r) /\ run[r].deadline <= clock
    /\ \A f \in Fences(r) : lease[r][f].expires <= run[r].deadline

(* The event stream tells of every grant and of every end of a lease. *)
EndedLeaseLogged ==
  \A r \in Runs : \A f \in Fences(r) :
    LET status == lease[r][f].status
        told(k) == Count(events[r], Event("lease." \o k, f))
    IN  /\ told("claimed") = IF status = "none" THEN 0 ELSE 1
        /\ \A k \in {"superseded", "released"} : told(k) = IF status = k THEN 1 ELSE 0
        /\ status = "revoked" /\ run[r].status # "expired" => told("revoked") = 1

(* Once closed, a run never changes again: not its row, not its leases, not its
   events; and a lease that ended never comes back. *)
ClosedStays ==
  [][\A r \in Runs :
       /\ run[r].status \in Terminal =>
            run'[r] = run[r] /\ lease'[r] = lease[r] /\ events'[r] = events[r]
       /\ \A f \in Fences(r) :
            lease[r][f].status \in {"superseded", "released", "revoked"} =>
              lease'[r][f] = lease[r][f]]_vars

(* What is recorded is never unsaid: what is closed or ended stays, the fence never
   falls and moves one by one, events and the ledger only grow, an operation never
   leaves its table, and an active lease is never shortened. *)
OnlyForward ==
  /\ ClosedStays
  /\ [][/\ \A r \in Runs :
             /\ run'[r].gen \in {run[r].gen, run[r].gen + 1}
             /\ SubSeq(events'[r], 1, Len(events[r])) = events[r]
             /\ \A f \in Fences(r) : lease[r][f].expires <= lease'[r][f].expires
        /\ SubSeq(ledger', 1, Len(ledger)) = ledger
        /\ \A x \in ops : \E y \in ops' : y.run = x.run /\ y.op = x.op /\ y.message = x.message]_vars

(* An engine run past its deadline is closed in the end, though its candidates go
   stale and its batches lose races: the reconciler's, or the holder's completion. *)
DueRunsClose ==
  \A r \in EngineRuns :
    (run[r].status \in {"queued", "leased"} /\ run[r].deadline <= clock)
      ~> run[r].status \in Terminal

(* An engine lease is granted only to a runner whose latest inventory fits at the
   moment of the grant, not merely when the claim was admitted. *)
GrantedToFit ==
  [][\A r \in EngineRuns : \A f \in Fences(r) :
       lease[r][f].status = "none" /\ lease'[r][f].status = "active" =>
         report[lease'[r][f].runner].fit /\ runner[lease'[r][f].runner] = "active"]_vars

-----------------------------------------------------------------------------
(* The promise of RunOwnership *)

\* the outcome row of a completed run, as the operation that wrote it tells it
ResultOf(r) ==
  IF run[r].status # "completed" THEN None
  ELSE [epoch |-> run[r].gen, by |-> lease[r][run[r].gen].runner, outcome |-> run[r].outcome]

StageOf(r) == IF run[r].status = "absent" THEN "absent"
              ELSE IF run[r].status \in Terminal THEN "closed" ELSE "open"
OwnerOf(r) == IF run[r].status = "leased" THEN lease[r][run[r].lease].runner ELSE None

Ownership == INSTANCE RunOwnership WITH
  stage <- [r \in Runs |-> StageOf(r)],
  owner <- [r \in Runs |-> OwnerOf(r)],
  epoch <- [r \in Runs |-> run[r].gen],
  result <- [r \in Runs |-> ResultOf(r)]

(* The control plane implements fenced ownership: whatever the requests in flight
   do, a run has one owner, only its owner of the moment writes its outcome. *)
ImplementsOwnership == Ownership!Spec
=============================================================================
