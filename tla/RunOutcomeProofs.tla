------------------------- MODULE RunOutcomeProofs -------------------------
(***************************************************************************)
(* What RunControl keeps for every set of runs, runners, requests and      *)
(* ids, beyond what RunControlProofs establishes. What a request has read  *)
(* stays so, or a number it read has moved on (ReadWell): a batch whose    *)
(* guards hold finds the facts its handler decided on. Every step then     *)
(* moves each run in one of the ways that Moves lists (RunMoves), and each *)
(* property is proved move by move. The implementation of RunOwnership     *)
(* maps a run to its stage, its owner and its result.                      *)
(***************************************************************************)
EXTENDS RunControlProofs, FiniteSetTheorems

(* No request is from the future.                                           *)
Punctual == \A s \in Slots : req[s].at <= clock

(* Rows that are not there yet are blank, rows that are have a holder.      *)
BlankRows ==
  \A r \in Runs :
    /\ run[r].status = "absent" => run[r] = NoRun
    /\ \A f \in Fences(r) :
         /\ lease[r][f].status = "none" => lease[r][f] = NoLease
         /\ lease[r][f].status # "none" => lease[r][f].runner \in Runners

(* What a request read is still so, or a number it read has moved on.       *)
ReadWell(q) ==
  /\ q.kind = "complete" /\ q.phase = "ready" =>
       /\ q.head.seq <= Len(events[q.run])
       /\ q.run \notin EngineRuns /\ run[q.run].cancel /\ q.head.seq = Len(events[q.run]) => q.outcome = "canceled"
  /\ q.kind \in {"renew", "complete"} => lease[q.run][q.fence].runner = q.runner
  /\ q.kind = "claim" /\ q.phase = "ready" =>
       /\ q.head.rev <= report[q.runner].rev
       /\ q.run \in EngineRuns /\ q.head.rev = report[q.runner].rev => report[q.runner].fit
       /\ q.head.other # None =>
            /\ q.head.otherFence \in Fences(q.head.other)
            /\ lease[q.head.other][q.head.otherFence].runner = q.runner
RequestsReadWell == \A s \in Slots : ReadWell(req[s])

-----------------------------------------------------------------------------
(* What a step does to one run *)

LeaseEvents == {"lease.claimed", "lease.renewed", "lease.superseded", "lease.released", "lease.revoked"}

\* events are appended, of which the last is of a kind
Tells(r, kind) ==
  \E more \in Seq(EventRow) :
    /\ events'[r] = events[r] \o more /\ Len(more) > 0 /\ more[Len(more)].kind = kind
    /\ \A i \in 1..Len(more) : i < Len(more) => more[i].kind \in LeaseEvents
TellsNothing(r) == events'[r] = events[r]

TermsKept(r) ==
  /\ run'[r].gen = run[r].gen /\ run'[r].deadline = run[r].deadline
  /\ run'[r].outcome = run[r].outcome /\ run'[r].doneBy = run[r].doneBy
LeaseKept(r) == lease'[r] = lease[r] /\ promised'[r] = promised[r]

\* the time of the lease, or of the run, is over
RanOut(r) == \E t \in Nat : t <= clock /\ (lease[r][run[r].gen].expires <= t \/ run[r].deadline <= t)
EndsLease(r, status) ==
  /\ ActiveLease(r, run[r].gen) /\ lease'[r] = [lease[r] EXCEPT ![run[r].gen].status = status]
  /\ promised'[r] = promised[r]

Untouched(r) == run'[r] = run[r] /\ LeaseKept(r) /\ TellsNothing(r)
Creates(s, r) ==
  /\ CreateCommit(s) /\ req[s].run = r /\ run[r].status = "absent"
  /\ run'[r] = [NoRun EXCEPT !.status = "queued", !.version = 1, !.deadline = req[s].at + RunDeadline]
  /\ LeaseKept(r) /\ Tells(r, "run.created")
Grants(s, r) ==
  LET q == req[s]
      f == run[r].gen + 1 IN
  /\ ClaimCommit(s) /\ q.run = r /\ q.head.gen = run[r].gen /\ f \in Fences(r)
  /\ \/ run[r].status = "queued" /\ lease'[r] = [lease[r] EXCEPT ![f] = GrantedLease(q)]
     \/ /\ run[r].status = "leased" /\ ActiveLease(r, run[r].gen) /\ RanOut(r)
        /\ lease'[r] = [[lease[r] EXCEPT ![run[r].gen].status = "superseded"] EXCEPT ![f] = GrantedLease(q)]
  /\ run'[r] = [run[r] EXCEPT !.status = "leased", !.gen = f, !.lease = f, !.version = run'[r].version]
  /\ promised'[r] = [promised[r] EXCEPT ![f] = LeaseUntil(r, q.at)]
  /\ Tells(r, "lease.claimed")
Renews(s, r) ==
  LET q == req[s]
      until == LeaseUntil(r, q.at) IN
  /\ q.run = r /\ q.kind = "renew" /\ run'[r] = run[r] /\ ActiveLease(r, q.fence)
  /\ lease'[r] = [lease[r] EXCEPT ![q.fence] = Renewed(lease[r][q.fence], until)]
  /\ lease[r][q.fence].expires <= until
  /\ promised'[r] = promised[r] \/ promised'[r] = [promised[r] EXCEPT ![q.fence] = until]
  /\ TellsNothing(r) \/ Tells(r, "lease.renewed")
Withdraws(r) ==
  /\ run[r].status = "leased" /\ run'[r].status = "queued" /\ run'[r].cancel = run[r].cancel /\ TermsKept(r)
  /\ \/ EndsLease(r, "superseded") /\ RanOut(r) /\ Tells(r, "lease.superseded")
     \/ EndsLease(r, "released") /\ RanOut(r) /\ TellsNothing(r)
     \/ EndsLease(r, "revoked") /\ Tells(r, "lease.revoked")
Marks(r) ==
  /\ run[r].status = "leased" /\ run'[r].status = "leased" /\ run'[r].lease = run[r].lease /\ TermsKept(r)
  /\ run'[r].cancel /\ LeaseKept(r) /\ Tells(r, "run.cancel_requested")
Cancels(r) ==
  /\ run'[r].status = "canceled" /\ run'[r].cancel /\ TermsKept(r) /\ Tells(r, "run.canceled")
  /\ \/ run[r].status = "queued" /\ LeaseKept(r)
     \/ run[r].status = "leased" /\ EndsLease(r, "released") /\ RanOut(r)
Expires(s, r) ==
  /\ ExpireCommit(s) /\ req[s].run = r /\ run'[r].status = "expired" /\ run'[r].cancel = run[r].cancel
  /\ TermsKept(r) /\ Tells(r, "run.expired")
  /\ \/ run[r].status = "queued" /\ LeaseKept(r)
     \/ run[r].status = "leased" /\ EndsLease(r, "revoked")
Completes(s, r) ==
  LET q == req[s] IN
  /\ CompleteCommit(s) /\ q.run = r /\ run[r].status = "leased" /\ q.fence = run[r].gen
  /\ run'[r] = [run[r] EXCEPT !.status = "completed", !.outcome = q.outcome, !.doneBy = q.op,
                              !.version = run'[r].version]
  /\ EndsLease(r, "released") /\ Tells(r, "run.completed")

Moves(r) ==
  \/ Untouched(r) \/ Withdraws(r) \/ Marks(r) \/ Cancels(r)
  \/ \E s \in Slots : Creates(s, r) \/ Grants(s, r) \/ Renews(s, r) \/ Expires(s, r) \/ Completes(s, r)

-----------------------------------------------------------------------------

RInv == LInv /\ Punctual

LEMMA TablesTypedAt ==
  ASSUME LInv, NEW r \in Runs
  PROVE  /\ run \in [Runs -> RunRow] /\ run[r] \in RunRow /\ lease[r] \in [Fences(r) -> LeaseRow]
         /\ DOMAIN lease = Runs /\ DOMAIN run = Runs /\ DOMAIN events = Runs /\ DOMAIN promised = Runs
         /\ events[r] \in Seq(EventRow) /\ promised[r] \in [Fences(r) -> Nat] /\ clock \in Nat
         /\ Agree(r, run[r], lease[r]) /\ run[r].gen \in Nat /\ run[r].deadline \in Nat /\ Fences(r) \subseteq Nat
  BY RowsTyped, FencesAreNat DEF LInv, TInv, TypeOK, TablesTyped, RunRow, LeaseAgreement

LEMMA RequestAt ==
  ASSUME LInv, NEW s \in Slots
  PROVE  /\ req[s] \in Request /\ req[s].at \in Nat /\ req[s].head \in HeadRow /\ NamesRows(req[s])
         /\ req[s].fence \in Nat /\ req[s].head.gen \in Nat
  BY DEF LInv, TInv, TypeOK, RequestsNameRows, Request, HeadRow

\* one event, or two of which the first is a lease's
LEMMA TellsOne ==
  ASSUME NEW r, NEW event \in EventRow, events[r] \in Seq(EventRow),
         events'[r] = events[r] \o <<event>> \/ events'[r] = Append(events[r], event)
  PROVE  Tells(r, event.kind)
<1> DEFINE more == <<event>>
<1>1. more \in Seq(EventRow) /\ Len(more) = 1 /\ more[1] = event
  OBVIOUS
<1>2. events'[r] = events[r] \o more
  BY SMTT(60)
<1> HIDE DEF more
<1>3. more[Len(more)] = event /\ Len(more) > 0 /\ \A i \in 1..Len(more) : ~(i < Len(more))
  BY <1>1
<1>4. QED
  BY <1>1, <1>2, <1>3 DEF Tells

LEMMA TellsTwo ==
  ASSUME NEW r, NEW first \in EventRow, NEW event \in EventRow, events[r] \in Seq(EventRow),
         first.kind \in LeaseEvents,
         events'[r] = events[r] \o <<first, event>> \/ events'[r] = Append(Append(events[r], first), event)
  PROVE  Tells(r, event.kind)
<1> DEFINE more == <<first, event>>
<1>1. more \in Seq(EventRow) /\ Len(more) = 2 /\ more[1] = first /\ more[2] = event
  OBVIOUS
<1>2. Append(Append(events[r], first), event) = events[r] \o more
  <2> DEFINE once == Append(events[r], first)
             twice == Append(once, event)
             n == Len(events[r])
  <2>1. n \in Nat
    OBVIOUS
  <2>2. /\ once \in Seq(EventRow) /\ Len(once) = n + 1 /\ once[n + 1] = first
        /\ \A i \in 1..n : once[i] = events[r][i]
    BY AppendProperties
  <2>3. /\ twice \in Seq(EventRow) /\ Len(twice) = Len(once) + 1 /\ twice[Len(once) + 1] = event
        /\ \A i \in 1..Len(once) : twice[i] = once[i]
    <3> HIDE DEF once
    <3>1. QED
      BY <2>2, AppendProperties
  <2> HIDE DEF once, twice, more
  <2> DEFINE joined == events[r] \o more
  <2>4. /\ joined \in Seq(EventRow) /\ Len(joined) = n + Len(more)
        /\ \A i \in 1..Len(joined) : joined[i] = IF i <= n THEN events[r][i] ELSE more[i - n]
    <3>1. more \in Seq(EventRow)
      BY <1>1
    <3>2. /\ events[r] \o more \in Seq(EventRow) /\ Len(events[r] \o more) = Len(events[r]) + Len(more)
          /\ \A i \in 1..Len(events[r]) + Len(more) :
               (events[r] \o more)[i] = IF i <= Len(events[r]) THEN events[r][i] ELSE more[i - Len(events[r])]
      BY <3>1, ConcatProperties
    <3>3. QED
      BY <3>2
  <2> HIDE DEF joined, n
  <2>5. Len(joined) = n + 2 /\ Len(twice) = n + 2
    BY <1>1, <2>1, <2>2, <2>3, <2>4
  <2>6. ASSUME NEW i \in 1..(n + 2) PROVE joined[i] = twice[i]
    <3>1. i \in Nat /\ 1 <= i /\ (i <= n \/ i = n + 1 \/ i = n + 2)
      BY <2>1
    <3>2. i - n = IF i = n + 1 THEN 1 ELSE IF i = n + 2 THEN 2 ELSE i - n
      BY <2>1, <3>1
    <3>3. CASE i <= n
      <4>1. joined[i] = events[r][i]
        BY <2>4, <2>5, <3>1, <3>3
      <4>2. i \in 1..n /\ i \in 1..Len(once)
        BY <2>1, <2>2, <3>1, <3>3
      <4>3. QED
        BY <2>2, <2>3, <4>1, <4>2
    <3>4. CASE i = n + 1
      <4>1. joined[i] = more[1] /\ i \in 1..Len(once)
        BY <2>1, <2>2, <2>4, <2>5, <3>1, <3>4
      <4>2. QED
        BY <1>1, <2>2, <2>3, <3>4, <4>1
    <3>5. CASE i = n + 2
      <4>1. joined[i] = more[2] /\ i = Len(once) + 1
        BY <2>1, <2>2, <2>4, <2>5, <3>1, <3>5
      <4>2. QED
        BY <1>1, <2>3, <4>1
    <3>6. QED
      BY <3>1, <3>3, <3>4, <3>5
  <2>7. joined = twice
    BY <2>3, <2>4, <2>5, <2>6, SeqEqual
  <2>8. QED
    BY <2>7 DEF joined, twice, once
<1> HIDE DEF more
<1>3. more[Len(more)] = event /\ Len(more) > 0 /\ \A i \in 1..Len(more) : i < Len(more) => more[i].kind \in LeaseEvents
  BY <1>1
<1>4. events'[r] = events[r] \o more
  BY <1>2 DEF more
<1>5. QED
  BY <1>1, <1>3, <1>4 DEF Tells

\* a stream that is told of something grows
LEMMA TellsSomething ==
  ASSUME NEW r, NEW kind, Tells(r, kind), events[r] \in Seq(EventRow)
  PROVE  /\ \E more \in Seq(EventRow) : events'[r] = events[r] \o more /\ Len(more) > 0
                                        /\ Len(events'[r]) = Len(events[r]) + Len(more)
         /\ Len(events[r]) \in Nat /\ Len(events'[r]) \in Nat /\ Len(events[r]) < Len(events'[r])
         /\ ~TellsNothing(r)
<1>1. PICK more \in Seq(EventRow) : events'[r] = events[r] \o more /\ Len(more) > 0
  BY DEF Tells
<1>2. Len(events'[r]) = Len(events[r]) + Len(more) /\ Len(more) \in Nat /\ Len(events[r]) \in Nat
  BY <1>1, ConcatProperties, LenProperties
<1>3. Len(events[r]) < Len(events'[r]) /\ Len(events'[r]) \in Nat
  BY <1>1, <1>2
<1>4. ~TellsNothing(r)
  <2>1. Len(events'[r]) # Len(events[r])
    BY <1>2, <1>3
  <2>2. QED
    BY <2>1 DEF TellsNothing
<1>5. QED
  BY <1>1, <1>2, <1>3, <1>4

LEMMA EventTyped ==
  ASSUME NEW kind \in {"run.created", "run.cancel_requested", "run.canceled", "run.completed", "run.expired"} \cup LeaseEvents,
         NEW f \in Nat
  PROVE  Event(kind, f) \in EventRow /\ Event(kind, f).kind = kind
  BY DEF Event, EventRow, LeaseEvents

\* the batch that ends the active lease of a run
LEMMA EndsActive ==
  ASSUME LInv, NEW x \in Runs, NEW f, ActiveLease(x, f), NEW status,
         lease' = [lease EXCEPT ![x][f].status = status], promised' = promised
  PROVE  /\ EndsLease(x, status) /\ f = run[x].gen /\ run[x].status = "leased" /\ run[x].lease = f
         /\ \A r \in Runs \ {x} : LeaseKept(r)
  BY ActiveIsCurrent, TablesTypedAt, RowsTyped DEF EndsLease, LeaseKept, LInv

LEMMA DetachFields ==
  ASSUME LInv, NEW r \in Runs, NEW f, ActiveLease(r, f)
  PROVE  LET row == Detach(run[r], f) IN
         /\ row.status = "queued" /\ row.cancel = run[r].cancel /\ row.gen = run[r].gen
         /\ row.deadline = run[r].deadline /\ row.outcome = run[r].outcome /\ row.doneBy = run[r].doneBy
         /\ row \in RunRow
<1>1. run[r].status = "leased" /\ run[r].lease = f /\ run[r] \in RunRow
  BY ActiveIsCurrent, TablesTypedAt
<1>2. Detach(run[r], f) = [run[r] EXCEPT !.status = "queued", !.lease = 0, !.version = run[r].version + 1]
  BY <1>1 DEF Detach, RunRow
<1> DEFINE version == run[r].version + 1
<1> HIDE DEF version
<1>3. LET row == [run[r] EXCEPT !.status = "queued", !.lease = 0, !.version = version] IN
         /\ row.status = "queued" /\ row.cancel = run[r].cancel /\ row.gen = run[r].gen
         /\ row.deadline = run[r].deadline /\ row.outcome = run[r].outcome /\ row.doneBy = run[r].doneBy
  BY <1>1 DEF RunRow
<1>4. Detach(run[r], f) \in RunRow
  BY <1>1, DetachTyped
<1>5. QED
  BY <1>2, <1>3, <1>4 DEF version

\* a step that changes one run alone
Alone(x) == \A r \in Runs \ {x} : run'[r] = run[r] /\ LeaseKept(r) /\ TellsNothing(r)
LEMMA AloneMoves ==
  ASSUME NEW x \in Runs, Alone(x), Moves(x), NEW r \in Runs PROVE Moves(r)
  BY DEF Alone, Moves, Untouched

LEMMA QuietMoves ==
  ASSUME run' = run, lease' = lease, events' = events, promised' = promised, NEW r \in Runs PROVE Moves(r)
  BY DEF Moves, Untouched, LeaseKept, TellsNothing

LEMMA CreateMoves == ASSUME RInv, NEW s \in Slots, CreateCommit(s), NEW r \in Runs PROVE Moves(r)
<1> DEFINE x == req[s].run
<1>1. x \in Runs /\ CreateCommits(req[s]) /\ LInv
  BY RequestAt DEF RInv, CreateCommit, NamesRows
<1>2. /\ run' = [run EXCEPT ![x] = [NoRun EXCEPT !.status = "queued", !.version = 1, !.deadline = req[s].at + RunDeadline]]
      /\ events' = [events EXCEPT ![x] = events[x] \o <<Event("run.created", 0)>>]
      /\ lease' = lease /\ promised' = promised
  BY <1>1, TablesTypedAt DEF CreateCommit, Log
<1>3. Tells(x, "run.created")
  BY ZenonT(60), <1>1, <1>2, TablesTypedAt, TellsOne, EventTyped
<1>4. Creates(s, x)
  BY <1>1, <1>2, <1>3, TablesTypedAt DEF Creates, CreateCommits, LeaseKept
<1>5. Alone(x)
  BY <1>1, <1>2, TablesTypedAt DEF Alone, LeaseKept, TellsNothing
<1> HIDE DEF x
<1>6. QED
  BY <1>1, <1>4, <1>5, AloneMoves DEF Moves

LEMMA RenewMoves == ASSUME RInv, NEW s \in Slots, RenewCommit(s) \/ RenewUnlogged(s), NEW r \in Runs PROVE Moves(r)
<1> DEFINE q == req[s]
           x == q.run
           until == LeaseUntil(x, q.at)
           new == Renewed(lease[x][q.fence], until)
<1>1. x \in Runs /\ q.fence \in Fences(x) /\ q.kind = "renew" /\ LInv /\ RenewalCommits(q) /\ run' = run
  BY RequestAt DEF RInv, RenewCommit, RenewUnlogged, NamesRows
<1>2. CASE ~RenewalMatches(q)
  <2>1. lease' = lease /\ events' = events /\ promised' = promised
    BY <1>2 DEF RenewCommit, RenewUnlogged
  <2>2. QED
    BY <1>1, <2>1, QuietMoves
<1>3. CASE RenewalMatches(q)
  <2>1. ActiveLease(x, q.fence) /\ RenewalAccepted(q)
    BY <1>1, <1>3 DEF RenewalMatches, RenewalCommits
  <2>2. lease[x][q.fence].expires <= until
    <3>1. lease[x][q.fence].expires \in Nat /\ until \in Nat
      BY <1>1, RequestAt, TablesTypedAt, LeaseUntilIsNat DEF LeaseRow
    <3>2. QED
      BY <2>1, <3>1 DEF RenewalAccepted
  <2>3. lease' = RenewedLease(q)
    BY <1>3 DEF RenewCommit, RenewUnlogged
  <2>4. lease' = [lease EXCEPT ![x] = [lease[x] EXCEPT ![q.fence] = new]]
    BY <1>1, <2>3, TablesTypedAt DEF RenewedLease
  <2>5. \/ events' = events /\ promised' = promised
        \/ /\ events' = [events EXCEPT ![x] = events[x] \o <<Event("lease.renewed", q.fence)>>]
           /\ promised' = [promised EXCEPT ![x] = [promised[x] EXCEPT ![q.fence] = until]]
    BY <1>1, <1>3, TablesTypedAt DEF RenewCommit, RenewUnlogged, Log
  <2>6. TellsNothing(x) \/ Tells(x, "lease.renewed")
    <3>1. q.fence \in Nat /\ events[x] \in Seq(EventRow) /\ DOMAIN events = Runs
      BY <1>1, TablesTypedAt
    <3>2. Event("lease.renewed", q.fence) \in EventRow /\ Event("lease.renewed", q.fence).kind = "lease.renewed"
      BY <3>1, EventTyped DEF LeaseEvents
    <3>3. QED
      BY SMTT(60), <1>1, <2>5, <3>1, <3>2, TellsOne DEF TellsNothing
  <2>7. /\ run'[x] = run[x] /\ lease'[x] = [lease[x] EXCEPT ![q.fence] = new]
        /\ promised'[x] = promised[x] \/ promised'[x] = [promised[x] EXCEPT ![q.fence] = until]
    BY <1>1, <2>4, <2>5, TablesTypedAt
  <2>8. Renews(s, x)
    BY <1>1, <2>1, <2>2, <2>6, <2>7 DEF Renews
  <2>9. Alone(x)
    BY <1>1, <2>4, <2>5, TablesTypedAt DEF Alone, LeaseKept, TellsNothing
  <2> HIDE DEF x, q
  <2>10. QED
    BY <1>1, <2>8, <2>9, AloneMoves DEF Moves
<1>4. QED
  BY <1>2, <1>3

LEMMA CompleteDoes ==
  ASSUME RInv, NEW s \in Slots, CompleteCommit(s), NEW r \in Runs
  PROVE  IF r = req[s].run THEN Completes(s, r) ELSE Untouched(r)
<1> DEFINE q == req[s]
           x == q.run
<1>1. x \in Runs /\ ActiveLease(x, q.fence) /\ LInv /\ run[x].status = "leased" /\ run[x].gen = q.fence /\ q.fence \in Nat
  BY RequestAt DEF RInv, NamesRows, CompleteCommit, CompletionCommits, Held
<1>2. /\ run' = [run EXCEPT ![x] = Detach(Completed(run[x], q), q.fence)]
      /\ lease' = [lease EXCEPT ![x][q.fence].status = "released"] /\ promised' = promised
      /\ events' = [events EXCEPT ![x] = events[x] \o <<Event("lease.released", q.fence), Event("run.completed", q.fence)>>]
  BY <1>1, TablesTypedAt DEF CompleteCommit, Log
<1>3. Tells(x, "run.completed")
  <2>1. /\ Event("lease.released", q.fence) \in EventRow /\ Event("lease.released", q.fence).kind = "lease.released"
        /\ Event("run.completed", q.fence) \in EventRow /\ Event("run.completed", q.fence).kind = "run.completed"
    BY <1>1, EventTyped DEF LeaseEvents
  <2>2. events'[x] = events[x] \o <<Event("lease.released", q.fence), Event("run.completed", q.fence)>>
    BY <1>1, <1>2, TablesTypedAt
  <2>3. QED
    BY <1>1, <2>1, <2>2, TablesTypedAt, TellsTwo DEF LeaseEvents
<1>4. run'[x] = [run[x] EXCEPT !.status = "completed", !.outcome = q.outcome, !.doneBy = q.op, !.version = run'[x].version]
  <2>1. Completed(run[x], q).status = "completed"
    BY <1>1, TablesTypedAt DEF Completed, RunRow
  <2>2. run'[x] = Completed(run[x], q)
    BY <1>1, <1>2, <2>1, TablesTypedAt DEF Detach
  <2>3. QED
    BY <1>1, <2>2, TablesTypedAt DEF Completed, RunRow
<1>5. EndsLease(x, "released") /\ \A z \in Runs \ {x} : LeaseKept(z)
  BY <1>1, <1>2, EndsActive
<1>6. Completes(s, x)
  BY <1>1, <1>3, <1>4, <1>5 DEF Completes
<1>7. Alone(x)
  BY <1>1, <1>2, <1>5, TablesTypedAt DEF Alone, TellsNothing
<1> HIDE DEF x
<1>8. QED
  BY <1>6, <1>7 DEF Alone, Untouched, x

LEMMA CompleteMoves == ASSUME RInv, NEW s \in Slots, CompleteCommit(s), NEW r \in Runs PROVE Moves(r)
  BY CompleteDoes DEF Moves

\* the batch that withdraws the run from its holder, and may close it
LEMMA RevokeMoves == ASSUME RInv, NEW s \in Slots, RevokeCommit(s), NEW r \in Runs PROVE Moves(r)
<1> DEFINE q == req[s]
           x == q.head.other
           f == q.head.otherFence
<1>1. CASE ~RevokesLease(q)
  <2>1. run' = run /\ lease' = lease /\ events' = events /\ promised' = promised
    BY <1>1 DEF RevokeCommit
  <2>2. QED
    BY <2>1, QuietMoves
<1>2. CASE RevokesLease(q)
  <2>1. x \in Runs /\ ActiveLease(x, f) /\ LInv /\ f \in Nat
    BY <1>2, RequestAt DEF RInv, RevokesLease, HeadRow
  <2>2. /\ run' = [run EXCEPT ![x] = Detach(run[x], f)] /\ lease' = [lease EXCEPT ![x][f].status = "revoked"]
        /\ promised' = promised /\ events' = [events EXCEPT ![x] = events[x] \o <<Event("lease.revoked", f)>>]
    BY <1>2, <2>1, TablesTypedAt DEF RevokeCommit, Log
  <2>3. Tells(x, "lease.revoked")
    <3>1. Event("lease.revoked", f) \in EventRow /\ Event("lease.revoked", f).kind = "lease.revoked"
      BY <2>1, EventTyped DEF LeaseEvents
    <3>2. QED
      BY <2>1, <2>2, <3>1, TablesTypedAt, TellsOne
  <2>4. EndsLease(x, "revoked") /\ run[x].status = "leased" /\ \A z \in Runs \ {x} : LeaseKept(z)
    BY ZenonT(60), <2>1, <2>2, EndsActive
  <2>5. run'[x] = Detach(run[x], f)
    BY <2>1, <2>2, TablesTypedAt
  <2>6. Withdraws(x)
    BY <2>1, <2>3, <2>4, <2>5, DetachFields DEF Withdraws, TermsKept
  <2>7. Alone(x)
    BY <2>1, <2>2, <2>4, TablesTypedAt DEF Alone, TellsNothing
  <2> HIDE DEF x
  <2>8. QED
    BY <2>1, <2>6, <2>7, AloneMoves DEF Moves
<1>3. QED
  BY <1>1, <1>2

LEMMA CanceledFields ==
  ASSUME NEW row \in RunRow, NEW status \in {"canceled", "leased"}
  PROVE  /\ Canceled(row, status).status = status /\ Canceled(row, status).cancel /\ Canceled(row, status).gen = row.gen
         /\ Canceled(row, status).lease = row.lease /\ Canceled(row, status).deadline = row.deadline
         /\ Canceled(row, status).outcome = row.outcome /\ Canceled(row, status).doneBy = row.doneBy
  BY DEF Canceled, RunRow

LEMMA CancelLiveMoves == ASSUME RInv, NEW s \in Slots, CancelCommit(s), NEW r \in Runs PROVE Moves(r)
<1> DEFINE q == req[s]
           x == q.run
           queued == q.head.status = "queued"
           status == IF queued THEN "canceled" ELSE "leased"
           kind == IF queued THEN "run.canceled" ELSE "run.cancel_requested"
<1>1. x \in Runs /\ LInv /\ q.head.status \in {"queued", "leased"} /\ run[x].status = q.head.status
  BY RequestAt DEF RInv, NamesRows, CancelCommit
<1>2. /\ run' = [run EXCEPT ![x] = Canceled(run[x], status)] /\ lease' = lease /\ promised' = promised
      /\ events' = [events EXCEPT ![x] = events[x] \o <<Event(kind, 0)>>]
  BY <1>1, TablesTypedAt DEF CancelCommit, Log
<1>3. kind \in {"run.canceled", "run.cancel_requested"} /\ status \in {"canceled", "leased"}
  OBVIOUS
<1>4. Tells(x, kind)
  <2> HIDE DEF kind
  <2>1. Event(kind, 0) \in EventRow /\ Event(kind, 0).kind = kind
    BY <1>3, EventTyped
  <2>2. QED
    BY <1>1, <1>2, <2>1, TablesTypedAt, TellsOne
<1>5. run'[x] = Canceled(run[x], status) /\ LeaseKept(x)
  BY <1>1, <1>2, TablesTypedAt DEF LeaseKept
<1>6. Marks(x) \/ Cancels(x)
  <2>1. TermsKept(x) /\ run'[x].status = status /\ run'[x].cancel /\ run'[x].lease = run[x].lease
    BY <1>1, <1>3, <1>5, TablesTypedAt, CanceledFields DEF TermsKept
  <2>2. QED
    BY <1>1, <1>4, <1>5, <2>1 DEF Marks, Cancels
<1>7. Alone(x)
  BY <1>1, <1>2, TablesTypedAt DEF Alone, LeaseKept, TellsNothing
<1> HIDE DEF x
<1>8. QED
  BY <1>1, <1>6, <1>7, AloneMoves DEF Moves

LEMMA CancelLateMoves ==
  ASSUME RInv, NEW s \in Slots, CancelExpiredCommit(s) \/ CancelExpiredMiss(s), NEW r \in Runs PROVE Moves(r)
<1> DEFINE q == req[s]
           x == q.run
           f == q.head.gen
<1>1. x \in Runs /\ LInv /\ q.at \in Nat /\ f \in Nat /\ promised' = promised
  BY RequestAt DEF RInv, NamesRows, CancelExpiredCommit, CancelExpiredMiss
<1>2. PICK t \in q.at..clock :
        /\ lease' = LeaseAfterRelease(q, t)
        /\ \/ /\ CancelExpiredMiss(s) /\ run' = [run EXCEPT ![x] = RunAfterRelease(q, t)] /\ events' = events
           \/ /\ CancelExpiredCommit(s) /\ run' = [run EXCEPT ![x] = Canceled(RunAfterRelease(q, t), "canceled")]
              /\ RunAfterRelease(q, t).status = "queued"
              /\ events' = [events EXCEPT ![x] = events[x] \o <<Event("lease.released", f), Event("run.canceled", 0)>>]
  BY <1>1, TablesTypedAt DEF CancelExpiredCommit, CancelExpiredMiss, CancelHits, Log
<1>3. t \in Nat /\ t <= clock
  BY <1>1, TablesTypedAt
<1>4. CancelExpiredCommit(s) /\ events' = [events EXCEPT ![x] = events[x] \o <<Event("lease.released", f), Event("run.canceled", 0)>>]
        => Tells(x, "run.canceled")
  <2>1. /\ Event("lease.released", f) \in EventRow /\ Event("lease.released", f).kind \in LeaseEvents
        /\ Event("run.canceled", 0) \in EventRow /\ Event("run.canceled", 0).kind = "run.canceled"
    BY <1>1, EventTyped DEF LeaseEvents
  <2> DEFINE first == Event("lease.released", f)
             event == Event("run.canceled", 0)
  <2>2. DOMAIN events = Runs /\ events[x] \in Seq(EventRow)
    BY <1>1, TablesTypedAt
  <2> HIDE DEF first, event, x
  <2>3. ASSUME events' = [events EXCEPT ![x] = events[x] \o <<first, event>>] PROVE Tells(x, event.kind)
    <3>1. events'[x] = events[x] \o <<first, event>>
      BY <1>1, <2>2, <2>3
    <3>2. QED
      BY <2>1, <2>2, <3>1, TellsTwo DEF first, event
  <2>4. QED
    BY <2>1, <2>3 DEF first, event
<1>5. CASE CancelReleases(q, t)
  <2>1. ActiveLease(x, f) /\ lease' = [lease EXCEPT ![x][f].status = "released"] /\ RunAfterRelease(q, t) = Detach(run[x], f)
    BY <1>2, <1>5 DEF CancelReleases, LeaseAfterRelease, RunAfterRelease
  <2>2. EndsLease(x, "released") /\ f = run[x].gen /\ run[x].status = "leased" /\ \A z \in Runs \ {x} : LeaseKept(z)
    BY ZenonT(60), <1>1, <2>1, EndsActive
  <2>3. RanOut(x)
    BY <1>3, <1>5, <2>2 DEF RanOut, CancelReleases, Expired
  <2>4. CASE CancelExpiredMiss(s) /\ run' = [run EXCEPT ![x] = Detach(run[x], f)] /\ events' = events
    <3>1. run'[x] = Detach(run[x], f) /\ TellsNothing(x)
      BY <1>1, <2>4, TablesTypedAt DEF TellsNothing
    <3>2. Withdraws(x)
      BY SMTT(60), <1>1, <2>1, <2>2, <2>3, <3>1, DetachFields DEF Withdraws, TermsKept
    <3>3. Alone(x)
      BY <1>1, <2>2, <2>4, TablesTypedAt DEF Alone, TellsNothing
    <3> HIDE DEF x
    <3>4. QED
      BY <1>1, <3>2, <3>3, AloneMoves DEF Moves
  <2>5. CASE /\ CancelExpiredCommit(s) /\ run' = [run EXCEPT ![x] = Canceled(Detach(run[x], f), "canceled")]
             /\ events' = [events EXCEPT ![x] = events[x] \o <<Event("lease.released", f), Event("run.canceled", 0)>>]
    <3>1. run'[x] = Canceled(Detach(run[x], f), "canceled") /\ Tells(x, "run.canceled")
      BY <1>1, <1>4, <2>5, TablesTypedAt
    <3>2. run'[x].status = "canceled" /\ run'[x].cancel /\ TermsKept(x)
      BY <1>1, <2>1, <3>1, DetachFields, CanceledFields DEF TermsKept
    <3>3. Cancels(x)
      BY <2>2, <2>3, <3>1, <3>2 DEF Cancels
    <3>4. Alone(x)
      BY <1>1, <2>2, <2>5, TablesTypedAt DEF Alone, TellsNothing
    <3> HIDE DEF x
    <3>5. QED
      BY <1>1, <3>3, <3>4, AloneMoves DEF Moves
  <2>6. QED
    BY <1>2, <2>1, <2>4, <2>5
<1>6. CASE ~CancelReleases(q, t)
  <2>1. lease' = lease /\ RunAfterRelease(q, t) = run[x]
    BY <1>2, <1>6 DEF LeaseAfterRelease, RunAfterRelease
  <2>2. CASE CancelExpiredMiss(s) /\ run' = [run EXCEPT ![x] = run[x]] /\ events' = events
    <3>1. run' = run
      BY <1>1, <2>2, TablesTypedAt
    <3>2. QED
      BY <1>1, <2>1, <2>2, <3>1, QuietMoves
  <2>3. CASE /\ CancelExpiredCommit(s) /\ run' = [run EXCEPT ![x] = Canceled(run[x], "canceled")]
             /\ run[x].status = "queued"
             /\ events' = [events EXCEPT ![x] = events[x] \o <<Event("lease.released", f), Event("run.canceled", 0)>>]
    <3>1. run'[x] = Canceled(run[x], "canceled") /\ Tells(x, "run.canceled") /\ LeaseKept(x)
      BY <1>1, <1>4, <2>1, <2>3, TablesTypedAt DEF LeaseKept
    <3>2. run'[x].status = "canceled" /\ run'[x].cancel /\ TermsKept(x)
      BY <1>1, <3>1, TablesTypedAt, CanceledFields DEF TermsKept
    <3>3. Cancels(x)
      BY <2>3, <3>1, <3>2 DEF Cancels
    <3>4. Alone(x)
      BY <1>1, <2>1, <2>3, TablesTypedAt DEF Alone, TellsNothing, LeaseKept
    <3> HIDE DEF x
    <3>5. QED
      BY <1>1, <3>3, <3>4, AloneMoves DEF Moves
  <2>4. QED
    BY <1>2, <2>1, <2>2, <2>3
<1>7. QED
  BY <1>5, <1>6

LEMMA ExpiredFields ==
  ASSUME NEW row \in RunRow
  PROVE  /\ ExpiredRow(row).status = "expired" /\ ExpiredRow(row).cancel = row.cancel /\ ExpiredRow(row).gen = row.gen
         /\ ExpiredRow(row).deadline = row.deadline /\ ExpiredRow(row).outcome = row.outcome
         /\ ExpiredRow(row).doneBy = row.doneBy
  BY DEF ExpiredRow, RunRow

LEMMA ExpireMoves == ASSUME RInv, NEW s \in Slots, ExpireCommit(s), NEW r \in Runs PROVE Moves(r)
<1> DEFINE q == req[s]
           x == q.run
           f == q.head.gen
           held == q.head.status = "leased"
           row == IF held THEN Detach(run[x], f) ELSE run[x]
<1>1. x \in Runs /\ LInv /\ ExpiryCommits(q)
  BY RequestAt, IdsAssumption DEF RInv, NamesRows, ExpireCommit
<1>2. /\ run' = [run EXCEPT ![x] = ExpiredRow(row)] /\ promised' = promised
      /\ events' = [events EXCEPT ![x] = events[x] \o <<Event("run.expired", 0)>>]
      /\ lease' = IF held THEN [lease EXCEPT ![x][f].status = "revoked"] ELSE lease
  BY <1>1, TablesTypedAt DEF ExpireCommit, Log
<1>3. Tells(x, "run.expired")
  BY ZenonT(60), <1>1, <1>2, TablesTypedAt, TellsOne, EventTyped
<1>4. run'[x] = ExpiredRow(row)
  BY <1>1, <1>2, TablesTypedAt
<1>5. CASE held
  <2>1. ActiveLease(x, f) /\ row = Detach(run[x], f) /\ lease' = [lease EXCEPT ![x][f].status = "revoked"]
    BY <1>1, <1>2, <1>5 DEF ExpiryCommits
  <2>2. EndsLease(x, "revoked") /\ run[x].status = "leased" /\ \A z \in Runs \ {x} : LeaseKept(z)
    <3>1. promised' = promised
      BY <1>2
    <3> HIDE DEF x, f, row, held
    <3>2. QED
      BY <1>1, <2>1, <3>1, EndsActive
  <2>3. run'[x].status = "expired" /\ run'[x].cancel = run[x].cancel /\ TermsKept(x)
    BY SMTT(60), <1>1, <1>4, <2>1, DetachFields, ExpiredFields DEF TermsKept
  <2>4. Expires(s, x)
    BY <1>3, <2>2, <2>3 DEF Expires
  <2>5. Alone(x)
    BY <1>1, <1>2, <2>2, TablesTypedAt DEF Alone, TellsNothing
  <2> HIDE DEF x
  <2>6. QED
    BY <1>1, <2>4, <2>5, AloneMoves DEF Moves
<1>6. CASE ~held
  <2>1. row = run[x] /\ run[x].status = "queued" /\ lease' = lease
    BY <1>1, <1>2, <1>6 DEF ExpiryCommits
  <2>2. run'[x].status = "expired" /\ run'[x].cancel = run[x].cancel /\ TermsKept(x)
    BY <1>1, <1>4, <2>1, TablesTypedAt, ExpiredFields DEF TermsKept
  <2>3. Expires(s, x)
    BY <1>2, <1>3, <2>1, <2>2 DEF Expires, LeaseKept
  <2>4. Alone(x)
    BY <1>1, <1>2, <2>1, TablesTypedAt DEF Alone, TellsNothing, LeaseKept
  <2> HIDE DEF x
  <2>5. QED
    BY <1>1, <2>3, <2>4, AloneMoves DEF Moves
<1>7. QED
  BY <1>5, <1>6


\* the batch that grants a lease: it takes the run from its holder, and from the
\* runner the run it held before
LEMMA ClaimDoes ==
  ASSUME RInv, NEW s \in Slots, ClaimCommit(s), NEW r \in Runs
  PROVE  IF r = req[s].run THEN Grants(s, r)
         ELSE IF ClaimsForeign(req[s]) /\ r = req[s].head.other THEN Withdraws(r)
         ELSE Untouched(r)
<1> DEFINE q == req[s]
           x == q.run
           g == q.head.gen
           f == g + 1
           y == q.head.other
           h == q.head.otherFence
           until == LeaseUntil(x, q.at)
<1>1. /\ x \in Runs /\ g \in Nat /\ h \in Nat /\ q.at \in Nat /\ LInv /\ ClaimCommits(q)
      /\ q.at <= clock /\ q.runner \in Runners
  BY RequestAt DEF RInv, NamesRows, ClaimCommit, HeadRow, Punctual
<1>2. /\ run' = RunsAfterClaim(q) /\ lease' = LeasesAfterClaim(q) /\ events' = EventsAfterClaim(q)
      /\ promised' = [promised EXCEPT ![x][f] = until]
  BY DEF ClaimCommit
<1>3. CASE r = x
  <2>1. /\ run'[x] = Attach(RunBeforeClaim(q), f)
        /\ lease'[x] = [e \in Fences(x) |-> IF e = f THEN GrantedLease(q)
                          ELSE IF <<x, e>> \in EndedByClaim(q) THEN Supersede(lease[x][e]) ELSE lease[x][e]]
        /\ promised'[x] = [promised[x] EXCEPT ![f] = until]
    BY <1>1, <1>2, TablesTypedAt DEF RunsAfterClaim, LeasesAfterClaim
  <2>2. CASE ClaimsOwn(q)
    <3>1. ActiveLease(x, g) /\ Expired(lease[x][g], q.at)
      BY <2>2 DEF ClaimsOwn, Supersedes
    <3>2. run[x].status = "leased" /\ run[x].gen = g /\ g \in Fences(x)
      BY <1>1, <3>1, ActiveIsCurrent
    <3>3. RunBeforeClaim(q) = Detach(run[x], g) /\ Detach(run[x], g) \in RunRow /\ Detach(run[x], g).gen = g
      BY <1>1, <2>2, <3>1, <3>2, DetachFields DEF RunBeforeClaim
    <3>4. RanOut(x)
      BY <1>1, <3>1, <3>2 DEF RanOut, Expired
    <3>5. f \in Fences(x) /\ f # g
      <4>1. g < MaxClaims[x] /\ MaxClaims[x] \in Nat
        BY <1>1, <3>3, Numbers DEF ClaimCommits
      <4>2. QED
        BY <1>1, <4>1 DEF Fences
    <3>6. \A e \in Fences(x) : <<x, e>> \in EndedByClaim(q) <=> e = g
      <4>1. \A e : <<x, e>> \in EndedByClaim(q) => ActiveLease(x, e)
        BY DEF EndedByClaim, ClaimsForeign, ClaimsOwn, Supersedes
      <4>2. <<x, g>> \in EndedByClaim(q)
        BY <2>2 DEF EndedByClaim
      <4>3. QED
        BY <1>1, <3>2, <4>1, <4>2, ActiveIsCurrent
    <3>7. lease'[x] = [[lease[x] EXCEPT ![g].status = "superseded"] EXCEPT ![f] = GrantedLease(q)]
      <4>1. lease[x] \in [Fences(x) -> LeaseRow]
        BY <1>1, TablesTypedAt
      <4>2. \A e \in Fences(x) : lease'[x][e] = IF e = f THEN GrantedLease(q)
              ELSE IF e = g THEN [lease[x][g] EXCEPT !.status = "superseded"] ELSE lease[x][e]
        BY <2>1, <3>6 DEF Supersede
      <4>3. lease'[x] = [e \in Fences(x) |-> lease'[x][e]]
        BY <2>1
      <4> DEFINE new == GrantedLease(q)  old == [lease[x][g] EXCEPT !.status = "superseded"]
                 both == [[lease[x] EXCEPT ![g] = old] EXCEPT ![f] = new]
      <4> HIDE DEF new, old, q
      <4>4. both = [e \in Fences(x) |-> IF e = f THEN new ELSE IF e = g THEN old ELSE lease[x][e]]
        BY <3>2, <3>5, <4>1
      <4>5. QED
        BY <4>2, <4>3, <4>4 DEF new, old, q
    <3>8. run'[x] = [run[x] EXCEPT !.status = "leased", !.gen = f, !.lease = f, !.version = run'[x].version]
      BY ZenonT(60), <1>1, <2>1, <3>2, <3>3, TablesTypedAt DEF Attach, Detach, RunRow
    <3>9. Tells(x, "lease.claimed")
      <4>1. events'[x] = Append(Append(events[x], Event("lease.superseded", g)), Event("lease.claimed", f))
        BY <1>1, <1>2, <2>2 DEF EventsAfterClaim
      <4>2. /\ Event("lease.superseded", g) \in EventRow /\ Event("lease.superseded", g).kind \in LeaseEvents
            /\ Event("lease.claimed", f) \in EventRow /\ Event("lease.claimed", f).kind = "lease.claimed"
        BY <1>1, EventTyped DEF LeaseEvents
      <4> DEFINE first == Event("lease.superseded", g)  event == Event("lease.claimed", f)
      <4>3. events[x] \in Seq(EventRow)
        BY <1>1, TablesTypedAt
      <4> HIDE DEF first, event, x
      <4>4. Tells(x, event.kind)
        BY <4>1, <4>2, <4>3, TellsTwo DEF first, event
      <4>5. QED
        BY <4>2, <4>4 DEF event
    <3>10. Grants(s, x)
      BY <1>1, <2>1, <3>1, <3>2, <3>4, <3>5, <3>7, <3>8, <3>9 DEF Grants
    <3>11. QED
      BY <1>3, <3>10
  <2>3. CASE ~ClaimsOwn(q)
    <3>1. run[x].status = "queued" /\ run[x].gen = g /\ RunBeforeClaim(q) = run[x]
      BY <1>1, <2>3 DEF ClaimCommits, RunBeforeClaim
    <3>2. f \in Fences(x)
      <4>1. g < MaxClaims[x] /\ MaxClaims[x] \in Nat
        BY <1>1, <3>1, Numbers DEF ClaimCommits
      <4>2. QED
        BY <1>1, <4>1 DEF Fences
    <3>3. \A e : <<x, e>> \notin EndedByClaim(q)
      <4>1. \A e : <<x, e>> \in EndedByClaim(q) => ActiveLease(x, e)
        BY DEF EndedByClaim, ClaimsForeign, ClaimsOwn, Supersedes
      <4>2. QED
        BY <1>1, <3>1, <4>1, ActiveIsCurrent
    <3>4. lease'[x] = [lease[x] EXCEPT ![f] = GrantedLease(q)]
      <4> DEFINE new == GrantedLease(q)
      <4>1. lease'[x] = [e \in Fences(x) |-> IF e = f THEN new ELSE lease[x][e]]
        BY <2>1, <3>3
      <4>2. lease[x] \in [Fences(x) -> LeaseRow]
        BY <1>1, TablesTypedAt
      <4> HIDE DEF new, q
      <4>3. QED
        BY <3>2, <4>1, <4>2 DEF new, q
    <3>5. run'[x] = [run[x] EXCEPT !.status = "leased", !.gen = f, !.lease = f, !.version = run'[x].version]
      BY <1>1, <2>1, <3>1, TablesTypedAt DEF Attach, RunRow
    <3>6. Tells(x, "lease.claimed")
      <4>1. events'[x] = Append(events[x], Event("lease.claimed", f))
        BY <1>1, <1>2, <2>3 DEF EventsAfterClaim
      <4>2. Event("lease.claimed", f) \in EventRow /\ Event("lease.claimed", f).kind = "lease.claimed"
        BY <1>1, EventTyped DEF LeaseEvents
      <4>3. QED
        BY <1>1, <4>1, <4>2, TablesTypedAt, TellsOne
    <3>7. Grants(s, x)
      BY <1>1, <2>1, <3>1, <3>2, <3>4, <3>5, <3>6 DEF Grants
    <3>8. QED
      BY <1>3, <3>7
  <2>4. QED
    BY <2>2, <2>3
<1>4. CASE r # x /\ ClaimsForeign(q) /\ r = y
  <2>1. ActiveLease(r, h) /\ Expired(lease[r][h], q.at)
    BY <1>4 DEF ClaimsForeign, Supersedes
  <2>2. run[r].status = "leased" /\ run[r].gen = h /\ h \in Fences(r)
    BY <1>1, <2>1, ActiveIsCurrent
  <2>3. run'[r] = Detach(run[r], h) /\ promised'[r] = promised[r]
    BY <1>1, <1>2, <1>4, TablesTypedAt DEF RunsAfterClaim
  <2>4. \A e \in Fences(r) : <<r, e>> \in EndedByClaim(q) <=> e = h
    BY <1>4, <2>1 DEF EndedByClaim
  <2>5. lease'[r] = [lease[r] EXCEPT ![h].status = "superseded"]
    <3> DEFINE old == [lease[r][h] EXCEPT !.status = "superseded"]
    <3>1. lease'[r] = [e \in Fences(r) |-> IF e = h THEN old ELSE lease[r][e]]
      BY <1>2, <1>4, <2>4 DEF LeasesAfterClaim, Supersede
    <3>2. lease[r] \in [Fences(r) -> LeaseRow]
      BY <1>1, TablesTypedAt
    <3> HIDE DEF old, h, q
    <3>3. lease'[r] = [lease[r] EXCEPT ![h] = old]
      BY <2>2, <3>1, <3>2
    <3>4. QED
      BY <3>3 DEF old
  <2>6. Tells(r, "lease.superseded")
    <3>1. events'[r] = Append(events[r], Event("lease.superseded", h))
      BY <1>2, <1>4 DEF EventsAfterClaim
    <3>2. Event("lease.superseded", h) \in EventRow /\ Event("lease.superseded", h).kind = "lease.superseded"
      BY <1>1, EventTyped DEF LeaseEvents
    <3>3. QED
      BY <1>1, <3>1, <3>2, TablesTypedAt, TellsOne
  <2>7. EndsLease(r, "superseded") /\ RanOut(r)
    BY <1>1, <2>1, <2>2, <2>3, <2>5 DEF EndsLease, RanOut, Expired
  <2>8. run'[r].status = "queued" /\ run'[r].cancel = run[r].cancel /\ TermsKept(r)
    BY <1>1, <2>1, <2>3, DetachFields DEF TermsKept
  <2>9. QED
    BY <1>4, <2>2, <2>6, <2>7, <2>8 DEF Withdraws
<1>5. CASE r # x /\ ~(ClaimsForeign(q) /\ r = y)
  <2>1. \A e : <<r, e>> \notin EndedByClaim(q)
    BY <1>5 DEF EndedByClaim
  <2>2. run'[r] = run[r] /\ events'[r] = events[r] /\ promised'[r] = promised[r]
    BY <1>1, <1>2, <1>5, TablesTypedAt DEF RunsAfterClaim, EventsAfterClaim
  <2>3. lease'[r] = lease[r]
    BY <1>1, <1>2, <1>5, <2>1, TablesTypedAt DEF LeasesAfterClaim
  <2>4. QED
    BY <1>5, <2>2, <2>3 DEF Untouched, LeaseKept, TellsNothing
<1>6. QED
  BY <1>3, <1>4, <1>5

LEMMA ClaimMoves == ASSUME RInv, NEW s \in Slots, ClaimCommit(s), NEW r \in Runs PROVE Moves(r)
  BY ClaimDoes DEF Moves

\* everything else leaves the rows of the runs alone
LEMMA QuietPromises ==
  ASSUME [Next]_vars,
         ~ \E s \in Slots :
             \/ ClaimCommit(s) \/ RevokeCommit(s) \/ RenewCommit(s) \/ RenewUnlogged(s)
             \/ CompleteCommit(s) \/ CreateCommit(s) \/ CancelCommit(s)
             \/ CancelExpiredCommit(s) \/ CancelExpiredMiss(s) \/ ExpireCommit(s)
  PROVE  promised' = promised /\ deadlineOps' = deadlineOps /\ ledger' = ledger
<1>1. ASSUME NEW s \in Slots, SlotStep(s)
      PROVE  promised' = promised /\ deadlineOps' = deadlineOps /\ ledger' = ledger
  BY <1>1 DEF SlotStep, StartReconcile, ReadDue, ExpireAbort, Read, Refuse, Abort, CancelSettled, rows
<1>2. ASSUME NEW s \in Slots, Ask(s) \/ Crash(s)
      PROVE  promised' = promised /\ deadlineOps' = deadlineOps /\ ledger' = ledger
  BY <1>2 DEF Ask, AskCreate, AskCancel, AskRevoke, Submit, Crash, rows
<1>3. CASE Tick \/ Cleanup \/ UNCHANGED vars \/ \E w \in Runners : NewReport(w)
  BY <1>3 DEF Tick, Cleanup, vars, NewReport, rows
<1>4. CASE \E w \in Runners, r \in Runs, n \in Nonces : \E q \in RunnerRequests(w, r, n) : Resubmit(q)
  BY <1>4 DEF Resubmit
<1>5. QED
  BY <1>1, <1>2, <1>3, <1>4 DEF Next

LEMMA RunMoves == ASSUME RInv, [Next]_vars, NEW r \in Runs PROVE Moves(r)
<1>1. CASE \E s \in Slots :
             \/ ClaimCommit(s) \/ RevokeCommit(s) \/ RenewCommit(s) \/ RenewUnlogged(s)
             \/ CompleteCommit(s) \/ CreateCommit(s) \/ CancelCommit(s)
             \/ CancelExpiredCommit(s) \/ CancelExpiredMiss(s) \/ ExpireCommit(s)
  BY <1>1, ClaimMoves, RevokeMoves, RenewMoves, CompleteMoves, CreateMoves, CancelLiveMoves,
     CancelLateMoves, ExpireMoves
<1>2. QED
  BY <1>1, QuietSteps, QuietPromises, QuietMoves

-----------------------------------------------------------------------------
(* What a step does to the request of a slot *)

\* a runner signs its requests now, and only about leases it was given
LEMMA RequestsSigned ==
  ASSUME NEW w, NEW r, NEW n, NEW q \in RunnerRequests(w, r, n)
  PROVE  /\ q.at = clock /\ q.phase = "open" /\ q.runner = w /\ q.run = r
         /\ q.kind \in {"claim", "renew", "complete"}
         /\ q.kind \in {"renew", "complete"} => lease[r][q.fence].runner = w
<1>1. PICK kind, f, o, out :
        /\ kind \in {"claim", "renew", "complete"}
        /\ q = RunnerRequest(kind, w, r, f, o, out, n)
        /\ kind \in {"renew", "complete"} => lease[r][f].runner = w
  BY DEF RunnerRequests
<1>2. QED
  BY <1>1 DEF RunnerRequest, Idle

ReqMoves(s) ==
  \/ req'[s] = req[s] \/ req'[s] = Idle
  \/ req[s].phase = "ready" /\ req'[s] = Again(req[s])
  \/ Read(s)
  \/ lease' = lease /\ req[s].phase = "idle"
     /\ \E w \in Runners, r \in Runs, n \in Nonces : req'[s] \in RunnerRequests(w, r, n)
  \/ req'[s].kind \in {"create", "cancel", "revoke", "expire"} /\ req'[s].at \in {clock, req[s].at}

LEMMA ReqFinishes ==
  ASSUME DOMAIN req = Slots, NEW s \in Slots, req[s].phase = "ready", Finish(s) \/ Retry(s), NEW t \in Slots
  PROVE  ReqMoves(t)
  BY DEF ReqMoves, Finish, Retry

LEMMA ReqSteps ==
  ASSUME TInv, [Next]_vars, NEW t \in Slots PROVE ReqMoves(t)
<1>1. DOMAIN req = Slots /\ req[t] \in Request
  BY DEF TInv, TypeOK
<1>2. CASE req' = req
  BY <1>2 DEF ReqMoves
<1>3. ASSUME NEW s \in Slots,
             \/ ClaimCommit(s) \/ RevokeCommit(s) \/ RenewCommit(s) \/ RenewUnlogged(s)
             \/ CompleteCommit(s) \/ CreateCommit(s) \/ CancelCommit(s)
             \/ CancelExpiredCommit(s) \/ CancelExpiredMiss(s) \/ ExpireCommit(s) \/ Abort(s) \/ CancelSettled(s)
      PROVE ReqMoves(t)
  <2>1. req[s].phase = "ready" /\ (Finish(s) \/ Retry(s))
    BY <1>3 DEF ClaimCommit, RevokeCommit, RenewCommit, RenewUnlogged, CompleteCommit, CreateCommit,
                CancelCommit, CancelExpiredCommit, CancelExpiredMiss, ExpireCommit, Abort, CancelSettled
  <2>2. QED
    BY <1>1, <2>1, ReqFinishes
<1>4. ASSUME NEW s \in Slots, Refuse(s) \/ Crash(s) PROVE ReqMoves(t)
  BY <1>1, <1>4 DEF Refuse, Crash, Finish, ReqMoves
<1>5. ASSUME NEW s \in Slots, Read(s) PROVE ReqMoves(t)
  BY <1>1, <1>5 DEF Read, ReqMoves
<1>6. ASSUME NEW s \in Slots, StartReconcile(s) PROVE ReqMoves(t)
  BY <1>1, <1>6 DEF StartReconcile, Idle, ReqMoves
<1>7. ASSUME NEW s \in Slots, ReadDue(s) PROVE ReqMoves(t)
  <2>1. CASE t # s
    BY <1>1, <1>7, <2>1 DEF ReadDue, ReqMoves
  <2>2. CASE t = s
    <3>1. req'[s].kind = req[s].kind /\ req'[s].at = req[s].at /\ req[s].kind = "expire"
      BY <1>1, <1>7, <2>2 DEF ReadDue, Request
    <3>2. QED
      BY <2>2, <3>1 DEF ReqMoves
  <2>3. QED
    BY <2>1, <2>2
<1>8. ASSUME NEW s \in Slots, ExpireAbort(s) PROVE ReqMoves(t)
  <2>1. CASE t # s
    BY <1>1, <1>8, <2>1 DEF ExpireAbort, Finish, ReqMoves
  <2>2. CASE t = s
    <3>1. SameCandidate(req[s]).kind = req[s].kind /\ SameCandidate(req[s]).at = req[s].at
      BY <1>1, <2>2 DEF SameCandidate, Request
    <3>2. req'[s] = Idle \/ req'[s] = SameCandidate(req[s])
      BY <1>1, <1>8, <2>2 DEF ExpireAbort, Finish
    <3>3. QED
      BY <1>8, <2>2, <3>1, <3>2 DEF ReqMoves, ExpireAbort
  <2>3. QED
    BY <2>1, <2>2
<1>9. ASSUME NEW s \in Slots, \/ \E r \in Runs : AskCreate(s, r) \/ AskCancel(s, r)
                              \/ \E w \in Runners : AskRevoke(s, w)
      PROVE ReqMoves(t)
  <2>1. PICK kind, r, w :
          kind \in {"create", "cancel", "revoke"} /\ req' = [req EXCEPT ![s] = OwnerRequest(kind, r, w)]
    BY <1>9 DEF AskCreate, AskCancel, AskRevoke
  <2>2. OwnerRequest(kind, r, w).kind = kind /\ OwnerRequest(kind, r, w).at = clock
    BY DEF OwnerRequest, Idle
  <2>3. CASE t = s
    BY <1>1, <2>1, <2>2, <2>3 DEF ReqMoves
  <2>4. CASE t # s
    BY <1>1, <2>1, <2>4 DEF ReqMoves
  <2>5. QED
    BY <2>3, <2>4
<1>10. ASSUME NEW s \in Slots, NEW w \in Runners, NEW r \in Runs, NEW n \in Nonces,
              NEW q \in RunnerRequests(w, r, n), Submit(s, q)
       PROVE ReqMoves(t)
  BY <1>1, <1>10 DEF Submit, rows, ReqMoves
<1>11. CASE Tick \/ Cleanup \/ UNCHANGED vars \/ (\E w \in Runners : NewReport(w))
            \/ \E w \in Runners, r \in Runs, n \in Nonces : \E q \in RunnerRequests(w, r, n) : Resubmit(q)
  <2>1. req' = req
    BY <1>11 DEF Tick, Cleanup, vars, NewReport, Resubmit
  <2>2. QED
    BY <1>2, <2>1
<1>12. ASSUME NEW s \in Slots, SlotStep(s) PROVE ReqMoves(t)
  BY <1>3, <1>4, <1>5, <1>6, <1>7, <1>8, <1>12 DEF SlotStep
<1>13. ASSUME NEW s \in Slots, Ask(s) PROVE ReqMoves(t)
  BY <1>9, <1>10, <1>13 DEF Ask
<1>14. QED
  BY <1>4, <1>11, <1>12, <1>13 DEF Next

\* time never runs backwards, and an inventory that changes is a later one
LEMMA ClockAndReports ==
  ASSUME TInv, [Next]_vars
  PROVE  /\ clock \in Nat /\ clock' \in Nat /\ clock <= clock'
         /\ \A w \in Runners : /\ report[w].rev \in Nat /\ report'[w].rev \in Nat /\ report[w].rev <= report'[w].rev
                               /\ report'[w].rev = report[w].rev => report'[w] = report[w]
<1>1. clock \in Nat /\ report \in [Runners -> [rev : Nat, fit : BOOLEAN]]
  BY DEF TInv, TypeOK, TablesTyped
<1>2. CASE clock' = clock /\ report' = report
  BY <1>1, <1>2
<1>3. CASE Tick
  BY <1>1, <1>3 DEF Tick
<1>4. ASSUME NEW w \in Runners, NewReport(w)
      PROVE  /\ clock' = clock
             /\ \A v \in Runners : \/ report'[v] = report[v]
                                   \/ report'[v].rev = report[v].rev + 1
  BY <1>1, <1>4 DEF NewReport
<1>5. CASE \E w \in Runners : NewReport(w)
  <2>1. \A v \in Runners : report[v].rev \in Nat
    BY <1>1
  <2>2. QED
    BY <1>1, <1>4, <1>5, <2>1
<1>6. ASSUME NEW s \in Slots, Ask(s) \/ SlotStep(s) \/ Crash(s) PROVE clock' = clock /\ report' = report
  <2>1. CASE SlotStep(s)
    BY <2>1 DEF SlotStep, StartReconcile, ReadDue, ExpireAbort, Read, Refuse, Abort, CancelSettled, ClaimCommit,
                RevokeCommit, RenewCommit, RenewUnlogged, CompleteCommit, CreateCommit,
                CancelCommit, CancelExpiredCommit, CancelExpiredMiss, ExpireCommit
  <2>2. CASE Ask(s) \/ Crash(s)
    BY <2>2 DEF Ask, AskCreate, AskCancel, AskRevoke, Submit, Crash
  <2>3. QED
    BY <1>6, <2>1, <2>2
<1>7. CASE Cleanup \/ UNCHANGED vars
           \/ \E w \in Runners, r \in Runs, n \in Nonces : \E q \in RunnerRequests(w, r, n) : Resubmit(q)
  BY <1>2, <1>7 DEF Cleanup, Resubmit, vars
<1>8. QED
  BY <1>2, <1>3, <1>5, <1>6, <1>7 DEF Next

LEMMA StepPunctual == ASSUME TInv, Punctual, [Next]_vars PROVE Punctual'
<1>1. ASSUME NEW s \in Slots PROVE req'[s].at <= clock'
  <2>1. clock \in Nat /\ clock' \in Nat /\ clock <= clock' /\ req[s] \in Request /\ req[s].at \in Nat /\ req[s].at <= clock
    BY ClockAndReports DEF TInv, TypeOK, Request, Punctual
  <2>2. req'[s].at \in {0, clock, req[s].at}
    <3>1. CASE req'[s] = req[s] \/ req'[s] = Idle \/ req'[s].at \in {clock, req[s].at}
      BY <3>1 DEF Idle
    <3>2. CASE req'[s] = Again(req[s])
      BY <2>1, <3>2 DEF Again, Request
    <3>3. CASE Read(s)
      <4>1. req'[s].at \in {clock, req[s].at}
        BY <2>1, <3>3 DEF Read, Ready, Request, TInv, TypeOK
      <4>2. QED
        BY <4>1
    <3>4. CASE \E w \in Runners, r \in Runs, n \in Nonces : req'[s] \in RunnerRequests(w, r, n)
      <4>1. req'[s].at = clock
        BY <3>4, RequestsSigned
      <4>2. QED
        BY <4>1
    <3>5. QED
      BY <3>1, <3>2, <3>3, <3>4, ReqSteps DEF ReqMoves
  <2>3. QED
    BY <2>1, <2>2
<1>2. QED
  BY <1>1 DEF Punctual

-----------------------------------------------------------------------------
(* What a step does to the leases of a run, whatever moves it *)

OInv == /\ HInv /\ Punctual /\ BlankRows /\ RequestsReadWell
        /\ DeadlineRespected /\ CancelRespected /\ PromiseKept

LEMMA OInvAt ==
  ASSUME OInv PROVE TInv /\ LInv /\ RInv /\ HInv
  BY DEF OInv, HInv, LInv, RInv

\* the row of a lease that is there keeps its runner, and no lease is shortened
LeaseForward(r, f) ==
  /\ lease[r][f].expires <= lease'[r][f].expires
  /\ lease[r][f].status # "none" => lease'[r][f].runner = lease[r][f].runner /\ lease'[r][f].status # "none"
  /\ lease[r][f].status = "none" =>
       \/ lease'[r][f] = lease[r][f]
       \/ \E s \in Slots : Grants(s, r) /\ f = req[s].head.gen + 1 /\ lease'[r][f] = GrantedLease(req[s])

LEMMA EndForward ==
  ASSUME LInv, NEW r \in Runs, NEW f \in Fences(r), NEW status \in Ended, EndsLease(r, status)
  PROVE  LeaseForward(r, f)
<1>1. lease[r] \in [Fences(r) -> LeaseRow] /\ lease[r][run[r].gen].status = "active"
  BY TablesTypedAt DEF EndsLease, ActiveLease
<1>2. lease'[r][f] = lease[r][f] \/ /\ lease'[r][f].expires = lease[r][f].expires /\ lease'[r][f].status = status
                                    /\ lease'[r][f].runner = lease[r][f].runner /\ lease[r][f].status = "active"
  BY <1>1 DEF EndsLease, LeaseRow
<1>3. lease[r][f].expires <= lease[r][f].expires
  BY <1>1 DEF LeaseRow
<1>4. QED
  BY <1>2, <1>3 DEF LeaseForward, Ended

LEMMA LeasesForward ==
  ASSUME OInv, [Next]_vars, NEW r \in Runs, NEW f \in Fences(r) PROVE LeaseForward(r, f)
<1> USE OInvAt
<1>1. lease[r] \in [Fences(r) -> LeaseRow] /\ lease[r][f] \in LeaseRow /\ lease[r][f].expires \in Nat
  BY TablesTypedAt DEF LeaseRow
<1>2. CASE LeaseKept(r)
  BY <1>1, <1>2 DEF LeaseKept, LeaseForward
<1>3. CASE \E status \in Ended : EndsLease(r, status)
  BY <1>3, EndForward
<1>4. ASSUME NEW s \in Slots, Grants(s, r) PROVE LeaseForward(r, f)
  <2> DEFINE q == req[s]
             g == run[r].gen + 1
             new == GrantedLease(q)
  <2>1. q.run = r /\ q.head.gen = run[r].gen /\ g \in Fences(r) /\ run[r].gen \in Nat
    BY <1>4, TablesTypedAt DEF Grants
  <2>2. new.expires \in Nat /\ new.status = "active"
    BY <2>1, RequestAt, TablesTypedAt, LeaseUntilIsNat DEF GrantedLease
  <2>3. lease[r][g].status = "none"
    BY <2>1, TablesTypedAt DEF Agree
  <2>4. lease[r][g].expires = 0
    BY <2>1, <2>3 DEF OInv, BlankRows, NoLease
  <2>5. CASE f = g
    <3>1. lease'[r][f] = new
      BY <1>1, <1>4, <2>1, <2>5 DEF Grants
    <3>2. lease[r][f].expires <= lease'[r][f].expires
      BY <2>2, <2>4, <2>5, <3>1
    <3>3. QED
      BY <1>4, <2>1, <2>3, <2>5, <3>1, <3>2 DEF LeaseForward
  <2>6. CASE f # g
    <3>1. lease'[r][f] = lease[r][f] \/ /\ lease'[r][f] = [lease[r][f] EXCEPT !.status = "superseded"]
                                        /\ lease[r][f].status = "active"
      BY <1>1, <1>4, <2>6 DEF Grants, ActiveLease
    <3>2. QED
      BY <1>1, <3>1 DEF LeaseForward, LeaseRow
  <2>7. QED
    BY <2>5, <2>6
<1>5. ASSUME NEW s \in Slots, Renews(s, r) PROVE LeaseForward(r, f)
  <2> DEFINE q == req[s]
             until == LeaseUntil(r, q.at)
             old == lease[r][q.fence]
  <2>1. old \in LeaseRow /\ old.status = "active" /\ q.fence \in Fences(r) /\ old.expires <= until
    BY <1>1, <1>5 DEF Renews, ActiveLease
  <2>2. Renewed(old, until).expires = until /\ Renewed(old, until).runner = old.runner /\ Renewed(old, until).status = old.status
    BY <2>1 DEF Renewed, LeaseRow
  <2>3. lease'[r][f] = lease[r][f] \/ (f = q.fence /\ lease'[r][f] = Renewed(old, until))
    <3>1. lease'[r] = [lease[r] EXCEPT ![q.fence] = Renewed(old, until)]
      BY <1>5 DEF Renews
    <3> HIDE DEF old, until, q
    <3>2. QED
      BY <1>1, <3>1
  <2>4. QED
    BY <1>1, <2>1, <2>2, <2>3 DEF LeaseForward
<1>6. Moves(r)
  BY RunMoves
<1>7. QED
  BY <1>2, <1>3, <1>4, <1>5, <1>6 DEF Moves, Untouched, Withdraws, Marks, Cancels, Creates, Expires, Completes, Ended

\* events only grow, and a run is asked to cancel in an event
LEMMA EventsForward ==
  ASSUME OInv, [Next]_vars, NEW r \in Runs
  PROVE  /\ events[r] \in Seq(EventRow) /\ \E more \in Seq(EventRow) : events'[r] = events[r] \o more
         /\ Len(events[r]) \in Nat /\ Len(events'[r]) \in Nat /\ Len(events[r]) <= Len(events'[r])
         /\ Len(events'[r]) = Len(events[r]) => run'[r].cancel = run[r].cancel /\ events'[r] = events[r]
<1> USE OInvAt
<1>1. Moves(r) /\ events[r] \in Seq(EventRow) /\ run[r] \in RunRow
  BY RunMoves, TablesTypedAt
<1>2. CASE TellsNothing(r)
  <2>1. run'[r].cancel = run[r].cancel
    BY <1>1, <1>2, TellsSomething DEF Moves, Untouched, Withdraws, Marks, Cancels, Creates, Grants, Renews, Expires, Completes
  <2>2. <<>> \in Seq(EventRow) /\ events[r] \o <<>> = events[r]
    BY <1>1
  <2>3. \E more \in Seq(EventRow) : events'[r] = events[r] \o more
    BY <1>2, <2>2 DEF TellsNothing
  <2>4. Len(events[r]) \in Nat /\ Len(events'[r]) = Len(events[r])
    BY <1>1, <1>2, LenProperties DEF TellsNothing
  <2>5. Len(events[r]) <= Len(events'[r])
    BY <2>4
  <2>6. QED
    BY <1>1, <1>2, <2>1, <2>3, <2>4, <2>5 DEF TellsNothing
<1>3. ASSUME NEW kind, Tells(r, kind)
      PROVE  \E more \in Seq(EventRow) : /\ events'[r] = events[r] \o more
                                         /\ Len(events[r]) < Len(events'[r]) /\ Len(events'[r]) \in Nat
  BY <1>1, <1>3, TellsSomething
<1>4. TellsNothing(r) \/ \E kind : Tells(r, kind)
  BY <1>1 DEF Moves, Untouched, Withdraws, Marks, Cancels, Creates, Grants, Renews, Expires, Completes
<1>5. CASE \E kind : Tells(r, kind)
  <2>1. PICK more \in Seq(EventRow) : /\ events'[r] = events[r] \o more
                                      /\ Len(events[r]) < Len(events'[r]) /\ Len(events'[r]) \in Nat
    BY <1>3, <1>5
  <2>2. Len(events[r]) \in Nat
    BY <1>1, LenProperties
  <2>3. Len(events[r]) <= Len(events'[r]) /\ Len(events'[r]) # Len(events[r])
    BY <2>1, <2>2
  <2>4. QED
    BY <1>1, <2>1, <2>2, <2>3
<1>6. QED
  BY <1>2, <1>4, <1>5

-----------------------------------------------------------------------------
(* What a request read stays so, or a number it read has moved on *)

LEMMA RunnerStays ==
  ASSUME OInv, [Next]_vars, NEW r \in Runs, NEW f \in Fences(r), NEW w \in Runners, lease[r][f].runner = w
  PROVE  lease'[r][f].runner = w
<1>1. lease[r][f].status # "none"
  BY IdsAssumption DEF OInv, BlankRows, NoLease
<1>2. QED
  BY <1>1, LeasesForward DEF LeaseForward

LEMMA StaysReadWell ==
  ASSUME OInv, [Next]_vars, NEW s \in Slots, req'[s] = req[s] PROVE ReadWell(req[s])'
<1> USE OInvAt
<1> DEFINE q == req[s]
<1>1. ReadWell(q) /\ NamesRows(q) /\ q \in Request /\ q.head \in HeadRow
  BY RequestAt DEF OInv, RequestsReadWell
<1>2. ASSUME NEW r \in Runs, NEW f \in Fences(r), NEW w \in Runners, lease[r][f].runner = w
      PROVE  lease'[r][f].runner = w
  BY <1>2, RunnerStays
<1>3. CASE q.kind \in {"renew", "complete"}
  <2>1. q.run \in Runs /\ q.fence \in Fences(q.run) /\ q.runner \in Runners /\ lease[q.run][q.fence].runner = q.runner
    BY <1>1, <1>3 DEF NamesRows, ReadWell
  <2>2. lease'[q.run][q.fence].runner = q.runner
    BY <1>2, <2>1
  <2>3. ASSUME q.kind = "complete", q.phase = "ready"
        PROVE  /\ q.head.seq <= Len(events'[q.run])
               /\ q.run \notin EngineRuns /\ run'[q.run].cancel /\ q.head.seq = Len(events'[q.run]) => q.outcome = "canceled"
    <3>1. /\ Len(events[q.run]) \in Nat /\ Len(events'[q.run]) \in Nat /\ Len(events[q.run]) <= Len(events'[q.run])
          /\ Len(events'[q.run]) = Len(events[q.run]) => run'[q.run].cancel = run[q.run].cancel
      BY <2>1, EventsForward
    <3>2. q.head.seq <= Len(events[q.run]) /\ q.head.seq \in Nat
      BY <1>1, <2>3 DEF ReadWell, HeadRow
    <3>3. q.head.seq <= Len(events'[q.run])
      BY <3>1, <3>2
    <3>4. q.head.seq = Len(events'[q.run]) => Len(events'[q.run]) = Len(events[q.run])
      BY <3>1, <3>2
    <3>5. QED
      BY <1>1, <2>3, <3>1, <3>3, <3>4 DEF ReadWell
  <2>4. QED
    BY <1>3, <2>2, <2>3 DEF ReadWell
<1>4. CASE q.kind = "claim" /\ q.phase = "ready"
  <2>1. q.run \in Runs /\ q.runner \in Runners /\ q.head.rev \in Nat
    BY <1>1, <1>4 DEF NamesRows, HeadRow
  <2>2. /\ report[q.runner].rev \in Nat /\ report'[q.runner].rev \in Nat /\ report[q.runner].rev <= report'[q.runner].rev
        /\ report'[q.runner].rev = report[q.runner].rev => report'[q.runner] = report[q.runner]
    BY <2>1, ClockAndReports
  <2>3. q.head.rev <= report[q.runner].rev
    BY <1>1, <1>4 DEF ReadWell
  <2>4. q.head.rev <= report'[q.runner].rev
    BY <2>1, <2>2, <2>3
  <2>5. q.head.rev = report'[q.runner].rev => report'[q.runner].rev = report[q.runner].rev
    BY <2>1, <2>2, <2>3
  <2>6. q.run \in EngineRuns /\ q.head.rev = report'[q.runner].rev => report'[q.runner].fit
    BY <1>1, <1>4, <2>2, <2>5 DEF ReadWell
  <2>7. q.head.other # None =>
            /\ q.head.otherFence \in Fences(q.head.other)
            /\ lease'[q.head.other][q.head.otherFence].runner = q.runner
    BY <1>1, <1>2, <1>4, <2>1 DEF ReadWell, HeadRow
  <2>8. QED
    BY <1>4, <2>4, <2>6, <2>7 DEF ReadWell
<1>5. QED
  BY <1>3, <1>4 DEF ReadWell

LEMMA ReadsWell ==
  ASSUME OInv, NEW s \in Slots, Read(s) PROVE ReadWell(req[s])'
<1> USE OInvAt
<1> DEFINE q == req[s]
           t == IF q.kind = "cancel" THEN clock ELSE q.at
           h == HeadOf(q)
<1>1. /\ q \in Request /\ NamesRows(q) /\ q.phase = "open" /\ Admits(q) /\ ReadWell(q)
      /\ req'[s] = Ready(q, h, t)
      /\ run' = run /\ lease' = lease /\ events' = events /\ report' = report
  BY RequestAt DEF Read, rows, OInv, RequestsReadWell, TInv, TypeOK
<1>2. ASSUME NEW head
      PROVE  LET p == Ready(q, head, t) IN
             /\ p.kind = q.kind /\ p.phase = "ready" /\ p.run = q.run /\ p.runner = q.runner /\ p.fence = q.fence
             /\ p.outcome = q.outcome /\ p.head = head
  BY <1>1 DEF Ready, Request
<1> DEFINE p == req'[s]
<1>3. /\ p.kind = q.kind /\ p.phase = "ready" /\ p.run = q.run /\ p.runner = q.runner /\ p.fence = q.fence
      /\ p.outcome = q.outcome /\ p.head = h
  BY <1>1, <1>2
<1> HIDE DEF t
<1>4. CASE q.kind \in {"renew", "complete"}
  <2>1. q.run \in Runs /\ lease[q.run][q.fence].runner = q.runner
    BY <1>1, <1>4 DEF NamesRows, ReadWell
  <2>2. CASE q.kind = "complete"
    <3>1. h = CompletionHead(q) /\ AdmitsCompletion(q)
      BY <1>1, <2>2 DEF HeadOf, Admits
    <3>2. h.seq = Len(events[q.run]) /\ (q.run \notin EngineRuns /\ run[q.run].cancel => q.outcome = "canceled")
      BY <3>1 DEF CompletionHead, NoHead, AdmitsCompletion, IsEngine
    <3>3. Len(events[q.run]) \in Nat
      BY <2>1, TablesTypedAt, LenProperties
    <3>4. h.seq <= Len(events[q.run])
      BY <3>2, <3>3
    <3> HIDE DEF h
    <3>5. QED
      BY <1>1, <1>3, <2>1, <2>2, <3>2, <3>4 DEF ReadWell
  <2>3. CASE q.kind = "renew"
    <3> HIDE DEF h
    <3>1. QED
      BY <1>1, <1>3, <2>1, <2>3 DEF ReadWell
  <2>4. QED
    BY <1>4, <2>2, <2>3
<1>5. CASE q.kind = "claim"
  <2>1. q.run \in Runs /\ q.runner \in Runners /\ h = ClaimHead(q) /\ AdmitsClaim(q)
    BY <1>1, <1>5 DEF NamesRows, HeadOf, Admits
  <2> DEFINE foreign == {x \in LeasesOf(q.runner) : x[1] # q.run}
             y == CHOOSE x \in foreign : TRUE
             head == [NoHead EXCEPT !.seq = Len(events[q.run]), !.gen = run[q.run].gen,
                             !.status = run[q.run].status, !.rev = report[q.runner].rev]
  <2>2. head.rev = report[q.runner].rev /\ head.other = None
    BY DEF NoHead
  <2>3. h = IF foreign = {} THEN head ELSE [head EXCEPT !.other = y[1], !.otherFence = y[2],
                                                        !.otherSeq = Len(events[y[1]])]
    BY <2>1 DEF ClaimHead
  <2>4. foreign # {} => y[1] \in Runs /\ y[2] \in Fences(y[1]) /\ lease[y[1]][y[2]].runner = q.runner
    <3>1. foreign # {} => y \in LeasesOf(q.runner)
      OBVIOUS
    <3>2. QED
      BY <3>1, LeasesOfTyped
  <2>5. \/ h = head
        \/ foreign # {} /\ h.rev = head.rev /\ h.other = y[1] /\ h.otherFence = y[2]
    BY <2>3 DEF NoHead
  <2> HIDE DEF head, y, foreign, h
  <2>6. h.rev = report[q.runner].rev
    BY <2>2, <2>5
  <2>7. h.other # None => h.otherFence \in Fences(h.other) /\ lease[h.other][h.otherFence].runner = q.runner
    BY <2>2, <2>4, <2>5
  <2>8. q.run \in EngineRuns => report[q.runner].fit
    BY <2>1 DEF AdmitsClaim, IsEngine
  <2>9. h.rev <= report[q.runner].rev
    <3>1. report[q.runner].rev \in Nat
      BY <2>1 DEF TInv, TypeOK, TablesTyped
    <3>2. QED
      BY <2>6, <3>1
  <2>10. QED
    BY <1>1, <1>3, <1>5, <2>6, <2>7, <2>8, <2>9 DEF ReadWell
<1>6. CASE q.kind \notin {"claim", "renew", "complete"}
  <2> HIDE DEF h
  <2>1. QED
    BY <1>3, <1>6 DEF ReadWell
<1>7. QED
  BY <1>4, <1>5, <1>6

LEMMA StepReadsWell ==
  ASSUME OInv, [Next]_vars PROVE RequestsReadWell'
<1> USE OInvAt
<1>1. ASSUME NEW s \in Slots PROVE ReadWell(req[s])'
  <2> DEFINE q == req[s]
             p == req'[s]
  <2>1. q \in Request /\ NamesRows(q) /\ ReadWell(q)
    BY RequestAt DEF OInv, RequestsReadWell
  <2>2. CASE p = q
    BY <2>2, StaysReadWell
  <2>3. CASE p.kind \notin {"claim", "renew", "complete"}
    BY <2>3 DEF ReadWell
  <2>4. CASE q.phase = "ready" /\ p = Again(q)
    <3>1. p.kind = q.kind /\ p.phase = "open" /\ p.run = q.run /\ p.fence = q.fence /\ p.runner = q.runner
      BY <2>1, <2>4 DEF Again, Request
    <3>2. CASE q.kind \in {"renew", "complete"}
      <4>1. q.run \in Runs /\ q.fence \in Fences(q.run) /\ q.runner \in Runners /\ lease[q.run][q.fence].runner = q.runner
        BY <2>1, <3>2 DEF NamesRows, ReadWell
      <4>2. lease'[q.run][q.fence].runner = q.runner
        BY <4>1, RunnerStays
      <4>3. QED
        BY <3>1, <4>2 DEF ReadWell
    <3>3. QED
      BY <3>1, <3>2 DEF ReadWell
  <2>5. CASE Read(s)
    BY <2>5, ReadsWell
  <2>6. CASE lease' = lease /\ \E w \in Runners, r \in Runs, n \in Nonces : p \in RunnerRequests(w, r, n)
    <3>1. /\ p.phase = "open" /\ lease' = lease
          /\ p.kind \in {"renew", "complete"} => lease[p.run][p.fence].runner = p.runner
      BY <2>6, RequestsSigned
    <3>2. QED
      BY <3>1 DEF ReadWell
  <2>7. CASE p = Idle \/ p.kind \in {"create", "cancel", "revoke", "expire"}
    <3>1. p.kind \notin {"claim", "renew", "complete"}
      BY <2>7 DEF Idle
    <3>2. QED
      BY <2>3, <3>1
  <2>8. QED
    BY <2>2, <2>4, <2>5, <2>6, <2>7, ReqSteps DEF ReqMoves
<1>2. QED
  BY <1>1 DEF RequestsReadWell

-----------------------------------------------------------------------------
(* What the step makes of the outcome of one run *)

\* BlankRows, CancelRespected, DeadlineRespected and PromiseKept at one run
BlankAt(r) ==
  /\ run[r].status = "absent" => run[r] = NoRun
  /\ \A f \in Fences(r) :
       /\ lease[r][f].status = "none" => lease[r][f] = NoLease
       /\ lease[r][f].status # "none" => lease[r][f].runner \in Runners
CancelAt(r) ==
  r \notin EngineRuns /\ run[r].cancel /\ run[r].status = "completed" => run[r].outcome = "canceled"
LeasesEndInTime(r) == \A f \in Fences(r) : lease[r][f].expires <= run[r].deadline
PromiseAt(r, f) ==
  /\ promised[r][f] <= lease[r][f].expires
  /\ \/ lease[r][f].status = "superseded"
     \/ lease[r][f].status = "released" /\ run[r].status # "completed"
     => promised[r][f] <= clock

LEMMA BlankStep ==
  ASSUME OInv, [Next]_vars, NEW r \in Runs PROVE BlankAt(r)'
<1> USE OInvAt
<1>1. Moves(r) /\ BlankAt(r)
  BY RunMoves DEF OInv, BlankRows, BlankAt
<1>2. run'[r].status = "absent" => run'[r] = NoRun
  <2>1. CASE run'[r] = run[r]
    BY <1>1, <2>1 DEF BlankAt
  <2>2. ASSUME NEW s \in Slots, Grants(s, r) \/ Completes(s, r) \/ Creates(s, r) PROVE run'[r].status # "absent"
    <3>1. run[r] \in RunRow
      BY TablesTypedAt
    <3>2. QED
      BY <2>2, <3>1 DEF Grants, Completes, Creates, NoRun, RunRow
  <2>3. QED
    BY <1>1, <2>1, <2>2 DEF Moves, Untouched, Withdraws, Marks, Cancels, Renews, Expires
<1>3. ASSUME NEW f \in Fences(r)
      PROVE  /\ lease'[r][f].status = "none" => lease'[r][f] = NoLease
             /\ lease'[r][f].status # "none" => lease'[r][f].runner \in Runners
  <2>1. CASE lease[r][f].status # "none"
    BY <1>1, <2>1, LeasesForward DEF LeaseForward, BlankAt
  <2>2. CASE lease'[r][f] = lease[r][f]
    BY <1>1, <2>2 DEF BlankAt
  <2>3. ASSUME NEW s \in Slots, Grants(s, r), lease'[r][f] = GrantedLease(req[s])
        PROVE  lease'[r][f].status = "active" /\ lease'[r][f].runner \in Runners
    BY <2>3, RequestAt DEF Grants, ClaimCommit, NamesRows, GrantedLease
  <2>4. QED
    BY <2>1, <2>2, <2>3, LeasesForward DEF LeaseForward
<1>4. QED
  BY <1>2, <1>3 DEF BlankAt

\* a completion that commits after a cancellation says so: it read the cancellation,
\* or its event takes a number the cancellation's took
LEMMA CancelStep ==
  ASSUME OInv, [Next]_vars, NEW r \in Runs PROVE CancelAt(r)'
<1> USE OInvAt
<1>1. Moves(r) /\ CancelAt(r) /\ run[r] \in RunRow
  BY RunMoves, TablesTypedAt DEF OInv, CancelRespected, CancelAt
<1>2. ASSUME NEW s \in Slots, Completes(s, r) PROVE CancelAt(r)'
  <2> DEFINE q == req[s]
  <2>1. q.run = r /\ q.phase = "ready" /\ q.kind = "complete" /\ q.head.seq = Len(events[r]) /\ ReadWell(q)
    BY <1>2 DEF Completes, CompleteCommit, CompletionCommits, SeqFresh, OInv, RequestsReadWell
  <2>2. r \notin EngineRuns /\ run[r].cancel => q.outcome = "canceled"
    BY <2>1 DEF ReadWell
  <2>3. run'[r].cancel = run[r].cancel /\ run'[r].outcome = q.outcome
    BY <1>1, <1>2 DEF Completes, RunRow
  <2>4. QED
    BY <2>2, <2>3 DEF CancelAt
<1>3. ASSUME NEW s \in Slots, Grants(s, r) \/ Creates(s, r) PROVE run'[r].status # "completed"
  BY <1>1, <1>3 DEF Grants, Creates, NoRun, RunRow
<1>4. CASE run'[r] = run[r]
  BY <1>1, <1>4 DEF CancelAt
<1>5. CASE run'[r].status # "completed"
  BY <1>5 DEF CancelAt
<1>6. QED
  BY <1>1, <1>2, <1>3, <1>4, <1>5 DEF Moves, Untouched, Withdraws, Marks, Cancels, Renews, Expires

\* only an expiry records that a deadline took effect, on the run it closes
LEMMA DeadlineOpsStep ==
  ASSUME OInv, [Next]_vars, NEW r \in Runs
  PROVE  /\ r \in deadlineOps => r \in deadlineOps'
         /\ r \in deadlineOps' /\ r \notin deadlineOps =>
              run'[r].status = "expired" /\ r \in EngineRuns /\ run[r].deadline <= clock
         /\ \A s \in Slots : ExpireCommit(s) /\ req[s].run = r => r \in deadlineOps'
<1> USE OInvAt
<1>1. ASSUME NEW s \in Slots, ExpireCommit(s)
      PROVE  /\ deadlineOps' = deadlineOps \cup {req[s].run} /\ req[s].run \in EngineRuns
             /\ run'[req[s].run].status = "expired" /\ run[req[s].run].deadline <= clock
  <2> DEFINE q == req[s]
             x == q.run
  <2>1. /\ x \in EngineRuns /\ x \in Runs /\ ExpiryCommits(q) /\ q.at \in Nat /\ q.at <= clock /\ clock \in Nat
        /\ run[x].deadline \in Nat
    BY <1>1, RequestAt, TablesTypedAt, IdsAssumption DEF ExpireCommit, NamesRows, OInv, Punctual
  <2>2. run[x].deadline <= clock
    BY <2>1 DEF ExpiryCommits
  <2>3. run'[x] = ExpiredRow(IF q.head.status = "leased" THEN Detach(run[x], q.head.gen) ELSE run[x])
    BY <1>1, <2>1, TablesTypedAt DEF ExpireCommit
  <2>4. (IF q.head.status = "leased" THEN Detach(run[x], q.head.gen) ELSE run[x]) \in RunRow
    BY <2>1, TablesTypedAt, DetachTyped
  <2>5. run'[x].status = "expired"
    BY <2>3, <2>4, ExpiredFields
  <2>6. QED
    BY <1>1, <2>1, <2>2, <2>5 DEF ExpireCommit
<1>2. ASSUME NEW s \in Slots,
             \/ ClaimCommit(s) \/ RevokeCommit(s) \/ RenewCommit(s) \/ RenewUnlogged(s)
             \/ CompleteCommit(s) \/ CreateCommit(s) \/ CancelCommit(s)
             \/ CancelExpiredCommit(s) \/ CancelExpiredMiss(s)
      PROVE  deadlineOps' = deadlineOps
  BY <1>2 DEF ClaimCommit, RevokeCommit, RenewCommit, RenewUnlogged, CompleteCommit, CreateCommit, CancelCommit,
              CancelExpiredCommit, CancelExpiredMiss
<1>3. deadlineOps' = deadlineOps \/ \E s \in Slots : ExpireCommit(s)
  BY <1>2, QuietPromises
<1>4. QED
  BY <1>1, <1>3

DeadlineAt(r) ==
  /\ run[r].status = "expired" <=> r \in deadlineOps
  /\ r \in deadlineOps => r \in EngineRuns /\ run[r].deadline <= clock

LEMMA DeadlineStep ==
  ASSUME OInv, [Next]_vars, NEW r \in Runs PROVE DeadlineAt(r)'
<1> USE OInvAt
<1>1. Moves(r) /\ DeadlineAt(r) /\ run[r] \in RunRow /\ run[r].deadline \in Nat
  BY RunMoves, TablesTypedAt DEF OInv, DeadlineRespected, DeadlineAt, IsEngine
<1>2. clock \in Nat /\ clock' \in Nat /\ clock <= clock'
  BY ClockAndReports
<1>3. run'[r].deadline = run[r].deadline \/ run[r].status = "absent"
  BY <1>1 DEF Moves, Untouched, Withdraws, Marks, Cancels, Creates, Grants, Renews, Expires, Completes, TermsKept, RunRow
<1>4. CASE \E s \in Slots : Creates(s, r)
  <2>1. run'[r].status = "queued" /\ run[r].status = "absent"
    BY <1>4 DEF Creates, NoRun
  <2>2. r \notin deadlineOps'
    BY <1>1, <2>1, DeadlineOpsStep DEF DeadlineAt
  <2>3. QED
    BY <2>1, <2>2 DEF DeadlineAt
<1>5. CASE \E s \in Slots : Expires(s, r)
  <2>1. r \in deadlineOps' /\ run'[r].status = "expired" /\ run'[r].deadline = run[r].deadline
    BY <1>5, DeadlineOpsStep DEF Expires, TermsKept
  <2>2. r \in EngineRuns /\ run[r].deadline <= clock
    BY <1>1, <2>1, DeadlineOpsStep DEF DeadlineAt
  <2>3. run[r].deadline <= clock'
    BY <1>1, <1>2, <2>2
  <2>4. QED
    BY <2>1, <2>2, <2>3 DEF DeadlineAt
<1>6. CASE run'[r] = run[r]
  <2>1. r \in deadlineOps' <=> r \in deadlineOps
    BY <1>1, <1>6, DeadlineOpsStep DEF DeadlineAt
  <2>2. r \in deadlineOps => run[r].deadline <= clock'
    BY <1>1, <1>2 DEF DeadlineAt
  <2>3. QED
    BY <1>1, <1>6, <2>1, <2>2 DEF DeadlineAt
<1>7. CASE run'[r].status # "expired" /\ run[r].status # "expired"
  <2>1. r \notin deadlineOps'
    BY <1>1, <1>7, DeadlineOpsStep DEF DeadlineAt
  <2>2. QED
    BY <1>7, <2>1 DEF DeadlineAt
<1>8. ASSUME NEW s \in Slots, Grants(s, r) \/ Completes(s, r) PROVE run'[r].status # "expired" /\ run[r].status # "expired"
  BY <1>1, <1>8 DEF Grants, Completes, RunRow
<1>9. QED
  BY <1>1, <1>4, <1>5, <1>6, <1>7, <1>8 DEF Moves, Untouched, Withdraws, Marks, Cancels, Renews

\* a lease never outlives the deadline of its run
LEMMA LeasesEndStep ==
  ASSUME OInv, [Next]_vars, NEW r \in Runs PROVE LeasesEndInTime(r)'
<1> USE OInvAt
<1>1. Moves(r) /\ LeasesEndInTime(r) /\ run[r] \in RunRow /\ run[r].deadline \in Nat /\ lease[r] \in [Fences(r) -> LeaseRow]
  BY RunMoves, TablesTypedAt DEF OInv, DeadlineRespected, LeasesEndInTime
<1>2. ASSUME NEW s \in Slots, req[s].run = r
      PROVE  LeaseUntil(r, req[s].at) <= run[r].deadline /\ LeaseUntil(r, req[s].at) \in Nat
  <2>1. req[s].at + LeaseTtl \in Nat
    BY RequestAt, Numbers
  <2>2. QED
    BY <1>1, <2>1 DEF LeaseUntil, Earlier
<1>3. CASE \E s \in Slots : Creates(s, r)
  <2>1. PICK s \in Slots : Creates(s, r)
    BY <1>3
  <2>2. ASSUME NEW f \in Fences(r) PROVE lease'[r][f].expires = 0
    <3>1. lease'[r][f] = lease[r][f] /\ run[r].status = "absent"
      BY <2>1 DEF Creates, LeaseKept
    <3>2. f > run[r].gen
      BY <3>1, TablesTypedAt, FencesAreNat DEF Agree, Fences
    <3>3. lease[r][f].status = "none"
      BY <3>2, TablesTypedAt DEF Agree
    <3>4. QED
      BY <3>1, <3>3 DEF OInv, BlankRows, NoLease
  <2>3. run'[r].deadline = req[s].at + RunDeadline /\ req[s].at + RunDeadline \in Nat
    BY <2>1, RequestAt, Numbers DEF Creates, NoRun
  <2>4. QED
    BY <2>2, <2>3 DEF LeasesEndInTime
<1>4. ASSUME ~ \E s \in Slots : Creates(s, r) PROVE run'[r].deadline = run[r].deadline
  BY <1>1, <1>4 DEF Moves, Untouched, Withdraws, Marks, Cancels, Grants, Renews, Expires, Completes, TermsKept, RunRow
<1>5. ASSUME ~ \E s \in Slots : Creates(s, r), NEW f \in Fences(r) PROVE lease'[r][f].expires <= run[r].deadline
  <2>1. lease[r][f] \in LeaseRow /\ lease[r][f].expires <= run[r].deadline
    BY <1>1 DEF LeasesEndInTime
  <2>2. CASE lease'[r][f].expires = lease[r][f].expires
    BY <2>1, <2>2
  <2>3. ASSUME NEW s \in Slots, Grants(s, r) PROVE lease'[r][f].expires <= run[r].deadline
    <3> DEFINE g == run[r].gen + 1
               new == GrantedLease(req[s])
    <3>1. new.expires <= run[r].deadline /\ g \in Fences(r)
      BY <1>2, <2>3 DEF Grants, GrantedLease
    <3>2. \/ lease'[r][f] = new
          \/ lease'[r][f] = lease[r][f]
          \/ lease'[r][f] = [lease[r][f] EXCEPT !.status = "superseded"]
      <4>1. \/ lease'[r] = [lease[r] EXCEPT ![g] = new]
            \/ lease'[r] = [[lease[r] EXCEPT ![run[r].gen].status = "superseded"] EXCEPT ![g] = new]
        BY <2>3 DEF Grants
      <4> HIDE DEF new, g
      <4>2. QED
        BY <1>1, <3>1, <4>1
    <3> HIDE DEF new
    <3>3. QED
      BY <2>1, <3>1, <3>2 DEF LeaseRow
  <2>4. ASSUME NEW s \in Slots, Renews(s, r) PROVE lease'[r][f].expires <= run[r].deadline
    <3> DEFINE q == req[s]
               until == LeaseUntil(r, q.at)
               old == lease[r][q.fence]
    <3>1. until <= run[r].deadline /\ q.fence \in Fences(r) /\ old \in LeaseRow
      BY <1>1, <1>2, <2>4 DEF Renews, ActiveLease
    <3>2. Renewed(old, until).expires = until
      BY <3>1 DEF Renewed, LeaseRow
    <3>3. lease'[r] = [lease[r] EXCEPT ![q.fence] = Renewed(old, until)]
      BY <2>4 DEF Renews
    <3> HIDE DEF old, until, q
    <3>4. lease'[r][f] = lease[r][f] \/ lease'[r][f] = Renewed(old, until)
      BY <1>1, <3>3
    <3>5. QED
      BY <2>1, <3>1, <3>2, <3>4
  <2>5. ASSUME NEW status, EndsLease(r, status) PROVE lease'[r][f].expires = lease[r][f].expires
    BY <1>1, <2>5 DEF EndsLease, LeaseRow
  <2>6. QED
    BY <1>1, <1>5, <2>2, <2>3, <2>4, <2>5
       DEF Moves, Untouched, Withdraws, Marks, Cancels, Expires, Completes, LeaseKept
<1>6. QED
  BY <1>3, <1>4, <1>5 DEF LeasesEndInTime

\* a promise that is left alone is kept as long as its run is not reopened
LEMMA PromiseLeft ==
  ASSUME OInv, [Next]_vars, NEW r \in Runs, NEW f \in Fences(r),
         lease'[r][f] = lease[r][f], promised'[r][f] = promised[r][f],
         run[r].status = "completed" => run'[r].status = "completed"
  PROVE  PromiseAt(r, f)'
<1>1. PromiseAt(r, f) /\ promised[r][f] \in Nat
  BY OInvAt, TablesTypedAt DEF OInv, PromiseKept, PromiseAt
<1>2. clock \in Nat /\ clock' \in Nat /\ clock <= clock'
  BY OInvAt, ClockAndReports
<1>3. promised[r][f] <= clock => promised[r][f] <= clock'
  BY <1>1, <1>2
<1>4. QED
  BY <1>1, <1>3 DEF PromiseAt

\* nobody is told a later time than the lease is good for, nor than the deadline
LEMMA PromiseRanOut ==
  ASSUME OInv, [Next]_vars, NEW r \in Runs, run[r].gen \in Fences(r), RanOut(r)
  PROVE  promised[r][run[r].gen] <= clock'
<1> DEFINE f == run[r].gen
           p == promised[r][f]
           e == lease[r][f].expires
           d == run[r].deadline
<1>1. PICK t \in Nat : t <= clock /\ (e <= t \/ d <= t)
  BY DEF RanOut
<1>2. p \in Nat /\ e \in Nat /\ d \in Nat
  <2>1. lease[r][f] \in LeaseRow
    BY OInvAt, TablesTypedAt
  <2>2. QED
    BY <2>1, OInvAt, TablesTypedAt DEF LeaseRow
<1>3. p <= e /\ e <= d
  BY DEF OInv, PromiseKept, DeadlineRespected
<1>4. clock \in Nat /\ clock' \in Nat /\ clock <= clock'
  BY OInvAt, ClockAndReports
<1> HIDE DEF p, e, d
<1>5. p <= clock'
  BY <1>1, <1>2, <1>3, <1>4
<1>6. QED
  BY <1>5 DEF p

LEMMA PromiseEnds ==
  ASSUME OInv, [Next]_vars, NEW r \in Runs, NEW f \in Fences(r), NEW status \in Ended, EndsLease(r, status),
         run[r].status = "leased",
         status \in {"superseded", "released"} => RanOut(r) \/ (status = "released" /\ run'[r].status = "completed")
  PROVE  PromiseAt(r, f)'
<1>1. lease[r] \in [Fences(r) -> LeaseRow] /\ run[r].gen \in Fences(r) /\ promised'[r] = promised[r]
  BY OInvAt, TablesTypedAt DEF EndsLease, ActiveLease
<1>2. CASE f # run[r].gen
  <2>1. lease'[r][f] = lease[r][f] /\ promised'[r][f] = promised[r][f]
    BY <1>1, <1>2 DEF EndsLease
  <2>2. QED
    BY <2>1, PromiseLeft
<1>3. CASE f = run[r].gen
  <2>1. lease'[r][f].status = status /\ lease'[r][f].expires = lease[r][f].expires
    BY <1>1, <1>3 DEF EndsLease, LeaseRow
  <2>2. promised[r][f] <= lease[r][f].expires
    BY DEF OInv, PromiseKept
  <2>3. RanOut(r) => promised'[r][f] <= clock'
    BY <1>1, <1>3, PromiseRanOut
  <2>4. promised'[r][f] <= lease'[r][f].expires
    BY <1>1, <2>1, <2>2
  <2>5. \/ lease'[r][f].status = "superseded"
        \/ lease'[r][f].status = "released" /\ run'[r].status # "completed"
        => promised'[r][f] <= clock'
    BY <2>1, <2>3 DEF Ended
  <2>6. QED
    BY <2>4, <2>5 DEF PromiseAt
<1>4. QED
  BY <1>2, <1>3

LEMMA PromiseStep ==
  ASSUME OInv, [Next]_vars, NEW r \in Runs, NEW f \in Fences(r) PROVE PromiseAt(r, f)'
<1> USE OInvAt
<1>1. /\ Moves(r) /\ PromiseAt(r, f) /\ run[r] \in RunRow /\ lease[r] \in [Fences(r) -> LeaseRow]
      /\ promised[r] \in [Fences(r) -> Nat]
  BY RunMoves, TablesTypedAt DEF OInv, PromiseKept, PromiseAt
<1>2. CASE LeaseKept(r) /\ (run[r].status = "completed" => run'[r].status = "completed")
  BY <1>2, PromiseLeft DEF LeaseKept
<1>3. CASE Withdraws(r)
  <2>1. PICK status \in Ended : EndsLease(r, status) /\ (status \in {"superseded", "released"} => RanOut(r))
    BY <1>3 DEF Withdraws, Ended
  <2>2. QED
    BY <1>3, <2>1, PromiseEnds DEF Withdraws
<1>4. CASE Cancels(r)
  <2>1. CASE run[r].status = "leased" /\ EndsLease(r, "released") /\ RanOut(r)
    BY <2>1, PromiseEnds DEF Ended
  <2>2. QED
    BY <1>2, <1>4, <2>1 DEF Cancels
<1>5. ASSUME NEW s \in Slots, Expires(s, r) PROVE PromiseAt(r, f)'
  <2>1. CASE run[r].status = "leased" /\ EndsLease(r, "revoked")
    BY <2>1, PromiseEnds DEF Ended
  <2>2. QED
    BY <1>2, <1>5, <2>1 DEF Expires
<1>6. ASSUME NEW s \in Slots, Completes(s, r) PROVE PromiseAt(r, f)'
  <2>1. run'[r].status = "completed"
    BY <1>1, <1>6 DEF Completes, RunRow
  <2>2. QED
    BY <1>6, <2>1, PromiseEnds DEF Completes, Ended
<1>7. ASSUME NEW s \in Slots, Grants(s, r) PROVE PromiseAt(r, f)'
  <2> DEFINE q == req[s]
             g == run[r].gen + 1
             new == GrantedLease(q)
             until == LeaseUntil(r, q.at)
  <2>1. g \in Fences(r) /\ q.run = r /\ promised'[r] = [promised[r] EXCEPT ![g] = until] /\ run[r].gen \in Nat
    BY <1>7, TablesTypedAt DEF Grants
  <2>2. until \in Nat
    BY RequestAt, TablesTypedAt, LeaseUntilIsNat
  <2>3. new.expires = until /\ new.status = "active"
    BY <2>1 DEF GrantedLease
  <2>4. \/ lease'[r] = [lease[r] EXCEPT ![g] = new]
        \/ lease'[r] = [[lease[r] EXCEPT ![run[r].gen].status = "superseded"] EXCEPT ![g] = new]
    BY <1>7 DEF Grants
  <2>5. CASE f = g
    <3>1. lease'[r][f] = new
      <4> HIDE DEF new, g
      <4>1. QED
        BY <1>1, <2>1, <2>4, <2>5
    <3>2. promised'[r][f] = until
      BY <1>1, <2>1, <2>5
    <3>3. until <= until
      BY <2>2
    <3> HIDE DEF until, new
    <3>4. QED
      BY <2>3, <3>1, <3>2, <3>3 DEF PromiseAt
  <2>6. CASE f # g /\ lease'[r][f] = lease[r][f]
    <3>1. promised'[r][f] = promised[r][f] /\ run[r].status # "completed"
      BY <1>1, <1>7, <2>1, <2>6 DEF Grants
    <3>2. QED
      BY <2>6, <3>1, PromiseLeft
  <2>7. CASE f # g /\ lease'[r][f] # lease[r][f]
    <3>1. /\ lease'[r] = [[lease[r] EXCEPT ![run[r].gen].status = "superseded"] EXCEPT ![g] = new]
          /\ f = run[r].gen
      <4> HIDE DEF new, g
      <4>1. QED
        BY <1>1, <2>4, <2>7
    <3>2. lease'[r][f].expires = lease[r][f].expires
      <4> HIDE DEF new, g
      <4>1. QED
        BY <1>1, <2>7, <3>1 DEF LeaseRow
    <3>3. RanOut(r)
      <4>1. run[r].status # "queued"
        <5>1. run[r].status = "queued" => lease[r][run[r].gen].status # "active"
          BY <3>1, TablesTypedAt DEF Agree
        <5>2. CASE run[r].status = "queued"
          <6>1. lease'[r] = [lease[r] EXCEPT ![g] = new]
            BY <1>7, <2>6, <2>7, <5>2 DEF Grants
          <6> HIDE DEF new, g
          <6>2. lease'[r][f] = lease[r][f]
            BY <1>1, <2>7, <6>1
          <6>3. QED
            BY <2>7, <6>2
        <5>3. QED
          BY <5>2
      <4>2. QED
        BY <1>7, <4>1 DEF Grants
    <3>4. promised'[r][f] = promised[r][f] /\ promised[r][f] <= lease[r][f].expires
      BY <1>1, <2>1, <2>7 DEF PromiseAt
    <3>5. promised[r][f] <= clock'
      BY <3>1, <3>3, PromiseRanOut
    <3>6. QED
      BY <3>2, <3>4, <3>5 DEF PromiseAt
  <2>8. QED
    BY <2>5, <2>6, <2>7
<1>8. ASSUME NEW s \in Slots, Renews(s, r) PROVE PromiseAt(r, f)'
  <2> DEFINE q == req[s]
             until == LeaseUntil(r, q.at)
             old == lease[r][q.fence]
             new == Renewed(old, until)
  <2>1. q.fence \in Fences(r) /\ old \in LeaseRow /\ old.status = "active" /\ old.expires <= until /\ run'[r] = run[r]
    BY <1>1, <1>8 DEF Renews, ActiveLease
  <2>2. until \in Nat /\ old.expires \in Nat /\ promised[r][q.fence] \in Nat /\ promised[r][q.fence] <= old.expires
    <3>1. until \in Nat /\ old.expires \in Nat /\ promised[r][q.fence] \in Nat
      BY <1>1, <2>1, RequestAt, TablesTypedAt, LeaseUntilIsNat DEF LeaseRow
    <3>2. QED
      BY <2>1, <3>1 DEF OInv, PromiseKept
  <2>3. new.expires = until /\ new.status = "active"
    BY <2>1 DEF Renewed, LeaseRow
  <2>4. lease'[r] = [lease[r] EXCEPT ![q.fence] = new]
    BY <1>8 DEF Renews
  <2>5. promised'[r] = promised[r] \/ promised'[r] = [promised[r] EXCEPT ![q.fence] = until]
    BY <1>8 DEF Renews
  <2> HIDE DEF new, until, q
  <2>6. CASE f # q.fence
    <3>1. lease'[r][f] = lease[r][f] /\ promised'[r][f] = promised[r][f]
      BY <1>1, <2>4, <2>5, <2>6
    <3>2. QED
      BY <2>1, <3>1, PromiseLeft
  <2>7. CASE f = q.fence
    <3>1. lease'[r][f] = new
      BY <1>1, <2>4, <2>7
    <3>2. promised'[r][f] = promised[r][f] \/ promised'[r][f] = until
      BY <1>1, <2>5, <2>7
    <3>3. promised'[r][f] <= until
      BY <2>1, <2>2, <2>7, <3>2
    <3>4. QED
      BY <2>3, <3>1, <3>3 DEF PromiseAt
  <2>8. QED
    BY <2>6, <2>7
<1>9. CASE Untouched(r) \/ Marks(r) \/ \E s \in Slots : Creates(s, r)
  BY <1>2, <1>9 DEF Untouched, Marks, Creates
<1>10. QED
  BY <1>1, <1>3, <1>4, <1>5, <1>6, <1>7, <1>8, <1>9 DEF Moves

-----------------------------------------------------------------------------

LEMMA InitOutcomes == ASSUME Init PROVE OInv
<1>1. HInv
  BY RunnersHoldInit
<1>2. \A r \in Runs : run[r] = NoRun /\ \A f \in Fences(r) : lease[r][f] = NoLease /\ promised[r][f] = 0
  BY DEF Init
<1>3. deadlineOps = {} /\ clock = 1 /\ \A s \in Slots : req[s] = Idle
  BY DEF Init
<1>4. Punctual
  BY <1>3 DEF Punctual, Idle
<1>5. BlankRows /\ CancelRespected
  <2>1. NoRun.status = "absent" /\ NoLease.status = "none"
    BY DEF NoRun, NoLease
  <2>2. BlankRows
    BY <1>2, <2>1 DEF BlankRows
  <2>3. CancelRespected
    BY <1>2, <2>1 DEF CancelRespected
  <2>4. QED
    BY <2>2, <2>3
<1>6. RequestsReadWell
  BY <1>3 DEF RequestsReadWell, ReadWell, Idle
<1>7. DeadlineRespected /\ PromiseKept
  BY <1>2, <1>3 DEF DeadlineRespected, PromiseKept, NoRun, NoLease
<1>8. QED
  BY <1>1, <1>4, <1>5, <1>6, <1>7 DEF OInv

LEMMA StepOutcomes == ASSUME OInv, [Next]_vars PROVE OInv'
<1>1. HInv'
  BY StepTyped, StepAgrees, StepHolds DEF OInv, HInv, LInv
<1>2. Punctual' /\ RequestsReadWell'
  BY StepPunctual, StepReadsWell, OInvAt DEF OInv
<1>3. BlankRows' /\ CancelRespected'
  BY BlankStep, CancelStep DEF BlankRows, BlankAt, CancelRespected, CancelAt
<1>4. DeadlineRespected'
  BY DeadlineStep, LeasesEndStep DEF DeadlineRespected, DeadlineAt, LeasesEndInTime, IsEngine
<1>5. PromiseKept'
  BY PromiseStep DEF PromiseKept, PromiseAt
<1>6. QED
  BY <1>1, <1>2, <1>3, <1>4, <1>5 DEF OInv

(* What every batch decides on is what was read, or is compared with a number
   that moved on: the invariant that the theorems below rest on. *)
THEOREM OutcomeInvariant == Spec => []OInv
<1>1. Init => OInv
  BY InitOutcomes
<1>2. OInv /\ [Next]_vars => OInv'
  BY StepOutcomes
<1>3. QED
  BY <1>1, <1>2, PTL DEF Spec

(* A deadline takes effect on engine runs alone and never early, every run it closed
   and no other is recorded, and no lease reaches past it: the reconciler's batch
   and the grants, renewals and completions it races agree on that. *)
THEOREM DeadlinesHold == Spec => []DeadlineRespected
  BY OutcomeInvariant, PTL DEF OInv

(* No request to cancel is lost to a completion that was admitted before it. *)
THEOREM CancellationsHold == Spec => []CancelRespected
  BY OutcomeInvariant, PTL DEF OInv

(* Whatever a runner was promised outlasts every claim and every cancellation that
   would displace it. *)
THEOREM PromisesHold == Spec => []PromiseKept
  BY OutcomeInvariant, PTL DEF OInv

-----------------------------------------------------------------------------
(* What every step keeps: grants, and what only moves forward *)

LEMMA StepGrantsFit ==
  ASSUME OInv, [Next]_vars, NEW r \in EngineRuns, NEW f \in Fences(r),
         lease[r][f].status = "none", lease'[r][f].status = "active"
  PROVE  report[lease'[r][f].runner].fit /\ runner[lease'[r][f].runner] = "active"
<1> USE OInvAt
<1>1. r \in Runs
  BY IdsAssumption
<1>2. PICK s \in Slots : Grants(s, r) /\ lease'[r][f] = GrantedLease(req[s])
  BY <1>1, LeasesForward DEF LeaseForward
<1> DEFINE q == req[s]
<1>3. q.kind = "claim" /\ q.phase = "ready" /\ q.run = r /\ ClaimCommits(q) /\ ReadWell(q)
  BY <1>2 DEF Grants, ClaimCommit, OInv, RequestsReadWell
<1>4. lease'[r][f].runner = q.runner
  BY <1>2 DEF GrantedLease
<1>5. report[q.runner].rev = q.head.rev /\ runner[q.runner] = "active"
  BY <1>3 DEF ClaimCommits, AdmissionStands, IsEngine
<1>6. report[q.runner].fit
  BY <1>3, <1>5 DEF ReadWell
<1>7. QED
  BY <1>4, <1>5, <1>6

(* Between the admission of a claim and its grant the runner's inventory may be
   replaced: the lease is granted only if the latest one still fits. *)
THEOREM GrantsFit == Spec => GrantedToFit
<1>1. OInv /\ [Next]_vars =>
        [\A r \in EngineRuns : \A f \in Fences(r) :
           lease[r][f].status = "none" /\ lease'[r][f].status = "active" =>
             report[lease'[r][f].runner].fit /\ runner[lease'[r][f].runner] = "active"]_vars
  BY StepGrantsFit
<1>2. QED
  BY <1>1, OutcomeInvariant, PTL DEF Spec, GrantedToFit

LEMMA PrefixKept ==
  ASSUME NEW S, NEW s \in Seq(S), NEW more \in Seq(S) PROVE SubSeq(s \o more, 1, Len(s)) = s
<1> DEFINE t == s \o more
           u == SubSeq(t, 1, Len(s))
<1>1. /\ t \in Seq(S) /\ Len(t) = Len(s) + Len(more)
      /\ \A i \in 1..Len(s) + Len(more) : t[i] = IF i <= Len(s) THEN s[i] ELSE more[i - Len(s)]
  BY ConcatProperties
<1>2. Len(s) \in Nat /\ Len(more) \in Nat
  BY LenProperties
<1>3. \A i \in 1..Len(s) : t[i] \in S /\ t[i] = s[i]
  <2>1. \A i \in 1..Len(s) : s[i] \in S /\ i \in 1..Len(s) + Len(more) /\ i <= Len(s)
    BY <1>2, ElementOfSeq
  <2> HIDE DEF t
  <2>2. QED
    BY <1>1, <2>1
<1> HIDE DEF t
<1>4. u \in Seq(S) /\ Len(u) = IF 1 <= Len(s) THEN Len(s) - 1 + 1 ELSE 0
  <2>1. 1 \in Int /\ Len(s) \in Int
    BY <1>2
  <2>2. QED
    BY <1>3, <2>1, SubSeqProperties
<1>5. \A i \in 1..Len(s) - 1 + 1 : u[i] = t[1 + i - 1]
  <2>1. 1 \in Int /\ Len(s) \in Int
    BY <1>2
  <2>2. QED
    BY <1>3, <2>1, SubSeqProperties
<1> HIDE DEF u
<1>6. Len(u) = Len(s)
  BY <1>2, <1>4
<1>7. \A i \in 1..Len(u) : u[i] = s[i]
  <2>1. ASSUME NEW i \in 1..Len(u) PROVE u[i] = s[i]
    <3>1. i \in 1..Len(s) /\ i \in 1..Len(s) - 1 + 1 /\ 1 + i - 1 = i
      BY <1>2, <1>6
    <3>2. QED
      BY <1>3, <1>5, <3>1
  <2>2. QED
    BY <2>1
<1>8. u = s
  BY <1>4, <1>6, <1>7, SeqEqual
<1>9. QED
  BY <1>8 DEF u, t

\* the ledger is written at its end, and operations are only added or compacted
LEMMA TablesForward ==
  ASSUME TInv, [Next]_vars
  PROVE  /\ ledger \in Seq(LedgerRow) /\ (ledger' = ledger \/ \E e \in LedgerRow : ledger' = Append(ledger, e))
         /\ \A x \in ops : \E y \in ops' : y.run = x.run /\ y.op = x.op /\ y.message = x.message
<1>1. ledger \in Seq(LedgerRow) /\ ops \subseteq OperationRow
  BY DEF TInv, TypeOK, TablesTyped
<1>2. CASE ledger' = ledger /\ (ops' = ops \/ \E x : ops' = ops \cup {x})
  BY <1>1, <1>2
<1>3. ASSUME NEW s \in Slots, CompleteCommit(s) \/ CreateCommit(s) \/ RevokeCommit(s) \/ ExpireCommit(s)
      PROVE  /\ \E e \in LedgerRow : ledger' = Append(ledger, e)
             /\ ops' = ops \/ \E x : ops' = ops \cup {x}
  <2>1. NamesRows(req[s]) /\ EngineRuns \subseteq Runs
    BY IdsAssumption DEF TInv, RequestsNameRows
  <2>2. PICK kind, subject : /\ ledger' = Append(ledger, Entry(kind, subject))
                             /\ kind \in {"run.requested", "run.completed", "run.expired", "runner.revoked"}
                             /\ subject \in Runs \cup Runners
                             /\ ops' = ops \/ \E x : ops' = ops \cup {x}
    BY <1>3, <2>1 DEF CompleteCommit, CreateCommit, RevokeCommit, ExpireCommit, NamesRows
  <2>3. Entry(kind, subject) \in LedgerRow
    BY <2>2 DEF Entry, LedgerRow
  <2>4. QED
    BY <2>2, <2>3
<1>4. ASSUME NEW s \in Slots,
             \/ ClaimCommit(s) \/ RenewCommit(s) \/ RenewUnlogged(s) \/ CancelCommit(s)
             \/ CancelExpiredCommit(s) \/ CancelExpiredMiss(s)
      PROVE  ledger' = ledger /\ (ops' = ops \/ \E x : ops' = ops \cup {x})
  BY <1>4 DEF ClaimCommit, RenewCommit, RenewUnlogged, CancelCommit, CancelExpiredCommit, CancelExpiredMiss
<1>5. CASE Cleanup
  <2>1. ledger' = ledger
    BY <1>5 DEF Cleanup
  <2>2. ASSUME NEW x \in ops PROVE \E y \in ops' : y.run = x.run /\ y.op = x.op /\ y.message = x.message
    <3>1. x \in ops' \/ [x EXCEPT !.compacted = TRUE] \in ops'
      BY <1>5 DEF Cleanup
    <3>2. [x EXCEPT !.compacted = TRUE].run = x.run /\ [x EXCEPT !.compacted = TRUE].op = x.op
          /\ [x EXCEPT !.compacted = TRUE].message = x.message
      BY <1>1 DEF OperationRow
    <3>3. QED
      BY <3>1, <3>2
  <2>3. QED
    BY <1>1, <2>1, <2>2
<1>6. ASSUME NEW s \in Slots, Ask(s) \/ Crash(s) \/ StartReconcile(s) \/ ReadDue(s) \/ ExpireAbort(s) \/ Read(s)
                               \/ Refuse(s) \/ Abort(s) \/ CancelSettled(s)
      PROVE ledger' = ledger /\ ops' = ops
  BY <1>6 DEF Ask, AskCreate, AskCancel, AskRevoke, Submit, Crash, StartReconcile, ReadDue, ExpireAbort, Read,
              Refuse, Abort, CancelSettled, rows
<1>7. CASE Tick \/ UNCHANGED vars \/ (\E w \in Runners : NewReport(w))
           \/ \E w \in Runners, r \in Runs, n \in Nonces : \E q \in RunnerRequests(w, r, n) : Resubmit(q)
  BY <1>2, <1>7 DEF Tick, vars, NewReport, Resubmit, rows
<1>8. ASSUME NEW s \in Slots, SlotStep(s)
      PROVE  /\ ledger' = ledger \/ \E e \in LedgerRow : ledger' = Append(ledger, e)
             /\ ops' = ops \/ \E x : ops' = ops \cup {x}
  BY <1>3, <1>4, <1>6, <1>8 DEF SlotStep
<1>9. QED
  BY <1>1, <1>2, <1>5, <1>6, <1>7, <1>8 DEF Next

LEMMA StepForward ==
  ASSUME OInv, [Next]_vars
  PROVE  /\ \A r \in Runs :
              /\ run'[r].gen \in {run[r].gen, run[r].gen + 1}
              /\ SubSeq(events'[r], 1, Len(events[r])) = events[r]
              /\ \A f \in Fences(r) : lease[r][f].expires <= lease'[r][f].expires
         /\ SubSeq(ledger', 1, Len(ledger)) = ledger
         /\ \A x \in ops : \E y \in ops' : y.run = x.run /\ y.op = x.op /\ y.message = x.message
<1> USE OInvAt
<1>1. ASSUME NEW r \in Runs PROVE run'[r].gen \in {run[r].gen, run[r].gen + 1}
  <2>1. Moves(r) /\ run[r] \in RunRow
    BY RunMoves, TablesTypedAt
  <2>2. ASSUME NEW s \in Slots, Creates(s, r) PROVE run'[r].gen = run[r].gen
    BY <2>2 DEF Creates, NoRun, OInv, BlankRows
  <2>3. ASSUME NEW s \in Slots, Grants(s, r) \/ Completes(s, r) PROVE run'[r].gen \in {run[r].gen, run[r].gen + 1}
    BY <2>1, <2>3 DEF Grants, Completes, RunRow
  <2>4. QED
    BY <2>1, <2>2, <2>3 DEF Moves, Untouched, Withdraws, Marks, Cancels, Renews, Expires, TermsKept
<1>2. ASSUME NEW r \in Runs PROVE SubSeq(events'[r], 1, Len(events[r])) = events[r]
  BY EventsForward, PrefixKept
<1>3. \A r \in Runs : \A f \in Fences(r) : lease[r][f].expires <= lease'[r][f].expires
  BY LeasesForward DEF LeaseForward
<1>4. SubSeq(ledger', 1, Len(ledger)) = ledger
  <2>1. CASE ledger' = ledger
    BY <2>1, TablesForward, SubSeqFull
  <2>2. ASSUME NEW e \in LedgerRow, ledger' = Append(ledger, e) PROVE SubSeq(ledger', 1, Len(ledger)) = ledger
    <3>1. <<e>> \in Seq(LedgerRow) /\ ledger \in Seq(LedgerRow)
      BY TablesForward
    <3>2. ledger' = ledger \o <<e>>
      BY <2>2, <3>1, AppendIsConcat
    <3>3. QED
      BY <3>1, <3>2, PrefixKept
  <2>3. QED
    BY <2>1, <2>2, TablesForward
<1>5. QED
  BY <1>1, <1>2, <1>3, <1>4, TablesForward

(* A closed run and an ended lease stay, fences rise one by one, and the streams, the
   ledger and the operations are only added to: no retry, clean-up or late batch
   unsays what was answered. *)
THEOREM NothingUnsaid == Spec => OnlyForward
<1>1. OInv /\ [Next]_vars =>
        [/\ \A r \in Runs :
              /\ run'[r].gen \in {run[r].gen, run[r].gen + 1}
              /\ SubSeq(events'[r], 1, Len(events[r])) = events[r]
              /\ \A f \in Fences(r) : lease[r][f].expires <= lease'[r][f].expires
         /\ SubSeq(ledger', 1, Len(ledger)) = ledger
         /\ \A x \in ops : \E y \in ops' : y.run = x.run /\ y.op = x.op /\ y.message = x.message]_vars
  BY StepForward
<1>2. QED
  BY <1>1, OutcomeInvariant, ClosedRunsStay, PTL DEF Spec, OnlyForward

-----------------------------------------------------------------------------
(* Every step is a step of RunOwnership, or none *)

\* only a claim changes two runs
LEMMA OneRunMoves ==
  ASSUME LInv, [Next]_vars, ~ \E s \in Slots : ClaimCommit(s)
  PROVE  \E x : \A r \in Runs \ {x} : run'[r] = run[r] /\ lease'[r] = lease[r]
<1>1. DOMAIN run = Runs /\ DOMAIN lease = Runs
  BY RowsTyped DEF LInv
<1>2. ASSUME NEW x, NEW row, NEW ls,
             run' = run \/ run' = [run EXCEPT ![x] = row], lease' = lease \/ lease' = [lease EXCEPT ![x] = ls]
      PROVE  \A r \in Runs \ {x} : run'[r] = run[r] /\ lease'[r] = lease[r]
  BY <1>1, <1>2
<1>3. ASSUME NEW s \in Slots,
             \/ RevokeCommit(s) \/ RenewCommit(s) \/ RenewUnlogged(s) \/ CompleteCommit(s) \/ CreateCommit(s)
             \/ CancelCommit(s) \/ CancelExpiredCommit(s) \/ CancelExpiredMiss(s) \/ ExpireCommit(s)
      PROVE  \E x, row, ls : /\ run' = run \/ run' = [run EXCEPT ![x] = row]
                             /\ lease' = lease \/ lease' = [lease EXCEPT ![x] = ls]
  <2>1. CASE RevokeCommit(s)
    <3> DEFINE x == req[s].head.other
               f == req[s].head.otherFence
    <3>1. \/ run' = run /\ lease' = lease
          \/ run' = [run EXCEPT ![x] = Detach(run[x], f)] /\ lease' = [lease EXCEPT ![x][f].status = "revoked"]
      BY <2>1 DEF RevokeCommit
    <3>2. \/ run' = run /\ lease' = lease
          \/ \E row, ls : run' = [run EXCEPT ![x] = row] /\ lease' = [lease EXCEPT ![x] = ls]
      BY <3>1
    <3> HIDE DEF x
    <3>3. QED
      BY <3>2
  <2>2. CASE RenewCommit(s) \/ RenewUnlogged(s)
    BY <2>2 DEF RenewCommit, RenewUnlogged, RenewedLease
  <2>3. CASE CompleteCommit(s)
    BY <2>3 DEF CompleteCommit
  <2>4. CASE CreateCommit(s) \/ CancelCommit(s)
    BY <2>4 DEF CreateCommit, CancelCommit
  <2>5. CASE CancelExpiredCommit(s) \/ CancelExpiredMiss(s)
    BY SMTT(60), <2>5 DEF CancelExpiredCommit, CancelExpiredMiss, LeaseAfterRelease
  <2>6. CASE ExpireCommit(s)
    BY <2>6 DEF ExpireCommit
  <2>7. QED
    BY <1>3, <2>1, <2>2, <2>3, <2>4, <2>5, <2>6
<1>4. CASE run' = run /\ lease' = lease
  BY <1>4
<1>5. QED
  BY <1>2, <1>3, <1>4, QuietSteps

\* the state of RunOwnership, run by run
MapsSame(r) == /\ StageOf(r)' = StageOf(r) /\ OwnerOf(r)' = OwnerOf(r)
               /\ run'[r].gen = run[r].gen /\ ResultOf(r)' = ResultOf(r)

\* how a step that moves one run maps, apart from grants
LEMMA MoveMaps ==
  ASSUME OInv, NEW r \in Runs, Moves(r), ~ \E s \in Slots : Grants(s, r)
  PROVE  \/ MapsSame(r)
         \/ /\ StageOf(r) = "absent" /\ StageOf(r)' = "open" /\ OwnerOf(r)' = OwnerOf(r)
            /\ run'[r].gen = run[r].gen /\ ResultOf(r)' = ResultOf(r)
         \/ /\ StageOf(r) = "open" /\ OwnerOf(r) # None /\ StageOf(r)' = "open" /\ OwnerOf(r)' = None
            /\ run'[r].gen = run[r].gen /\ ResultOf(r)' = ResultOf(r)
         \/ /\ StageOf(r) = "open" /\ StageOf(r)' = "closed" /\ OwnerOf(r)' = None
            /\ run'[r].gen = run[r].gen /\ ResultOf(r)' = ResultOf(r)
         \/ /\ StageOf(r) = "open" /\ OwnerOf(r) # None /\ StageOf(r)' = "closed" /\ OwnerOf(r)' = None
            /\ run'[r].gen = run[r].gen
            /\ \E out \in Outcomes : ResultOf(r)' = [epoch |-> run[r].gen, by |-> OwnerOf(r), outcome |-> out]
<1> USE OInvAt
<1>1. /\ run[r] \in RunRow /\ lease[r] \in [Fences(r) -> LeaseRow] /\ Agree(r, run[r], lease[r])
  BY TablesTypedAt
<1>2. run[r].status = "leased" => /\ run[r].lease = run[r].gen /\ run[r].gen \in Fences(r)
                                  /\ StageOf(r) = "open" /\ OwnerOf(r) = lease[r][run[r].gen].runner
                                  /\ OwnerOf(r) # None /\ ResultOf(r) = None
  <2>1. ASSUME run[r].status = "leased" PROVE /\ run[r].lease = run[r].gen /\ run[r].gen \in Fences(r)
                                              /\ lease[r][run[r].gen].runner \in Runners
    BY <1>1, <2>1 DEF Agree, OInv, BlankRows
  <2>2. QED
    BY <2>1, IdsAssumption DEF StageOf, OwnerOf, ResultOf, Terminal
<1>3. run[r].status = "queued" => StageOf(r) = "open" /\ OwnerOf(r) = None /\ ResultOf(r) = None
  BY DEF StageOf, OwnerOf, ResultOf, Terminal
<1>4. CASE Untouched(r)
  BY <1>4 DEF Untouched, LeaseKept, MapsSame, StageOf, OwnerOf, ResultOf
<1>5. CASE Withdraws(r)
  <2>1. StageOf(r)' = "open" /\ OwnerOf(r)' = None /\ ResultOf(r)' = None
    BY <1>5 DEF Withdraws, StageOf, OwnerOf, ResultOf, Terminal
  <2>2. QED
    BY <1>2, <1>5, <2>1 DEF Withdraws, TermsKept
<1>6. CASE Marks(r)
  <2>1. StageOf(r)' = "open" /\ ResultOf(r)' = None /\ OwnerOf(r)' = OwnerOf(r)
    BY <1>6 DEF Marks, LeaseKept, StageOf, OwnerOf, ResultOf, Terminal
  <2>2. QED
    BY <1>2, <1>6, <2>1 DEF Marks, TermsKept, MapsSame
<1>7. ASSUME run'[r].status \in {"canceled", "expired"}, TermsKept(r), run[r].status \in {"queued", "leased"}
      PROVE  /\ StageOf(r) = "open" /\ StageOf(r)' = "closed" /\ OwnerOf(r)' = None
             /\ run'[r].gen = run[r].gen /\ ResultOf(r)' = ResultOf(r)
  <2>1. StageOf(r)' = "closed" /\ OwnerOf(r)' = None /\ ResultOf(r)' = None
    BY <1>7 DEF StageOf, OwnerOf, ResultOf, Terminal
  <2>2. QED
    BY <1>2, <1>3, <1>7, <2>1 DEF TermsKept
<1>8. CASE Cancels(r) \/ \E s \in Slots : Expires(s, r)
  BY <1>7, <1>8 DEF Cancels, Expires
<1>9. ASSUME NEW s \in Slots, Creates(s, r) PROVE
            /\ StageOf(r) = "absent" /\ StageOf(r)' = "open" /\ OwnerOf(r)' = OwnerOf(r)
            /\ run'[r].gen = run[r].gen /\ ResultOf(r)' = ResultOf(r)
  <2>1. run[r] = NoRun /\ run[r].status = "absent"
    BY <1>9 DEF Creates, OInv, BlankRows
  <2>2. run'[r].status = "queued" /\ run'[r].gen = NoRun.gen
    BY <1>9 DEF Creates, NoRun
  <2>3. QED
    BY <2>1, <2>2 DEF StageOf, OwnerOf, ResultOf, Terminal
<1>10. ASSUME NEW s \in Slots, Renews(s, r) PROVE MapsSame(r)
  <2>1. run'[r] = run[r]
    BY <1>10 DEF Renews
  <2>2. \A f \in Fences(r) : lease'[r][f].runner = lease[r][f].runner
    <3> DEFINE q == req[s]
               until == LeaseUntil(r, q.at)
               old == lease[r][q.fence]
    <3>1. old \in LeaseRow /\ lease'[r] = [lease[r] EXCEPT ![q.fence] = Renewed(old, until)]
      BY <1>1, <1>10 DEF Renews, ActiveLease
    <3>2. Renewed(old, until).runner = old.runner
      BY <3>1 DEF Renewed, LeaseRow
    <3> HIDE DEF old, until, q
    <3>3. QED
      BY <1>1, <3>1, <3>2 DEF old
  <2>3. run[r].status = "completed" => run[r].gen \in Fences(r)
    BY <1>1, FencesAreNat, Numbers DEF Agree, Fences, RunRow
  <2>4. QED
    BY <1>2, <2>1, <2>2, <2>3 DEF MapsSame, StageOf, OwnerOf, ResultOf
<1>11. ASSUME NEW s \in Slots, Completes(s, r) PROVE
            /\ StageOf(r) = "open" /\ OwnerOf(r) # None /\ StageOf(r)' = "closed" /\ OwnerOf(r)' = None
            /\ run'[r].gen = run[r].gen
            /\ \E out \in Outcomes : ResultOf(r)' = [epoch |-> run[r].gen, by |-> OwnerOf(r), outcome |-> out]
  <2> DEFINE q == req[s]
  <2>1. q.outcome \in Outcomes /\ run[r].status = "leased"
    BY <1>11, RequestAt DEF Completes, CompleteCommit, NamesRows
  <2>2. run'[r].status = "completed" /\ run'[r].gen = run[r].gen /\ run'[r].outcome = q.outcome
    BY <1>1, <1>11 DEF Completes, RunRow
  <2>3. lease'[r][run[r].gen].runner = lease[r][run[r].gen].runner
    BY <1>1, <1>2, <2>1, <1>11 DEF Completes, EndsLease, LeaseRow
  <2>4. StageOf(r)' = "closed" /\ OwnerOf(r)' = None
    BY <2>2 DEF StageOf, OwnerOf, Terminal
  <2>5. ResultOf(r)' = [epoch |-> run[r].gen, by |-> OwnerOf(r), outcome |-> q.outcome]
    BY <1>2, <2>1, <2>2, <2>3 DEF ResultOf
  <2>6. QED
    BY <1>2, <2>1, <2>2, <2>4, <2>5
<1>12. QED
  BY <1>4, <1>5, <1>6, <1>8, <1>9, <1>10, <1>11 DEF Moves

LEMMA MoveImplements ==
  ASSUME OInv, NEW x \in Runs, Moves(x), ~ \E s \in Slots : Grants(s, x),
         \A r \in Runs \ {x} : MapsSame(r)
  PROVE  Ownership!Next \/ UNCHANGED Ownership!vars
<1>1. CASE MapsSame(x)
  <2>1. \A r \in Runs : MapsSame(r)
    BY <1>1
  <2>2. QED
    BY <2>1 DEF MapsSame, Ownership!vars
<1>2. CASE /\ StageOf(x) = "absent" /\ StageOf(x)' = "open" /\ OwnerOf(x)' = OwnerOf(x)
           /\ run'[x].gen = run[x].gen /\ ResultOf(x)' = ResultOf(x)
  <2>1. Ownership!Open(x)
    BY <1>2 DEF Ownership!Open, MapsSame
  <2>2. QED
    BY <2>1 DEF Ownership!Next
<1>3. CASE /\ StageOf(x) = "open" /\ OwnerOf(x) # None /\ StageOf(x)' = "open" /\ OwnerOf(x)' = None
           /\ run'[x].gen = run[x].gen /\ ResultOf(x)' = ResultOf(x)
  <2>1. Ownership!Withdraw(x)
    BY <1>3 DEF Ownership!Withdraw, MapsSame
  <2>2. QED
    BY <2>1 DEF Ownership!Next
<1>4. CASE /\ StageOf(x) = "open" /\ StageOf(x)' = "closed" /\ OwnerOf(x)' = None
           /\ run'[x].gen = run[x].gen /\ ResultOf(x)' = ResultOf(x)
  <2>1. Ownership!Close(x)
    BY <1>4 DEF Ownership!Close, MapsSame
  <2>2. QED
    BY <2>1 DEF Ownership!Next
<1>5. CASE /\ StageOf(x) = "open" /\ OwnerOf(x) # None /\ StageOf(x)' = "closed" /\ OwnerOf(x)' = None
           /\ run'[x].gen = run[x].gen
           /\ \E out \in Outcomes : ResultOf(x)' = [epoch |-> run[x].gen, by |-> OwnerOf(x), outcome |-> out]
  <2>1. PICK out \in Outcomes : ResultOf(x)' = [epoch |-> run[x].gen, by |-> OwnerOf(x), outcome |-> out]
    BY <1>5
  <2>2. Ownership!Finish(x, out)
    BY <1>5, <2>1 DEF Ownership!Finish, MapsSame
  <2>3. QED
    BY <2>2 DEF Ownership!Next
<1>6. QED
  BY <1>1, <1>2, <1>3, <1>4, <1>5, MoveMaps

\* a claim is the grant of RunOwnership, which takes the runner's other run from it
LEMMA ClaimImplements ==
  ASSUME OInv, NEW s \in Slots, ClaimCommit(s)
  PROVE  Ownership!Next
<1> USE OInvAt
<1> DEFINE q == req[s]
<1> PICK x, w : x = q.run /\ w = q.runner
  OBVIOUS
<1>1. x \in Runs /\ w \in Runners /\ Grants(s, x) /\ ReadWell(q) /\ ClaimCommits(q) /\ q.kind = "claim" /\ q.phase = "ready"
  BY RequestAt, ClaimDoes DEF NamesRows, ClaimCommit, OInv, RequestsReadWell
<1>2. run[x] \in RunRow /\ lease[x] \in [Fences(x) -> LeaseRow] /\ run[x].gen + 1 \in Fences(x)
  BY <1>1, TablesTypedAt DEF Grants
<1>3. StageOf(x) = "open" /\ ResultOf(x) = None
  BY <1>1 DEF Grants, StageOf, ResultOf, Terminal
<1>4. run'[x].status = "leased" /\ run'[x].lease = run[x].gen + 1 /\ run'[x].gen = run[x].gen + 1
  BY <1>1, <1>2 DEF Grants, RunRow
<1>5. OwnerOf(x)' = w
  <2> DEFINE new == GrantedLease(q)
             g == run[x].gen + 1
  <2>1. \/ lease'[x] = [lease[x] EXCEPT ![g] = new]
        \/ lease'[x] = [[lease[x] EXCEPT ![run[x].gen].status = "superseded"] EXCEPT ![g] = new]
    BY <1>1 DEF Grants
  <2>2. lease'[x][g] = new
    <3> HIDE DEF new, g
    <3>1. QED
      BY <1>2, <2>1 DEF g
  <2>3. new.runner = w
    BY DEF GrantedLease
  <2>4. QED
    BY <1>4, <2>2, <2>3 DEF OwnerOf
<1>6. StageOf(x)' = "open" /\ ResultOf(x)' = None
  BY <1>4 DEF StageOf, ResultOf, Terminal
<1>7. ASSUME NEW r \in Runs \ {x}
      PROVE  /\ StageOf(r)' = StageOf(r) /\ run'[r].gen = run[r].gen /\ ResultOf(r)' = ResultOf(r)
             /\ OwnerOf(r)' = IF OwnerOf(r) = w THEN None ELSE OwnerOf(r)
  <2>1. CASE ClaimsForeign(q) /\ r = q.head.other
    <3>1. Withdraws(r)
      BY <1>7, <2>1, ClaimDoes
    <3>2. ActiveLease(r, q.head.otherFence) /\ q.head.other # None
      BY <2>1 DEF ClaimsForeign, Supersedes
    <3>3. run[r].status = "leased" /\ run[r].lease = q.head.otherFence
      BY <3>2, ActiveIsCurrent
    <3>4. OwnerOf(r) = w
      BY <1>1, <2>1, <3>2, <3>3 DEF ReadWell, OwnerOf
    <3>5. StageOf(r)' = "open" /\ OwnerOf(r)' = None /\ ResultOf(r)' = None /\ run'[r].gen = run[r].gen
      BY <3>1 DEF Withdraws, TermsKept, StageOf, OwnerOf, ResultOf, Terminal
    <3>6. StageOf(r) = "open" /\ ResultOf(r) = None
      BY <3>3 DEF StageOf, ResultOf, Terminal
    <3>7. QED
      BY <3>4, <3>5, <3>6
  <2>2. CASE ~(ClaimsForeign(q) /\ r = q.head.other)
    <3>1. Untouched(r)
      BY <1>7, <2>2, ClaimDoes
    <3>2. MapsSame(r)
      BY <3>1 DEF Untouched, LeaseKept, MapsSame, StageOf, OwnerOf, ResultOf
    <3>3. OwnerOf(r) # w
      <4>1. SUFFICES ASSUME OwnerOf(r) = w PROVE FALSE
        OBVIOUS
      <4> DEFINE f == run[r].lease
      <4>2. run[r].status = "leased" /\ lease[r][f].runner = w
        BY <1>1, <4>1, IdsAssumption DEF OwnerOf
      <4>3. ActiveLease(r, f)
        BY <4>2, TablesTypedAt DEF Agree, ActiveLease
      <4>4. <<r, f>> \in LeasesOf(w)
        BY <4>2, <4>3 DEF LeasesOf, ActiveLease
      <4>5. <<r, f>> \in EndedByClaim(q)
        BY <1>1, <4>4 DEF ClaimCommits, HoldsOnly
      <4>6. QED
        BY <1>7, <2>2, <4>5 DEF EndedByClaim
    <3>4. QED
      BY <3>2, <3>3 DEF MapsSame
  <2>3. QED
    BY <2>1, <2>2
<1>8. Ownership!Grant(x, w)
  BY <1>1, <1>3, <1>4, <1>5, <1>6, <1>7 DEF Ownership!Grant
<1>9. QED
  BY <1>1, <1>8 DEF Ownership!Next

LEMMA StepImplements ==
  ASSUME OInv, [Next]_vars PROVE Ownership!Next \/ UNCHANGED Ownership!vars
<1> USE OInvAt
<1>1. CASE \E s \in Slots : ClaimCommit(s)
  BY <1>1, ClaimImplements
<1>2. CASE ~ \E s \in Slots : ClaimCommit(s)
  <2>1. PICK x : \A r \in Runs \ {x} : run'[r] = run[r] /\ lease'[r] = lease[r]
    BY <1>2, OneRunMoves
  <2>2. \A r \in Runs \ {x} : MapsSame(r)
    BY <2>1 DEF MapsSame, StageOf, OwnerOf, ResultOf
  <2>3. CASE x \in Runs
    <3>1. Moves(x) /\ ~ \E s \in Slots : Grants(s, x)
      BY <1>2, <2>3, RunMoves DEF Grants
    <3>2. QED
      BY <2>2, <2>3, <3>1, MoveImplements
  <2>4. CASE x \notin Runs
    <3>1. \A r \in Runs : MapsSame(r)
      BY <2>2, <2>4
    <3>2. QED
      BY <3>1 DEF MapsSame, Ownership!vars
  <2>5. QED
    BY <2>3, <2>4
<1>3. QED
  BY <1>1, <1>2

(* The tables, triggers and batches implement fenced ownership: one owner for a run
   and one run for an owner, and an outcome only from the owner of the moment. *)
THEOREM ControlPlaneImplementsOwnership == Spec => ImplementsOwnership
<1>1. Init => Ownership!Init
  <2>1. ASSUME Init, NEW r \in Runs
        PROVE  StageOf(r) = "absent" /\ OwnerOf(r) = None /\ run[r].gen = 0 /\ ResultOf(r) = None
    <3>1. run[r] = NoRun
      BY <2>1 DEF Init
    <3>2. QED
      BY <3>1 DEF NoRun, StageOf, OwnerOf, ResultOf
  <2>2. QED
    BY <2>1 DEF Ownership!Init
<1>2. OInv /\ [Next]_vars => [Ownership!Next]_Ownership!vars
  BY StepImplements
<1>3. QED
  BY <1>1, <1>2, OutcomeInvariant, PTL DEF Spec, ImplementsOwnership, Ownership!Spec

-----------------------------------------------------------------------------
(* Closed once *)

ClosingOf(stream) == {i \in 1..Len(stream) : stream[i].kind \in ClosingKinds}

LEMMA ClosingKindsAre == /\ ClosingKinds = {"run.completed", "run.canceled", "run.expired"}
                         /\ LeaseEvents \cap ClosingKinds = {}
  BY DEF ClosingKinds, Closing, Terminal, LeaseEvents

\* of what a step tells, only the last event may close the run
LEMMA ClosingTold ==
  ASSUME NEW r, NEW kind, Tells(r, kind), events[r] \in Seq(EventRow), ClosingOf(events[r]) = {}
  PROVE  /\ ClosingOf(events'[r]) = IF kind \in ClosingKinds THEN {Len(events'[r])} ELSE {}
         /\ events'[r][Len(events'[r])].kind = kind
<1>1. PICK more \in Seq(EventRow) :
        /\ events'[r] = events[r] \o more /\ Len(more) > 0 /\ more[Len(more)].kind = kind
        /\ \A i \in 1..Len(more) : i < Len(more) => more[i].kind \in LeaseEvents
  BY DEF Tells
<1> DEFINE n == Len(events[r])
           m == Len(more)
           new == events'[r]
<1>2. n \in Nat /\ m \in Nat
  BY <1>1, LenProperties
<1>3. /\ Len(new) = n + m
      /\ \A i \in 1..n + m : new[i] = IF i <= n THEN events[r][i] ELSE more[i - n]
  BY <1>1, ConcatProperties
<1>4. \A i \in 1..n : events[r][i].kind \notin ClosingKinds
  BY DEF ClosingOf
<1> HIDE DEF n, m, new
<1>5. n + m \in 1..n + m /\ ~(n + m <= n) /\ n + m - n = m
  BY <1>1, <1>2 DEF m
<1>6. new[n + m].kind = kind
  <2>1. PICK k \in 1..n + m : k = n + m
    BY <1>5
  <2>2. new[k] = IF k <= n THEN events[r][k] ELSE more[k - n]
    BY <1>3
  <2>3. ~(k <= n) /\ k - n = m
    BY <1>1, <1>2, <2>1 DEF m
  <2>4. more[m].kind = kind
    BY <1>1 DEF m
  <2>5. QED
    BY <2>1, <2>2, <2>3, <2>4
<1>7. ASSUME NEW i \in 1..n + m, i # n + m PROVE new[i].kind \notin ClosingKinds
  <2>1. CASE i <= n
    <3>1. i \in 1..n
      BY <1>2, <2>1
    <3>2. QED
      BY <1>3, <1>4, <2>1, <3>1
  <2>2. CASE ~(i <= n)
    <3>1. i - n \in 1..m /\ i - n < m
      BY <1>2, <1>7, <2>2
    <3>2. more[i - n].kind \in LeaseEvents
      BY <1>1, <3>1 DEF m
    <3>3. new[i] = more[i - n]
      BY <1>3, <2>2
    <3>4. QED
      BY <3>2, <3>3, ClosingKindsAre
  <2>3. QED
    BY <2>1, <2>2
<1>8. ClosingOf(new) = IF kind \in ClosingKinds THEN {n + m} ELSE {}
  BY <1>3, <1>5, <1>6, <1>7 DEF ClosingOf
<1>9. QED
  BY <1>3, <1>6, <1>8 DEF new

StreamCloses(r) ==
  /\ ClosingOf(events[r]) = IF run[r].status \in Terminal THEN {Len(events[r])} ELSE {}
  /\ run[r].status \in Terminal => events[r][Len(events[r])].kind = Closing[run[r].status]

LEMMA StreamStep ==
  ASSUME OInv, [Next]_vars, NEW r \in Runs, StreamCloses(r) PROVE StreamCloses(r)'
<1> USE OInvAt
<1>1. Moves(r) /\ run[r] \in RunRow /\ events[r] \in Seq(EventRow)
  BY RunMoves, TablesTypedAt
<1>2. CASE TellsNothing(r) /\ (run'[r] = run[r] \/ (run[r].status \notin Terminal /\ run'[r].status \notin Terminal))
  BY <1>2 DEF TellsNothing, StreamCloses
<1>3. ASSUME NEW kind, Tells(r, kind), run[r].status \notin Terminal,
             IF run'[r].status \in Terminal THEN kind = Closing[run'[r].status] ELSE kind \notin ClosingKinds
      PROVE  StreamCloses(r)'
  <2>1. ClosingOf(events[r]) = {}
    BY <1>3 DEF StreamCloses
  <2>2. /\ ClosingOf(events'[r]) = IF kind \in ClosingKinds THEN {Len(events'[r])} ELSE {}
        /\ events'[r][Len(events'[r])].kind = kind
    BY <1>1, <1>3, <2>1, ClosingTold
  <2>3. run'[r].status \in Terminal => kind \in ClosingKinds
    BY <1>3 DEF ClosingKinds
  <2>4. QED
    BY <1>3, <2>2, <2>3 DEF StreamCloses
<1>4. /\ Closing["canceled"] = "run.canceled" /\ Closing["completed"] = "run.completed"
      /\ Closing["expired"] = "run.expired" /\ Terminal = {"completed", "canceled", "expired"}
  BY DEF Closing, Terminal
<1>5. CASE Untouched(r)
  BY <1>2, <1>5 DEF Untouched
<1>6. CASE Withdraws(r)
  <2>1. run[r].status \notin Terminal /\ run'[r].status \notin Terminal
    BY <1>4, <1>6 DEF Withdraws
  <2>2. TellsNothing(r) \/ Tells(r, "lease.superseded") \/ Tells(r, "lease.revoked")
    BY <1>6 DEF Withdraws
  <2>3. QED
    BY <1>2, <1>3, <2>1, <2>2, ClosingKindsAre
<1>7. CASE Marks(r)
  BY <1>3, <1>4, <1>7, ClosingKindsAre DEF Marks
<1>8. CASE Cancels(r)
  BY <1>3, <1>4, <1>8 DEF Cancels
<1>9. CASE \E s \in Slots : Expires(s, r)
  BY <1>3, <1>4, <1>9 DEF Expires
<1>10. ASSUME NEW s \in Slots, Completes(s, r) PROVE StreamCloses(r)'
  <2>1. run'[r].status = "completed"
    BY <1>1, <1>10 DEF Completes, RunRow
  <2>2. QED
    BY <1>3, <1>4, <1>10, <2>1 DEF Completes
<1>11. ASSUME NEW s \in Slots, Creates(s, r) PROVE StreamCloses(r)'
  <2>1. run'[r].status = "queued"
    BY <1>11 DEF Creates, NoRun
  <2>2. QED
    BY <1>3, <1>4, <1>11, <2>1, ClosingKindsAre DEF Creates
<1>12. ASSUME NEW s \in Slots, Grants(s, r) PROVE StreamCloses(r)'
  <2>1. run'[r].status = "leased"
    BY <1>1, <1>12 DEF Grants, RunRow
  <2>2. run[r].status \notin Terminal
    BY <1>4, <1>12 DEF Grants
  <2>3. QED
    BY <1>3, <1>4, <1>12, <2>1, <2>2, ClosingKindsAre DEF Grants
<1>13. ASSUME NEW s \in Slots, Renews(s, r) PROVE StreamCloses(r)'
  <2>1. run[r].status = "leased" /\ run'[r] = run[r]
    BY <1>13, ActiveIsCurrent DEF Renews
  <2>2. TellsNothing(r) \/ Tells(r, "lease.renewed")
    BY <1>13 DEF Renews
  <2>3. QED
    BY <1>2, <1>3, <1>4, <2>1, <2>2, ClosingKindsAre
<1>14. QED
  BY <1>1, <1>5, <1>6, <1>7, <1>8, <1>9, <1>10, <1>11, <1>12, <1>13 DEF Moves

LEMMA CountAppends ==
  ASSUME NEW S, NEW seq \in Seq(S), NEW entry \in S, NEW e
  PROVE  /\ Count(seq, e) \in Nat
         /\ Count(Append(seq, entry), e) = IF entry = e THEN Count(seq, e) + 1 ELSE Count(seq, e)
<1> DEFINE n == Len(seq)
           old == {m \in 1..n : seq[m] = e}
           longer == Append(seq, entry)
           new == {m \in 1..n + 1 : longer[m] = e}
<1>1. n \in Nat
  BY LenProperties
<1>2. /\ longer \in Seq(S) /\ Len(longer) = n + 1 /\ longer[n + 1] = entry
      /\ \A m \in 1..n : longer[m] = seq[m]
  BY AppendProperties
<1>3. IsFiniteSet(old) /\ Cardinality(old) \in Nat
  <2>1. IsFiniteSet(1..n) /\ old \subseteq 1..n
    BY <1>1, FS_Interval
  <2>2. IsFiniteSet(old)
    BY <2>1, FS_Subset
  <2>3. QED
    BY <2>2, FS_CardinalityType
<1>4. n + 1 \notin old /\ \A m \in 1..n + 1 : m \in 1..n \/ m = n + 1
  BY <1>1
<1>5. new = IF entry = e THEN old \cup {n + 1} ELSE old
  <2>1. \A m \in 1..n : m \in 1..n + 1
    BY <1>1
  <2>2. n + 1 \in 1..n + 1
    BY <1>1
  <2> HIDE DEF longer, n
  <2>3. QED
    BY <1>2, <1>4, <2>1, <2>2
<1>6. Cardinality(new) = IF entry = e THEN Cardinality(old) + 1 ELSE Cardinality(old)
  <2> HIDE DEF old, new
  <2>1. QED
    BY <1>3, <1>4, <1>5, FS_AddElement
<1>7. Count(seq, e) = Cardinality(old) /\ Count(longer, e) = Cardinality(new)
  BY <1>2 DEF Count
<1>8. QED
  BY <1>3, <1>6, <1>7

\* what the ledger tells of a run's completion or expiry is written by the step that makes it
LEMMA LedgerStep ==
  ASSUME OInv, [Next]_vars, NEW r \in Runs
  PROVE  /\ \/ ledger' = ledger
            \/ \E e \in LedgerRow :
                 /\ ledger' = Append(ledger, e)
                 /\ e = Entry("run.completed", r) => run[r].status = "leased" /\ run'[r].status = "completed"
                 /\ e = Entry("run.expired", r) => run[r].status \in {"queued", "leased"} /\ run'[r].status = "expired"
         /\ \A s \in Slots : Completes(s, r) => ledger' = Append(ledger, Entry("run.completed", r))
         /\ \A s \in Slots : Expires(s, r) => ledger' = Append(ledger, Entry("run.expired", r))
<1> USE OInvAt
<1>1. \A s \in Slots : Completes(s, r) => ledger' = Append(ledger, Entry("run.completed", r))
  BY DEF Completes, CompleteCommit
<1>2. \A s \in Slots : Expires(s, r) => ledger' = Append(ledger, Entry("run.expired", r))
  BY DEF Expires, ExpireCommit
<1>3. \A kind, subject : Entry(kind, subject).kind = kind /\ Entry(kind, subject).subject = subject
  BY DEF Entry
<1>4. \A kind \in {"run.requested", "run.completed", "run.expired", "runner.revoked"}, subject \in Runs \cup Runners :
        Entry(kind, subject) \in LedgerRow
  BY DEF Entry, LedgerRow
<1>5. ASSUME NEW s \in Slots, CompleteCommit(s)
      PROVE  \E e \in LedgerRow :
                 /\ ledger' = Append(ledger, e)
                 /\ e = Entry("run.completed", r) => run[r].status = "leased" /\ run'[r].status = "completed"
                 /\ e # Entry("run.expired", r)
  <2> DEFINE x == req[s].run
  <2>1. x \in Runs /\ ledger' = Append(ledger, Entry("run.completed", x))
    BY <1>5, RequestAt DEF CompleteCommit, NamesRows
  <2>2. run[x].status = "leased"
    BY <1>5 DEF CompleteCommit, CompletionCommits, Held
  <2>3. run'[x].status = "completed"
    <3>1. Completed(run[x], req[s]).status = "completed"
      BY <2>1, TablesTypedAt DEF Completed, RunRow
    <3>2. run'[x] = Detach(Completed(run[x], req[s]), req[s].fence)
      BY <1>5, <2>1, TablesTypedAt DEF CompleteCommit
    <3>3. QED
      BY <3>1, <3>2 DEF Detach
  <2>4. Entry("run.completed", x) \in LedgerRow /\ Entry("run.completed", x) # Entry("run.expired", r)
        /\ (Entry("run.completed", x) = Entry("run.completed", r) => x = r)
    BY <1>3, <1>4, <2>1
  <2>5. QED
    BY <2>1, <2>2, <2>3, <2>4
<1>6. ASSUME NEW s \in Slots, ExpireCommit(s)
      PROVE  \E e \in LedgerRow :
                 /\ ledger' = Append(ledger, e)
                 /\ e # Entry("run.completed", r)
                 /\ e = Entry("run.expired", r) => run[r].status \in {"queued", "leased"} /\ run'[r].status = "expired"
  <2> DEFINE x == req[s].run
  <2>1. x \in Runs /\ ledger' = Append(ledger, Entry("run.expired", x)) /\ ExpiryCommits(req[s])
    BY <1>6, RequestAt, IdsAssumption DEF ExpireCommit, NamesRows
  <2>2. run[x].status \in {"queued", "leased"} /\ run[x].status # "expired"
    BY <2>1 DEF ExpiryCommits, Detach
  <2>3. x \notin deadlineOps /\ x \in deadlineOps'
    BY <1>6, <2>1 DEF ExpireCommit, ExpiryCommits
  <2>4. run'[x].status = "expired"
    BY <2>1, <2>3, DeadlineOpsStep
  <2>5. Entry("run.expired", x) \in LedgerRow /\ Entry("run.expired", x) # Entry("run.completed", r)
        /\ (Entry("run.expired", x) = Entry("run.expired", r) => x = r)
    BY <1>3, <1>4, <2>1
  <2>6. QED
    BY <2>1, <2>2, <2>4, <2>5
<1>7. ASSUME NEW s \in Slots, CreateCommit(s) \/ RevokeCommit(s)
      PROVE  \E e \in LedgerRow : ledger' = Append(ledger, e) /\ e # Entry("run.completed", r) /\ e # Entry("run.expired", r)
  <2>1. PICK kind, subject : /\ ledger' = Append(ledger, Entry(kind, subject))
                             /\ kind \in {"run.requested", "runner.revoked"} /\ subject \in Runs \cup Runners
    BY <1>7, RequestAt DEF CreateCommit, RevokeCommit, NamesRows
  <2>2. QED
    BY <1>3, <1>4, <2>1
<1>8. ASSUME NEW s \in Slots,
             \/ ClaimCommit(s) \/ RenewCommit(s) \/ RenewUnlogged(s) \/ CancelCommit(s)
             \/ CancelExpiredCommit(s) \/ CancelExpiredMiss(s)
      PROVE  ledger' = ledger
  BY <1>8 DEF ClaimCommit, RenewCommit, RenewUnlogged, CancelCommit, CancelExpiredCommit, CancelExpiredMiss
<1>9. \/ ledger' = ledger
      \/ \E s \in Slots : CompleteCommit(s) \/ ExpireCommit(s) \/ CreateCommit(s) \/ RevokeCommit(s)
  BY <1>8, QuietPromises
<1>10. QED
  BY <1>1, <1>2, <1>5, <1>6, <1>7, <1>9

LedgerCounts(r) ==
  /\ Count(ledger, Entry("run.completed", r)) = IF run[r].status = "completed" THEN 1 ELSE 0
  /\ Count(ledger, Entry("run.expired", r)) = IF run[r].status = "expired" THEN 1 ELSE 0

LEMMA LedgerCountsStep ==
  ASSUME OInv, [Next]_vars, NEW r \in Runs, LedgerCounts(r) PROVE LedgerCounts(r)'
<1> USE OInvAt
<1> DEFINE done == Entry("run.completed", r)
           late == Entry("run.expired", r)
<1>1. Moves(r) /\ run[r] \in RunRow /\ ledger \in Seq(LedgerRow)
  BY RunMoves, TablesTypedAt, TablesForward
<1>2. done \in LedgerRow /\ late \in LedgerRow /\ done # late
  BY DEF Entry, LedgerRow
<1>3. ASSUME NEW s \in Slots, Completes(s, r) PROVE LedgerCounts(r)'
  <2>1. ledger' = Append(ledger, done) /\ run[r].status = "leased"
    BY <1>3, LedgerStep DEF Completes
  <2>2. run'[r].status = "completed"
    BY <1>1, <1>3 DEF Completes, RunRow
  <2>3. Count(ledger', done) = Count(ledger, done) + 1 /\ Count(ledger', late) = Count(ledger, late)
    BY <1>1, <1>2, <2>1, CountAppends
  <2> HIDE DEF done, late
  <2>4. QED
    BY <2>1, <2>2, <2>3 DEF LedgerCounts, done, late
<1>4. ASSUME NEW s \in Slots, Expires(s, r) PROVE LedgerCounts(r)'
  <2>1. ledger' = Append(ledger, late) /\ run[r].status \in {"queued", "leased"} /\ run'[r].status = "expired"
    BY <1>4, LedgerStep DEF Expires
  <2>2. Count(ledger', late) = Count(ledger, late) + 1 /\ Count(ledger', done) = Count(ledger, done)
    BY <1>1, <1>2, <2>1, CountAppends
  <2> HIDE DEF done, late
  <2>3. QED
    BY <2>1, <2>2 DEF LedgerCounts, done, late
<1>5. CASE /\ run'[r].status = "completed" <=> run[r].status = "completed"
           /\ run'[r].status = "expired" <=> run[r].status = "expired"
  <2>1. Count(ledger', done) = Count(ledger, done) /\ Count(ledger', late) = Count(ledger, late)
    <3>1. CASE ledger' = ledger
      BY <3>1
    <3>2. ASSUME NEW e \in LedgerRow, ledger' = Append(ledger, e), e # done, e # late
          PROVE Count(ledger', done) = Count(ledger, done) /\ Count(ledger', late) = Count(ledger, late)
      BY <1>1, <3>2, CountAppends
    <3>3. QED
      BY <1>5, <3>1, <3>2, LedgerStep
  <2> HIDE DEF done, late
  <2>2. QED
    BY <1>5, <2>1 DEF LedgerCounts, done, late
<1>6. ASSUME NEW s \in Slots, Creates(s, r) \/ Grants(s, r)
      PROVE  run'[r].status \in {"queued", "leased"} /\ run[r].status \in {"absent", "queued", "leased"}
  BY <1>1, <1>6 DEF Creates, Grants, NoRun, RunRow
<1>7. QED
  BY <1>1, <1>3, <1>4, <1>5, <1>6 DEF Moves, Untouched, Withdraws, Marks, Cancels, Renews

(* A run is closed by one event, its last, of the kind its status tells, and the ledger
   carries each completion and each expiry exactly once. *)
THEOREM ClosesOnce == Spec => []ClosedOnce
<1> DEFINE Closings == \A r \in Runs : StreamCloses(r) /\ LedgerCounts(r)
<1>1. Init => Closings
  <2>1. ASSUME Init, NEW r \in Runs PROVE StreamCloses(r) /\ LedgerCounts(r)
    <3>1. run[r].status = "absent" /\ events[r] = << >> /\ ledger = << >>
      BY <2>1 DEF Init, NoRun
    <3>2. ClosingOf(events[r]) = {}
      BY <3>1 DEF ClosingOf
    <3>3. \A e : Count(ledger, e) = 0
      BY <3>1, FS_EmptySet DEF Count
    <3>4. QED
      BY <3>1, <3>2, <3>3 DEF StreamCloses, LedgerCounts, Terminal
  <2>2. QED
    BY <2>1
<1>2. OInv /\ Closings /\ [Next]_vars => Closings'
  BY StreamStep, LedgerCountsStep
<1>3. Closings => ClosedOnce
  <2>1. Closing["completed"] = "run.completed" /\ Closing["expired"] = "run.expired"
    BY DEF Closing
  <2>2. ASSUME Closings, NEW r \in Runs, NEW k \in {"completed", "expired"}
        PROVE  Count(ledger, Entry(Closing[k], r)) = IF run[r].status = k THEN 1 ELSE 0
    BY <2>1, <2>2 DEF LedgerCounts
  <2>3. QED
    BY <2>2 DEF ClosedOnce, StreamCloses, ClosingOf
<1>4. QED
  BY <1>1, <1>2, <1>3, OutcomeInvariant, PTL DEF Spec

-----------------------------------------------------------------------------
(* Applied once *)

OpsOf(r) == {x \in ops : x.run = r}

\* a row that tells of the same operation
SameOp(x, y) == y.run = x.run /\ y.op = x.op /\ y.message = x.message /\ y.fence = x.fence

\* the operations of the run are kept, though their responses may be compacted
OpsKept(r) ==
  \E kept \in [ops -> ops'] :
    /\ \A x \in ops : SameOp(x, kept[x])
    /\ OpsOf(r)' = {kept[x] : x \in OpsOf(r)}
\* one operation is added, under an id that the run has not seen
OpAdded(r, new) ==
  /\ OpsOf(r)' = OpsOf(r) \cup {new} /\ new.run = r
  /\ \A x \in OpsOf(r) : x.op # new.op

LEMMA CleanupKeeps == ASSUME TInv, Cleanup, NEW r PROVE OpsKept(r)
<1>1. ops \subseteq OperationRow
  BY DEF TInv, TypeOK, TablesTyped
<1> DEFINE kept == [x \in ops |-> IF x.at + OperationTtl <= clock THEN [x EXCEPT !.compacted = TRUE] ELSE x]
<1>2. ASSUME NEW x \in ops PROVE SameOp(x, kept[x])
  BY <1>1 DEF SameOp, OperationRow
<1>3. ops' = {kept[x] : x \in ops}
  BY DEF Cleanup
<1> HIDE DEF kept
<1>4. kept \in [ops -> ops']
  <2>1. kept = [x \in ops |-> kept[x]]
    BY DEF kept
  <2>2. \A x \in ops : kept[x] \in ops'
    BY <1>3
  <2>3. QED
    BY <2>1, <2>2
<1>5. OpsOf(r)' = {kept[x] : x \in OpsOf(r)}
  BY <1>2, <1>3 DEF OpsOf, SameOp
<1>6. QED
  BY <1>2, <1>4, <1>5 DEF OpsKept

OthersOps(r) == OpsOf(r)' = OpsOf(r) /\ ops \subseteq ops'

LEMMA AddsElsewhere == ASSUME NEW r, NEW x, x.run # r, ops' = ops \cup {x} PROVE OthersOps(r)
<1>1. \A y : y \in ops' /\ y.run = r <=> y \in ops /\ y.run = r
  OBVIOUS
<1>2. OpsOf(r)' = {y \in ops' : y.run = r} /\ OpsOf(r) = {y \in ops : y.run = r}
  BY DEF OpsOf
<1>3. QED
  BY <1>1, <1>2 DEF OthersOps

LEMMA SameOpsKept == ASSUME NEW r, OthersOps(r) PROVE OpsKept(r)
<1> DEFINE kept == [x \in ops |-> x]
<1>1. kept \in [ops -> ops'] /\ \A x \in ops : kept[x] = x
  BY DEF OthersOps
<1> HIDE DEF kept
<1>2. OpsOf(r)' = {kept[x] : x \in OpsOf(r)}
  BY <1>1 DEF OpsOf, OthersOps
<1>3. QED
  BY <1>1, <1>2 DEF OpsKept, SameOp

\* the one operation an applied claim or completion records
ClaimOp(q) == OpRow(q, q.head.gen + 1, LeaseUntil(q.run, q.at))
CompletionOp(q) == OpRow(q, q.fence, 0)

LEMMA OpsStep ==
  ASSUME OInv, [Next]_vars, NEW r \in Runs
  PROVE  \/ /\ OpsKept(r) /\ run'[r].gen = run[r].gen
            /\ run'[r].status = "completed" <=> run[r].status = "completed"
         \/ \E s \in Slots : Grants(s, r) /\ OpAdded(r, ClaimOp(req[s]))
         \/ \E s \in Slots : Completes(s, r) /\ OpAdded(r, CompletionOp(req[s]))
<1> USE OInvAt
<1>1. Moves(r) /\ run[r] \in RunRow
  BY RunMoves, TablesTypedAt
<1>2. RInv
  BY DEF OInv, HInv, RInv
<1>3. ASSUME NEW s \in Slots, ClaimCommit(s)
      PROVE  OthersOps(r) \/ (Grants(s, r) /\ OpAdded(r, ClaimOp(req[s])))
  <2> DEFINE q == req[s]
  <2>1. ops' = ops \cup {ClaimOp(q)} /\ ClaimOp(q).run = q.run /\ ClaimOp(q).op = q.op /\ OpFresh(q.run, q.op)
    BY <1>3 DEF ClaimCommit, ClaimCommits, ClaimOp, OpRow
  <2>2. CASE q.run = r
    <3>1. Grants(s, r)
      BY <1>2, <1>3, <2>2, ClaimDoes
    <3>2. QED
      BY <2>1, <2>2, <3>1 DEF OpAdded, OpsOf, OpFresh
  <2>3. CASE q.run # r
    BY <2>1, <2>3, AddsElsewhere
  <2>4. QED
    BY <2>2, <2>3
<1>4. ASSUME NEW s \in Slots, CompleteCommit(s)
      PROVE  OthersOps(r) \/ (Completes(s, r) /\ OpAdded(r, CompletionOp(req[s])))
  <2> DEFINE q == req[s]
  <2>1. ops' = ops \cup {CompletionOp(q)} /\ CompletionOp(q).run = q.run /\ CompletionOp(q).op = q.op /\ OpFresh(q.run, q.op)
    BY <1>4 DEF CompleteCommit, CompletionCommits, CompletionOp, OpRow
  <2>2. CASE q.run = r
    <3>1. Completes(s, r)
      BY <1>2, <1>4, <2>2, CompleteDoes
    <3>2. QED
      BY <2>1, <2>2, <3>1 DEF OpAdded, OpsOf, OpFresh
  <2>3. CASE q.run # r
    BY <2>1, <2>3, AddsElsewhere
  <2>4. QED
    BY <2>2, <2>3
<1>5. ASSUME NEW s \in Slots,
             \/ CreateCommit(s) \/ RevokeCommit(s) \/ ExpireCommit(s) \/ RenewCommit(s) \/ RenewUnlogged(s)
             \/ CancelCommit(s) \/ CancelExpiredCommit(s) \/ CancelExpiredMiss(s)
      PROVE  ops' = ops
  BY <1>5 DEF CreateCommit, RevokeCommit, ExpireCommit, RenewCommit, RenewUnlogged, CancelCommit,
              CancelExpiredCommit, CancelExpiredMiss
<1>6. ASSUME NEW s \in Slots, Ask(s) \/ Crash(s) \/ StartReconcile(s) \/ ReadDue(s) \/ ExpireAbort(s) \/ Read(s)
                               \/ Refuse(s) \/ Abort(s) \/ CancelSettled(s)
      PROVE  ops' = ops
  BY <1>6 DEF Ask, AskCreate, AskCancel, AskRevoke, Submit, Crash, StartReconcile, ReadDue, ExpireAbort, Read,
              Refuse, Abort, CancelSettled, rows
<1>7. ASSUME \/ Tick \/ UNCHANGED vars \/ (\E w \in Runners : NewReport(w))
             \/ \E w \in Runners, x \in Runs, n \in Nonces : \E q \in RunnerRequests(w, x, n) : Resubmit(q)
      PROVE  ops' = ops
  BY <1>7 DEF Tick, vars, NewReport, Resubmit, rows
<1>8. \/ OthersOps(r) \/ Cleanup
      \/ \E s \in Slots : Grants(s, r) /\ OpAdded(r, ClaimOp(req[s]))
      \/ \E s \in Slots : Completes(s, r) /\ OpAdded(r, CompletionOp(req[s]))
  <2>1. ASSUME NEW s \in Slots, SlotStep(s) \/ Ask(s) \/ Crash(s)
        PROVE  ops' = ops \/ ClaimCommit(s) \/ CompleteCommit(s)
    BY <1>5, <1>6, <2>1 DEF SlotStep
  <2>2. ops' = ops => OthersOps(r)
    BY DEF OpsOf, OthersOps
  <2>3. QED
    <3>1. CASE \E s \in Slots : SlotStep(s) \/ Ask(s) \/ Crash(s)
      BY <1>3, <1>4, <2>1, <2>2, <3>1
    <3>2. CASE ~ \E s \in Slots : SlotStep(s) \/ Ask(s) \/ Crash(s)
      BY <1>7, <2>2, <3>2 DEF Next
    <3>3. QED
      BY <3>1, <3>2
<1>9. OpsKept(r) \/ (\E s \in Slots : Grants(s, r) /\ OpAdded(r, ClaimOp(req[s])))
      \/ (\E s \in Slots : Completes(s, r) /\ OpAdded(r, CompletionOp(req[s])))
  BY <1>8, CleanupKeeps, SameOpsKept
<1>10. CASE \E s \in Slots : Grants(s, r)
  <2>1. PICK s \in Slots : Grants(s, r)
    BY <1>10
  <2>2. ClaimCommit(s) /\ req[s].run = r
    BY <2>1 DEF Grants
  <2>3. ClaimOp(req[s]) \in ops' /\ ClaimOp(req[s]).run = r /\ \A x \in ops : x.run = r => x.op # ClaimOp(req[s]).op
    BY <2>2 DEF ClaimCommit, ClaimCommits, ClaimOp, OpRow, OpFresh
  <2>4. OpsOf(r)' # OpsOf(r)
    BY <2>3 DEF OpsOf
  <2>5. QED
    BY <1>3, <2>1, <2>2, <2>4 DEF OthersOps
<1>11. CASE \E s \in Slots : Completes(s, r)
  <2>1. PICK s \in Slots : Completes(s, r)
    BY <1>11
  <2>2. CompleteCommit(s) /\ req[s].run = r
    BY <2>1 DEF Completes
  <2>3. CompletionOp(req[s]) \in ops' /\ CompletionOp(req[s]).run = r
        /\ \A x \in ops : x.run = r => x.op # CompletionOp(req[s]).op
    BY <2>2 DEF CompleteCommit, CompletionCommits, CompletionOp, OpRow, OpFresh
  <2>4. OpsOf(r)' # OpsOf(r)
    BY <2>3 DEF OpsOf
  <2>5. QED
    BY <1>4, <2>1, <2>2, <2>4 DEF OthersOps
<1>12. CASE ~(\E s \in Slots : Grants(s, r)) /\ ~(\E s \in Slots : Completes(s, r))
  <2>1. OpsKept(r)
    BY <1>9, <1>12
  <2>2. run'[r].gen = run[r].gen
    <3>1. ASSUME NEW s \in Slots, Creates(s, r) PROVE run'[r].gen = run[r].gen
      BY <3>1 DEF Creates, NoRun, OInv, BlankRows
    <3>2. QED
      BY <1>1, <1>12, <3>1 DEF Moves, Untouched, Withdraws, Marks, Cancels, Renews, Expires, TermsKept
  <2>3. run'[r].status = "completed" <=> run[r].status = "completed"
    <3>1. ASSUME NEW s \in Slots, Creates(s, r) PROVE run'[r].status = "queued" /\ run[r].status = "absent"
      BY <3>1 DEF Creates, NoRun
    <3>2. QED
      BY <1>1, <1>12, <3>1 DEF Moves, Untouched, Withdraws, Marks, Cancels, Renews, Expires
  <2>4. QED
    BY <2>1, <2>2, <2>3
<1>13. QED
  BY <1>10, <1>11, <1>12

AppliedAt(r) ==
  /\ \A x, y \in OpsOf(r) : x.op = y.op => x = y
  /\ \A f \in Fences(r) : f > run[r].gen => ClaimOps(r, f) = {}
  /\ \A f \in Fences(r) : f <= run[r].gen =>
       \E x : ClaimOps(r, f) = {x} /\ x.message.runner = lease[r][f].runner
  /\ CompletionOps(r) # {} <=> run[r].status = "completed"
  /\ \A x \in CompletionOps(r) : /\ x.fence = run[r].gen /\ x.op = run[r].doneBy
                                 /\ x.message.runner = lease[r][run[r].gen].runner
                                 /\ x.message.outcome = run[r].outcome

\* the runner of a fence handed out is not replaced
LEMMA RunnersStay ==
  ASSUME OInv, [Next]_vars, NEW r \in Runs, NEW f \in Fences(r), f <= run[r].gen
  PROVE  lease'[r][f].runner = lease[r][f].runner
<1> USE OInvAt
<1>1. lease[r][f].status # "none" /\ f \in Nat
  BY TablesTypedAt DEF Agree
<1>2. QED
  BY <1>1, LeasesForward DEF LeaseForward

LEMMA KeptStaysApplied ==
  ASSUME OInv, [Next]_vars, NEW r \in Runs, AppliedAt(r), OpsKept(r), run'[r].gen = run[r].gen,
         run'[r].status = "completed" <=> run[r].status = "completed"
  PROVE  AppliedAt(r)'
<1> USE OInvAt
<1>1. PICK kept \in [ops -> ops'] : (\A x \in ops : SameOp(x, kept[x])) /\ OpsOf(r)' = {kept[x] : x \in OpsOf(r)}
  BY DEF OpsKept
<1>2. OpsOf(r) \subseteq ops
  BY DEF OpsOf
<1>3. \A x, y \in OpsOf(r)' : x.op = y.op => x = y
  BY <1>1, <1>2 DEF AppliedAt, SameOp
<1>4. ASSUME NEW f PROVE ClaimOps(r, f)' = {kept[x] : x \in ClaimOps(r, f)}
  <2>1. ClaimOps(r, f) = {x \in OpsOf(r) : x.fence = f /\ x.message.kind = "claim"}
    BY DEF ClaimOps, OpsOf
  <2>2. ClaimOps(r, f)' = {x \in OpsOf(r)' : x.fence = f /\ x.message.kind = "claim"}
    BY DEF ClaimOps, OpsOf
  <2>3. QED
    BY <1>1, <1>2, <2>1, <2>2 DEF SameOp
<1>5. CompletionOps(r)' = {kept[x] : x \in CompletionOps(r)}
  <2>1. CompletionOps(r) = {x \in OpsOf(r) : x.message.kind = "complete"}
    BY DEF CompletionOps, OpsOf
  <2>2. CompletionOps(r)' = {x \in OpsOf(r)' : x.message.kind = "complete"}
    BY DEF CompletionOps, OpsOf
  <2>3. QED
    BY <1>1, <1>2, <2>1, <2>2 DEF SameOp
<1>6. ASSUME NEW f \in Fences(r), f > run'[r].gen PROVE ClaimOps(r, f)' = {}
  BY <1>4, <1>6 DEF AppliedAt
<1>7. ASSUME NEW f \in Fences(r), f <= run'[r].gen
      PROVE  \E x : ClaimOps(r, f)' = {x} /\ x.message.runner = lease'[r][f].runner
  <2>1. PICK x : ClaimOps(r, f) = {x} /\ x.message.runner = lease[r][f].runner
    BY <1>7 DEF AppliedAt
  <2>2. x \in ops
    BY <2>1 DEF ClaimOps
  <2>3. ClaimOps(r, f)' = {kept[x]} /\ kept[x].message = x.message
    BY <1>1, <1>4, <2>1, <2>2 DEF SameOp
  <2>4. lease'[r][f].runner = lease[r][f].runner
    BY <1>7, RunnersStay
  <2>5. QED
    BY <2>1, <2>3, <2>4
<1>8. CompletionOps(r)' # {} <=> run'[r].status = "completed"
  BY <1>5 DEF AppliedAt
<1>9. ASSUME NEW y \in CompletionOps(r)'
      PROVE  /\ y.fence = run'[r].gen /\ y.op = run'[r].doneBy
             /\ y.message.runner = lease'[r][run'[r].gen].runner
             /\ y.message.outcome = run'[r].outcome
  <2>1. PICK x \in CompletionOps(r) : y = kept[x]
    BY <1>5, <1>9
  <2>2. SameOp(x, y)
    BY <1>1, <2>1 DEF CompletionOps
  <2>3. run[r].status = "completed"
    BY <2>1 DEF AppliedAt
  <2>4. run'[r] = run[r] /\ lease'[r] = lease[r]
    BY <2>3, StepSettles DEF Settled, Terminal
  <2>5. QED
    BY <2>1, <2>2, <2>4 DEF AppliedAt, SameOp
<1>10. QED
  BY <1>3, <1>6, <1>7, <1>8, <1>9 DEF AppliedAt

LEMMA GrantAddsClaim ==
  ASSUME OInv, [Next]_vars, NEW r \in Runs, AppliedAt(r), NEW s \in Slots, Grants(s, r), OpAdded(r, ClaimOp(req[s]))
  PROVE  AppliedAt(r)'
<1> USE OInvAt
<1> DEFINE q == req[s]
           new == ClaimOp(q)
           g == run[r].gen + 1
<1>1. /\ q.run = r /\ q.kind = "claim" /\ q.head.gen = run[r].gen /\ g \in Fences(r) /\ run[r] \in RunRow
      /\ run[r].gen \in Nat /\ Fences(r) \subseteq Nat
  BY TablesTypedAt DEF Grants, ClaimCommit
<1>2. new.fence = g /\ new.message.kind = "claim" /\ new.message.runner = q.runner /\ new.run = r
  BY <1>1 DEF ClaimOp, OpRow, Message
<1>3. run'[r].gen = g /\ run'[r].status = "leased" /\ run[r].status # "completed"
  BY <1>1 DEF Grants, RunRow
<1>4. lease'[r][g].runner = q.runner
  <2>1. GrantedLease(q).runner = q.runner
    BY DEF GrantedLease
  <2>2. lease'[r][g] = GrantedLease(q)
    BY <1>1, TablesTypedAt DEF Grants
  <2>3. QED
    BY <2>1, <2>2
<1> HIDE DEF g, new, q
<1>5. OpsOf(r)' = OpsOf(r) \cup {new} /\ \A x \in OpsOf(r) : x.op # new.op
  BY DEF OpAdded, new, q
<1>6. \A x, y \in OpsOf(r)' : x.op = y.op => x = y
  BY <1>5 DEF AppliedAt
<1>7. ASSUME NEW f PROVE ClaimOps(r, f)' = IF f = g THEN ClaimOps(r, f) \cup {new} ELSE ClaimOps(r, f)
  <2>1. ClaimOps(r, f) = {x \in OpsOf(r) : x.fence = f /\ x.message.kind = "claim"}
    BY DEF ClaimOps, OpsOf
  <2>2. ClaimOps(r, f)' = {x \in OpsOf(r)' : x.fence = f /\ x.message.kind = "claim"}
    BY DEF ClaimOps, OpsOf
  <2>3. QED
    BY <1>2, <1>5, <2>1, <2>2
<1>8. CompletionOps(r)' = CompletionOps(r)
  <2>1. CompletionOps(r) = {x \in OpsOf(r) : x.message.kind = "complete"}
    BY DEF CompletionOps, OpsOf
  <2>2. CompletionOps(r)' = {x \in OpsOf(r)' : x.message.kind = "complete"}
    BY DEF CompletionOps, OpsOf
  <2>3. QED
    BY <1>2, <1>5, <2>1, <2>2
<1>9. ASSUME NEW f \in Fences(r), f > run'[r].gen PROVE ClaimOps(r, f)' = {}
  <2>1. f > run[r].gen /\ f # g
    BY <1>1, <1>3, <1>9 DEF g
  <2>2. QED
    BY <1>7, <2>1 DEF AppliedAt
<1>10. ASSUME NEW f \in Fences(r), f <= run'[r].gen
       PROVE  \E x : ClaimOps(r, f)' = {x} /\ x.message.runner = lease'[r][f].runner
  <2>1. CASE f = g
    <3>1. f > run[r].gen
      BY <1>1, <2>1 DEF g
    <3>2. ClaimOps(r, f)' = {new}
      BY <1>7, <2>1, <3>1 DEF AppliedAt
    <3>3. QED
      BY <1>2, <1>4, <2>1, <3>2
  <2>2. CASE f # g
    <3>1. f <= run[r].gen
      BY <1>1, <1>3, <1>10, <2>2 DEF g
    <3>2. PICK x : ClaimOps(r, f) = {x} /\ x.message.runner = lease[r][f].runner
      BY <3>1 DEF AppliedAt
    <3>3. QED
      BY <1>7, <2>2, <3>1, <3>2, RunnersStay
  <2>3. QED
    BY <2>1, <2>2
<1>11. CompletionOps(r)' = {} /\ run'[r].status # "completed"
  BY <1>3, <1>8 DEF AppliedAt
<1>12. QED
  BY <1>6, <1>9, <1>10, <1>11 DEF AppliedAt

LEMMA CompletionAddsResult ==
  ASSUME OInv, [Next]_vars, NEW r \in Runs, AppliedAt(r), NEW s \in Slots, Completes(s, r),
         OpAdded(r, CompletionOp(req[s]))
  PROVE  AppliedAt(r)'
<1> USE OInvAt
<1> DEFINE q == req[s]
           new == CompletionOp(q)
           g == run[r].gen
<1>1. /\ q.run = r /\ q.kind = "complete" /\ q.fence = g /\ g \in Fences(r) /\ run[r] \in RunRow
      /\ g \in Nat /\ Fences(r) \subseteq Nat /\ lease[r][g].runner = q.runner
  <2>1. q.run = r /\ q.kind = "complete" /\ q.fence = g /\ ActiveLease(r, g)
    BY DEF Completes, CompleteCommit, EndsLease
  <2>2. g \in Fences(r) /\ run[r] \in RunRow /\ g \in Nat /\ Fences(r) \subseteq Nat
    BY <2>1, TablesTypedAt DEF ActiveLease
  <2>3. ReadWell(q)
    BY DEF OInv, RequestsReadWell
  <2>4. lease[r][g].runner = q.runner
    BY <2>1, <2>3 DEF ReadWell
  <2> HIDE DEF g, q
  <2>5. QED
    BY <2>1, <2>2, <2>4
<1>2. /\ new.fence = g /\ new.message.kind = "complete" /\ new.message.runner = q.runner /\ new.run = r
      /\ new.op = q.op /\ new.message.outcome = q.outcome
  BY <1>1 DEF CompletionOp, OpRow, Message
<1>3. /\ run'[r].gen = g /\ run'[r].status = "completed" /\ run[r].status # "completed"
      /\ run'[r].doneBy = q.op /\ run'[r].outcome = q.outcome
  BY <1>1 DEF Completes, RunRow
<1>4. lease'[r][g].runner = q.runner
  BY <1>1, RunnersStay
<1> HIDE DEF g, new, q
<1>5. OpsOf(r)' = OpsOf(r) \cup {new} /\ \A x \in OpsOf(r) : x.op # new.op
  BY DEF OpAdded, new, q
<1>6. \A x, y \in OpsOf(r)' : x.op = y.op => x = y
  BY <1>5 DEF AppliedAt
<1>7. ASSUME NEW f PROVE ClaimOps(r, f)' = ClaimOps(r, f)
  <2>1. ClaimOps(r, f) = {x \in OpsOf(r) : x.fence = f /\ x.message.kind = "claim"}
    BY DEF ClaimOps, OpsOf
  <2>2. ClaimOps(r, f)' = {x \in OpsOf(r)' : x.fence = f /\ x.message.kind = "claim"}
    BY DEF ClaimOps, OpsOf
  <2>3. QED
    BY <1>2, <1>5, <2>1, <2>2
<1>8. CompletionOps(r)' = {new}
  <2>1. CompletionOps(r) = {x \in OpsOf(r) : x.message.kind = "complete"} /\ CompletionOps(r) = {}
    BY <1>3 DEF CompletionOps, OpsOf, AppliedAt
  <2>2. CompletionOps(r)' = {x \in OpsOf(r)' : x.message.kind = "complete"}
    BY DEF CompletionOps, OpsOf
  <2>3. QED
    BY <1>2, <1>5, <2>1, <2>2
<1>9. ASSUME NEW f \in Fences(r), f > run'[r].gen PROVE ClaimOps(r, f)' = {}
  BY <1>3, <1>7, <1>9 DEF AppliedAt, g
<1>10. ASSUME NEW f \in Fences(r), f <= run'[r].gen
       PROVE  \E x : ClaimOps(r, f)' = {x} /\ x.message.runner = lease'[r][f].runner
  <2>1. f <= run[r].gen
    BY <1>3, <1>10 DEF g
  <2>2. PICK x : ClaimOps(r, f) = {x} /\ x.message.runner = lease[r][f].runner
    BY <2>1 DEF AppliedAt
  <2>3. QED
    BY <1>7, <2>1, <2>2, RunnersStay
<1>11. QED
  BY <1>2, <1>3, <1>4, <1>6, <1>8, <1>9, <1>10 DEF AppliedAt

(* Copies and retries included, every lease was granted to one operation of its
   runner, and an outcome was written by one operation of the last lease's holder. *)
THEOREM AppliesOnce == Spec => []AppliedOnce
<1> DEFINE Applied == \A r \in Runs : AppliedAt(r)
<1>1. Init => Applied
  <2>1. ASSUME Init, NEW r \in Runs PROVE AppliedAt(r)
    <3>1. run[r] = NoRun /\ ops = {}
      BY <2>1 DEF Init
    <3>2. run[r].gen = 0 /\ run[r].status = "absent" /\ OpsOf(r) = {} /\ CompletionOps(r) = {}
          /\ \A f : ClaimOps(r, f) = {}
      BY <3>1 DEF NoRun, OpsOf, CompletionOps, ClaimOps
    <3>3. \A f \in Fences(r) : ~(f <= 0)
      BY DEF Fences
    <3>4. QED
      BY <3>2, <3>3 DEF AppliedAt
  <2>2. QED
    BY <2>1
<1>2. OInv /\ Applied /\ [Next]_vars => Applied'
  BY OpsStep, KeptStaysApplied, GrantAddsClaim, CompletionAddsResult
<1>3. OInv /\ Applied => AppliedOnce
  <2>1. ASSUME OInv, Applied, NEW r \in Runs, NEW f \in Fences(r)
        PROVE  /\ Cardinality(ClaimOps(r, f)) = IF f <= run[r].gen THEN 1 ELSE 0
               /\ \A x \in ClaimOps(r, f) : x.message.runner = lease[r][f].runner
    <3>1. f \in Nat /\ run[r].gen \in Nat
      BY <2>1, OInvAt, TablesTypedAt
    <3>2. CASE f <= run[r].gen
      <4>1. PICK x : ClaimOps(r, f) = {x} /\ x.message.runner = lease[r][f].runner
        BY <2>1, <3>2 DEF AppliedAt
      <4>2. Cardinality({x}) = 1
        BY FS_Singleton
      <4>3. QED
        BY <3>2, <4>1, <4>2
    <3>3. CASE f > run[r].gen
      BY <2>1, <3>1, <3>3, FS_EmptySet DEF AppliedAt
    <3>4. QED
      BY <3>1, <3>2, <3>3
  <2>2. ASSUME Applied, NEW r \in Runs PROVE \A x, y \in ops : x.run = r /\ y.run = r /\ x.op = y.op => x = y
    BY <2>2 DEF AppliedAt, OpsOf
  <2>3. QED
    BY <2>1, <2>2 DEF AppliedOnce, AppliedAt
<1>4. QED
  BY <1>1, <1>2, <1>3, OutcomeInvariant, PTL DEF Spec
=============================================================================
