-------------------------- MODULE RunControlProofs --------------------------
(***************************************************************************)
(* Invariants of RunControl for every number of runs, runners, operations, *)
(* nonces and invocations, and every bound.  The argument is inductive:    *)
(* TypeOK and the shape of the requests in flight first, then the leases.  *)
(***************************************************************************)
EXTENDS RunControl, SequenceTheorems, TLAPS

(* A request in flight names the rows its handler uses: this is what lets its
   batch index the tables.  (What the routes parse before a handler is called.) *)
NamesRows(q) ==
  /\ q.phase = "idle" <=> q.kind = "none"
  /\ q.nonce # None \/ q.op # None => q.kind \in {"claim", "renew", "complete"}
  /\ q.kind \in {"claim", "renew", "complete"} =>
       q.runner \in Runners /\ q.run \in Runs /\ q.nonce \in Nonces
  /\ q.kind \in {"claim", "complete"} => q.op \in Ops
  /\ q.kind = "complete" => q.outcome \in Outcomes
  /\ q.kind \in {"renew", "complete"} => q.fence \in Fences(q.run)
  /\ q.kind \in {"create", "cancel"} => q.run \in Runs
  /\ q.kind = "revoke" => q.runner \in Runners
  /\ q.kind = "expire" /\ q.phase = "ready" => q.run \in EngineRuns
  /\ q.kind = "cancel" /\ q.phase = "ready" => q.head.status \in {"queued", "leased"}

RequestsNameRows == \A s \in Slots : NamesRows(req[s])

TInv == TypeOK /\ RequestsNameRows

-----------------------------------------------------------------------------
(* Rows and requests that are built have the types of their columns *)

LEMMA IdleTyped == Idle \in Request /\ NamesRows(Idle) /\ NoHead \in HeadRow
  BY IdsAssumption DEF Idle, Request, NoHead, HeadRow, NamesRows, Terminal

LEMMA EarlierIsNat == ASSUME NEW a \in Nat, NEW b \in Nat PROVE Earlier(a, b) \in Nat
  BY DEF Earlier

LEMMA Numbers ==
  /\ LeaseTtl \in Nat /\ RunDeadline \in Nat /\ NonceTtl \in Nat
  /\ \A r \in Runs : MaxClaims[r] \in Nat
  BY NumbersAssumption

LEMMA LeaseUntilIsNat ==
  ASSUME run \in [Runs -> RunRow], NEW r \in Runs, NEW t \in Nat
  PROVE  LeaseUntil(r, t) \in Nat
<1>1. run[r].deadline \in Nat
  BY DEF RunRow
<1>2. t + LeaseTtl \in Nat
  BY Numbers
<1>3. QED
  BY <1>1, <1>2, EarlierIsNat DEF LeaseUntil

LEMMA NextVersion == ASSUME NEW row \in RunRow PROVE row.version + 1 \in Nat
  BY DEF RunRow

LEMMA DetachTyped ==
  ASSUME NEW row \in RunRow, NEW f
  PROVE  Detach(row, f) \in RunRow
<1>1. ASSUME NEW v \in Nat
      PROVE  [row EXCEPT !.status = "queued", !.lease = 0, !.version = v] \in RunRow
  BY DEF RunRow
<1>2. QED
  BY <1>1, NextVersion DEF Detach

LEMMA AttachTyped ==
  ASSUME NEW row \in RunRow, NEW f \in Nat
  PROVE  Attach(row, f) \in RunRow
<1>1. ASSUME NEW v \in Nat
      PROVE  [row EXCEPT !.status = "leased", !.gen = f, !.lease = f, !.version = v] \in RunRow
  BY DEF RunRow
<1>2. QED
  BY <1>1, NextVersion DEF Attach

LEMMA FencesAreNat == ASSUME NEW r \in Runs PROVE Fences(r) \subseteq Nat \ {0}
  BY NumbersAssumption DEF Fences

\* finishing a request, and sending it back to its read, keep requests in shape
LEMMA FinishShapes ==
  ASSUME req \in [Slots -> Request], RequestsNameRows, NEW s \in Slots, Finish(s)
  PROVE  req' \in [Slots -> Request] /\ RequestsNameRows'
  BY IdleTyped DEF Finish, RequestsNameRows, NamesRows

LEMMA AgainShaped ==
  ASSUME NEW q \in Request, NamesRows(q), q.phase = "ready"
  PROVE  Again(q) \in Request /\ NamesRows(Again(q))
<1>1. q.tries + 1 \in Nat
  BY DEF Request
<1>2. ASSUME NEW n \in Nat
      PROVE  [q EXCEPT !.phase = "open", !.tries = n, !.head = NoHead] \in Request
  BY IdleTyped DEF Request
<1>3. Again(q) \in Request
  BY <1>1, <1>2 DEF Again
<1>4. NamesRows(Again(q))
  BY DEF NamesRows, Again, Request
<1>5. QED
  BY <1>3, <1>4

LEMMA RetryShapes ==
  ASSUME req \in [Slots -> Request], RequestsNameRows, NEW s \in Slots,
         req[s].phase = "ready", Retry(s)
  PROVE  req' \in [Slots -> Request] /\ RequestsNameRows'
<1>1. req[s] \in Request /\ NamesRows(req[s])
  BY DEF RequestsNameRows
<1>2. Again(req[s]) \in Request /\ NamesRows(Again(req[s]))
  BY <1>1, AgainShaped
<1>3. req' = [req EXCEPT ![s] = Again(req[s])] \/ req' = [req EXCEPT ![s] = Idle]
  BY DEF Retry
<1>4. QED
  BY <1>2, <1>3, IdleTyped DEF RequestsNameRows

LEMMA LogTyped ==
  ASSUME events \in [Runs -> Seq(EventRow)], NEW r \in Runs,
         NEW more \in Seq(EventRow), Log(r, more)
  PROVE  events' \in [Runs -> Seq(EventRow)]
  BY ConcatProperties DEF Log

LEMMA NonceRowTyped ==
  ASSUME NEW q \in Request, NamesRows(q), q.kind \in {"claim", "renew", "complete"}
  PROVE  NonceRow(q) \in UsedNonce /\ Message(q) \in SignedMessage
  BY NumbersAssumption DEF NonceRow, UsedNonce, Message, SignedMessage, NamesRows, Request

LEMMA OpRowTyped ==
  ASSUME NEW q \in Request, NamesRows(q), q.kind \in {"claim", "complete"},
         NEW f \in Nat, NEW grant \in Nat
  PROVE  OpRow(q, f, grant) \in OperationRow
  BY NonceRowTyped DEF OpRow, OperationRow, NamesRows, Request

LEMMA LengthsAreNat ==
  ASSUME TablesTyped
  PROVE  Len(ledger) \in Nat /\ \A r \in Runs : Len(events[r]) \in Nat
<1>1. \A r \in Runs : events[r] \in Seq(EventRow)
  BY DEF TablesTyped
<1>2. ledger \in Seq(LedgerRow)
  BY DEF TablesTyped
<1>3. QED
  BY <1>1, <1>2, LenProperties

LEMMA LeasesOfTyped ==
  ASSUME NEW w, NEW x \in LeasesOf(w)
  PROVE  /\ x = <<x[1], x[2]>> /\ x[1] \in Runs /\ x[2] \in Fences(x[1]) /\ x[2] \in Nat
         /\ lease[x[1]][x[2]].status = "active" /\ lease[x[1]][x[2]].runner = w
  BY FencesAreNat DEF LeasesOf, ActiveLease

\* every handler reads a head of the same columns
LEMMA HeadTyped ==
  ASSUME TypeOK, NEW q \in Request, NamesRows(q), q.phase = "open", q.kind # "expire"
  PROVE  HeadOf(q) \in HeadRow
<1> USE DEF NamesRows
<1>1. /\ run \in [Runs -> RunRow] /\ LeasesTyped(lease)
      /\ report \in [Runners -> [rev : Nat, fit : BOOLEAN]]
      /\ Len(ledger) \in Nat /\ \A r \in Runs : Len(events[r]) \in Nat
  BY LengthsAreNat DEF TypeOK, TablesTyped
<1>2. NoHead \in HeadRow
  BY IdleTyped
<1>3. CASE q.kind = "claim"
  <2>1. HeadOf(q) = ClaimHead(q)
    BY <1>3 DEF HeadOf
  <2>2. ASSUME NEW n1 \in Nat, NEW n2 \in Nat, NEW n3 \in Nat,
               NEW st \in {"absent", "queued", "leased"} \cup Terminal
        PROVE  [NoHead EXCEPT !.seq = n1, !.gen = n2, !.status = st, !.rev = n3] \in HeadRow
    BY <1>2 DEF HeadRow
  <2> DEFINE head == [NoHead EXCEPT !.seq = Len(events[q.run]), !.gen = run[q.run].gen,
                                    !.status = run[q.run].status,
                                    !.rev = report[q.runner].rev]
             foreign == {x \in LeasesOf(q.runner) : x[1] # q.run}
             x == CHOOSE y \in foreign : TRUE
  <2>4. head \in HeadRow
    BY <1>1, <1>3, <2>2 DEF RunRow
  <2>5. CASE foreign = {}
    BY <2>1, <2>4, <2>5 DEF ClaimHead
  <2>6. CASE foreign # {}
    <3>1. x \in LeasesOf(q.runner)
      BY <2>6
    <3>2. x[1] \in Runs /\ x[2] \in Nat /\ Len(events[x[1]]) \in Nat
      BY <3>1, <1>1, LeasesOfTyped
    <3>3. ClaimHead(q) = [head EXCEPT !.other = x[1], !.otherFence = x[2],
                                      !.otherSeq = Len(events[x[1]])]
      BY <2>6 DEF ClaimHead
    <3> DEFINE o == x[1]  n1 == x[2]  n2 == Len(events[x[1]])
    <3>4. o \in Runs /\ n1 \in Nat /\ n2 \in Nat
      BY <3>2
    <3>5. HeadOf(q) = [head EXCEPT !.other = o, !.otherFence = n1, !.otherSeq = n2]
      BY <2>1, <3>3
    <3> HIDE DEF o, n1, n2, x, foreign, head
    <3>6. QED
      BY <2>4, <3>4, <3>5 DEF HeadRow
  <2>7. QED
    BY <2>5, <2>6
<1>4. CASE q.kind = "renew"
  <2> DEFINE n1 == Len(events[q.run])  n2 == lease[q.run][q.fence].renews
  <2>1. n1 \in Nat /\ n2 \in Nat
    BY <1>1, <1>4 DEF LeasesTyped, LeaseRow
  <2>2. HeadOf(q) = [NoHead EXCEPT !.seq = n1, !.renews = n2]
    BY <1>4 DEF HeadOf, RenewalHead
  <2> HIDE DEF n1, n2
  <2>3. QED
    BY <1>2, <2>1, <2>2 DEF HeadRow
<1>5. CASE q.kind = "complete"
  <2> DEFINE n1 == Len(events[q.run])  n2 == Len(ledger)
  <2>1. n1 \in Nat /\ n2 \in Nat
    BY <1>1, <1>5
  <2>2. HeadOf(q) = [NoHead EXCEPT !.seq = n1, !.ledger = n2]
    BY <1>5 DEF HeadOf, CompletionHead
  <2> HIDE DEF n1, n2
  <2>3. QED
    BY <1>2, <2>1, <2>2 DEF HeadRow
<1>6. CASE q.kind = "create"
  <2>1. ASSUME NEW n1 \in Nat PROVE [NoHead EXCEPT !.ledger = n1] \in HeadRow
    BY <1>2 DEF HeadRow
  <2>2. HeadOf(q) = [NoHead EXCEPT !.ledger = Len(ledger)]
    BY <1>6 DEF HeadOf
  <2>3. QED
    BY <1>1, <2>1, <2>2
<1>7. CASE q.kind = "cancel"
  <2> DEFINE row == run[q.run]
             n1 == Len(events[q.run])
             e == IF Held(q.run) THEN lease[q.run][row.lease].expires ELSE 0
  <2>1. n1 \in Nat
    BY <1>1, <1>7
  <2>2. e \in Nat
    BY <1>1, <1>7 DEF LeasesTyped, LeaseRow, Held, ActiveLease
  <2>3. row \in RunRow
    BY <1>1, <1>7
  <2>4. HeadOf(q) = [NoHead EXCEPT !.seq = n1, !.version = row.version, !.status = row.status,
                                   !.gen = row.gen, !.cancel = row.cancel, !.expires = e]
    BY <1>7 DEF HeadOf, CancelHead
  <2> HIDE DEF row, n1, e
  <2>5. QED
    BY ZenonT(60), <1>2, <2>1, <2>2, <2>3, <2>4 DEF HeadRow, RunRow
<1>8. CASE q.kind = "revoke"
  <2>1. HeadOf(q) = RevokeHead(q)
    BY <1>8 DEF HeadOf
  <2>2. ASSUME NEW n1 \in Nat PROVE [NoHead EXCEPT !.ledger = n1] \in HeadRow
    BY <1>2 DEF HeadRow
  <2> DEFINE head == [NoHead EXCEPT !.ledger = Len(ledger)]
             held == LeasesOf(q.runner)
             x == CHOOSE y \in held : TRUE
  <2>4. head \in HeadRow
    BY <1>1, <2>2
  <2>5. CASE held = {}
    BY <2>1, <2>4, <2>5 DEF RevokeHead
  <2>6. CASE held # {}
    <3>1. x \in LeasesOf(q.runner)
      BY <2>6
    <3>2. x[1] \in Runs /\ x[2] \in Nat /\ Len(events[x[1]]) \in Nat
      BY <3>1, <1>1, LeasesOfTyped
    <3>3. RevokeHead(q) = [head EXCEPT !.other = x[1], !.otherFence = x[2],
                                       !.otherSeq = Len(events[x[1]])]
      BY <2>6 DEF RevokeHead
    <3> DEFINE o == x[1]  n1 == x[2]  n2 == Len(events[x[1]])
    <3>4. o \in Runs /\ n1 \in Nat /\ n2 \in Nat
      BY <3>2
    <3>5. HeadOf(q) = [head EXCEPT !.other = o, !.otherFence = n1, !.otherSeq = n2]
      BY <2>1, <3>3
    <3> HIDE DEF o, n1, n2, x, held, head
    <3>6. QED
      BY <2>4, <3>4, <3>5 DEF HeadRow
  <2>7. QED
    BY <2>5, <2>6
<1>9. QED
  BY <1>3, <1>4, <1>5, <1>6, <1>7, <1>8 DEF Request

-----------------------------------------------------------------------------
(* Every action keeps the tables typed *)

LEMMA RequestsTyped ==
  ASSUME TypeOK, NEW w \in Runners, NEW r \in Runs, NEW n \in Nonces,
         NEW q \in RunnerRequests(w, r, n)
  PROVE  q \in Request /\ NamesRows(q) /\ q.phase = "open"
<1>1. clock \in Nat
  BY DEF TypeOK, TablesTyped
<1>2. ASSUME NEW kind \in {"claim", "renew", "complete"}, NEW f \in Nat,
             NEW o \in Ops \cup {None}, NEW out \in Outcomes \cup {"none"}
      PROVE  /\ RunnerRequest(kind, w, r, f, o, out, n) \in Request
             /\ RunnerRequest(kind, w, r, f, o, out, n).phase = "open"
  BY ZenonT(60), <1>1, IdleTyped DEF RunnerRequest, Request
<1>3. ASSUME NEW o \in Ops PROVE NamesRows(RunnerRequest("claim", w, r, 0, o, "none", n))
  BY DEF RunnerRequest, NamesRows, Idle
<1>4. ASSUME NEW f \in Fences(r)
      PROVE  NamesRows(RunnerRequest("renew", w, r, f, None, "none", n))
  BY DEF RunnerRequest, NamesRows, Idle
<1>5. ASSUME NEW f \in Fences(r), NEW o \in Ops, NEW out \in Outcomes
      PROVE  NamesRows(RunnerRequest("complete", w, r, f, o, out, n))
  BY DEF RunnerRequest, NamesRows, Idle
<1>6. \/ \E o \in Ops : q = RunnerRequest("claim", w, r, 0, o, "none", n)
      \/ \E f \in Fences(r) : q = RunnerRequest("renew", w, r, f, None, "none", n)
      \/ \E f \in Fences(r), o \in Ops, out \in Outcomes :
           q = RunnerRequest("complete", w, r, f, o, out, n)
  BY DEF RunnerRequests
<1>7. QED
  BY <1>2, <1>3, <1>4, <1>5, <1>6, FencesAreNat

\* the effect of a row that changes its status only
LEMMA LeaseStatusTyped ==
  ASSUME LeasesTyped(lease), NEW r \in Runs, NEW f \in Fences(r),
         NEW st \in {"superseded", "released", "revoked"}
  PROVE  LeasesTyped([lease EXCEPT ![r][f].status = st])
<1>1. [lease[r][f] EXCEPT !.status = st] \in LeaseRow
  BY DEF LeasesTyped, LeaseRow
<1>2. QED
  BY <1>1 DEF LeasesTyped

LEMMA RowsKept == ASSUME TablesTyped, UNCHANGED <<clock, rows, report>> PROVE TablesTyped'
  BY DEF TablesTyped, rows, LeasesTyped

LEMMA CleanupTyped == ASSUME TInv, Cleanup PROVE TInv'
<1>1. ASSUME NEW x \in OperationRow PROVE [x EXCEPT !.compacted = TRUE] \in OperationRow
  BY DEF OperationRow
<1>2. ops' \subseteq OperationRow /\ nonces' \subseteq UsedNonce
  BY <1>1 DEF Cleanup, TInv, TypeOK, TablesTyped
<1>3. QED
  BY <1>2 DEF Cleanup, TInv, TypeOK, TablesTyped, LeasesTyped, RequestsNameRows

LEMMA ClaimTyped == ASSUME TInv, NEW s \in Slots, ClaimCommit(s) PROVE TInv'
<1> DEFINE q == req[s]
           r == q.run
           f == q.head.gen + 1
           until == LeaseUntil(r, q.at)
<1>1. /\ q \in Request /\ NamesRows(q) /\ q.kind = "claim" /\ r \in Runs
      /\ q.runner \in Runners /\ q.at \in Nat /\ q.head \in HeadRow
  BY DEF TInv, TypeOK, RequestsNameRows, NamesRows, Request, ClaimCommit
<1>2. /\ run \in [Runs -> RunRow] /\ LeasesTyped(lease) /\ events \in [Runs -> Seq(EventRow)]
      /\ ops \subseteq OperationRow /\ nonces \subseteq UsedNonce
  BY DEF TInv, TypeOK, TablesTyped
<1>3. f \in Nat /\ q.head.gen \in Nat /\ q.head.otherFence \in Nat
  BY <1>1 DEF HeadRow
<1>4. until \in Nat
  BY <1>1, <1>2, LeaseUntilIsNat
<1>5. run' \in [Runs -> RunRow]
  <2>1. RunBeforeClaim(q) \in RunRow
    BY <1>1, <1>2, DetachTyped DEF RunBeforeClaim
  <2>2. Attach(RunBeforeClaim(q), f) \in RunRow
    BY <2>1, <1>3, AttachTyped
  <2>3. \A x \in Runs : Detach(run[x], q.head.otherFence) \in RunRow
    BY <1>2, DetachTyped
  <2>4. run' = RunsAfterClaim(q)
    BY DEF ClaimCommit
  <2> HIDE DEF q, f
  <2>5. QED
    BY <1>2, <2>2, <2>3, <2>4 DEF RunsAfterClaim, f
<1>6. LeasesTyped(lease')
  <2>1. GrantedLease(q) \in LeaseRow
    BY <1>1, <1>4 DEF GrantedLease, LeaseRow
  <2>2. ASSUME NEW x \in LeaseRow PROVE Supersede(x) \in LeaseRow
    BY DEF Supersede, LeaseRow
  <2>3. lease' = LeasesAfterClaim(q)
    BY DEF ClaimCommit
  <2> HIDE DEF q, f, r
  <2>4. QED
    BY <1>2, <2>1, <2>2, <2>3 DEF LeasesAfterClaim, LeasesTyped
<1>7. events' \in [Runs -> Seq(EventRow)]
  <2> DEFINE sup(g) == Event("lease.superseded", g)
             mine == IF ClaimsOwn(q) THEN Append(events[r], sup(q.head.gen)) ELSE events[r]
  <2>1. ASSUME NEW g \in Nat PROVE sup(g) \in EventRow /\ Event("lease.claimed", g) \in EventRow
    BY DEF Event, EventRow
  <2>2. \A x \in Runs : Append(events[x], sup(q.head.otherFence)) \in Seq(EventRow)
    BY <1>2, <1>3, <2>1, AppendProperties
  <2>3. mine \in Seq(EventRow)
    BY <1>1, <1>2, <1>3, <2>1, AppendProperties
  <2>4. Append(mine, Event("lease.claimed", f)) \in Seq(EventRow)
    BY <1>3, <2>1, <2>3, AppendProperties
  <2>5. events' = [x \in Runs |-> IF x = r THEN Append(mine, Event("lease.claimed", f))
                     ELSE IF ClaimsForeign(q) /\ x = q.head.other
                          THEN Append(events[x], sup(q.head.otherFence)) ELSE events[x]]
    BY DEF ClaimCommit, EventsAfterClaim
  <2> HIDE DEF q, f, r, sup, mine
  <2>6. QED
    BY <1>2, <2>2, <2>4, <2>5
<1>8. ops' \subseteq OperationRow /\ nonces' \subseteq UsedNonce
  <2>1. OpRow(q, f, until) \in OperationRow /\ NonceRow(q) \in UsedNonce
    BY <1>1, <1>3, <1>4, OpRowTyped, NonceRowTyped
  <2>2. QED
    BY <1>2, <2>1 DEF ClaimCommit
<1>9. DOMAIN promised' = Runs /\ \A x \in Runs : promised'[x] \in [Fences(x) -> Nat]
  BY <1>4 DEF TInv, TypeOK, TablesTyped, ClaimCommit
<1>10. req' \in [Slots -> Request] /\ RequestsNameRows'
  BY FinishShapes DEF ClaimCommit, TInv, TypeOK
<1>11. QED
  BY <1>5, <1>6, <1>7, <1>8, <1>9, <1>10 DEF TInv, TypeOK, TablesTyped, ClaimCommit

LEMMA RenewedTyped ==
  ASSUME TypeOK, NEW q \in Request, NamesRows(q), q.kind = "renew"
  PROVE  LeasesTyped(RenewedLease(q)) /\ LeaseUntil(q.run, q.at) \in Nat
<1> DEFINE e == LeaseUntil(q.run, q.at)
<1>1. q.run \in Runs /\ q.fence \in Fences(q.run) /\ q.at \in Nat
  BY DEF NamesRows, Request
<1>2. e \in Nat
  BY <1>1, LeaseUntilIsNat DEF TypeOK, TablesTyped
<1> HIDE DEF e
<1>3. lease[q.run][q.fence] \in LeaseRow
  BY <1>1 DEF TypeOK, TablesTyped, LeasesTyped
<1>4. lease[q.run][q.fence].renews + 1 \in Nat
  BY <1>3 DEF LeaseRow
<1>5. ASSUME NEW n \in Nat
      PROVE  [lease[q.run][q.fence] EXCEPT !.expires = e, !.renews = n] \in LeaseRow
  BY <1>2, <1>3 DEF LeaseRow
<1>6. Renewed(lease[q.run][q.fence], e) \in LeaseRow
  BY <1>4, <1>5 DEF Renewed
<1>7. RenewedLease(q) = [lease EXCEPT ![q.run][q.fence] = Renewed(@, e)]
  BY DEF RenewedLease, e
<1>8. QED
  BY <1>1, <1>2, <1>6, <1>7 DEF TypeOK, TablesTyped, LeasesTyped, e

LEMMA RenewTyped ==
  ASSUME TInv, NEW s \in Slots, RenewCommit(s) \/ RenewUnlogged(s)
  PROVE  TInv'
<1> DEFINE q == req[s]
<1>1. /\ q \in Request /\ NamesRows(q) /\ q.kind = "renew" /\ q.phase = "ready"
      /\ q.run \in Runs /\ q.fence \in Fences(q.run) /\ q.fence \in Nat
  BY FencesAreNat DEF TInv, TypeOK, RequestsNameRows, NamesRows, Request, RenewCommit,
                      RenewUnlogged
<1>2. LeasesTyped(RenewedLease(q)) /\ LeaseUntil(q.run, q.at) \in Nat
  BY <1>1, RenewedTyped DEF TInv
<1>3. NonceRow(q) \in UsedNonce
  BY <1>1, NonceRowTyped
<1>4. CASE RenewCommit(s)
  <2>1. <<Event("lease.renewed", q.fence)>> \in Seq(EventRow)
    BY <1>1 DEF Event, EventRow
  <2>2. events' \in [Runs -> Seq(EventRow)]
    BY <1>1, <1>4, <2>1, LogTyped DEF RenewCommit, TInv, TypeOK, TablesTyped
  <2>3. DOMAIN promised' = Runs /\ \A x \in Runs : promised'[x] \in [Fences(x) -> Nat]
    BY <1>1, <1>2, <1>4 DEF TInv, TypeOK, TablesTyped, RenewCommit
  <2>4. req' \in [Slots -> Request] /\ RequestsNameRows'
    BY <1>4, FinishShapes DEF RenewCommit, TInv, TypeOK
  <2>5. QED
    BY <1>2, <1>3, <1>4, <2>2, <2>3, <2>4 DEF TInv, TypeOK, TablesTyped, RenewCommit
<1>5. CASE RenewUnlogged(s)
  <2>1. req' \in [Slots -> Request] /\ RequestsNameRows'
    BY <1>1, <1>5, RetryShapes DEF RenewUnlogged, TInv, TypeOK
  <2>2. nonces' \subseteq UsedNonce /\ LeasesTyped(lease')
    BY <1>2, <1>3, <1>5 DEF RenewUnlogged, TInv, TypeOK, TablesTyped
  <2>3. QED
    BY <1>5, <2>1, <2>2 DEF TInv, TypeOK, TablesTyped, RenewUnlogged
<1>6. QED
  BY <1>4, <1>5

LEMMA CompleteTyped == ASSUME TInv, NEW s \in Slots, CompleteCommit(s) PROVE TInv'
<1> DEFINE q == req[s]
           r == q.run
<1>1. /\ q \in Request /\ NamesRows(q) /\ q.kind = "complete" /\ q.phase = "ready"
      /\ r \in Runs /\ q.fence \in Fences(r) /\ q.fence \in Nat /\ q.op \in Ops
      /\ q.outcome \in Outcomes
  BY FencesAreNat DEF TInv, TypeOK, RequestsNameRows, NamesRows, Request, CompleteCommit
<1>2. Completed(run[r], q) \in RunRow
  <2>1. run[r] \in RunRow /\ run[r].version + 1 \in Nat
    BY <1>1, NextVersion DEF TInv, TypeOK, TablesTyped
  <2>2. ASSUME NEW v \in Nat
        PROVE  [run[r] EXCEPT !.status = "completed", !.outcome = q.outcome,
                              !.doneBy = q.op, !.version = v] \in RunRow
    BY <1>1, <2>1 DEF RunRow, Terminal
  <2>3. QED
    BY <2>1, <2>2 DEF Completed
<1>3. run' \in [Runs -> RunRow]
  <2>1. Detach(Completed(run[r], q), q.fence) \in RunRow
    BY <1>2, DetachTyped
  <2>2. run' = [run EXCEPT ![r] = Detach(Completed(@, q), q.fence)]
    BY DEF CompleteCommit
  <2>3. QED
    BY <2>1, <2>2 DEF TInv, TypeOK, TablesTyped
<1>4. LeasesTyped(lease')
  BY <1>1, LeaseStatusTyped DEF CompleteCommit, TInv, TypeOK, TablesTyped
<1>5. events' \in [Runs -> Seq(EventRow)]
  <2>1. <<Event("lease.released", q.fence), Event("run.completed", q.fence)>> \in Seq(EventRow)
    BY <1>1 DEF Event, EventRow
  <2>2. QED
    BY <1>1, <2>1, LogTyped DEF CompleteCommit, TInv, TypeOK, TablesTyped
<1>6. ops' \subseteq OperationRow /\ nonces' \subseteq UsedNonce
  <2>1. OpRow(q, q.fence, 0) \in OperationRow /\ NonceRow(q) \in UsedNonce
    BY <1>1, OpRowTyped, NonceRowTyped
  <2>2. QED
    BY <2>1 DEF CompleteCommit, TInv, TypeOK, TablesTyped
<1>7. ledger' \in Seq(LedgerRow)
  <2>1. Entry("run.completed", r) \in LedgerRow
    BY <1>1 DEF Entry, LedgerRow
  <2>2. QED
    BY <2>1, AppendProperties DEF CompleteCommit, TInv, TypeOK, TablesTyped
<1>8. req' \in [Slots -> Request] /\ RequestsNameRows'
  BY FinishShapes DEF CompleteCommit, TInv, TypeOK
<1>9. QED
  BY <1>3, <1>4, <1>5, <1>6, <1>7, <1>8 DEF TInv, TypeOK, TablesTyped, CompleteCommit

LEMMA CreateTyped == ASSUME TInv, NEW s \in Slots, CreateCommit(s) PROVE TInv'
<1> DEFINE q == req[s]
           t == q.at + RunDeadline
<1>1. /\ q.kind = "create" /\ q.run \in Runs /\ t \in Nat
  BY Numbers DEF TInv, TypeOK, RequestsNameRows, NamesRows, Request, CreateCommit
<1>2. run' \in [Runs -> RunRow]
  <2>1. run' = [run EXCEPT ![q.run] = [NoRun EXCEPT !.status = "queued", !.version = 1,
                                                    !.deadline = t]]
    BY DEF CreateCommit
  <2> HIDE DEF t
  <2>2. [NoRun EXCEPT !.status = "queued", !.version = 1, !.deadline = t] \in RunRow
    BY <1>1 DEF NoRun, RunRow
  <2>3. QED
    BY <2>1, <2>2 DEF TInv, TypeOK, TablesTyped
<1>3. events' \in [Runs -> Seq(EventRow)]
  <2>1. <<Event("run.created", 0)>> \in Seq(EventRow)
    BY DEF Event, EventRow
  <2>2. QED
    BY <1>1, <2>1, LogTyped DEF CreateCommit, TInv, TypeOK, TablesTyped
<1>4. ledger' \in Seq(LedgerRow)
  <2>1. Entry("run.requested", q.run) \in LedgerRow
    BY <1>1 DEF Entry, LedgerRow
  <2>2. QED
    BY <2>1, AppendProperties DEF CreateCommit, TInv, TypeOK, TablesTyped
<1>5. req' \in [Slots -> Request] /\ RequestsNameRows'
  BY FinishShapes DEF CreateCommit, TInv, TypeOK
<1>6. QED
  BY <1>2, <1>3, <1>4, <1>5 DEF TInv, TypeOK, TablesTyped, CreateCommit

LEMMA CanceledTyped ==
  ASSUME NEW row \in RunRow, NEW st \in {"leased", "canceled"}
  PROVE  Canceled(row, st) \in RunRow
<1>1. ASSUME NEW v \in Nat
      PROVE  [row EXCEPT !.status = st, !.cancel = TRUE, !.version = v] \in RunRow
  BY DEF RunRow, Terminal
<1>2. QED
  BY <1>1, NextVersion DEF Canceled

LEMMA CancelLiveTyped == ASSUME TInv, NEW s \in Slots, CancelCommit(s) PROVE TInv'
<1> DEFINE q == req[s]
           st == IF q.head.status = "queued" THEN "canceled" ELSE "leased"
           kind == IF q.head.status = "queued" THEN "run.canceled" ELSE "run.cancel_requested"
<1>1. q.run \in Runs
  BY DEF TInv, RequestsNameRows, NamesRows, CancelCommit
<1>2. run' \in [Runs -> RunRow]
  <2>1. run' = [run EXCEPT ![q.run] = Canceled(@, st)]
    BY DEF CancelCommit
  <2>2. st \in {"leased", "canceled"}
    OBVIOUS
  <2>3. QED
    BY <1>1, <2>1, <2>2, CanceledTyped DEF TInv, TypeOK, TablesTyped
<1>3. events' \in [Runs -> Seq(EventRow)]
  <2>1. <<Event(kind, 0)>> \in Seq(EventRow)
    BY DEF Event, EventRow
  <2>2. Log(q.run, <<Event(kind, 0)>>)
    BY DEF CancelCommit
  <2>3. QED
    BY <1>1, <2>1, <2>2, LogTyped DEF TInv, TypeOK, TablesTyped
<1>4. req' \in [Slots -> Request] /\ RequestsNameRows'
  BY FinishShapes DEF CancelCommit, TInv, TypeOK
<1>5. QED
  BY <1>2, <1>3, <1>4 DEF TInv, TypeOK, TablesTyped, CancelCommit

LEMMA ReleaseTyped ==
  ASSUME TablesTyped, NEW q, q.run \in Runs, NEW t
  PROVE  RunAfterRelease(q, t) \in RunRow /\ LeasesTyped(LeaseAfterRelease(q, t))
<1>1. RunAfterRelease(q, t) \in RunRow
  BY DetachTyped DEF RunAfterRelease, TablesTyped
<1>2. LeasesTyped(LeaseAfterRelease(q, t))
  BY LeaseStatusTyped DEF LeaseAfterRelease, CancelReleases, ActiveLease, TablesTyped
<1>3. QED
  BY <1>1, <1>2

LEMMA CancelLateTyped ==
  ASSUME TInv, NEW s \in Slots, CancelExpiredCommit(s) \/ CancelExpiredMiss(s)
  PROVE  TInv'
<1> DEFINE q == req[s]
<1>1. /\ q \in Request /\ q.run \in Runs /\ q.phase = "ready" /\ q.head.gen \in Nat
  BY DEF TInv, TypeOK, RequestsNameRows, NamesRows, CancelExpiredCommit, CancelExpiredMiss,
         Request, HeadRow
<1>2. CASE CancelExpiredCommit(s)
  <2>1. PICK t : /\ run' = [run EXCEPT ![q.run] = Canceled(RunAfterRelease(q, t), "canceled")]
                 /\ lease' = LeaseAfterRelease(q, t)
    BY <1>2 DEF CancelExpiredCommit
  <2>2. run' \in [Runs -> RunRow] /\ LeasesTyped(lease')
    BY <1>1, <2>1, ReleaseTyped, CanceledTyped DEF TInv, TypeOK, TablesTyped
  <2>3. <<Event("lease.released", q.head.gen), Event("run.canceled", 0)>> \in Seq(EventRow)
    BY <1>1 DEF Event, EventRow
  <2>4. events' \in [Runs -> Seq(EventRow)]
    BY <1>1, <1>2, <2>3, LogTyped DEF CancelExpiredCommit, TInv, TypeOK, TablesTyped
  <2>5. req' \in [Slots -> Request] /\ RequestsNameRows'
    BY <1>2, FinishShapes DEF CancelExpiredCommit, TInv, TypeOK
  <2>6. QED
    BY <1>2, <2>2, <2>4, <2>5 DEF TInv, TypeOK, TablesTyped, CancelExpiredCommit
<1>3. CASE CancelExpiredMiss(s)
  <2>1. PICK t : /\ run' = [run EXCEPT ![q.run] = RunAfterRelease(q, t)]
                 /\ lease' = LeaseAfterRelease(q, t)
    BY <1>3 DEF CancelExpiredMiss
  <2>2. run' \in [Runs -> RunRow] /\ LeasesTyped(lease')
    BY <1>1, <2>1, ReleaseTyped DEF TInv, TypeOK, TablesTyped
  <2>3. Finish(s) \/ Retry(s)
    BY <1>3 DEF CancelExpiredMiss
  <2>4. req' \in [Slots -> Request] /\ RequestsNameRows'
    BY <1>1, <2>3, FinishShapes, RetryShapes DEF TInv, TypeOK
  <2>5. QED
    BY <1>3, <2>2, <2>4 DEF TInv, TypeOK, TablesTyped, CancelExpiredMiss
<1>4. QED
  BY <1>2, <1>3

LEMMA RevokeTyped == ASSUME TInv, NEW s \in Slots, RevokeCommit(s) PROVE TInv'
<1> DEFINE q == req[s]
           r == q.head.other
           f == q.head.otherFence
<1>1. /\ q.runner \in Runners /\ f \in Nat
      /\ RevokesLease(q) => r \in Runs /\ f \in Fences(r)
  BY DEF TInv, TypeOK, RequestsNameRows, NamesRows, RevokeCommit, Request, HeadRow,
         RevokesLease, ActiveLease
<1>2. runner' \in [Runners -> {"active", "revoked"}]
  BY DEF TInv, TypeOK, TablesTyped, RevokeCommit
<1>3. ledger' \in Seq(LedgerRow)
  <2>1. Entry("runner.revoked", q.runner) \in LedgerRow
    BY <1>1 DEF Entry, LedgerRow
  <2>2. QED
    BY <2>1, AppendProperties DEF RevokeCommit, TInv, TypeOK, TablesTyped
<1>4. run' \in [Runs -> RunRow] /\ LeasesTyped(lease') /\ events' \in [Runs -> Seq(EventRow)]
  <2>1. CASE ~RevokesLease(q)
    BY <2>1 DEF RevokeCommit, TInv, TypeOK, TablesTyped
  <2>2. CASE RevokesLease(q)
    <3>1. /\ run' = [run EXCEPT ![r] = Detach(@, f)]
          /\ lease' = [lease EXCEPT ![r][f].status = "revoked"]
          /\ Log(r, <<Event("lease.revoked", f)>>)
      BY <2>2 DEF RevokeCommit
    <3>2. r \in Runs /\ f \in Fences(r)
      BY <1>1, <2>2
    <3> HIDE DEF q, r, f
    <3>3. run' \in [Runs -> RunRow]
      BY <3>1, <3>2, DetachTyped DEF TInv, TypeOK, TablesTyped
    <3>4. LeasesTyped(lease')
      BY <3>1, <3>2, LeaseStatusTyped DEF TInv, TypeOK, TablesTyped
    <3>5. <<Event("lease.revoked", f)>> \in Seq(EventRow)
      BY <1>1 DEF Event, EventRow
    <3>6. events' \in [Runs -> Seq(EventRow)]
      BY <3>1, <3>2, <3>5, LogTyped DEF TInv, TypeOK, TablesTyped
    <3>7. QED
      BY <3>3, <3>4, <3>6
  <2>3. QED
    BY <2>1, <2>2
<1>5. req' \in [Slots -> Request] /\ RequestsNameRows'
  BY FinishShapes DEF RevokeCommit, TInv, TypeOK
<1>6. QED
  BY <1>2, <1>3, <1>4, <1>5 DEF TInv, TypeOK, TablesTyped, RevokeCommit

LEMMA ExpireTyped == ASSUME TInv, NEW s \in Slots, ExpireCommit(s) PROVE TInv'
<1> DEFINE q == req[s]
           r == q.run
           f == q.head.gen
           held == q.head.status = "leased"
           row == IF held THEN Detach(run[r], f) ELSE run[r]
<1>1. r \in EngineRuns /\ r \in Runs /\ (held => f \in Fences(r))
  BY IdsAssumption DEF TInv, RequestsNameRows, NamesRows, ExpireCommit, ExpiryCommits, ActiveLease
<1>2. run' \in [Runs -> RunRow]
  <2>1. row \in RunRow
    BY <1>1, DetachTyped DEF TInv, TypeOK, TablesTyped
  <2>2. run' = [run EXCEPT ![r] = ExpiredRow(row)]
    BY DEF ExpireCommit
  <2> HIDE DEF row
  <2>3. ASSUME NEW v \in Nat PROVE [row EXCEPT !.status = "expired", !.version = v] \in RunRow
    BY <2>1 DEF RunRow, Terminal
  <2>4. ExpiredRow(row) \in RunRow
    BY <2>1, <2>3, NextVersion DEF ExpiredRow
  <2>5. QED
    BY <2>2, <2>4 DEF TInv, TypeOK, TablesTyped
<1>3. LeasesTyped(lease')
  <2>1. lease' = IF held THEN [lease EXCEPT ![r][f].status = "revoked"] ELSE lease
    BY DEF ExpireCommit
  <2>2. QED
    BY <1>1, <2>1, LeaseStatusTyped DEF TInv, TypeOK, TablesTyped
<1>4. events' \in [Runs -> Seq(EventRow)]
  <2>1. <<Event("run.expired", 0)>> \in Seq(EventRow)
    BY DEF Event, EventRow
  <2>2. QED
    BY <1>1, <2>1, LogTyped DEF ExpireCommit, TInv, TypeOK, TablesTyped
<1>5. ledger' \in Seq(LedgerRow)
  <2>1. Entry("run.expired", r) \in LedgerRow
    BY <1>1 DEF Entry, LedgerRow
  <2>2. QED
    BY <2>1, AppendProperties DEF ExpireCommit, TInv, TypeOK, TablesTyped
<1>6. deadlineOps' \subseteq EngineRuns
  BY <1>1 DEF ExpireCommit, TInv, TypeOK, TablesTyped
<1>7. req' \in [Slots -> Request] /\ RequestsNameRows'
  BY FinishShapes DEF ExpireCommit, TInv, TypeOK
<1>8. QED
  BY <1>2, <1>3, <1>4, <1>5, <1>6, <1>7 DEF TInv, TypeOK, TablesTyped, ExpireCommit

\* the steps of a request that write no row but, at most, its nonce
LEMMA AbortTyped == ASSUME TInv, NEW s \in Slots, Abort(s) PROVE TInv'
<1> DEFINE q == req[s]
<1>1. q \in Request /\ NamesRows(q) /\ q.phase = "ready"
  BY DEF TInv, TypeOK, RequestsNameRows, Abort
<1>2. nonces' \subseteq UsedNonce
  <2>1. q.nonce # None => NonceRow(q) \in UsedNonce
    BY <1>1, NonceRowTyped DEF NamesRows
  <2>2. nonces' = nonces \/ (q.nonce # None /\ nonces' = nonces \cup {NonceRow(q)})
    BY DEF Abort
  <2> HIDE DEF q
  <2>3. QED
    BY <2>1, <2>2 DEF TInv, TypeOK, TablesTyped
<1>3. Finish(s) \/ Retry(s)
  BY DEF Abort
<1>4. req' \in [Slots -> Request] /\ RequestsNameRows'
  BY <1>1, <1>3, FinishShapes, RetryShapes DEF TInv, TypeOK
<1>5. QED
  BY <1>2, <1>4 DEF TInv, TypeOK, TablesTyped, Abort

LEMMA ReadTyped == ASSUME TInv, NEW s \in Slots, Read(s) PROVE TInv'
<1> DEFINE q == req[s]
           t == IF q.kind = "cancel" THEN clock ELSE q.at
           h == HeadOf(q)
           ready == Ready(q, h, t)
<1>1. q \in Request /\ NamesRows(q) /\ q.phase = "open" /\ q.kind # "expire" /\ Admits(q)
  BY DEF TInv, TypeOK, RequestsNameRows, Read
<1>2. h \in HeadRow
  BY <1>1, HeadTyped DEF TInv
<1>3. t \in Nat
  BY <1>1 DEF TInv, TypeOK, TablesTyped, Request
<1>4. q.kind = "cancel" => h.status \in {"queued", "leased"}
  BY <1>1 DEF HeadOf, CancelHead, NoHead, Admits
<1>5. req' = [req EXCEPT ![s] = ready]
  BY DEF Read
<1> HIDE DEF t, h, q
<1>6. ready \in Request
  BY <1>1, <1>2, <1>3 DEF Ready, Request
<1>7. NamesRows(ready)
  BY <1>1, <1>4 DEF Ready, NamesRows, Request
<1> HIDE DEF ready
<1>8. req' \in [Slots -> Request] /\ RequestsNameRows'
  BY <1>5, <1>6, <1>7 DEF TInv, TypeOK, RequestsNameRows
<1>9. QED
  BY <1>8, RowsKept DEF TInv, TypeOK, Read

LEMMA SameCandidateTyped ==
  ASSUME NEW q \in Request, NamesRows(q), Len(ledger) \in Nat
  PROVE  SameCandidate(q) \in Request /\ NamesRows(SameCandidate(q))
<1> DEFINE n == Len(ledger)
           t == q.tries + 1
           h == [q.head EXCEPT !.ledger = n]
<1>1. n \in Nat /\ t \in Nat
  BY DEF Request
<1> HIDE DEF n, t
<1>2. h \in HeadRow /\ h.status = q.head.status
  BY <1>1 DEF Request, HeadRow
<1>3. SameCandidate(q) = [q EXCEPT !.tries = t, !.head = h]
  BY DEF SameCandidate, n, t, Request
<1> HIDE DEF h
<1>4. SameCandidate(q) \in Request
  BY <1>1, <1>2, <1>3 DEF Request
<1>5. NamesRows(SameCandidate(q))
  BY <1>2, <1>3 DEF Request, NamesRows
<1>6. QED
  BY <1>4, <1>5

LEMMA ReconcileTyped ==
  ASSUME TInv, NEW s \in Slots, StartReconcile(s) \/ ReadDue(s) \/ ExpireAbort(s)
  PROVE  TInv'
<1> DEFINE q == req[s]
<1>1. /\ q \in Request /\ NamesRows(q) /\ clock \in Nat /\ Len(ledger) \in Nat
      /\ run \in [Runs -> RunRow]
  BY LengthsAreNat DEF TInv, TypeOK, TablesTyped, RequestsNameRows
<1>2. CASE StartReconcile(s)
  <2> DEFINE new == [Idle EXCEPT !.phase = "open", !.kind = "expire", !.at = clock]
  <2>1. new \in Request
    BY ZenonT(60), <1>1, IdleTyped DEF Request
  <2>2. NamesRows(new)
    BY DEF NamesRows, Idle
  <2>3. req' = [req EXCEPT ![s] = new]
    BY <1>2 DEF StartReconcile
  <2> HIDE DEF new
  <2>4. QED
    BY <1>2, <2>1, <2>2, <2>3, RowsKept DEF TInv, TypeOK, RequestsNameRows, StartReconcile
<1>3. CASE ReadDue(s)
  <2>1. PICK r \in Due(q.at) :
          req' = [req EXCEPT ![s].phase = "ready", ![s].run = r, ![s].head = ExpiryHead(r)]
    BY <1>3 DEF ReadDue
  <2> DEFINE h == ExpiryHead(r)
             ready == [q EXCEPT !.phase = "ready", !.run = r, !.head = h]
  <2>2. r \in EngineRuns /\ r \in Runs
    BY IdsAssumption DEF Due
  <2>3. h \in HeadRow
    <3> DEFINE n == Len(ledger)
               row == run[r]
    <3>1. n \in Nat /\ row \in RunRow
      BY <1>1, <2>2
    <3>2. h = [NoHead EXCEPT !.version = row.version, !.status = row.status, !.gen = row.gen,
                             !.ledger = n]
      BY DEF ExpiryHead
    <3> HIDE DEF n, row, h
    <3>3. QED
      BY <3>1, <3>2, IdleTyped DEF HeadRow, RunRow
  <2>4. req' = [req EXCEPT ![s] = ready]
    BY <2>1
  <2> HIDE DEF h
  <2>5. ready \in Request /\ NamesRows(ready)
    BY <1>1, <1>3, <2>2, <2>3 DEF Request, NamesRows, ReadDue
  <2> HIDE DEF ready
  <2>6. QED
    BY <1>3, <2>4, <2>5, RowsKept DEF TInv, TypeOK, RequestsNameRows, ReadDue
<1>4. CASE ExpireAbort(s)
  <2>1. CASE Finish(s)
    BY <1>4, <2>1, FinishShapes, RowsKept DEF TInv, TypeOK, ExpireAbort
  <2>2. CASE ~Finish(s)
    <3> DEFINE again == SameCandidate(q)
    <3>1. req' = [req EXCEPT ![s] = again]
      BY <1>4, <2>2 DEF ExpireAbort
    <3>2. again \in Request /\ NamesRows(again)
      BY <1>1, SameCandidateTyped
    <3> HIDE DEF again
    <3>3. QED
      BY <1>4, <3>1, <3>2, RowsKept DEF TInv, TypeOK, RequestsNameRows, ExpireAbort
  <2>3. QED
    BY <2>1, <2>2
<1>5. QED
  BY <1>2, <1>3, <1>4

LEMMA AskTyped == ASSUME TInv, NEW s \in Slots, Ask(s) PROVE TInv'
<1> USE DEF TInv, TypeOK
<1>1. ASSUME NEW q \in Request, NamesRows(q), req' = [req EXCEPT ![s] = q],
             UNCHANGED <<clock, rows, report>>
      PROVE  TInv'
  BY <1>1, RowsKept DEF RequestsNameRows
<1>2. ASSUME NEW kind \in {"create", "cancel"}, NEW r \in Runs
      PROVE  OwnerRequest(kind, r, None) \in Request /\ NamesRows(OwnerRequest(kind, r, None))
  BY IdleTyped DEF OwnerRequest, Request, NamesRows, Idle, TablesTyped
<1>3. ASSUME NEW w \in Runners
      PROVE  OwnerRequest("revoke", None, w) \in Request /\ NamesRows(OwnerRequest("revoke", None, w))
  BY ZenonT(60), IdleTyped DEF OwnerRequest, Request, NamesRows, Idle, TablesTyped
<1>4. CASE \E r \in Runs : AskCreate(s, r) \/ AskCancel(s, r)
  <2>1. PICK r \in Runs : AskCreate(s, r) \/ AskCancel(s, r)
    BY <1>4
  <2>2. QED
    BY <2>1, <1>1, <1>2 DEF AskCreate, AskCancel
<1>5. CASE \E w \in Runners : AskRevoke(s, w)
  BY <1>5, <1>1, <1>3 DEF AskRevoke
<1>6. CASE \E w \in Runners, r \in Runs, n \in Nonces :
             \E q \in RunnerRequests(w, r, n) : Submit(s, q)
  <2>1. PICK w \in Runners, r \in Runs, n \in Nonces : \E q \in RunnerRequests(w, r, n) : Submit(s, q)
    BY <1>6
  <2>2. PICK q \in RunnerRequests(w, r, n) : Submit(s, q)
    BY <2>1
  <2>3. QED
    BY <2>2, <1>1, RequestsTyped DEF Submit
<1>7. QED
  BY <1>4, <1>5, <1>6 DEF Ask

LEMMA ResubmitTyped ==
  ASSUME TInv, NEW w \in Runners, NEW r \in Runs, NEW n \in Nonces,
         NEW q \in RunnerRequests(w, r, n), Resubmit(q)
  PROVE  TInv'
<1>1. q \in Request /\ NamesRows(q) /\ q.op # None
  BY RequestsTyped DEF TInv, Resubmit
<1>2. NonceRow(q) \in UsedNonce
  BY <1>1, NonceRowTyped DEF NamesRows
<1>3. QED
  BY <1>2 DEF TInv, TypeOK, TablesTyped, RequestsNameRows, Resubmit

LEMMA OtherStepsTyped ==
  ASSUME TInv,
         \/ Tick
         \/ \E w \in Runners : NewReport(w)
         \/ \E s \in Slots : Refuse(s) \/ CancelSettled(s) \/ Crash(s)
         \/ UNCHANGED vars
  PROVE  TInv'
<1> USE DEF TInv, TypeOK
<1>1. CASE Tick
  BY <1>1 DEF Tick, rows, TablesTyped, LeasesTyped, RequestsNameRows
<1>2. ASSUME NEW w \in Runners, NewReport(w) PROVE TInv'
  <2>1. PICK fit \in BOOLEAN : report' = [report EXCEPT ![w] = [rev |-> @.rev + 1, fit |-> fit]]
    BY <1>2 DEF NewReport
  <2>2. report[w].rev + 1 \in Nat
    BY DEF TablesTyped
  <2>3. report' \in [Runners -> [rev : Nat, fit : BOOLEAN]]
    BY <2>1, <2>2 DEF TablesTyped
  <2>4. QED
    BY <1>2, <2>3 DEF NewReport, rows, TablesTyped, LeasesTyped, RequestsNameRows
<1>3. ASSUME NEW s \in Slots, Refuse(s) \/ CancelSettled(s) \/ Crash(s) PROVE TInv'
  <2>1. Finish(s) /\ UNCHANGED <<clock, rows, report>>
    BY <1>3 DEF Refuse, CancelSettled, Crash
  <2>2. QED
    BY <2>1, FinishShapes, RowsKept
<1>4. CASE UNCHANGED vars
  BY <1>4 DEF vars, TablesTyped, LeasesTyped, RequestsNameRows
<1>5. QED
  BY <1>1, <1>2, <1>3, <1>4

LEMMA InitTyped == ASSUME Init PROVE TInv
<1>1. RequestsNameRows /\ req \in [Slots -> Request]
  BY IdleTyped DEF Init, RequestsNameRows
<1>2. LeasesTyped(lease)
  BY DEF Init, LeasesTyped, NoLease, LeaseRow
<1>3. run \in [Runs -> RunRow]
  BY DEF Init, NoRun, RunRow
<1>4. events \in [Runs -> Seq(EventRow)] /\ ledger \in Seq(LedgerRow)
  BY DEF Init
<1>5. /\ report \in [Runners -> [rev : Nat, fit : BOOLEAN]]
      /\ runner \in [Runners -> {"active", "revoked"}]
  BY DEF Init
<1>6. DOMAIN promised = Runs /\ \A r \in Runs : promised[r] \in [Fences(r) -> Nat]
  BY DEF Init
<1>7. QED
  BY <1>1, <1>2, <1>3, <1>4, <1>5, <1>6 DEF TInv, TypeOK, TablesTyped, Init

(* What a slot may do, one lemma per kind of batch: the cases of every proof
   about a step. *)
LEMMA StepTyped == ASSUME TInv, [Next]_vars PROVE TInv'
<1>1. ASSUME NEW s \in Slots, SlotStep(s) PROVE TInv'
  <2>1. CASE StartReconcile(s) \/ ReadDue(s) \/ ExpireAbort(s)
    BY <2>1, ReconcileTyped
  <2>2. CASE Refuse(s) \/ CancelSettled(s)
    BY <2>2, OtherStepsTyped
  <2>3. CASE RenewCommit(s) \/ RenewUnlogged(s)
    BY <2>3, RenewTyped
  <2>4. CASE CancelExpiredCommit(s) \/ CancelExpiredMiss(s)
    BY <2>4, CancelLateTyped
  <2>5. QED
    BY <1>1, <2>1, <2>2, <2>3, <2>4, ExpireTyped, ReadTyped, AbortTyped, ClaimTyped,
       CompleteTyped, CreateTyped, RevokeTyped, CancelLiveTyped DEF SlotStep
<1>2. QED
  BY <1>1, OtherStepsTyped, CleanupTyped, AskTyped, ResubmitTyped DEF Next

(* Every table of the control plane holds well-typed rows in every reachable
   state, and every request in flight names rows that exist, whatever the number
   of runs, runners and invocations. *)
THEOREM TypeCorrect == Spec => [](TypeOK /\ RequestsNameRows)
<1>1. Init => TInv
  BY InitTyped
<1>2. TInv /\ [Next]_vars => TInv'
  BY StepTyped
<1>3. QED
  BY <1>1, <1>2, PTL DEF Spec, TInv

-----------------------------------------------------------------------------
(* A run and its leases agree: what each change of a row does to Agree *)

Ended == {"superseded", "released", "revoked"}

LEMMA AgreeDetach ==
  ASSUME NEW r \in Runs, NEW row \in RunRow, NEW ls \in [Fences(r) -> LeaseRow],
         Agree(r, row, ls), NEW f \in Fences(r), ls[f].status = "active", NEW st \in Ended
  PROVE  /\ Agree(r, Detach(row, f), [ls EXCEPT ![f].status = st])
         /\ Detach(row, f).status = "queued" /\ Detach(row, f).gen = row.gen
         /\ row.status = "leased" /\ row.lease = f /\ row.gen = f
<1>1. row.status = "leased" /\ row.lease = f /\ row.gen = f
  BY DEF Agree
<1> DEFINE new == Detach(row, f)
           ls2 == [ls EXCEPT ![f].status = st]
<1>2. new.status = "queued" /\ new.gen = row.gen /\ new.lease = 0
  BY <1>1 DEF Detach, RunRow
<1>3. \A g \in Fences(r) : ls2[g].status = IF g = f THEN st ELSE ls[g].status
  BY DEF LeaseRow
<1>4. row.gen \in Nat /\ f \in Nat
  BY FencesAreNat DEF RunRow
<1> HIDE DEF new, ls2
<1>5. Agree(r, new, ls2)
  BY <1>1, <1>2, <1>3, <1>4 DEF Agree, Ended, Fences
<1>6. QED
  BY <1>1, <1>2, <1>5 DEF new, ls2

LEMMA AgreeAttach ==
  ASSUME NEW r \in Runs, NEW row \in RunRow, NEW ls \in [Fences(r) -> LeaseRow],
         Agree(r, row, ls), row.status = "queued", row.gen < MaxClaims[r],
         NEW new \in LeaseRow, new.status = "active"
  PROVE  /\ row.gen + 1 \in Fences(r)
         /\ Agree(r, Attach(row, row.gen + 1), [ls EXCEPT ![row.gen + 1] = new])
<1> DEFINE f == row.gen + 1
           row2 == Attach(row, f)
           ls2 == [ls EXCEPT ![f] = new]
<1>1. row.gen \in Nat /\ MaxClaims[r] \in Nat /\ f \in Nat
  BY Numbers DEF RunRow
<1>2. f \in Fences(r)
  BY <1>1 DEF Fences
<1>3. row2.status = "leased" /\ row2.gen = f /\ row2.lease = f
  BY DEF Attach, RunRow
<1>4. \A g \in Fences(r) : ls2[g] = IF g = f THEN new ELSE ls[g]
  OBVIOUS
<1> HIDE DEF row2, ls2
<1>5. Agree(r, row2, ls2)
  BY <1>1, <1>2, <1>3, <1>4 DEF Agree, Fences
<1>6. QED
  BY <1>2, <1>5 DEF row2, ls2

LEMMA AgreeComplete ==
  ASSUME NEW r \in Runs, NEW row \in RunRow, NEW ls \in [Fences(r) -> LeaseRow],
         Agree(r, row, ls), row.status = "leased", NEW q
  PROVE  Agree(r, Detach(Completed(row, q), row.lease), [ls EXCEPT ![row.lease].status = "released"])
<1> DEFINE row2 == Completed(row, q)
           ls2 == [ls EXCEPT ![row.lease].status = "released"]
<1>1. row2.status = "completed" /\ row2.gen = row.gen /\ row2.lease = row.lease
  BY DEF Completed, RunRow
<1>2. row.lease = row.gen /\ row.lease \in Fences(r) /\ row.gen \in Nat
  BY DEF Agree, RunRow
<1>3. \A g \in Fences(r) : ls2[g].status = IF g = row.lease THEN "released" ELSE ls[g].status
  BY DEF LeaseRow
<1>4. Detach(row2, row.lease) = row2
  BY <1>1 DEF Detach
<1> HIDE DEF row2, ls2
<1>5. Agree(r, row2, ls2)
  BY <1>1, <1>2, <1>3 DEF Agree, Fences
<1>6. QED
  BY <1>4, <1>5 DEF row2, ls2

\* a run that is closed while queued, or marked while leased, keeps its leases
LEMMA AgreeStatus ==
  ASSUME NEW r \in Runs, NEW row \in RunRow, NEW ls, Agree(r, row, ls)
  PROVE  /\ row.status = "queued" => /\ Agree(r, Canceled(row, "canceled"), ls)
                                     /\ Agree(r, ExpiredRow(row), ls)
         /\ row.status = "leased" => Agree(r, Canceled(row, "leased"), ls)
<1>1. \A st \in {"leased", "canceled"} :
        /\ Canceled(row, st).status = st /\ Canceled(row, st).gen = row.gen
        /\ Canceled(row, st).lease = row.lease
  BY DEF Canceled, RunRow
<1>2. ExpiredRow(row).status = "expired" /\ ExpiredRow(row).gen = row.gen /\ ExpiredRow(row).lease = row.lease
  BY DEF ExpiredRow, RunRow
<1>3. QED
  BY <1>1, <1>2 DEF Agree

LInv == TInv /\ LeaseAgreement

LEMMA RowsTyped ==
  ASSUME TInv
  PROVE  /\ DOMAIN run = Runs /\ DOMAIN lease = Runs /\ run \in [Runs -> RunRow]
         /\ \A r \in Runs : run[r] \in RunRow /\ lease[r] \in [Fences(r) -> LeaseRow]
  BY DEF TInv, TypeOK, TablesTyped, LeasesTyped

LEMMA AgreementAt ==
  ASSUME LInv, NEW r \in Runs, NEW row, NEW ls, Agree(r, row, ls),
         run' = [run EXCEPT ![r] = row], lease' = [lease EXCEPT ![r] = ls]
  PROVE  LeaseAgreement'
<1>1. ASSUME NEW x \in Runs
      PROVE  run'[x] = (IF x = r THEN row ELSE run[x]) /\ lease'[x] = (IF x = r THEN ls ELSE lease[x])
  BY RowsTyped DEF LInv
<1>2. ASSUME NEW x \in Runs PROVE Agree(x, run'[x], lease'[x])
  BY <1>1 DEF LInv, LeaseAgreement
<1>3. QED
  BY <1>2 DEF LeaseAgreement

LEMMA AgreementRow ==
  ASSUME LInv, NEW r \in Runs, NEW row, Agree(r, row, lease[r]),
         run' = [run EXCEPT ![r] = row], lease' = lease
  PROVE  LeaseAgreement'
<1>1. ASSUME NEW x \in Runs PROVE run'[x] = IF x = r THEN row ELSE run[x]
  BY RowsTyped DEF LInv
<1>2. ASSUME NEW x \in Runs PROVE Agree(x, run'[x], lease'[x])
  BY <1>1 DEF LInv, LeaseAgreement
<1>3. QED
  BY <1>2 DEF LeaseAgreement

LEMMA AgreementKept ==
  ASSUME LeaseAgreement, run' = run, lease' = lease PROVE LeaseAgreement'
  BY DEF LeaseAgreement

LEMMA ActiveIsCurrent ==
  ASSUME LInv, NEW r \in Runs, NEW f, ActiveLease(r, f)
  PROVE  /\ f \in Fences(r) /\ run[r].status = "leased" /\ run[r].lease = f /\ run[r].gen = f
  BY RowsTyped DEF LInv, LeaseAgreement, Agree, ActiveLease

\* ending the active lease of a run and detaching the run from it
LEMMA AgreementEnds ==
  ASSUME LInv, NEW r \in Runs, NEW f, ActiveLease(r, f), NEW st \in Ended
  PROVE  /\ Agree(r, Detach(run[r], f), [lease[r] EXCEPT ![f].status = st])
         /\ Detach(run[r], f).status = "queued" /\ Detach(run[r], f).gen = run[r].gen
         /\ Detach(run[r], f) \in RunRow
         /\ [lease[r] EXCEPT ![f].status = st] \in [Fences(r) -> LeaseRow]
<1>1. /\ run[r] \in RunRow /\ lease[r] \in [Fences(r) -> LeaseRow] /\ Agree(r, run[r], lease[r])
      /\ f \in Fences(r) /\ lease[r][f].status = "active"
  BY RowsTyped DEF LInv, LeaseAgreement, ActiveLease
<1>2. [lease[r][f] EXCEPT !.status = st] \in LeaseRow
  BY <1>1 DEF LeaseRow, Ended
<1>3. QED
  BY <1>1, <1>2, AgreeDetach, DetachTyped

LEMMA EndsWith ==
  ASSUME LInv, NEW r \in Runs, NEW f \in Fences(r), NEW st
  PROVE  [lease EXCEPT ![r][f].status = st] = [lease EXCEPT ![r] = [lease[r] EXCEPT ![f].status = st]]
  BY RowsTyped DEF LInv

LEMMA RevokeAgrees == ASSUME LInv, NEW s \in Slots, RevokeCommit(s) PROVE LeaseAgreement'
<1> DEFINE q == req[s]
           r == q.head.other
           f == q.head.otherFence
<1>1. CASE ~RevokesLease(q)
  BY <1>1, AgreementKept DEF RevokeCommit, LInv
<1>2. CASE RevokesLease(q)
  <2>1. run' = [run EXCEPT ![r] = Detach(@, f)] /\ lease' = [lease EXCEPT ![r][f].status = "revoked"]
    BY <1>2 DEF RevokeCommit
  <2>2. r \in Runs /\ ActiveLease(r, f) /\ f \in Fences(r)
    BY <1>2 DEF RevokesLease, LInv, TInv, TypeOK, Request, HeadRow, ActiveLease
  <2> HIDE DEF q, r, f
  <2>3. run' = [run EXCEPT ![r] = Detach(run[r], f)]
    BY <2>1, <2>2
  <2>4. lease' = [lease EXCEPT ![r] = [lease[r] EXCEPT ![f].status = "revoked"]]
    BY <2>1, <2>2, EndsWith
  <2>5. Agree(r, Detach(run[r], f), [lease[r] EXCEPT ![f].status = "revoked"])
    BY <2>2, AgreementEnds DEF Ended
  <2>6. QED
    BY <2>2, <2>3, <2>4, <2>5, AgreementAt
<1>3. QED
  BY <1>1, <1>2

LEMMA CompleteAgrees == ASSUME LInv, NEW s \in Slots, CompleteCommit(s) PROVE LeaseAgreement'
<1> DEFINE q == req[s]
           r == q.run
           f == q.fence
<1>1. /\ r \in Runs /\ f \in Fences(r) /\ run[r].status = "leased" /\ run[r].lease = f
  BY DEF LInv, TInv, RequestsNameRows, NamesRows, CompleteCommit, CompletionCommits, Held
<1>2. run' = [run EXCEPT ![r] = Detach(Completed(@, q), f)] /\ lease' = [lease EXCEPT ![r][f].status = "released"]
  BY DEF CompleteCommit
<1> HIDE DEF q, r, f
<1>3. run' = [run EXCEPT ![r] = Detach(Completed(run[r], q), f)]
  BY <1>1, <1>2
<1>4. lease' = [lease EXCEPT ![r] = [lease[r] EXCEPT ![f].status = "released"]]
  BY <1>1, <1>2, EndsWith
<1>5. Agree(r, Detach(Completed(run[r], q), f), [lease[r] EXCEPT ![f].status = "released"])
  BY <1>1, AgreeComplete, RowsTyped DEF LInv, LeaseAgreement
<1>6. QED
  BY <1>1, <1>3, <1>4, <1>5, AgreementAt

LEMMA RenewAgrees ==
  ASSUME LInv, NEW s \in Slots, RenewCommit(s) \/ RenewUnlogged(s) PROVE LeaseAgreement'
<1> DEFINE q == req[s]
           r == q.run
           f == q.fence
<1>1. r \in Runs /\ f \in Fences(r)
  BY DEF LInv, TInv, RequestsNameRows, NamesRows, RenewCommit, RenewUnlogged
<1>2. run' = run /\ (lease' = lease \/ lease' = RenewedLease(q))
  BY DEF RenewCommit, RenewUnlogged
<1> DEFINE new == Renewed(lease[r][f], LeaseUntil(r, q.at))
<1>3. RenewedLease(q) = [lease EXCEPT ![r] = [lease[r] EXCEPT ![f] = new]]
  BY <1>1, RowsTyped DEF RenewedLease, LInv
<1>4. new.status = lease[r][f].status
  BY <1>1, RowsTyped DEF Renewed, LeaseRow, LInv
<1> HIDE DEF new
<1>5. Agree(r, run[r], [lease[r] EXCEPT ![f] = new])
  <2> DEFINE ls == [lease[r] EXCEPT ![f] = new]
  <2>1. \A g \in Fences(r) : ls[g].status = lease[r][g].status
    BY <1>1, <1>4, RowsTyped DEF LInv
  <2>2. Agree(r, run[r], lease[r]) /\ run[r].gen \in Nat
    BY <1>1, RowsTyped DEF LInv, LeaseAgreement, RunRow
  <2> HIDE DEF ls
  <2>3. Agree(r, run[r], ls)
    BY <2>1, <2>2 DEF Agree, Fences
  <2>4. QED
    BY <2>3 DEF ls
<1>6. CASE lease' = lease
  BY <1>2, <1>6, AgreementKept DEF LInv
<1>7. CASE lease' = RenewedLease(q)
  <2>1. run' = [run EXCEPT ![r] = run[r]]
    BY <1>1, <1>2, RowsTyped DEF LInv
  <2>2. QED
    BY <1>1, <1>3, <1>5, <1>7, <2>1, AgreementAt
<1>8. QED
  BY <1>2, <1>6, <1>7

LEMMA CreateAgrees == ASSUME LInv, NEW s \in Slots, CreateCommit(s) PROVE LeaseAgreement'
<1> DEFINE r == req[s].run
           t == req[s].at + RunDeadline
           new == [NoRun EXCEPT !.status = "queued", !.version = 1, !.deadline = t]
<1>1. r \in Runs /\ run[r].status = "absent"
  BY DEF LInv, TInv, RequestsNameRows, NamesRows, CreateCommit, CreateCommits
<1>2. run' = [run EXCEPT ![r] = new] /\ lease' = lease
  BY DEF CreateCommit
<1>3. new.status = "queued" /\ new.gen = 0 /\ new.lease = 0
  BY DEF NoRun
<1>4. Agree(r, run[r], lease[r]) /\ MaxClaims[r] \in Nat
  BY <1>1, Numbers DEF LInv, LeaseAgreement
<1> HIDE DEF new, r
<1>5. Agree(r, new, lease[r])
  BY <1>1, <1>3, <1>4 DEF Agree
<1>6. QED
  BY <1>1, <1>2, <1>5, AgreementRow

LEMMA CancelLiveAgrees == ASSUME LInv, NEW s \in Slots, CancelCommit(s) PROVE LeaseAgreement'
<1> DEFINE q == req[s]
           r == q.run
           st == IF q.head.status = "queued" THEN "canceled" ELSE "leased"
<1>1. r \in Runs /\ run[r].status = q.head.status /\ q.head.status \in {"queued", "leased"}
  BY DEF LInv, TInv, RequestsNameRows, NamesRows, CancelCommit
<1>2. run' = [run EXCEPT ![r] = Canceled(run[r], st)] /\ lease' = lease
  BY <1>1 DEF CancelCommit
<1>3. Agree(r, run[r], lease[r]) /\ run[r] \in RunRow
  BY <1>1, RowsTyped DEF LInv, LeaseAgreement
<1>4. Agree(r, Canceled(run[r], st), lease[r])
  BY <1>1, <1>3, AgreeStatus
<1> HIDE DEF q, r, st
<1>5. QED
  BY <1>1, <1>2, <1>4, AgreementRow

\* the release that the batch of a late cancellation begins with
LEMMA ReleaseAgrees ==
  ASSUME LInv, NEW q, q.run \in Runs, NEW t
  PROVE  /\ RunAfterRelease(q, t) \in RunRow
         /\ \E ls : /\ Agree(q.run, RunAfterRelease(q, t), ls)
                    /\ \/ ls = lease[q.run] /\ LeaseAfterRelease(q, t) = lease
                       \/ LeaseAfterRelease(q, t) = [lease EXCEPT ![q.run] = ls]
<1> DEFINE r == q.run
           f == q.head.gen
<1>1. CASE CancelReleases(q, t)
  <2>1. ActiveLease(r, f) /\ f \in Fences(r)
    BY <1>1 DEF CancelReleases, ActiveLease
  <2>2. RunAfterRelease(q, t) = Detach(run[r], f)
    BY <1>1 DEF RunAfterRelease
  <2> DEFINE ls == [lease[r] EXCEPT ![f].status = "released"]
  <2>3. LeaseAfterRelease(q, t) = [lease EXCEPT ![r] = ls]
    BY <1>1, <2>1, EndsWith DEF LeaseAfterRelease
  <2>4. Agree(r, Detach(run[r], f), ls) /\ Detach(run[r], f) \in RunRow
    BY <2>1, AgreementEnds DEF Ended
  <2> HIDE DEF ls
  <2>5. QED
    BY <2>2, <2>3, <2>4
<1>2. CASE ~CancelReleases(q, t)
  <2>1. RunAfterRelease(q, t) = run[r] /\ LeaseAfterRelease(q, t) = lease
    BY <1>2 DEF RunAfterRelease, LeaseAfterRelease
  <2>2. Agree(r, run[r], lease[r]) /\ run[r] \in RunRow
    BY RowsTyped DEF LInv, LeaseAgreement
  <2>3. QED
    BY <2>1, <2>2
<1>3. QED
  BY <1>1, <1>2

LEMMA CancelLateAgrees ==
  ASSUME LInv, NEW s \in Slots, CancelExpiredCommit(s) \/ CancelExpiredMiss(s)
  PROVE  LeaseAgreement'
<1> DEFINE q == req[s]
           r == q.run
<1>1. r \in Runs
  BY DEF LInv, TInv, RequestsNameRows, NamesRows, CancelExpiredCommit, CancelExpiredMiss
<1>2. PICK t : /\ lease' = LeaseAfterRelease(q, t)
               /\ \/ run' = [run EXCEPT ![r] = RunAfterRelease(q, t)]
                  \/ /\ run' = [run EXCEPT ![r] = Canceled(RunAfterRelease(q, t), "canceled")]
                     /\ RunAfterRelease(q, t).status = "queued"
  BY DEF CancelExpiredCommit, CancelExpiredMiss, CancelHits
<1>3. PICK ls : /\ Agree(r, RunAfterRelease(q, t), ls)
                /\ \/ ls = lease[r] /\ LeaseAfterRelease(q, t) = lease
                   \/ LeaseAfterRelease(q, t) = [lease EXCEPT ![r] = ls]
  BY <1>1, ReleaseAgrees
<1> DEFINE released == RunAfterRelease(q, t)
           closed == Canceled(released, "canceled")
<1>4. released \in RunRow
  BY <1>1, ReleaseAgrees
<1> HIDE DEF q, r, released
<1>5. released.status = "queued" => Agree(r, closed, ls)
  BY <1>1, <1>3, <1>4, AgreeStatus DEF released
<1>6. PICK row : Agree(r, row, ls) /\ run' = [run EXCEPT ![r] = row]
  <2> HIDE DEF closed
  <2>1. CASE run' = [run EXCEPT ![r] = released]
    BY <1>3, <2>1 DEF released
  <2>2. CASE run' = [run EXCEPT ![r] = closed] /\ released.status = "queued"
    BY <1>5, <2>2
  <2>3. QED
    BY <1>2, <2>1, <2>2 DEF released, closed
<1>7. QED
  BY <1>1, <1>2, <1>3, <1>6, AgreementAt, AgreementRow

LEMMA ExpireAgrees == ASSUME LInv, NEW s \in Slots, ExpireCommit(s) PROVE LeaseAgreement'
<1> DEFINE q == req[s]
           r == q.run
           f == q.head.gen
<1>1. r \in Runs /\ ExpiryCommits(q)
  BY IdsAssumption DEF LInv, TInv, RequestsNameRows, NamesRows, ExpireCommit
<1>2. CASE q.head.status = "leased"
  <2>1. ActiveLease(r, f) /\ f \in Fences(r)
    BY <1>1, <1>2 DEF ExpiryCommits, ActiveLease
  <2>2. /\ run' = [run EXCEPT ![r] = ExpiredRow(Detach(run[r], f))]
        /\ lease' = [lease EXCEPT ![r] = [lease[r] EXCEPT ![f].status = "revoked"]]
    BY <1>2, <2>1, EndsWith, <1>1 DEF ExpireCommit
  <2> HIDE DEF q, r, f
  <2>3. Agree(r, ExpiredRow(Detach(run[r], f)), [lease[r] EXCEPT ![f].status = "revoked"])
    BY <1>1, <2>1, AgreementEnds, AgreeStatus DEF Ended
  <2>4. QED
    BY <1>1, <2>2, <2>3, AgreementAt
<1>3. CASE q.head.status # "leased"
  <2>1. run[r].status = "queued"
    BY <1>1, <1>3 DEF ExpiryCommits
  <2>2. run' = [run EXCEPT ![r] = ExpiredRow(run[r])] /\ lease' = lease
    BY <1>1, <1>3 DEF ExpireCommit
  <2>3. Agree(r, ExpiredRow(run[r]), lease[r])
    BY <1>1, <2>1, RowsTyped, AgreeStatus DEF LInv, LeaseAgreement
  <2> HIDE DEF q, r, f
  <2>4. QED
    BY <1>1, <2>2, <2>3, AgreementRow
<1>4. QED
  BY <1>2, <1>3

\* what a committing claim does to each run and its leases
LEMMA ClaimEffect ==
  ASSUME LInv, NEW s \in Slots, ClaimCommit(s), NEW r \in Runs
  PROVE  /\ Agree(r, run'[r], lease'[r])
         /\ \A f \in Fences(r) :
              lease'[r][f].status = "active" =>
                \/ r = req[s].run /\ lease'[r][f].runner = req[s].runner
                   /\ f = req[s].head.gen + 1
                \/ /\ <<r, f>> \notin EndedByClaim(req[s])
                   /\ lease[r][f].status = "active" /\ lease'[r][f] = lease[r][f]
<1> DEFINE q == req[s]
           new == GrantedLease(q)
<1>1. q \in Request /\ q.run \in Runs /\ q.runner \in Runners /\ q.head.gen \in Nat /\ ClaimCommits(q)
  BY DEF LInv, TInv, TypeOK, RequestsNameRows, NamesRows, Request, HeadRow, ClaimCommit
<1>2. run' = RunsAfterClaim(q) /\ lease' = LeasesAfterClaim(q)
  BY DEF ClaimCommit
<1>3. new \in LeaseRow /\ new.status = "active" /\ new.runner = q.runner
  <2>1. LeaseUntil(q.run, q.at) \in Nat
    BY <1>1, RowsTyped, LeaseUntilIsNat DEF LInv, Request
  <2>2. QED
    BY <1>1, <2>1 DEF GrantedLease, LeaseRow, Request
<1>4. \A f : <<r, f>> \in EndedByClaim(q) =>
              /\ ActiveLease(r, f)
              /\ \/ r = q.run /\ f = q.head.gen /\ ClaimsOwn(q)
                 \/ r = q.head.other /\ f = q.head.otherFence /\ ClaimsForeign(q)
  BY DEF EndedByClaim, ClaimsForeign, ClaimsOwn, Supersedes
<1>5. /\ run[r] \in RunRow /\ lease[r] \in [Fences(r) -> LeaseRow] /\ Agree(r, run[r], lease[r])
  BY RowsTyped DEF LInv, LeaseAgreement
<1>6. CASE r = q.run
  <2> DEFINE row == RunBeforeClaim(q)
             ls == IF ClaimsOwn(q) THEN [lease[r] EXCEPT ![q.head.gen].status = "superseded"]
                   ELSE lease[r]
             g == q.head.gen + 1
  <2>1. /\ row \in RunRow /\ ls \in [Fences(r) -> LeaseRow] /\ Agree(r, row, ls)
        /\ row.status = "queued" /\ row.gen = q.head.gen /\ row.gen < MaxClaims[r]
    BY <1>1, <1>5, <1>6, AgreementEnds DEF RunBeforeClaim, ClaimsOwn, Supersedes, ClaimCommits, Ended
  <2>2. \A f \in Fences(r) : ls[f] = IF <<r, f>> \in EndedByClaim(q) THEN Supersede(lease[r][f])
                                     ELSE lease[r][f]
    <3>1. CASE ClaimsOwn(q)
      <4>1. ActiveLease(r, q.head.gen)
        BY <1>6, <3>1 DEF ClaimsOwn, Supersedes
      <4>2. \A f : <<r, f>> \in EndedByClaim(q) <=> f = q.head.gen
        BY <1>4, <1>6, <3>1, <4>1, ActiveIsCurrent DEF EndedByClaim
      <4>3. QED
        BY <1>5, <3>1, <4>2 DEF Supersede
    <3>2. CASE ~ClaimsOwn(q)
      <4>1. run[r].status = "queued"
        BY <1>6, <2>1, <3>2 DEF RunBeforeClaim
      <4>2. \A f : <<r, f>> \notin EndedByClaim(q)
        BY <1>4, <4>1, ActiveIsCurrent
      <4>3. QED
        BY <3>2, <4>2
    <3>3. QED
      BY <3>1, <3>2
  <2>3. run'[r] = Attach(row, g)
    BY <1>2, <1>6 DEF RunsAfterClaim
  <2>4. lease'[r] = [f \in Fences(r) |-> IF f = g THEN new
                                         ELSE IF <<r, f>> \in EndedByClaim(q) THEN Supersede(lease[r][f])
                                         ELSE lease[r][f]]
    BY <1>2, <1>6 DEF LeasesAfterClaim
  <2> HIDE DEF row, ls, g, new, q
  <2>5. lease'[r] = [ls EXCEPT ![g] = new]
    BY <2>1, <2>2, <2>4
  <2>6. Agree(r, Attach(row, g), [ls EXCEPT ![g] = new])
    BY <1>3, <2>1, AgreeAttach DEF g
  <2>7. \A f \in Fences(r) : Supersede(lease[r][f]).status = "superseded"
    BY <1>5 DEF Supersede, LeaseRow
  <2>8. QED
    BY SMTT(60), <1>3, <1>6, <2>3, <2>4, <2>5, <2>6, <2>7 DEF g, q
<1>7. CASE r # q.run
  <2>1. lease'[r] = [f \in Fences(r) |-> IF <<r, f>> \in EndedByClaim(q) THEN Supersede(lease[r][f])
                                         ELSE lease[r][f]]
    BY <1>2, <1>7 DEF LeasesAfterClaim
  <2>2. \A f \in Fences(r) : Supersede(lease[r][f]).status = "superseded"
    BY <1>5 DEF Supersede, LeaseRow
  <2>3. Agree(r, run'[r], lease'[r])
    <3>1. CASE ClaimsForeign(q) /\ r = q.head.other
      <4> DEFINE f == q.head.otherFence
      <4>1. ActiveLease(r, f) /\ run'[r] = Detach(run[r], f)
        BY <1>2, <1>7, <3>1 DEF RunsAfterClaim, ClaimsForeign, Supersedes
      <4>2. \A g : <<r, g>> \in EndedByClaim(q) <=> g = f
        BY <1>7, <3>1 DEF EndedByClaim
      <4> HIDE DEF q, f
      <4>3. lease'[r] = [lease[r] EXCEPT ![f].status = "superseded"]
        BY <1>5, <2>1, <4>2 DEF Supersede
      <4>4. Agree(r, Detach(run[r], f), [lease[r] EXCEPT ![f].status = "superseded"])
        BY <4>1, AgreementEnds DEF Ended
      <4>5. QED
        BY <4>1, <4>3, <4>4
    <3>2. CASE ~(ClaimsForeign(q) /\ r = q.head.other)
      <4>1. run'[r] = run[r]
        BY <1>2, <1>7, <3>2 DEF RunsAfterClaim
      <4>2. \A g : <<r, g>> \notin EndedByClaim(q)
        BY <1>4, <1>7, <3>2
      <4>3. lease'[r] = lease[r]
        BY <1>5, <2>1, <4>2
      <4>4. QED
        BY <1>5, <4>1, <4>3
    <3>3. QED
      BY <3>1, <3>2
  <2>4. QED
    BY <2>1, <2>2, <2>3
<1>8. QED
  BY <1>6, <1>7

LEMMA ClaimAgrees == ASSUME LInv, NEW s \in Slots, ClaimCommit(s) PROVE LeaseAgreement'
  BY ClaimEffect DEF LeaseAgreement

\* the steps that leave every run and every lease alone
LEMMA QuietSteps ==
  ASSUME [Next]_vars,
         ~ \E s \in Slots :
             \/ ClaimCommit(s) \/ RevokeCommit(s) \/ RenewCommit(s) \/ RenewUnlogged(s)
             \/ CompleteCommit(s) \/ CreateCommit(s) \/ CancelCommit(s)
             \/ CancelExpiredCommit(s) \/ CancelExpiredMiss(s) \/ ExpireCommit(s)
  PROVE  run' = run /\ lease' = lease /\ runner' = runner /\ events' = events
<1>1. ASSUME NEW s \in Slots, SlotStep(s)
      PROVE  run' = run /\ lease' = lease /\ runner' = runner /\ events' = events
  BY <1>1 DEF SlotStep, StartReconcile, ReadDue, ExpireAbort, Read, Refuse, Abort, CancelSettled, rows
<1>2. ASSUME NEW s \in Slots, Ask(s) \/ Crash(s)
      PROVE  run' = run /\ lease' = lease /\ runner' = runner /\ events' = events
  BY <1>2 DEF Ask, AskCreate, AskCancel, AskRevoke, Submit, Crash, rows
<1>3. ASSUME Tick \/ Cleanup \/ (\E w \in Runners : NewReport(w)) \/ UNCHANGED vars
      PROVE  run' = run /\ lease' = lease /\ runner' = runner /\ events' = events
  BY <1>3 DEF Tick, Cleanup, NewReport, rows, vars
<1>4. ASSUME NEW q, Resubmit(q)
      PROVE  run' = run /\ lease' = lease /\ runner' = runner /\ events' = events
  BY <1>4 DEF Resubmit
<1>5. QED
  BY <1>1, <1>2, <1>3, <1>4 DEF Next

LEMMA StepAgrees == ASSUME LInv, [Next]_vars PROVE LeaseAgreement'
<1>1. CASE \E s \in Slots :
             \/ ClaimCommit(s) \/ RevokeCommit(s) \/ RenewCommit(s) \/ RenewUnlogged(s)
             \/ CompleteCommit(s) \/ CreateCommit(s) \/ CancelCommit(s)
             \/ CancelExpiredCommit(s) \/ CancelExpiredMiss(s) \/ ExpireCommit(s)
  BY <1>1, ClaimAgrees, RevokeAgrees, RenewAgrees, CompleteAgrees, CreateAgrees,
     CancelLiveAgrees, CancelLateAgrees, ExpireAgrees
<1>2. QED
  BY <1>1, QuietSteps, AgreementKept DEF LInv

LEMMA InitAgrees == ASSUME Init PROVE LeaseAgreement
<1>1. ASSUME NEW r \in Runs PROVE Agree(r, NoRun, [f \in Fences(r) |-> NoLease])
  BY Numbers, FencesAreNat DEF Agree, NoRun, NoLease
<1>2. QED
  BY <1>1 DEF Init, LeaseAgreement

(* In every reachable state a leased run points to its newest lease, which is its
   one active lease, a fence was handed out for every lease and no other, and a
   completed run keeps the lease it was completed under: no interleaving of
   claims, renewals, completions, cancellations, revocations and expiries tears
   the two tables apart. *)
THEOREM LeasesAgree == Spec => []LeaseAgreement
<1>1. Init => LInv
  BY InitTyped, InitAgrees DEF LInv
<1>2. LInv /\ [Next]_vars => LInv'
  BY StepTyped, StepAgrees DEF LInv
<1>3. QED
  BY <1>1, <1>2, PTL DEF Spec, LInv

-----------------------------------------------------------------------------
(* Runners and their leases *)

HInv == LInv /\ RunnerHoldsOne /\ RevokedHoldNothing

\* no lease becomes active or changes hands
LeasesFade ==
  \A r \in Runs : \A f \in Fences(r) :
    lease'[r][f].status = "active" =>
      lease[r][f].status = "active" /\ lease'[r][f].runner = lease[r][f].runner

LEMMA FadingHolds ==
  ASSUME LeasesFade, NEW w PROVE LeasesOf(w)' \subseteq LeasesOf(w)
  BY DEF LeasesFade, LeasesOf, ActiveLease, Fences

LEMMA StatusFades ==
  ASSUME LInv, NEW r \in Runs, NEW f \in Fences(r), NEW st \in Ended,
         lease' = [lease EXCEPT ![r][f].status = st]
  PROVE  LeasesFade /\ lease'[r][f].status = st
<1>1. \A x \in Runs : \A g \in Fences(x) :
        lease'[x][g] = IF x = r /\ g = f THEN [lease[r][f] EXCEPT !.status = st] ELSE lease[x][g]
  BY RowsTyped DEF LInv
<1>2. lease[r][f] \in LeaseRow
  BY RowsTyped DEF LInv
<1>3. QED
  BY <1>1, <1>2 DEF LeasesFade, LeaseRow, Ended

\* every step but a claim only ends leases
LEMMA OnlyClaimsGrant ==
  ASSUME LInv, [Next]_vars, ~ \E s \in Slots : ClaimCommit(s)
  PROVE  LeasesFade
<1> USE DEF LInv
<1>1. CASE lease' = lease
  BY <1>1 DEF LeasesFade
<1>2. ASSUME NEW s \in Slots, RenewCommit(s) \/ RenewUnlogged(s) PROVE LeasesFade
  <2> DEFINE q == req[s]
             new == Renewed(lease[q.run][q.fence], LeaseUntil(q.run, q.at))
  <2>1. q.run \in Runs /\ q.fence \in Fences(q.run) /\ (lease' = lease \/ lease' = RenewedLease(q))
    BY <1>2 DEF TInv, RequestsNameRows, NamesRows, RenewCommit, RenewUnlogged
  <2>2. new.status = lease[q.run][q.fence].status /\ new.runner = lease[q.run][q.fence].runner
    BY <2>1, RowsTyped DEF Renewed, LeaseRow
  <2>3. RenewedLease(q) = [lease EXCEPT ![q.run][q.fence] = new]
    BY <2>1, RowsTyped DEF RenewedLease
  <2> HIDE DEF new, q
  <2>4. QED
    BY <1>1, <2>1, <2>2, <2>3, RowsTyped DEF LeasesFade
<1>3. ASSUME NEW s \in Slots, CompleteCommit(s) PROVE LeasesFade
  <2>1. req[s].run \in Runs /\ req[s].fence \in Fences(req[s].run)
    BY <1>3 DEF TInv, RequestsNameRows, NamesRows, CompleteCommit
  <2>2. QED
    BY <1>3, <2>1, StatusFades DEF CompleteCommit, Ended
<1>4. ASSUME NEW s \in Slots, RevokeCommit(s) PROVE LeasesFade
  <2> DEFINE q == req[s]
  <2>1. CASE RevokesLease(q)
    <3>1. q.head.other \in Runs /\ q.head.otherFence \in Fences(q.head.other)
      BY <2>1 DEF RevokesLease, TInv, TypeOK, Request, HeadRow, ActiveLease
    <3>2. lease' = [lease EXCEPT ![q.head.other][q.head.otherFence].status = "revoked"]
      BY <1>4, <2>1 DEF RevokeCommit
    <3>3. QED
      BY <3>1, <3>2, StatusFades DEF Ended
  <2>2. CASE ~RevokesLease(q)
    BY <1>1, <1>4, <2>2 DEF RevokeCommit
  <2>3. QED
    BY <2>1, <2>2
<1>5. ASSUME NEW s \in Slots, ExpireCommit(s) PROVE LeasesFade
  <2> DEFINE q == req[s]
  <2>1. q.run \in Runs /\ ExpiryCommits(q)
    BY <1>5, IdsAssumption DEF TInv, RequestsNameRows, NamesRows, ExpireCommit
  <2>2. CASE q.head.status = "leased"
    <3>1. q.head.gen \in Fences(q.run)
      BY <2>1, <2>2 DEF ExpiryCommits, ActiveLease
    <3>2. lease' = [lease EXCEPT ![q.run][q.head.gen].status = "revoked"]
      BY <1>5, <2>2 DEF ExpireCommit
    <3>3. QED
      BY <2>1, <3>1, <3>2, StatusFades DEF Ended
  <2>3. CASE q.head.status # "leased"
    BY <1>1, <1>5, <2>3 DEF ExpireCommit
  <2>4. QED
    BY <2>2, <2>3
<1>6. ASSUME NEW s \in Slots, CancelExpiredCommit(s) \/ CancelExpiredMiss(s) PROVE LeasesFade
  <2> DEFINE q == req[s]
  <2>1. q.run \in Runs
    BY <1>6 DEF TInv, RequestsNameRows, NamesRows, CancelExpiredCommit, CancelExpiredMiss
  <2>2. PICK t : lease' = LeaseAfterRelease(q, t)
    BY <1>6 DEF CancelExpiredCommit, CancelExpiredMiss
  <2>3. CASE CancelReleases(q, t)
    <3>1. q.head.gen \in Fences(q.run)
      BY <2>3 DEF CancelReleases, ActiveLease
    <3>2. lease' = [lease EXCEPT ![q.run][q.head.gen].status = "released"]
      BY <2>2, <2>3 DEF LeaseAfterRelease
    <3>3. QED
      BY <2>1, <3>1, <3>2, StatusFades DEF Ended
  <2>4. CASE ~CancelReleases(q, t)
    BY <1>1, <2>2, <2>4 DEF LeaseAfterRelease
  <2>5. QED
    BY <2>3, <2>4
<1>7. ASSUME NEW s \in Slots, CreateCommit(s) \/ CancelCommit(s) PROVE LeasesFade
  BY <1>1, <1>7 DEF CreateCommit, CancelCommit
<1>8. QED
  BY <1>1, <1>2, <1>3, <1>4, <1>5, <1>6, <1>7, QuietSteps

LEMMA ClaimHolds ==
  ASSUME LInv, NEW s \in Slots, ClaimCommit(s), NEW w \in Runners
  PROVE  /\ w = req[s].runner =>
              LeasesOf(w)' \subseteq {<<req[s].run, req[s].head.gen + 1>>}
         /\ w # req[s].runner => LeasesOf(w)' \subseteq LeasesOf(w)
         /\ runner[req[s].runner] = "active" /\ runner' = runner
<1> DEFINE q == req[s]
           g == q.head.gen + 1
<1>1. LeasesOf(q.runner) \subseteq EndedByClaim(q) /\ runner[q.runner] = "active" /\ runner' = runner
  BY DEF ClaimCommit, ClaimCommits, HoldsOnly
<1>2. ASSUME NEW x \in LeasesOf(w)'
      PROVE  \/ w = q.runner /\ x = <<q.run, g>>
             \/ x \in LeasesOf(w) /\ x \notin EndedByClaim(q)
  <2>1. PICK r \in Runs, f \in UNION {Fences(z) : z \in Runs} :
          /\ x = <<r, f>> /\ f \in Fences(r)
          /\ lease'[r][f].status = "active" /\ lease'[r][f].runner = w
    BY DEF LeasesOf, ActiveLease, Fences
  <2>2. QED
    BY <2>1, ClaimEffect DEF LeasesOf, ActiveLease
<1>3. QED
  BY <1>1, <1>2

LEMMA RevokeHolds ==
  ASSUME LInv, NEW s \in Slots, RevokeCommit(s), NEW w \in Runners, w = req[s].runner
  PROVE  LeasesOf(w)' = {}
<1> DEFINE q == req[s]
           r == q.head.other
           f == q.head.otherFence
<1>1. LeasesOf(w)' \subseteq LeasesOf(w)
  <2>1. ~ \E z \in Slots : ClaimCommit(z)
    <3>1. runner' # runner
      BY DEF RevokeCommit, RevokeCommits, LInv, TInv, TypeOK, TablesTyped, RequestsNameRows,
             NamesRows
    <3>2. QED
      BY <3>1 DEF ClaimCommit
  <2>2. [Next]_vars
    BY DEF Next, SlotStep
  <2>3. QED
    BY <2>1, <2>2, OnlyClaimsGrant, FadingHolds
<1>2. CASE ~RevokesLease(q)
  BY <1>1, <1>2 DEF RevokeCommit, RevokeCommits, RevokedFree
<1>3. CASE RevokesLease(q)
  <2>1. LeasesOf(w) \subseteq {<<r, f>>}
    BY <1>3 DEF RevokeCommit, RevokeCommits, RevokedFree
  <2>2. r \in Runs /\ f \in Fences(r) /\ lease' = [lease EXCEPT ![r][f].status = "revoked"]
    BY <1>3 DEF RevokeCommit, RevokesLease, ActiveLease, LInv, TInv, TypeOK, Request, HeadRow
  <2>3. lease'[r][f].status = "revoked"
    BY <2>2, StatusFades DEF Ended
  <2>4. <<r, f>> \notin LeasesOf(w)'
    BY <2>3 DEF LeasesOf, ActiveLease
  <2>5. QED
    BY <1>1, <2>1, <2>4
<1>4. QED
  BY <1>2, <1>3

\* only a revocation changes the status of a runner
LEMMA OnlyRevocationsRevoke ==
  ASSUME [Next]_vars
  PROVE  \/ runner' = runner
         \/ \E s \in Slots : /\ RevokeCommit(s)
                              /\ runner' = [runner EXCEPT ![req[s].runner] = "revoked"]
<1>1. CASE \E s \in Slots : RevokeCommit(s)
  BY <1>1 DEF RevokeCommit
<1>2. CASE \E s \in Slots :
             \/ ClaimCommit(s) \/ RenewCommit(s) \/ RenewUnlogged(s)
             \/ CompleteCommit(s) \/ CreateCommit(s) \/ CancelCommit(s)
             \/ CancelExpiredCommit(s) \/ CancelExpiredMiss(s) \/ ExpireCommit(s)
  BY <1>2 DEF ClaimCommit, RenewCommit, RenewUnlogged, CompleteCommit, CreateCommit,
              CancelCommit, CancelExpiredCommit, CancelExpiredMiss, ExpireCommit
<1>3. QED
  BY <1>1, <1>2, QuietSteps

LEMMA StepHolds ==
  ASSUME HInv, [Next]_vars PROVE RunnerHoldsOne' /\ RevokedHoldNothing'
<1> USE DEF HInv
<1>1. CASE \E s \in Slots : ClaimCommit(s)
  <2>1. PICK s \in Slots : ClaimCommit(s)
    BY <1>1
  <2>2. QED
    BY <2>1, ClaimHolds DEF RunnerHoldsOne, RevokedHoldNothing
<1>2. CASE ~ \E s \in Slots : ClaimCommit(s)
  <2>1. \A w : LeasesOf(w)' \subseteq LeasesOf(w)
    BY <1>2, OnlyClaimsGrant, FadingHolds
  <2>2. RunnerHoldsOne'
    BY <2>1 DEF RunnerHoldsOne
  <2>3. RevokedHoldNothing'
    <3>1. CASE runner' = runner
      BY <2>1, <3>1 DEF RevokedHoldNothing
    <3>2. CASE \E s \in Slots : /\ RevokeCommit(s)
                                 /\ runner' = [runner EXCEPT ![req[s].runner] = "revoked"]
      <4>1. PICK s \in Slots : /\ RevokeCommit(s)
                               /\ runner' = [runner EXCEPT ![req[s].runner] = "revoked"]
        BY <3>2
      <4>2. \A w \in Runners : w # req[s].runner => runner'[w] = runner[w]
        BY <4>1 DEF LInv, TInv, TypeOK, TablesTyped
      <4>3. ASSUME NEW w \in Runners, runner'[w] = "revoked" PROVE LeasesOf(w)' = {}
        BY <2>1, <4>1, <4>2, <4>3, RevokeHolds DEF RevokedHoldNothing
      <4>4. QED
        BY <4>3 DEF RevokedHoldNothing
    <3>3. QED
      BY <3>1, <3>2, OnlyRevocationsRevoke
  <2>4. QED
    BY <2>2, <2>3
<1>3. QED
  BY <1>1, <1>2

LEMMA RunnersHoldInit == ASSUME Init PROVE HInv
<1>1. ASSUME NEW w PROVE LeasesOf(w) = {}
  BY DEF Init, LeasesOf, ActiveLease, NoLease
<1>2. QED
  BY <1>1, InitTyped, InitAgrees DEF HInv, LInv, RunnerHoldsOne, RevokedHoldNothing

(* What the two properties need beside the invariants of the tables, as one
   inductive invariant: the claim's batch and the revocation's see each other's
   rows whichever commits first. *)
THEOREM HoldingInvariant == Spec => []HInv
<1>1. Init => HInv
  BY RunnersHoldInit
<1>2. HInv /\ [Next]_vars => HInv'
  BY StepTyped, StepAgrees, StepHolds DEF HInv, LInv
<1>3. QED
  BY <1>1, <1>2, PTL DEF Spec

(* A runner holds at most one active lease over all runs, whatever claims race for
   it: the batch of a claim ends every other lease of its runner. Once it is revoked
   it holds none, also when a claim had read it as active and commits afterwards. *)
THEOREM RunnersHoldSoundly == Spec => []HoldingSound
<1>1. HInv => HoldingSound
  BY DEF HInv, HoldingSound
<1>2. QED
  BY <1>1, HoldingInvariant, PTL

-----------------------------------------------------------------------------
(* Closed runs stay closed *)

\* what ClosedStays says of one run
Settled(r) ==
  /\ run[r].status \in Terminal =>
       run'[r] = run[r] /\ lease'[r] = lease[r] /\ events'[r] = events[r]
  /\ \A f \in Fences(r) : lease[r][f].status \in Ended => lease'[r][f] = lease[r][f]

\* the step changes rows of run x alone, which is open, and of its leases none that ended
OpensOnly(x) ==
  /\ run[x].status \notin Terminal
  /\ \A r \in Runs \ {x} : run'[r] = run[r] /\ lease'[r] = lease[r] /\ events'[r] = events[r]
  /\ \A f \in Fences(x) : lease[x][f].status \in Ended => lease'[x][f] = lease[x][f]

LEMMA OpenSettles ==
  ASSUME NEW x \in Runs, OpensOnly(x), NEW r \in Runs PROVE Settled(r)
  BY DEF OpensOnly, Settled

LEMMA SameSettles ==
  ASSUME run' = run, lease' = lease, events' = events, NEW r \in Runs PROVE Settled(r)
  BY DEF Settled

\* the shape of every batch about one run x that ends its active lease f
LEMMA EndingOpens ==
  ASSUME LInv, NEW x \in Runs, NEW f, ActiveLease(x, f), NEW st,
         NEW row, run' = [run EXCEPT ![x] = row],
         lease' = [lease EXCEPT ![x][f].status = st],
         events' = events \/ \E more : events' = [events EXCEPT ![x] = more]
  PROVE  OpensOnly(x)
<1>1. run[x].status = "leased" /\ f \in Fences(x) /\ lease[x][f].status = "active"
  BY ActiveIsCurrent DEF ActiveLease
<1>2. DOMAIN run = Runs /\ DOMAIN lease = Runs /\ DOMAIN events = Runs
  BY RowsTyped DEF LInv, TInv, TypeOK, TablesTyped
<1>3. \A r \in Runs \ {x} : run'[r] = run[r] /\ lease'[r] = lease[r] /\ events'[r] = events[r]
  BY <1>2
<1>4. \A g \in Fences(x) : g # f => lease'[x][g] = lease[x][g]
  BY <1>2, RowsTyped DEF LInv
<1>5. QED
  BY <1>1, <1>3, <1>4 DEF OpensOnly, Terminal, Ended

\* the shape of every batch that changes one open run and no lease
LEMMA MarkingOpens ==
  ASSUME LInv, NEW x \in Runs, run[x].status \notin Terminal,
         NEW row, run' = [run EXCEPT ![x] = row], lease' = lease,
         NEW more, events' = [events EXCEPT ![x] = more]
  PROVE  OpensOnly(x)
<1>1. DOMAIN run = Runs /\ DOMAIN events = Runs
  BY RowsTyped DEF LInv, TInv, TypeOK, TablesTyped
<1>2. QED
  BY <1>1 DEF OpensOnly

LEMMA ClaimSettles ==
  ASSUME LInv, NEW s \in Slots, ClaimCommit(s), NEW r \in Runs PROVE Settled(r)
<1> DEFINE q == req[s]
           g == q.head.gen + 1
<1>1. ClaimCommits(q) /\ q.run \in Runs
  BY DEF ClaimCommit, LInv, TInv, RequestsNameRows, NamesRows
<1>2. run' = RunsAfterClaim(q) /\ lease' = LeasesAfterClaim(q) /\ events' = EventsAfterClaim(q)
  BY DEF ClaimCommit
<1>3. \A f : <<r, f>> \in EndedByClaim(q) => ActiveLease(r, f)
  BY DEF EndedByClaim, ClaimsForeign, ClaimsOwn, Supersedes
<1>4. /\ run[r] \in RunRow /\ lease[r] \in [Fences(r) -> LeaseRow] /\ Agree(r, run[r], lease[r])
  BY RowsTyped DEF LInv, LeaseAgreement
<1>5. r = q.run => /\ run[r].status \notin Terminal /\ run[r].gen = q.head.gen
                  /\ \A f \in Fences(r) : f = g => lease[r][f].status = "none"
  <2>1. CASE r = q.run /\ ClaimsOwn(q)
    <3>1. ActiveLease(r, q.head.gen)
      BY <2>1 DEF ClaimsOwn, Supersedes
    <3>2. run[r].status = "leased" /\ run[r].gen = q.head.gen
      BY <3>1, ActiveIsCurrent
    <3>3. QED
      BY <1>4, <3>2 DEF Terminal, Agree, RunRow, Fences
  <2>2. CASE r = q.run /\ ~ClaimsOwn(q)
    <3>1. run[r].status = "queued" /\ run[r].gen = q.head.gen
      BY <1>1, <2>2 DEF ClaimCommits, RunBeforeClaim
    <3>2. QED
      BY <1>4, <3>1 DEF Terminal, Agree, RunRow, Fences
  <2>3. QED
    BY <2>1, <2>2
<1>6. ASSUME r # q.run, run[r].status # "leased"
      PROVE  run'[r] = run[r] /\ lease'[r] = lease[r] /\ events'[r] = events[r]
  <2>1. ~(ClaimsForeign(q) /\ r = q.head.other)
    BY <1>6, ActiveIsCurrent DEF ClaimsForeign, Supersedes
  <2>2. \A f : <<r, f>> \notin EndedByClaim(q)
    BY <1>3, <1>6, ActiveIsCurrent
  <2>3. run'[r] = run[r] /\ events'[r] = events[r]
    BY <1>2, <1>6, <2>1 DEF RunsAfterClaim, EventsAfterClaim
  <2>4. lease'[r] = lease[r]
    BY <1>2, <1>4, <1>6, <2>2 DEF LeasesAfterClaim
  <2>5. QED
    BY <2>3, <2>4
<1>7. ASSUME NEW f \in Fences(r), lease[r][f].status \in Ended PROVE lease'[r][f] = lease[r][f]
  <2>1. <<r, f>> \notin EndedByClaim(q)
    BY <1>3, <1>7 DEF ActiveLease, Ended
  <2>2. ~(r = q.run /\ f = g)
    BY <1>5, <1>7 DEF Ended
  <2>3. QED
    BY <1>2, <2>1, <2>2 DEF LeasesAfterClaim
<1>8. QED
  BY <1>5, <1>6, <1>7 DEF Settled, Terminal

LEMMA StepSettles ==
  ASSUME LInv, [Next]_vars, NEW r \in Runs PROVE Settled(r)
<1>1. ASSUME NEW s \in Slots, RenewCommit(s) \/ RenewUnlogged(s) PROVE Settled(r)
  <2> DEFINE q == req[s]
             x == q.run
             new == Renewed(lease[x][q.fence], LeaseUntil(x, q.at))
  <2>1. x \in Runs /\ q.fence \in Fences(x)
    BY <1>1 DEF LInv, TInv, RequestsNameRows, NamesRows, RenewCommit, RenewUnlogged
  <2>2. CASE ~RenewalMatches(q)
    <3>1. run' = run /\ lease' = lease /\ events' = events
      BY <1>1, <2>2 DEF RenewCommit, RenewUnlogged
    <3>2. QED
      BY <3>1, SameSettles
  <2>3. CASE RenewalMatches(q)
    <3>1. ActiveLease(x, q.fence) /\ run[x].status = "leased" /\ lease[x][q.fence].status = "active"
      BY <2>1, <2>3, ActiveIsCurrent DEF RenewalMatches, ActiveLease
    <3>2. /\ run' = run /\ lease' = RenewedLease(q)
          /\ events' = events \/ Log(x, <<Event("lease.renewed", q.fence)>>)
      BY <1>1, <2>3 DEF RenewCommit, RenewUnlogged
    <3>3. lease' = [lease EXCEPT ![x][q.fence] = new]
      BY <2>1, <3>2, RowsTyped DEF RenewedLease, LInv
    <3>4. DOMAIN lease = Runs /\ DOMAIN events = Runs
      BY RowsTyped DEF LInv, TInv, TypeOK, TablesTyped
    <3> HIDE DEF new, q
    <3>5. OpensOnly(x)
      BY <2>1, <3>1, <3>2, <3>3, <3>4, RowsTyped DEF OpensOnly, Terminal, Log, LInv, Ended
    <3>6. QED
      BY <2>1, <3>5, OpenSettles
  <2>4. QED
    BY <2>2, <2>3
<1>2. ASSUME NEW s \in Slots, CompleteCommit(s) PROVE Settled(r)
  <2> DEFINE q == req[s]
             x == q.run
  <2>1. x \in Runs /\ ActiveLease(x, q.fence)
    BY <1>2 DEF LInv, TInv, RequestsNameRows, NamesRows, CompleteCommit, CompletionCommits, Held
  <2>2. /\ run' = [run EXCEPT ![x] = Detach(Completed(@, q), q.fence)]
        /\ lease' = [lease EXCEPT ![x][q.fence].status = "released"]
        /\ \E more : events' = [events EXCEPT ![x] = more]
    BY <1>2 DEF CompleteCommit, Log
  <2>3. OpensOnly(x)
    BY <2>1, <2>2, EndingOpens
  <2>4. QED
    BY <2>1, <2>3, OpenSettles
<1>3. ASSUME NEW s \in Slots, RevokeCommit(s) PROVE Settled(r)
  <2> DEFINE q == req[s]
             x == q.head.other
             f == q.head.otherFence
  <2>1. CASE ~RevokesLease(q)
    <3>1. run' = run /\ lease' = lease /\ events' = events
      BY <1>3, <2>1 DEF RevokeCommit
    <3>2. QED
      BY <3>1, SameSettles
  <2>2. CASE RevokesLease(q)
    <3>1. x \in Runs /\ ActiveLease(x, f)
      BY <2>2 DEF RevokesLease, LInv, TInv, TypeOK, Request, HeadRow
    <3>2. /\ run' = [run EXCEPT ![x] = Detach(@, f)]
          /\ lease' = [lease EXCEPT ![x][f].status = "revoked"]
          /\ \E more : events' = [events EXCEPT ![x] = more]
      BY <1>3, <2>2 DEF RevokeCommit, Log
    <3>3. OpensOnly(x)
      BY <3>1, <3>2, EndingOpens
    <3>4. QED
      BY <3>1, <3>3, OpenSettles
  <2>3. QED
    BY <2>1, <2>2
<1>4. ASSUME NEW s \in Slots, CreateCommit(s) \/ CancelCommit(s) PROVE Settled(r)
  <2> DEFINE x == req[s].run
  <2>1. x \in Runs /\ run[x].status \notin Terminal
    BY <1>4 DEF LInv, TInv, RequestsNameRows, NamesRows, CreateCommit, CreateCommits, CancelCommit,
                Terminal
  <2>2. /\ \E row : run' = [run EXCEPT ![x] = row]
        /\ lease' = lease
        /\ \E more : events' = [events EXCEPT ![x] = more]
    BY <1>4 DEF CreateCommit, CancelCommit, Log
  <2>3. OpensOnly(x)
    BY <2>1, <2>2, MarkingOpens
  <2>4. QED
    BY <2>1, <2>3, OpenSettles
<1>5. ASSUME NEW s \in Slots, ExpireCommit(s) PROVE Settled(r)
  <2> DEFINE q == req[s]
             x == q.run
             f == q.head.gen
  <2>1. x \in Runs /\ ExpiryCommits(q)
    BY <1>5, IdsAssumption DEF LInv, TInv, RequestsNameRows, NamesRows, ExpireCommit
  <2>2. /\ \E row : run' = [run EXCEPT ![x] = row]
        /\ \E more : events' = [events EXCEPT ![x] = more]
        /\ lease' = IF q.head.status = "leased" THEN [lease EXCEPT ![x][f].status = "revoked"] ELSE lease
    BY <1>5 DEF ExpireCommit, Log
  <2>3. CASE q.head.status = "leased"
    <3>1. ActiveLease(x, f)
      BY <2>1, <2>3 DEF ExpiryCommits
    <3>2. OpensOnly(x)
      BY <2>1, <2>2, <2>3, <3>1, EndingOpens
    <3>3. QED
      BY <2>1, <3>2, OpenSettles
  <2>4. CASE q.head.status # "leased"
    <3>1. run[x].status \notin Terminal
      BY <2>1, <2>4 DEF ExpiryCommits, Terminal
    <3>2. OpensOnly(x)
      BY <2>1, <2>2, <2>4, <3>1, MarkingOpens
    <3>3. QED
      BY <2>1, <3>2, OpenSettles
  <2>5. QED
    BY <2>3, <2>4
<1>6. ASSUME NEW s \in Slots, CancelExpiredCommit(s) \/ CancelExpiredMiss(s) PROVE Settled(r)
  <2> DEFINE q == req[s]
             x == q.run
             f == q.head.gen
  <2>1. x \in Runs
    BY <1>6 DEF LInv, TInv, RequestsNameRows, NamesRows, CancelExpiredCommit, CancelExpiredMiss
  <2>2. PICK t :
          /\ lease' = LeaseAfterRelease(q, t)
          /\ \/ /\ run' = [run EXCEPT ![x] = RunAfterRelease(q, t)] /\ events' = events
             \/ /\ run' = [run EXCEPT ![x] = Canceled(RunAfterRelease(q, t), "canceled")]
                /\ CancelHits(q, t) /\ \E more : events' = [events EXCEPT ![x] = more]
    BY <1>6 DEF CancelExpiredCommit, CancelExpiredMiss, Log
  <2>3. CASE CancelReleases(q, t)
    <3>1. ActiveLease(x, f) /\ lease' = [lease EXCEPT ![x][f].status = "released"]
      BY <2>2, <2>3 DEF CancelReleases, LeaseAfterRelease
    <3>2. /\ \E row : run' = [run EXCEPT ![x] = row]
          /\ events' = events \/ \E more : events' = [events EXCEPT ![x] = more]
      BY <2>2
    <3>3. OpensOnly(x)
      BY <2>1, <3>1, <3>2, EndingOpens
    <3>4. QED
      BY <2>1, <3>3, OpenSettles
  <2>4. CASE ~CancelReleases(q, t)
    <3>1. lease' = lease /\ RunAfterRelease(q, t) = run[x]
      BY <2>2, <2>4 DEF LeaseAfterRelease, RunAfterRelease
    <3>2. CASE run' = [run EXCEPT ![x] = RunAfterRelease(q, t)] /\ events' = events
      <4>1. run' = run
        BY <2>1, <3>1, <3>2, RowsTyped DEF LInv
      <4>2. QED
        BY <3>1, <3>2, <4>1, SameSettles
    <3>3. CASE /\ run' = [run EXCEPT ![x] = Canceled(RunAfterRelease(q, t), "canceled")]
               /\ CancelHits(q, t) /\ \E more : events' = [events EXCEPT ![x] = more]
      <4>1. run[x].status \notin Terminal
        BY <3>1, <3>3 DEF CancelHits, Terminal
      <4>2. OpensOnly(x)
        BY <2>1, <3>1, <3>3, <4>1, MarkingOpens
      <4>3. QED
        BY <2>1, <4>2, OpenSettles
    <3>4. QED
      BY <2>2, <3>2, <3>3
  <2>5. QED
    BY <2>3, <2>4
<1>7. QED
  BY <1>1, <1>2, <1>3, <1>4, <1>5, <1>6, ClaimSettles, QuietSteps, SameSettles

(* A completed, canceled or expired run is never written again, whatever requests
   about it were admitted before it closed; and no lease that ended is revived. *)
THEOREM ClosedRunsStay == Spec => ClosedStays
<1>1. LInv /\ [Next]_vars =>
        [\A r \in Runs :
           /\ run[r].status \in Terminal =>
                run'[r] = run[r] /\ lease'[r] = lease[r] /\ events'[r] = events[r]
           /\ \A f \in Fences(r) :
                lease[r][f].status \in {"superseded", "released", "revoked"} =>
                  lease'[r][f] = lease[r][f]]_vars
  BY StepSettles DEF Settled, Ended
<1>2. Init => LInv
  BY InitTyped, InitAgrees DEF LInv
<1>3. LInv /\ [Next]_vars => LInv'
  BY StepTyped, StepAgrees DEF LInv
<1>4. QED
  BY <1>1, <1>2, <1>3, PTL DEF Spec, ClosedStays
=============================================================================
