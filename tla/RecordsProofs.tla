-------------------------- MODULE RecordsProofs ---------------------------
(***************************************************************************)
(* What Governance and Registry keep for every set of requests, intents,   *)
(* versions and rows.                                                      *)
(***************************************************************************)
EXTENDS Governance, Registry, SequenceTheorems, FiniteSetTheorems, WellFoundedInduction, TLAPS

(* Governance. The invariant says what a request read that the others      *)
(* cannot undo (RequestSound: an intent keeps what was proposed, what is   *)
(* written stays written), that two proposals or publications have ids of  *)
(* their own, and what an intent of a status has. A step is then one of six*)
(* effects on the records (GovernanceSteps), and the counts of the ledger  *)
(* follow from the effects.                                                *)

(* What a request read stays true until its batch: an intent keeps what was *)
(* proposed, a version that is written stays written.                       *)
Deciding == {"approve", "execute", "fail", "expire"}
RowKept(row, i) ==
  /\ intents[i].status # "none" /\ intents[i].action = row.action /\ intents[i].proposer = row.proposer
  /\ intents[i].apart = row.apart /\ intents[i].refs = row.refs
RequestSound(q) ==
  /\ q.kind \notin {"none", "publish"} => q.intent \in Intents /\ q.actor \in People
  /\ q.kind \in {"publish", "link", "unlink"} => q.version \in Versions
  /\ q.kind = "publish" => q.to \subseteq Versions /\ q.version \notin Written
  /\ q.kind = "propose" =>
       /\ q.to \subseteq People /\ q.row.status = "proposed" /\ q.row.refs \subseteq Written
       /\ intents[q.intent].status = "none"
  /\ q.kind \in Deciding => RowKept(q.row, q.intent)
  /\ q.kind \in {"approve", "expire"} => q.row.status \in OpenStatus
  /\ q.kind = "approve" => (q.actor = q.row.proposer => ~q.row.apart)
RequestsSound == \A r \in Requests : RequestSound(request[r])

(* The id of a proposal, and of a version, is that of one request.          *)
RequestsApart ==
  \A r, s \in Requests : r # s =>
    /\ request[r].kind = "propose" => request[s].intent # request[r].intent
    /\ request[r].kind = "publish" /\ request[s].kind = "publish" => request[s].version # request[r].version

IntentsSound ==
  /\ \A i \in Intents : intents[i].refs \subseteq Written
  /\ \A i \in Intents : intents[i].status \in {"approved", "succeeded"} => ApprovalsOf(i) # {}
  /\ \A a \in approvals :
       /\ intents[a.intent].status # "none"
       /\ a.actor = intents[a.intent].proposer => ~intents[a.intent].apart

PayloadsSound == erased \subseteq Written /\ \A v \in Written : payload[v] \in Written

GovernanceTyped == GovernanceTypeOK /\ IsFiniteSet(approvals) /\ IsFiniteSet(Written)
GovernanceInv ==
  /\ GovernanceTyped /\ RequestsSound /\ RequestsApart /\ IntentsSound /\ PayloadsSound
  /\ LedgerTellsAll /\ ErasedAsApproved

-----------------------------------------------------------------------------

LEMMA GovernanceBounds ==
  /\ IntentTtl \in Nat /\ LastMs \in Nat /\ MaxLedger \in Nat /\ MaxJoins \in Nat
  /\ Nothing \notin Intents /\ Nothing \notin People /\ Nothing \notin Versions /\ Nothing \notin Requests
  BY GovernanceAssumption

LEMMA UnusedTyped ==
  NoIntent \in IntentRows /\ Unused \in RequestStates /\ RequestSound(Unused) /\ Unused.kind = "none"
  /\ Unused.intent = Nothing
<1>1. NoIntent \in IntentRows
  BY GovernanceBounds DEF NoIntent, IntentRows, Actions, Statuses
<1>2. QED
  BY <1>1, GovernanceBounds DEF Unused, RequestStates, RequestKinds, RequestSound, Deciding

LEMMA ProposalTyped ==
  ASSUME GovernanceTypeOK, NEW p \in People
  PROVE  /\ SimulationBy(p) \in IntentRows /\ SimulationBy(p).status = "proposed" /\ SimulationBy(p).refs = {}
         /\ ErasureBy(p) \in IntentRows /\ ErasureBy(p).status = "proposed" /\ ErasureBy(p).refs = Written
<1>1. ms \in 0..LastMs /\ ms \in 0..LastMs + 1
  BY GovernanceBounds DEF GovernanceTypeOK
<1>2. SimulationBy(p) \in IntentRows /\ SimulationBy(p).status = "proposed" /\ SimulationBy(p).refs = {}
  BY <1>1, UnusedTyped DEF SimulationBy, IntentRows, Statuses, NoIntent
<1>3. Written \subseteq Versions
  BY DEF Written
<1> DEFINE several == Cardinality(owners) >= 2
<1>4. several \in BOOLEAN
  OBVIOUS
<1>5. ErasureBy(p) = [SimulationBy(p) EXCEPT !.action = "erase", !.refs = Written, !.apart = several]
  BY DEF ErasureBy
<1> HIDE DEF several
<1>6. QED
  BY <1>2, <1>3, <1>4, <1>5 DEF IntentRows, Actions

LEMMA LedgerLength == ASSUME GovernanceTypeOK PROVE Len(ledger) \in Nat /\ DOMAIN ledger = 1..Len(ledger)
  BY LenProperties DEF GovernanceTypeOK

LEMMA NoEntries ==
  ASSUME NEW kind, NEW i, DOMAIN ledger = {} PROVE EntriesOf(kind, i) = 0
<1>1. {n \in DOMAIN ledger : ledger[n] = Entry(kind, i)} = {}
  OBVIOUS
<1>2. QED
  BY <1>1, FS_EmptySet DEF EntriesOf

LEMMA GovernanceStarts == GovernanceInit => GovernanceInv
<1> SUFFICES ASSUME GovernanceInit PROVE GovernanceInv
  OBVIOUS
<1>1. /\ \A r \in Requests : request[r] = Unused
      /\ \A i \in Intents : intents[i] = NoIntent
      /\ \A v \in Versions : payload[v] = Nothing
      /\ ledger = <<>> /\ approvals = {} /\ erased = {} /\ basis = {} /\ ms = 0 /\ joins = 0
      /\ owners \subseteq People
  BY DEF GovernanceInit
<1>2. Written = {} /\ IsFiniteSet(Written) /\ IsFiniteSet(approvals) /\ DOMAIN ledger = {}
  BY <1>1, FS_EmptySet DEF Written
<1>3. GovernanceTyped
  <2>1. ledger \in Seq(Entries) /\ Len(ledger) <= MaxLedger
    BY <1>1, EmptySeq, GovernanceBounds
  <2>2. /\ intents \in [Intents -> IntentRows] /\ request \in [Requests -> RequestStates]
        /\ payload \in [Versions -> Versions \cup {Nothing}]
        /\ items \in [Intents -> [People -> Waiting \cup {"none", "decided", "expired", "superseded"}]]
    BY UnusedTyped DEF GovernanceInit
  <2>3. QED
    BY <1>1, <1>2, <2>1, <2>2, GovernanceBounds DEF GovernanceTyped, GovernanceTypeOK
<1>4. RequestsSound /\ RequestsApart
  BY <1>1, UnusedTyped DEF RequestsSound, RequestsApart
<1>5. IntentsSound /\ PayloadsSound /\ ErasedAsApproved
  BY <1>1, <1>2 DEF IntentsSound, PayloadsSound, ErasedAsApproved, NoIntent
<1>6. LedgerTellsAll
  <2>1. ASSUME NEW i \in Intents PROVE ApprovalsOf(i) = {} /\ Cardinality({}) = 0 /\ intents[i].status = "none"
    BY <1>1, FS_EmptySet DEF ApprovalsOf, NoIntent
  <2>2. QED
    BY <1>2, <2>1, NoEntries DEF LedgerTellsAll, Is, Statuses
<1>7. QED
  BY <1>3, <1>4, <1>5, <1>6 DEF GovernanceInv

-----------------------------------------------------------------------------
(* What a step does to the records *)

GovernanceRows == <<intents, approvals, payload, erased>>

EntersOther ==
  \/ UNCHANGED ledger
  \/ \E entry \in Entries : /\ entry.kind \in {"linked", "unlinked", "other"} /\ ledger' = Append(ledger, entry)
                            /\ Len(ledger) < MaxLedger

Proposes(r) ==
  LET q == request[r] IN
  /\ q.kind = "propose" /\ Answer(r) /\ Len(ledger) + 2 <= MaxLedger
  /\ intents' = [intents EXCEPT ![q.intent] = q.row]
  /\ ledger' = Append(ledger, Entry("proposed", q.intent)) /\ UNCHANGED <<approvals, payload, erased>>

Approves(r) ==
  LET q == request[r] IN
  /\ q.kind = "approve" /\ intents[q.intent].status \in OpenStatus /\ Len(ledger) + 2 <= MaxLedger
  /\ \A a \in ApprovalsOf(q.intent) : a.actor # q.actor
  /\ approvals' = approvals \cup {[intent |-> q.intent, actor |-> q.actor, at |-> q.at]}
  /\ intents' = [intents EXCEPT ![q.intent].status = "approved", ![q.intent].updated = q.at]
  /\ ledger' = Append(ledger, Entry("approved", q.intent)) /\ UNCHANGED <<payload, erased>>

ExecutesNow(r) ==
  LET q == request[r] IN
  /\ q.kind = "execute" /\ intents[q.intent].status = "approved" /\ Len(ledger) + 2 <= MaxLedger
  /\ q.row.action = "erase" => Counted(q.row.refs)
  /\ intents' = [intents EXCEPT ![q.intent].status = "succeeded", ![q.intent].updated = q.at + 1, ![q.intent].fence = r]
  /\ erased' = IF q.row.action = "erase" THEN erased \cup LivePayloads ELSE erased
  /\ ledger' = ledger \o <<Entry("started", q.intent), Entry("succeeded", q.intent)>>
  /\ UNCHANGED <<approvals, payload>>

Closes(r, outcome) ==
  LET q == request[r] IN
  /\ q.kind \in {"fail", "expire"} /\ intents[q.intent].status \in OpenStatus /\ Len(ledger) + 2 <= MaxLedger
  /\ intents' = [intents EXCEPT ![q.intent].status = outcome, ![q.intent].updated = q.at]
  /\ ledger' = Append(ledger, Entry(outcome, q.intent)) /\ UNCHANGED <<approvals, payload, erased>>

Publishes(r) ==
  LET v == request[r].version IN
  /\ request[r].kind = "publish" /\ Answer(r)
  /\ \E ref \in request[r].to : AcceptsPayload(v, ref) /\ payload' = [payload EXCEPT ![v] = ref]
  /\ UNCHANGED <<intents, approvals, erased, ledger>>

\* an intent whose row has no outcome has no entry for it
LEMMA NotLoggedYet ==
  ASSUME GovernanceInv, NEW i \in Intents, NEW outcome \in {"failed", "expired"}, intents[i].status # outcome
  PROVE  ~Logged(outcome, i)
<1>1. EntriesOf(outcome, i) = 0
  BY DEF GovernanceInv, LedgerTellsAll, Is
<1> DEFINE N == {n \in DOMAIN ledger : ledger[n] = Entry(outcome, i)}
<1>2. IsFiniteSet(N)
  <2>1. Len(ledger) \in Nat /\ DOMAIN ledger = 1..Len(ledger)
    BY LedgerLength DEF GovernanceInv, GovernanceTyped
  <2>2. IsFiniteSet(1..Len(ledger)) /\ N \subseteq 1..Len(ledger)
    BY <2>1, FS_Interval
  <2>3. QED
    BY <2>2, FS_Subset
<1>3. N = {}
  BY <1>1, <1>2, FS_EmptySet DEF EntriesOf
<1>4. QED
  BY <1>3 DEF Logged

LEMMA GovernanceSteps ==
  ASSUME GovernanceInv, [GovernanceNext]_gvars
  PROVE  \/ UNCHANGED GovernanceRows /\ EntersOther
         \/ \E r \in Requests : \/ Proposes(r) \/ Approves(r) \/ ExecutesNow(r) \/ Publishes(r)
                                \/ Closes(r, "failed") \/ Closes(r, "expired")
<1> USE DEF GovernanceRows
<1>1. CASE UNCHANGED gvars
  BY <1>1 DEF gvars, EntersOther
<1>2. ASSUME NEW r \in Requests, CommitPropose(r), Len(ledger) + 2 <= MaxLedger
      PROVE  (UNCHANGED GovernanceRows /\ EntersOther) \/ Proposes(r)
  BY <1>2 DEF CommitPropose, EntersOther, Proposes, Ready
<1>3. ASSUME NEW r \in Requests, CommitApprove(r), Len(ledger) + 2 <= MaxLedger
      PROVE  (UNCHANGED GovernanceRows /\ EntersOther) \/ Approves(r)
  <2>1. request[r].kind = "approve" => request[r].row.status \in OpenStatus
    BY DEF GovernanceInv, RequestsSound, RequestSound
  <2>2. QED
    BY <1>3, <2>1 DEF CommitApprove, EntersOther, Approves, Ready, InsertsApproval, AsLoaded
<1>4. ASSUME NEW r \in Requests, CommitExecute(r), Len(ledger) + 2 <= MaxLedger
      PROVE  (UNCHANGED GovernanceRows /\ EntersOther) \/ ExecutesNow(r)
  BY <1>4 DEF CommitExecute, EntersOther, ExecutesNow, Ready, Executes
<1>5. ASSUME NEW r \in Requests, CommitFail(r), Len(ledger) + 2 <= MaxLedger
      PROVE  (UNCHANGED GovernanceRows /\ EntersOther) \/ Closes(r, "failed")
  <2> DEFINE q == request[r]
  <2>1. q.kind = "fail" /\ q.intent \in Intents
    BY <1>5 DEF CommitFail, Ready, GovernanceInv, RequestsSound, RequestSound
  <2>2. CASE intents[q.intent].status = "approved"
    <3>1. ~Logged("failed", q.intent)
      BY <2>1, <2>2, NotLoggedYet
    <3>2. QED
      BY <1>5, <2>1, <2>2, <3>1 DEF CommitFail, Enters, EntersOther, Closes, OpenStatus
  <2>3. CASE intents[q.intent].status # "approved"
    BY <1>5, <2>3 DEF CommitFail, Enters, EntersOther
  <2>4. QED
    BY <2>2, <2>3
<1>6. ASSUME NEW r \in Requests, CommitExpire(r), Len(ledger) + 2 <= MaxLedger
      PROVE  (UNCHANGED GovernanceRows /\ EntersOther) \/ Closes(r, "expired")
  <2> DEFINE q == request[r]
  <2>1. q.kind = "expire" /\ q.intent \in Intents /\ q.row.status \in OpenStatus
    BY <1>6 DEF CommitExpire, Ready, GovernanceInv, RequestsSound, RequestSound
  <2>2. CASE AsLoaded(q)
    <3>1. intents[q.intent].status \in OpenStatus
      BY <2>1, <2>2 DEF AsLoaded
    <3>2. ~Logged("expired", q.intent)
      BY <2>1, <3>1, NotLoggedYet DEF OpenStatus
    <3>3. QED
      BY <1>6, <2>1, <2>2, <3>1, <3>2 DEF CommitExpire, Enters, EntersOther, Closes
  <2>3. CASE ~AsLoaded(q)
    BY <1>6, <2>3 DEF CommitExpire, Enters, EntersOther
  <2>4. QED
    BY <2>2, <2>3
<1>7. ASSUME NEW r \in Requests, CommitLink(r), Len(ledger) + 2 <= MaxLedger PROVE UNCHANGED GovernanceRows /\ EntersOther
  <2> DEFINE kind == IF request[r].kind = "link" THEN "linked" ELSE "unlinked"
             entry == Entry(kind, request[r].intent)
  <2>1. UNCHANGED GovernanceRows /\ (UNCHANGED ledger \/ ledger' = Append(ledger, entry))
    BY <1>7 DEF CommitLink
  <2>2. entry \in Entries /\ entry.kind \in {"linked", "unlinked", "other"}
    <3>1. request[r].intent \in Intents
      BY <1>7 DEF CommitLink, Ready, GovernanceInv, RequestsSound, RequestSound
    <3>2. kind \in {"linked", "unlinked"}
      OBVIOUS
    <3> HIDE DEF kind
    <3>3. QED
      BY <3>1, <3>2 DEF Entry, Entries
  <2>3. Len(ledger) < MaxLedger
    <3>1. Len(ledger) \in Nat
      BY LedgerLength DEF GovernanceInv, GovernanceTyped
    <3>2. QED
      BY <1>7, <3>1, GovernanceBounds
  <2> HIDE DEF entry
  <2>4. QED
    BY <2>1, <2>2, <2>3 DEF EntersOther
<1>8. ASSUME NEW r \in Requests, CommitPublish(r) PROVE (UNCHANGED GovernanceRows /\ EntersOther) \/ Publishes(r)
  BY <1>8 DEF CommitPublish, EntersOther, Publishes
<1>9. CASE OtherEntry
  <2>1. Entry("other", Nothing) \in Entries /\ Entry("other", Nothing).kind = "other"
    BY DEF Entry, Entries
  <2>2. QED
    BY <1>9, <2>1 DEF OtherEntry, EntersOther
<1>10. ASSUME NEW r \in Requests, ReadHead(r) \/ Lost(r) \/ \E v \in Versions : StagePublish(r, v)
       PROVE  UNCHANGED GovernanceRows /\ EntersOther
  BY <1>10 DEF ReadHead, Lost, StagePublish, EntersOther
<1>11. ASSUME NEW r \in Requests, NEW p \in People, NEW i \in Intents,
              StartDecision(r, p, i) \/ \E v \in Versions : StartLink(r, p, i, v)
       PROVE  UNCHANGED GovernanceRows /\ EntersOther
  BY <1>11 DEF StartDecision, StartApprove, StartExecute, StartExpire, StartPropose, StartLink, EntersOther
<1>12. ASSUME \/ ListAttention \/ PassMs
              \/ \E p \in People : ChangeOwners(p) \/ \E i \in Intents : MarkSeen(p, i)
       PROVE  UNCHANGED GovernanceRows /\ EntersOther
  BY <1>12 DEF ListAttention, PassMs, ChangeOwners, MarkSeen, EntersOther
<1>13. CASE GovernanceNext
  <2>1. CASE \E r \in Requests : CommitRequest(r)
    BY <2>1, <1>2, <1>3, <1>4, <1>5, <1>6, <1>7 DEF CommitRequest
  <2>2. CASE \E r \in Requests : ReadHead(r) \/ CommitPublish(r) \/ Lost(r) \/ \E v \in Versions : StagePublish(r, v)
    BY <2>2, <1>8, <1>10
  <2>3. CASE \E r \in Requests, p \in People, i \in Intents :
               StartDecision(r, p, i) \/ \E v \in Versions : StartLink(r, p, i, v)
    BY <2>3, <1>11
  <2>4. CASE \/ ListAttention \/ OtherEntry \/ PassMs
             \/ \E p \in People : ChangeOwners(p) \/ \E i \in Intents : MarkSeen(p, i)
    BY <2>4, <1>9, <1>12
  <2>5. QED
    BY <1>13, <2>1, <2>2, <2>3, <2>4 DEF GovernanceNext
<1>14. QED
  BY <1>1, <1>13

-----------------------------------------------------------------------------
(* Counting entries *)

CountIn(seq, kind, i) == Cardinality({n \in DOMAIN seq : seq[n] = Entry(kind, i)})

LEMMA CountAppended ==
  ASSUME NEW seq \in Seq(Entries), NEW entry \in Entries, NEW kind, NEW i
  PROVE  /\ CountIn(seq, kind, i) \in Nat
         /\ CountIn(Append(seq, entry), kind, i) =
              IF entry = Entry(kind, i) THEN CountIn(seq, kind, i) + 1 ELSE CountIn(seq, kind, i)
<1> DEFINE n == Len(seq)
           old == {m \in 1..n : seq[m] = Entry(kind, i)}
           longer == Append(seq, entry)
           new == {m \in 1..n + 1 : longer[m] = Entry(kind, i)}
<1>1. n \in Nat /\ DOMAIN seq = 1..n
  BY LenProperties
<1>2. /\ longer \in Seq(Entries) /\ Len(longer) = n + 1 /\ longer[n + 1] = entry
      /\ \A m \in 1..n : longer[m] = seq[m]
  BY AppendProperties
<1>3. DOMAIN longer = 1..n + 1
  BY <1>2, LenProperties
<1>4. IsFiniteSet(old) /\ Cardinality(old) \in Nat
  <2>1. IsFiniteSet(1..n) /\ old \subseteq 1..n
    BY <1>1, FS_Interval
  <2>2. IsFiniteSet(old)
    BY <2>1, FS_Subset
  <2>3. QED
    BY <2>2, FS_CardinalityType
<1>5. CASE entry = Entry(kind, i)
  <2>1. new = old \cup {n + 1} /\ n + 1 \notin old
    BY <1>1, <1>2, <1>5
  <2>2. Cardinality(new) = Cardinality(old) + 1
    BY <1>4, <2>1, FS_AddElement
  <2>3. QED
    BY <1>1, <1>3, <1>4, <1>5, <2>2 DEF CountIn
<1>6. CASE entry # Entry(kind, i)
  <2>1. new = old
    BY <1>1, <1>2, <1>6
  <2>2. QED
    BY <1>1, <1>3, <1>4, <1>6, <2>1 DEF CountIn
<1>7. QED
  BY <1>5, <1>6

LEMMA CountAppendedTwice ==
  ASSUME NEW seq \in Seq(Entries), NEW first \in Entries, NEW second \in Entries
  PROVE  /\ seq \o <<first, second>> = Append(Append(seq, first), second)
         /\ seq \o <<first, second>> \in Seq(Entries) /\ Len(seq \o <<first, second>>) = Len(seq) + 2
<1> DEFINE s == seq \o <<first, second>>
           t == Append(Append(seq, first), second)
           n == Len(seq)
<1>1. /\ <<first, second>> \in Seq(Entries) /\ Len(<<first, second>>) = 2
      /\ <<first, second>>[1] = first /\ <<first, second>>[2] = second /\ n \in Nat
  BY LenProperties
<1>2. /\ s \in Seq(Entries) /\ Len(s) = n + 2
      /\ \A m \in 1..n + 2 : s[m] = IF m <= n THEN seq[m] ELSE <<first, second>>[m - n]
  BY <1>1, ConcatProperties
<1>3. /\ Append(seq, first) \in Seq(Entries) /\ Len(Append(seq, first)) = n + 1
      /\ Append(seq, first)[n + 1] = first /\ \A m \in 1..n : Append(seq, first)[m] = seq[m]
  BY AppendProperties
<1>4. /\ t \in Seq(Entries) /\ Len(t) = n + 2 /\ t[n + 2] = second
      /\ \A m \in 1..n + 1 : t[m] = Append(seq, first)[m]
  <2>1. /\ t \in Seq(Entries) /\ Len(t) = Len(Append(seq, first)) + 1 /\ t[Len(Append(seq, first)) + 1] = second
        /\ \A m \in 1..Len(Append(seq, first)) : t[m] = Append(seq, first)[m]
    BY <1>3, AppendProperties
  <2>2. QED
    BY <1>1, <1>3, <2>1
<1>5. ASSUME NEW m \in 1..n + 2 PROVE s[m] = t[m]
  <2>1. CASE m \in 1..n
    BY <1>1, <1>2, <1>3, <1>4, <2>1
  <2>2. CASE m = n + 1
    BY <1>1, <1>2, <1>3, <1>4, <2>2
  <2>3. CASE m = n + 2
    BY <1>1, <1>2, <1>3, <1>4, <2>3
  <2>4. QED
    BY <1>1, <2>1, <2>2, <2>3
<1> HIDE DEF s, t
<1>6. s = t
  BY <1>1, <1>2, <1>4, <1>5, SeqEqual
<1>7. QED
  BY <1>2, <1>6 DEF s, t

LEMMA EntryTyped ==
  ASSUME NEW i \in Intents,
         NEW kind \in {"proposed", "approved", "started", "succeeded", "failed", "expired"}
  PROVE  Entry(kind, i) \in Entries
  BY DEF Entry, Entries

LEMMA EntriesApart ==
  ASSUME NEW i, NEW j, NEW kind, NEW other
  PROVE  Entry(kind, i) = Entry(other, j) <=> kind = other /\ i = j
  BY DEF Entry

\* the rows and entries of an intent the step is not about
LEMMA LedgerTellsStep ==
  ASSUME GovernanceInv, [GovernanceNext]_gvars PROVE LedgerTellsAll'
<1>1. /\ ledger \in Seq(Entries) /\ intents \in [Intents -> IntentRows] /\ approvals \subseteq Approvals
      /\ IsFiniteSet(approvals) /\ RequestsSound
  BY DEF GovernanceInv, GovernanceTyped, GovernanceTypeOK
<1> SUFFICES ASSUME NEW i \in Intents
             PROVE  /\ CountIn(ledger', "proposed", i) = Is(i, Statuses)'
                    /\ CountIn(ledger', "approved", i) = Cardinality(ApprovalsOf(i)')
                    /\ CountIn(ledger', "started", i) = Is(i, {"succeeded"})'
                    /\ \A outcome \in {"succeeded", "failed", "expired"} :
                         CountIn(ledger', outcome, i) = Is(i, {outcome})'
  BY DEF LedgerTellsAll, EntriesOf, CountIn
<1> DEFINE C(kind) == CountIn(ledger, kind, i)
           A == Cardinality(ApprovalsOf(i))
           st == intents[i].status
<1>2. /\ C("proposed") = (IF st \in Statuses THEN 1 ELSE 0)
      /\ C("approved") = A
      /\ C("started") = (IF st = "succeeded" THEN 1 ELSE 0)
      /\ C("succeeded") = (IF st = "succeeded" THEN 1 ELSE 0)
      /\ C("failed") = (IF st = "failed" THEN 1 ELSE 0)
      /\ C("expired") = (IF st = "expired" THEN 1 ELSE 0)
  BY DEF GovernanceInv, LedgerTellsAll, EntriesOf, CountIn, Is
<1>3. st \in Statuses \cup {"none"}
  BY <1>1 DEF IntentRows
<1> USE DEF Is, Statuses
<1>4. CASE UNCHANGED GovernanceRows /\ EntersOther
  <2>1. \A kind \in {"proposed", "approved", "started", "succeeded", "failed", "expired"} :
          CountIn(ledger', kind, i) = C(kind)
    <3>1. CASE UNCHANGED ledger
      BY <3>1
    <3>2. ASSUME NEW entry \in Entries, entry.kind \in {"linked", "unlinked", "other"}, ledger' = Append(ledger, entry)
          PROVE  <2>1
      <4>1. \A kind \in {"proposed", "approved", "started", "succeeded", "failed", "expired"} : entry # Entry(kind, i)
        BY <3>2 DEF Entry
      <4>2. QED
        BY <1>1, <3>2, <4>1, CountAppended
    <3>3. QED
      BY <1>4, <3>1, <3>2 DEF EntersOther
  <2>2. intents'[i] = intents[i] /\ ApprovalsOf(i)' = ApprovalsOf(i)
    BY <1>4 DEF GovernanceRows, ApprovalsOf
  <2>3. QED
    BY <1>2, <2>1, <2>2
<1>5. ASSUME NEW r \in Requests, Publishes(r)
      PROVE  ledger' = ledger /\ intents'[i] = intents[i] /\ ApprovalsOf(i)' = ApprovalsOf(i)
  BY <1>5 DEF Publishes, ApprovalsOf
<1>6. ASSUME NEW r \in Requests, request[r].intent # i, Proposes(r) \/ Approves(r) \/ ExecutesNow(r) \/ Closes(r, "failed") \/ Closes(r, "expired")
      PROVE  /\ \A kind : CountIn(ledger', kind, i) = C(kind)
             /\ intents'[i] = intents[i] /\ ApprovalsOf(i)' = ApprovalsOf(i)
  <2> DEFINE q == request[r]
  <2>1. q.intent \in Intents
    BY <1>1, <1>6 DEF Proposes, Approves, ExecutesNow, Closes, RequestsSound, RequestSound
  <2>2. intents'[i] = intents[i] /\ ApprovalsOf(i)' = ApprovalsOf(i)
    <3>1. CASE Proposes(r)
      BY <1>1, <1>6, <3>1 DEF Proposes, ApprovalsOf
    <3>2. CASE Approves(r)
      <4>1. intents'[i] = intents[i]
        BY <1>1, <1>6, <3>2 DEF Approves
      <4>2. approvals' = approvals \cup {[intent |-> q.intent, actor |-> q.actor, at |-> q.at]}
        BY <3>2 DEF Approves
      <4>3. QED
        BY <1>6, <4>1, <4>2 DEF ApprovalsOf
    <3>3. CASE ExecutesNow(r)
      BY <1>1, <1>6, <3>3 DEF ExecutesNow, ApprovalsOf
    <3>4. CASE Closes(r, "failed") \/ Closes(r, "expired")
      BY <1>1, <1>6, <3>4 DEF Closes, ApprovalsOf
    <3>5. QED
      BY <1>6, <3>1, <3>2, <3>3, <3>4
  <2>3. \A kind, other : Entry(other, q.intent) # Entry(kind, i)
    BY <1>6, EntriesApart
  <2>4. CASE ExecutesNow(r)
    <3>1. Entry("started", q.intent) \in Entries /\ Entry("succeeded", q.intent) \in Entries
      BY <2>1, EntryTyped
    <3>2. ledger' = Append(Append(ledger, Entry("started", q.intent)), Entry("succeeded", q.intent))
      BY <1>1, <2>4, <3>1, CountAppendedTwice DEF ExecutesNow
    <3>3. Append(ledger, Entry("started", q.intent)) \in Seq(Entries)
      BY <1>1, <3>1, AppendProperties
    <3>4. \A kind : CountIn(Append(ledger, Entry("started", q.intent)), kind, i) = C(kind)
      BY <1>1, <2>3, <3>1, CountAppended
    <3> DEFINE mid == Append(ledger, Entry("started", q.intent))
    <3>5. mid \in Seq(Entries)
      BY <3>3
    <3> HIDE DEF mid
    <3>6. \A kind : CountIn(Append(mid, Entry("succeeded", q.intent)), kind, i) = CountIn(mid, kind, i)
      BY <2>3, <3>1, <3>5, CountAppended
    <3>7. QED
      BY <2>2, <3>2, <3>4, <3>6 DEF mid
  <2>5. CASE ~ExecutesNow(r)
    <3>1. PICK kind \in {"proposed", "approved", "failed", "expired"} : ledger' = Append(ledger, Entry(kind, q.intent))
      BY <1>6, <2>5 DEF Proposes, Approves, Closes
    <3>2. Entry(kind, q.intent) \in Entries
      BY <2>1, EntryTyped
    <3>3. QED
      BY <1>1, <2>2, <2>3, <3>1, <3>2, CountAppended
  <2>6. QED
    BY <2>4, <2>5
<1>7. ASSUME NEW entry \in Entries, ledger' = Append(ledger, entry), NEW k, entry = Entry(k, i)
      PROVE  \A kind : CountIn(ledger', kind, i) = (IF kind = k THEN C(kind) + 1 ELSE C(kind))
  BY <1>1, <1>7, CountAppended, EntriesApart
<1>8. C("proposed") \in Nat /\ C("approved") \in Nat /\ C("started") \in Nat /\ C("succeeded") \in Nat
      /\ C("failed") \in Nat /\ C("expired") \in Nat
  <2>1. Entry("proposed", i) \in Entries
    BY EntryTyped
  <2>2. QED
    BY <1>1, <2>1, CountAppended
<1>9. ASSUME NEW r \in Requests, request[r].intent = i, Proposes(r)
      PROVE  /\ st = "none" /\ intents'[i].status = "proposed" /\ ApprovalsOf(i)' = ApprovalsOf(i)
             /\ ledger' = Append(ledger, Entry("proposed", i))
  BY <1>1, <1>9 DEF Proposes, RequestsSound, RequestSound, ApprovalsOf
<1>10. ASSUME NEW r \in Requests, request[r].intent = i, Approves(r)
       PROVE  /\ st \in OpenStatus /\ intents'[i].status = "approved"
              /\ Cardinality(ApprovalsOf(i)') = A + 1
              /\ ledger' = Append(ledger, Entry("approved", i))
  <2> DEFINE q == request[r]
             a == [intent |-> i, actor |-> q.actor, at |-> q.at]
  <2>1. ApprovalsOf(i)' = ApprovalsOf(i) \cup {a} /\ a \notin ApprovalsOf(i)
    BY <1>10 DEF Approves, ApprovalsOf
  <2>2. IsFiniteSet(ApprovalsOf(i))
    <3>1. ApprovalsOf(i) \subseteq approvals
      BY DEF ApprovalsOf
    <3>2. QED
      BY <1>1, <3>1, FS_Subset
  <2>3. Cardinality(ApprovalsOf(i)') = A + 1
    BY <2>1, <2>2, FS_AddElement
  <2>4. intents'[i].status = "approved"
    BY <1>1, <1>10 DEF Approves, IntentRows
  <2>5. QED
    BY <1>10, <2>3, <2>4 DEF Approves
<1>11. ASSUME NEW r \in Requests, request[r].intent = i, ExecutesNow(r)
       PROVE  /\ st = "approved" /\ intents'[i].status = "succeeded" /\ ApprovalsOf(i)' = ApprovalsOf(i)
              /\ ledger' = ledger \o <<Entry("started", i), Entry("succeeded", i)>>
  <2>1. intents'[i].status = "succeeded"
    BY <1>1, <1>11 DEF ExecutesNow, IntentRows
  <2>2. QED
    BY <1>11, <2>1 DEF ExecutesNow, ApprovalsOf
<1>12. ASSUME NEW r \in Requests, request[r].intent = i, NEW outcome \in {"failed", "expired"}, Closes(r, outcome)
       PROVE  /\ st \in OpenStatus /\ intents'[i].status = outcome /\ ApprovalsOf(i)' = ApprovalsOf(i)
              /\ ledger' = Append(ledger, Entry(outcome, i))
  <2>1. intents'[i].status = outcome
    BY <1>1, <1>12 DEF Closes, IntentRows
  <2>2. QED
    BY <1>12, <2>1 DEF Closes, ApprovalsOf
<1> HIDE DEF C, A, st
<1> DEFINE Told ==
      /\ CountIn(ledger', "proposed", i) = (IF intents'[i].status \in Statuses THEN 1 ELSE 0)
      /\ CountIn(ledger', "approved", i) = Cardinality(ApprovalsOf(i)')
      /\ CountIn(ledger', "started", i) = (IF intents'[i].status = "succeeded" THEN 1 ELSE 0)
      /\ CountIn(ledger', "succeeded", i) = (IF intents'[i].status = "succeeded" THEN 1 ELSE 0)
      /\ CountIn(ledger', "failed", i) = (IF intents'[i].status = "failed" THEN 1 ELSE 0)
      /\ CountIn(ledger', "expired", i) = (IF intents'[i].status = "expired" THEN 1 ELSE 0)
<1>13. ASSUME NEW r \in Requests, request[r].intent = i, Proposes(r) PROVE Told
  <2>1. \A kind : CountIn(ledger', kind, i) = (IF kind = "proposed" THEN C(kind) + 1 ELSE C(kind))
    BY <1>7, <1>9, <1>13, EntryTyped
  <2>2. QED
    BY <1>2, <1>8, <1>9, <1>13, <2>1 DEF A, st
<1>14. ASSUME NEW r \in Requests, request[r].intent = i, Approves(r) PROVE Told
  <2>1. \A kind : CountIn(ledger', kind, i) = (IF kind = "approved" THEN C(kind) + 1 ELSE C(kind))
    BY <1>7, <1>10, <1>14, EntryTyped
  <2>2. QED
    BY <1>2, <1>8, <1>10, <1>14, <2>1 DEF OpenStatus
<1>15. ASSUME NEW r \in Requests, request[r].intent = i, ExecutesNow(r) PROVE Told
  <2> DEFINE first == Entry("started", i)
             second == Entry("succeeded", i)
  <2>1. first \in Entries /\ second \in Entries
    BY EntryTyped
  <2>2. ledger' = Append(Append(ledger, first), second) /\ Append(ledger, first) \in Seq(Entries)
    BY <1>1, <1>11, <1>15, <2>1, CountAppendedTwice, AppendProperties
  <2>3. \A kind : CountIn(ledger', kind, i) =
                    (IF kind = "started" \/ kind = "succeeded" THEN C(kind) + 1 ELSE C(kind))
    <3>1. ASSUME NEW kind PROVE CountIn(Append(ledger, first), kind, i) = (IF kind = "started" THEN C(kind) + 1 ELSE C(kind))
      BY <1>1, <2>1, CountAppended, EntriesApart DEF C
    <3>2. ASSUME NEW kind
          PROVE CountIn(ledger', kind, i) = (IF kind = "succeeded" THEN CountIn(Append(ledger, first), kind, i) + 1
                                              ELSE CountIn(Append(ledger, first), kind, i))
      <4> DEFINE mid == Append(ledger, first)
      <4>0. mid \in Seq(Entries)
        BY <2>2
      <4> HIDE DEF mid
      <4>1. CountIn(Append(mid, second), kind, i) = (IF second = Entry(kind, i) THEN CountIn(mid, kind, i) + 1
                                                     ELSE CountIn(mid, kind, i))
        BY <2>1, <4>0, CountAppended
      <4>2. second = Entry(kind, i) <=> kind = "succeeded"
        BY EntriesApart
      <4>3. QED
        BY <2>2, <4>1, <4>2 DEF mid
    <3>3. QED
      BY <3>1, <3>2
  <2>4. QED
    BY <1>2, <1>8, <1>11, <1>15, <2>3 DEF A
<1>16. ASSUME NEW r \in Requests, request[r].intent = i, NEW outcome \in {"failed", "expired"}, Closes(r, outcome)
       PROVE  Told
  <2>1. \A kind : CountIn(ledger', kind, i) = (IF kind = outcome THEN C(kind) + 1 ELSE C(kind))
    BY <1>7, <1>12, <1>16, EntryTyped
  <2>2. QED
    BY <1>2, <1>8, <1>12, <1>16, <2>1 DEF A, OpenStatus
<1>17. ASSUME NEW r \in Requests, Publishes(r) PROVE Told
  BY <1>2, <1>5, <1>17 DEF A, st, C
<1>18. ASSUME NEW r \in Requests, request[r].intent # i,
              Proposes(r) \/ Approves(r) \/ ExecutesNow(r) \/ Closes(r, "failed") \/ Closes(r, "expired")
       PROVE  Told
  BY <1>2, <1>6, <1>18 DEF A, st
<1>19. CASE \E r \in Requests : \/ Proposes(r) \/ Approves(r) \/ ExecutesNow(r) \/ Publishes(r)
                                \/ Closes(r, "failed") \/ Closes(r, "expired")
  <2>1. Told
    BY <1>13, <1>14, <1>15, <1>16, <1>17, <1>18, <1>19
  <2>2. QED
    BY <2>1
<1>20. QED
  BY <1>4, <1>19, GovernanceSteps

-----------------------------------------------------------------------------
(* Intents, payloads and what is erased *)

\* a payload is written for the version of the request, and never taken back
LEMMA WrittenStep ==
  ASSUME GovernanceInv, [GovernanceNext]_gvars
  PROVE  /\ Written \subseteq Written' /\ IsFiniteSet(Written')
         /\ \A v \in Written : payload'[v] = payload[v]
         /\ \A v \in Written' \ Written :
              /\ \E r \in Requests : Publishes(r) /\ v = request[r].version
              /\ payload'[v] = v \/ payload'[v] \in LivePayloads
         /\ payload' \in [Versions -> Versions \cup {Nothing}]
<1>1. payload \in [Versions -> Versions \cup {Nothing}] /\ IsFiniteSet(Written)
  BY DEF GovernanceInv, GovernanceTyped, GovernanceTypeOK
<1>2. CASE UNCHANGED payload
  BY <1>1, <1>2 DEF Written
<1>3. ASSUME NEW r \in Requests, Publishes(r)
      PROVE  /\ Written' = Written \cup {request[r].version}
             /\ \A v \in Written : payload'[v] = payload[v]
             /\ payload'[request[r].version] = request[r].version \/ payload'[request[r].version] \in LivePayloads
             /\ payload' \in [Versions -> Versions \cup {Nothing}]
  <2> DEFINE v == request[r].version
  <2>1. PICK ref \in request[r].to : AcceptsPayload(v, ref) /\ payload' = [payload EXCEPT ![v] = ref]
    BY <1>3 DEF Publishes
  <2>2. v \in Versions /\ v \notin Written /\ ref \in Versions /\ ref # Nothing
    BY <1>3, <2>1, GovernanceBounds DEF Publishes, GovernanceInv, RequestsSound, RequestSound
  <2>3. ref = v \/ ref \in LivePayloads
    BY <2>1 DEF AcceptsPayload
  <2>4. QED
    BY <1>1, <2>1, <2>2, <2>3 DEF Written
<1>4. CASE \E r \in Requests : Publishes(r)
  <2>1. PICK r \in Requests : Publishes(r)
    BY <1>4
  <2>2. IsFiniteSet(Written')
    BY <1>1, <1>3, <2>1, FS_AddElement
  <2>3. QED
    BY <1>3, <2>1, <2>2
<1>5. QED
  BY <1>2, <1>4, GovernanceSteps DEF GovernanceRows, Proposes, Approves, ExecutesNow, Closes

\* an intent that was proposed keeps what was proposed, and a success is final
LEMMA IntentsStep ==
  ASSUME GovernanceInv, [GovernanceNext]_gvars, NEW i \in Intents
  PROVE  \/ intents'[i] = intents[i]
         \/ \E r \in Requests : Proposes(r) /\ request[r].intent = i /\ intents'[i] = request[r].row
         \/ /\ intents[i].status \in OpenStatus /\ intents'[i].status \in {"approved", "succeeded", "failed", "expired"}
            /\ intents'[i].action = intents[i].action /\ intents'[i].proposer = intents[i].proposer
            /\ intents'[i].apart = intents[i].apart /\ intents'[i].refs = intents[i].refs
            /\ \/ intents'[i].status \in {"failed", "expired"}
               \/ intents'[i].status = "approved" /\ ApprovalsOf(i)' # {}
               \/ intents'[i].status = "succeeded" /\ intents[i].status = "approved"
<1>1. intents \in [Intents -> IntentRows] /\ intents[i] \in IntentRows
  BY DEF GovernanceInv, GovernanceTyped, GovernanceTypeOK
<1>2. ASSUME NEW r \in Requests, Proposes(r)
      PROVE  \/ intents'[i] = intents[i]
             \/ \E q \in Requests : Proposes(q) /\ request[q].intent = i /\ intents'[i] = request[q].row
  <2>1. intents' = [intents EXCEPT ![request[r].intent] = request[r].row]
    BY <1>2 DEF Proposes
  <2>2. QED
    BY <1>1, <1>2, <2>1
<1>3. ASSUME NEW r \in Requests, Approves(r)
      PROVE  \/ intents'[i] = intents[i]
             \/ /\ intents[i].status \in OpenStatus /\ intents'[i].status = "approved" /\ ApprovalsOf(i)' # {}
                /\ intents'[i].action = intents[i].action /\ intents'[i].proposer = intents[i].proposer
                /\ intents'[i].apart = intents[i].apart /\ intents'[i].refs = intents[i].refs
  <2> DEFINE q == request[r]
  <2>1. /\ intents[q.intent].status \in OpenStatus
        /\ intents' = [intents EXCEPT ![q.intent].status = "approved", ![q.intent].updated = q.at]
        /\ approvals' = approvals \cup {[intent |-> q.intent, actor |-> q.actor, at |-> q.at]}
    BY <1>3 DEF Approves
  <2>2. CASE q.intent = i
    <3>1. [intent |-> i, actor |-> q.actor, at |-> q.at] \in ApprovalsOf(i)'
      BY <2>1, <2>2 DEF ApprovalsOf
    <3>2. QED
      BY <1>1, <2>1, <2>2, <3>1 DEF IntentRows
  <2>3. CASE q.intent # i
    BY <1>1, <2>1, <2>3
  <2>4. QED
    BY <2>2, <2>3
<1>4. ASSUME NEW r \in Requests, ExecutesNow(r)
      PROVE  \/ intents'[i] = intents[i]
             \/ /\ intents[i].status = "approved" /\ intents'[i].status = "succeeded"
                /\ intents'[i].action = intents[i].action /\ intents'[i].proposer = intents[i].proposer
                /\ intents'[i].apart = intents[i].apart /\ intents'[i].refs = intents[i].refs
  <2> DEFINE q == request[r]
  <2>1. /\ intents[q.intent].status = "approved"
        /\ intents' = [intents EXCEPT ![q.intent].status = "succeeded", ![q.intent].updated = q.at + 1, ![q.intent].fence = r]
    BY <1>4 DEF ExecutesNow
  <2>2. QED
    BY <1>1, <2>1 DEF IntentRows
<1>5. ASSUME NEW r \in Requests, NEW outcome \in {"failed", "expired"}, Closes(r, outcome)
      PROVE  \/ intents'[i] = intents[i]
             \/ /\ intents[i].status \in OpenStatus /\ intents'[i].status = outcome
                /\ intents'[i].action = intents[i].action /\ intents'[i].proposer = intents[i].proposer
                /\ intents'[i].apart = intents[i].apart /\ intents'[i].refs = intents[i].refs
  <2> DEFINE q == request[r]
  <2>1. /\ intents[q.intent].status \in OpenStatus
        /\ intents' = [intents EXCEPT ![q.intent].status = outcome, ![q.intent].updated = q.at]
    BY <1>5 DEF Closes
  <2>2. QED
    BY <1>1, <2>1 DEF IntentRows
<1>6. QED
  BY <1>2, <1>3, <1>4, <1>5, GovernanceSteps DEF GovernanceRows, Publishes, OpenStatus

LEMMA IntentsStaySound == ASSUME GovernanceInv, [GovernanceNext]_gvars PROVE IntentsSound'
<1>1. Written \subseteq Written' /\ IntentsSound /\ RequestsSound /\ intents \in [Intents -> IntentRows]
      /\ approvals \subseteq Approvals
  BY WrittenStep DEF GovernanceInv, GovernanceTyped, GovernanceTypeOK
<1>2. approvals \subseteq approvals'
  BY GovernanceSteps DEF GovernanceRows, Proposes, Approves, ExecutesNow, Closes, Publishes
<1>3. ASSUME NEW i \in Intents PROVE intents'[i].refs \subseteq Written'
  <2>1. ASSUME NEW r \in Requests, Proposes(r) PROVE request[r].row.refs \subseteq Written
    BY <1>1, <2>1 DEF Proposes, RequestsSound, RequestSound
  <2>2. QED
    BY <1>1, <2>1, IntentsStep DEF IntentsSound
<1>4. ASSUME NEW i \in Intents, intents'[i].status \in {"approved", "succeeded"} PROVE ApprovalsOf(i)' # {}
  <2>1. ASSUME NEW r \in Requests, Proposes(r) PROVE request[r].row.status = "proposed"
    BY <1>1, <2>1 DEF Proposes, RequestsSound, RequestSound
  <2>2. ApprovalsOf(i) \subseteq ApprovalsOf(i)'
    BY <1>2 DEF ApprovalsOf
  <2>3. QED
    BY <1>1, <1>4, <2>1, <2>2, IntentsStep DEF IntentsSound
<1>5. ASSUME NEW a \in approvals'
      PROVE  /\ intents'[a.intent].status # "none"
             /\ a.actor = intents'[a.intent].proposer => ~intents'[a.intent].apart
  <2>1. CASE a \in approvals
    <3>1. a.intent \in Intents /\ intents[a.intent].status # "none"
          /\ (a.actor = intents[a.intent].proposer => ~intents[a.intent].apart)
      BY <1>1, <2>1 DEF IntentsSound, Approvals
    <3>2. ASSUME NEW r \in Requests, Proposes(r) PROVE request[r].intent # a.intent
      BY <1>1, <3>1, <3>2 DEF Proposes, RequestsSound, RequestSound
    <3>3. QED
      BY <3>1, <3>2, IntentsStep
  <2>2. ASSUME NEW r \in Requests, Approves(r), a = [intent |-> request[r].intent, actor |-> request[r].actor, at |-> request[r].at]
        PROVE  /\ intents'[a.intent].status # "none"
               /\ a.actor = intents'[a.intent].proposer => ~intents'[a.intent].apart
    <3> DEFINE q == request[r]
    <3>1. /\ q.intent \in Intents /\ RowKept(q.row, q.intent)
          /\ q.actor = q.row.proposer => ~q.row.apart
          /\ intents[q.intent].status \in OpenStatus
      BY <1>1, <2>2 DEF Approves, RequestsSound, RequestSound, Deciding
    <3>2. ASSUME NEW s \in Requests, Proposes(s) PROVE request[s].intent # q.intent
      BY <1>1, <3>1, <3>2 DEF Proposes, RequestsSound, RequestSound, OpenStatus
    <3>3. /\ intents'[q.intent].status # "none" /\ intents'[q.intent].proposer = intents[q.intent].proposer
          /\ intents'[q.intent].apart = intents[q.intent].apart
      BY <3>1, <3>2, IntentsStep DEF OpenStatus
    <3>4. QED
      BY <2>2, <3>1, <3>3 DEF RowKept
  <2>3. a \in approvals \/ \E r \in Requests : Approves(r) /\
              a = [intent |-> request[r].intent, actor |-> request[r].actor, at |-> request[r].at]
    BY <1>5, GovernanceSteps DEF GovernanceRows, Proposes, Approves, ExecutesNow, Closes, Publishes
  <2>4. QED
    BY <2>1, <2>2, <2>3
<1>6. QED
  BY <1>3, <1>4, <1>5 DEF IntentsSound

LEMMA PayloadsStaySound == ASSUME GovernanceInv, [GovernanceNext]_gvars PROVE PayloadsSound'
<1>1. PayloadsSound /\ Written \subseteq Written'
  BY WrittenStep DEF GovernanceInv
<1>2. LivePayloads \subseteq Written
  BY <1>1 DEF PayloadsSound, LivePayloads
<1>3. erased' \subseteq Written'
  <2>1. erased' \subseteq erased \cup LivePayloads
    BY GovernanceSteps DEF GovernanceRows, Proposes, Approves, ExecutesNow, Closes, Publishes
  <2>2. QED
    BY <1>1, <1>2, <2>1 DEF PayloadsSound
<1>4. ASSUME NEW v \in Written' PROVE payload'[v] \in Written'
  BY <1>1, <1>2, WrittenStep DEF PayloadsSound
<1>5. QED
  BY <1>3, <1>4 DEF PayloadsSound

LEMMA ErasedStep == ASSUME GovernanceInv, [GovernanceNext]_gvars PROVE ErasedAsApproved'
<1>1. /\ PayloadsSound /\ RequestsSound /\ IntentsSound /\ IsFiniteSet(Written) /\ intents \in [Intents -> IntentRows]
      /\ ErasedAsApproved /\ Written \subseteq Written'
  BY WrittenStep DEF GovernanceInv, GovernanceTyped, GovernanceTypeOK
<1> SUFFICES ASSUME NEW v \in Written', payload'[v] \in erased'
             PROVE  \E i \in Intents :
                      /\ intents'[i].status = "succeeded" /\ intents'[i].action = "erase" /\ v \in intents'[i].refs
                      /\ \E a \in ApprovalsOf(i)' : a.actor = intents'[i].proposer => ~intents'[i].apart
  BY DEF ErasedAsApproved
<1>2. CASE v \in Written /\ payload[v] \in erased
  <2>1. PICK i \in Intents :
          /\ intents[i].status = "succeeded" /\ intents[i].action = "erase" /\ v \in intents[i].refs
          /\ \E a \in ApprovalsOf(i) : a.actor = intents[i].proposer => ~intents[i].apart
    BY <1>1, <1>2 DEF ErasedAsApproved
  <2>2. intents'[i] = intents[i]
    <3>1. ASSUME NEW r \in Requests, Proposes(r) PROVE request[r].intent # i
      BY <1>1, <2>1, <3>1 DEF Proposes, RequestsSound, RequestSound
    <3>2. QED
      BY <2>1, <3>1, IntentsStep DEF OpenStatus
  <2>3. ApprovalsOf(i) \subseteq ApprovalsOf(i)'
    <3>1. approvals \subseteq approvals'
      BY GovernanceSteps DEF GovernanceRows, Proposes, Approves, ExecutesNow, Closes, Publishes
    <3>2. QED
      BY <3>1 DEF ApprovalsOf
  <2>4. QED
    BY <2>1, <2>2, <2>3
<1>3. CASE v \notin Written
  <2>1. PICK r \in Requests : Publishes(r)
    BY <1>3, WrittenStep
  <2>2. erased' = erased
    BY <2>1 DEF Publishes
  <2>3. payload'[v] = v \/ payload'[v] \in LivePayloads
    BY <1>3, WrittenStep
  <2>4. v \notin erased
    BY <1>1, <1>3 DEF PayloadsSound
  <2>5. QED
    BY <2>2, <2>3, <2>4 DEF LivePayloads
<1>4. CASE v \in Written /\ payload[v] \notin erased
  <2>1. payload'[v] = payload[v] /\ erased' # erased
    BY <1>4, WrittenStep
  <2>2. PICK r \in Requests : ExecutesNow(r)
    BY <2>1, GovernanceSteps DEF GovernanceRows, Proposes, Approves, Closes, Publishes
  <2>3. PICK q \in RequestStates : q = request[r]
    BY DEF GovernanceInv, GovernanceTyped, GovernanceTypeOK
  <2>4. PICK i \in Intents : i = q.intent /\ RowKept(q.row, i)
    BY <1>1, <2>2, <2>3 DEF ExecutesNow, RequestsSound, RequestSound, Deciding
  <2>5. q.row.action = "erase" /\ Counted(q.row.refs) /\ intents[i].status = "approved"
    BY <2>1, <2>2, <2>3, <2>4 DEF ExecutesNow
  <2>6. intents[i].refs = Written /\ intents[i].action = "erase"
    <3>1. intents[i].refs \subseteq Written /\ Cardinality(intents[i].refs) = Cardinality(Written)
      BY <1>1, <2>4, <2>5 DEF IntentsSound, RowKept, Counted
    <3>2. QED
      BY <1>1, <2>4, <2>5, <3>1, FS_Subset DEF RowKept
  <2>7. /\ intents'[i].status = "succeeded" /\ intents'[i].action = "erase" /\ intents'[i].refs = Written
        /\ intents'[i].proposer = intents[i].proposer /\ intents'[i].apart = intents[i].apart
    <3>1. intents' = [intents EXCEPT ![i].status = "succeeded", ![i].updated = q.at + 1, ![i].fence = r]
      BY <2>2, <2>3, <2>4 DEF ExecutesNow
    <3>2. QED
      BY <1>1, <2>6, <3>1 DEF IntentRows
  <2>8. PICK a \in approvals : a.intent = i /\ a \in ApprovalsOf(i)'
    <3>1. ApprovalsOf(i) # {} /\ approvals' = approvals
      BY <1>1, <2>2, <2>5 DEF IntentsSound, ExecutesNow
    <3>2. QED
      BY <3>1 DEF ApprovalsOf
  <2>9. a.actor = intents'[i].proposer => ~intents'[i].apart
    BY <1>1, <2>7, <2>8 DEF IntentsSound
  <2>10. QED
    BY <1>4, <2>7, <2>8, <2>9
<1>5. QED
  BY <1>2, <1>3, <1>4

-----------------------------------------------------------------------------
(* Requests *)

\* what a request found stays found, whatever the others do
LEMMA StaysSound ==
  ASSUME GovernanceInv, [GovernanceNext]_gvars, NEW s \in Requests, NEW q \in RequestStates, q = request[s],
         \A r \in Requests : Proposes(r) \/ Publishes(r) => r # s
  PROVE  RequestSound(q)'
<1>1. RequestSound(q) /\ Written \subseteq Written' /\ RequestsApart /\ RequestsSound
  BY WrittenStep DEF GovernanceInv, RequestsSound
<1>2. q.kind = "publish" => q.version \notin Written'
  BY <1>1, WrittenStep DEF Publishes, RequestsApart, RequestSound
<1>3. ASSUME NEW r \in Requests, Proposes(r), q.kind = "propose" \/ q.kind \in Deciding
      PROVE  request[r].intent # q.intent
  <2>1. CASE q.kind = "propose"
    BY <1>1, <1>3, <2>1 DEF RequestsApart
  <2>2. CASE q.kind \in Deciding
    BY <1>1, <1>3, <2>2 DEF RequestsSound, RequestSound, Proposes, RowKept
  <2>3. QED
    BY <1>3, <2>1, <2>2
<1>4. CASE q.kind = "propose"
  <2>1. intents'[q.intent].status = "none"
    BY <1>1, <1>3, <1>4, IntentsStep DEF RequestSound, OpenStatus
  <2>2. QED
    BY <1>1, <1>4, <2>1 DEF RequestSound, Deciding
<1>5. CASE q.kind \in Deciding
  <2>1. RowKept(q.row, q.intent) /\ q.intent \in Intents
    BY <1>1, <1>5 DEF RequestSound, Deciding
  <2>2. RowKept(q.row, q.intent)'
    BY <1>3, <1>5, <2>1, IntentsStep DEF RowKept
  <2>3. QED
    BY <1>1, <1>5, <2>2 DEF RequestSound, Deciding
<1>6. CASE q.kind \notin Deciding \cup {"propose"}
  BY <1>1, <1>2, <1>6 DEF RequestSound, Deciding
<1>7. QED
  BY <1>4, <1>5, <1>6

\* how a step changes the requests: one ends, or one goes on with a row of
\* its own, while the records stay as they are
FreshFor(r, row) ==
  \A s \in Requests \ {r} :
    /\ row.kind = "propose" => request[s].intent # row.intent
    /\ request[s].kind = "propose" => request[s].intent # row.intent
    /\ row.kind = "publish" /\ request[s].kind = "publish" => request[s].version # row.version
GoesOn(r, row) ==
  /\ row \in RequestStates /\ RequestSound(row) /\ FreshFor(r, row)
  /\ request' = [request EXCEPT ![r] = row] /\ UNCHANGED <<intents, payload>>

LEMMA ReadsGoOn ==
  ASSUME GovernanceInv, NEW r \in Requests, ReadHead(r) PROVE \E row : GoesOn(r, row)
<1> DEFINE row == [request[r] EXCEPT !.step = "tail", !.tail = Len(ledger)]
<1>1. request[r] \in RequestStates /\ RequestSound(request[r]) /\ request \in [Requests -> RequestStates]
  BY DEF GovernanceInv, GovernanceTyped, GovernanceTypeOK, RequestsSound
<1>2. Len(ledger) \in 0..MaxLedger
  BY LedgerLength, GovernanceBounds DEF GovernanceInv, GovernanceTyped, GovernanceTypeOK
<1>3. /\ row \in RequestStates /\ row.kind = request[r].kind /\ row.intent = request[r].intent
      /\ row.version = request[r].version /\ row.actor = request[r].actor /\ row.to = request[r].to
      /\ row.row = request[r].row
  BY <1>1, <1>2 DEF RequestStates
<1>4. request' = [request EXCEPT ![r] = row] /\ UNCHANGED <<intents, payload>>
  BY <1>1 DEF ReadHead
<1> HIDE DEF row
<1>5. RequestSound(row)
  BY <1>1, <1>3 DEF RequestSound
<1>6. FreshFor(r, row)
  BY <1>3 DEF FreshFor, GovernanceInv, RequestsApart
<1>7. QED
  BY <1>3, <1>4, <1>5, <1>6 DEF GoesOn

\* a request on an intent that was proposed
LEMMA DecisionGoesOn ==
  ASSUME GovernanceInv, NEW r \in Requests, NEW p \in People, NEW i \in Intents,
         NEW kind \in Deciding, Begin(r, kind, i, p, intents[i]), UNCHANGED <<intents, payload>>,
         intents[i].status \in OpenStatus, kind = "approve" => (p = intents[i].proposer => ~intents[i].apart)
  PROVE  \E row : GoesOn(r, row)
<1> DEFINE row == [Unused EXCEPT !.kind = kind, !.step = "read", !.intent = i, !.actor = p, !.row = intents[i], !.at = ms]
<1>1. intents[i] \in IntentRows /\ kind \in RequestKinds /\ GovernanceTypeOK
  BY DEF GovernanceInv, GovernanceTyped, GovernanceTypeOK, Deciding, RequestKinds
<1>2. row \in RequestStates /\ row.kind = kind /\ row.intent = i /\ row.actor = p /\ row.row = intents[i]
  <2>1. ms \in 0..LastMs
    BY <1>1 DEF GovernanceTypeOK
  <2>2. QED
    BY <1>1, <2>1, UnusedTyped DEF RequestStates, Unused
<1>3. request' = [request EXCEPT ![r] = row]
  BY DEF Begin
<1> HIDE DEF row
<1>4. RequestSound(row)
  BY <1>2 DEF RequestSound, Deciding, RowKept, OpenStatus
<1>5. FreshFor(r, row)
  BY <1>2 DEF FreshFor, GovernanceInv, RequestsSound, RequestSound, OpenStatus, Deciding
<1>6. QED
  BY <1>2, <1>3, <1>4, <1>5 DEF GoesOn

LEMMA DecisionsGoOn ==
  ASSUME GovernanceInv, NEW r \in Requests, NEW p \in People, NEW i \in Intents,
         StartApprove(r, p, i) \/ StartExecute(r, p, i) \/ StartExpire(r, p, i)
  PROVE  \E row : GoesOn(r, row)
<1>1. CASE StartApprove(r, p, i)
  BY <1>1, DecisionGoesOn DEF StartApprove, Deciding
<1>2. CASE StartExecute(r, p, i)
  <2> DEFINE kind == IF intents[i].action = "erase" /\ ~Counted(intents[i].refs) THEN "fail" ELSE "execute"
  <2>1. kind \in Deciding /\ kind # "approve"
    BY DEF Deciding
  <2>2. Begin(r, kind, i, p, intents[i]) /\ UNCHANGED <<intents, payload>> /\ intents[i].status \in OpenStatus
    BY <1>2 DEF StartExecute, OpenStatus
  <2> HIDE DEF kind
  <2>3. QED
    BY <2>1, <2>2, DecisionGoesOn
<1>3. CASE StartExpire(r, p, i)
  BY <1>3, DecisionGoesOn DEF StartExpire, Deciding
<1>4. QED
  BY <1>1, <1>2, <1>3

LEMMA ProposalGoesOn ==
  ASSUME GovernanceInv, NEW r \in Requests, NEW p \in People, NEW i \in Intents, NEW action \in Actions,
         StartPropose(r, p, i, action)
  PROVE  \E row : GoesOn(r, row)
<1>1. PICK wanted \in IntentRows : /\ wanted = (IF action = "erase" THEN ErasureBy(p) ELSE SimulationBy(p))
                                   /\ wanted.status = "proposed" /\ wanted.refs \subseteq Written
  BY ProposalTyped DEF GovernanceInv, GovernanceTyped
<1>2. PICK whom \in SUBSET People : whom = (IF wanted.apart THEN owners \ {p} ELSE owners)
  BY DEF GovernanceInv, GovernanceTyped, GovernanceTypeOK
<1> DEFINE row == [Unused EXCEPT !.kind = "propose", !.step = "read", !.intent = i, !.actor = p, !.at = ms,
                     !.row = wanted, !.to = whom]
<1>3. ms \in 0..LastMs
  BY DEF GovernanceInv, GovernanceTyped, GovernanceTypeOK
<1>4. /\ row \in RequestStates /\ row.kind = "propose" /\ row.intent = i /\ row.actor = p /\ row.row = wanted
      /\ row.to = whom
  <2>1. whom \in (SUBSET Versions) \cup (SUBSET People)
    BY <1>2
  <2>2. "propose" \in RequestKinds
    BY DEF RequestKinds
  <2>3. QED
    BY <1>1, <1>3, <2>1, <2>2, UnusedTyped DEF RequestStates, Unused
<1>5. /\ request' = [request EXCEPT ![r] = row] /\ UNCHANGED <<intents, payload>>
      /\ intents[i].status = "none" /\ \A q \in Requests : request[q].intent # i
  BY <1>1, <1>2 DEF StartPropose
<1> HIDE DEF row
<1>6. RequestSound(row)
  BY <1>1, <1>2, <1>4, <1>5 DEF RequestSound, Deciding
<1>7. FreshFor(r, row)
  BY <1>4, <1>5 DEF FreshFor
<1>8. QED
  BY <1>4, <1>5, <1>6, <1>7 DEF GoesOn

LEMMA PublicationGoesOn ==
  ASSUME GovernanceInv, NEW r \in Requests, NEW v \in Versions, StagePublish(r, v)
  PROVE  \E row : GoesOn(r, row)
<1>1. PICK ref \in IF LivePayloads = {} THEN {v} ELSE LivePayloads :
        request' = [request EXCEPT ![r] =
          [Unused EXCEPT !.kind = "publish", !.step = "read", !.version = v, !.to = {ref}]]
  BY DEF StagePublish
<1>2. /\ ref \in Versions /\ v \notin Written /\ \A q \in Requests : request[q].version # v
      /\ UNCHANGED <<intents, payload>>
  BY <1>1 DEF StagePublish, LivePayloads, Written, GovernanceInv, GovernanceTyped, GovernanceTypeOK
<1> DEFINE row == [Unused EXCEPT !.kind = "publish", !.step = "read", !.version = v, !.to = {ref}]
<1>3. /\ row \in RequestStates /\ row.kind = "publish" /\ row.intent = Nothing /\ row.version = v /\ row.to = {ref}
  BY <1>2, UnusedTyped DEF RequestStates, RequestKinds, Unused
<1> HIDE DEF row
<1>4. RequestSound(row)
  BY <1>2, <1>3 DEF RequestSound, Deciding
<1>5. FreshFor(r, row)
  <2>1. \A s \in Requests : request[s].kind = "propose" => request[s].intent # Nothing
    BY GovernanceBounds DEF GovernanceInv, RequestsSound, RequestSound
  <2>2. QED
    BY <1>2, <1>3, <2>1 DEF FreshFor
<1>6. QED
  BY <1>1, <1>2, <1>3, <1>4, <1>5 DEF GoesOn, row

LEMMA LinkGoesOn ==
  ASSUME GovernanceInv, NEW r \in Requests, NEW p \in People, NEW i \in Intents, NEW v \in Versions,
         StartLink(r, p, i, v)
  PROVE  \E row : GoesOn(r, row)
<1>1. PICK kind \in {"link", "unlink"} : request' = [request EXCEPT ![r] =
        [Unused EXCEPT !.kind = kind, !.step = "read", !.intent = i, !.actor = p, !.version = v]]
  BY DEF StartLink
<1> DEFINE row == [Unused EXCEPT !.kind = kind, !.step = "read", !.intent = i, !.actor = p, !.version = v]
<1>2. row \in RequestStates /\ row.kind = kind /\ row.intent = i /\ row.actor = p /\ row.version = v
  BY UnusedTyped DEF RequestStates, RequestKinds, Unused
<1> HIDE DEF row
<1>3. intents[i].status = "proposed" /\ UNCHANGED <<intents, payload>>
  BY DEF StartLink
<1>4. RequestSound(row)
  BY <1>2 DEF RequestSound, Deciding
<1>5. FreshFor(r, row)
  BY <1>2, <1>3 DEF FreshFor, GovernanceInv, RequestsSound, RequestSound
<1>6. QED
  BY <1>1, <1>2, <1>3, <1>4, <1>5 DEF GoesOn, row

\* how the requests change: nobody, one answers, one goes on
LEMMA RequestsStep ==
  ASSUME GovernanceInv, [GovernanceNext]_gvars
  PROVE  \/ UNCHANGED request /\ \A r \in Requests : ~Proposes(r) /\ ~Publishes(r)
         \/ \E r \in Requests : Answer(r) /\ \A s \in Requests : Proposes(s) \/ Publishes(s) => s = r
         \/ \E r \in Requests : \E row : GoesOn(r, row)
<1>1. request \in [Requests -> RequestStates] /\ RequestsSound
  BY DEF GovernanceInv, GovernanceTyped, GovernanceTypeOK
<1>2. ASSUME NEW s \in Requests, request[s].kind = "none" PROVE ~Proposes(s) /\ ~Publishes(s)
  BY <1>2 DEF Proposes, Publishes
\* who answers is who proposes or publishes: it was at work and is not now
<1>3. ASSUME NEW r \in Requests, Answer(r), NEW s \in Requests, Proposes(s) \/ Publishes(s) PROVE s = r
  <2>1. Answer(s) /\ request[s].kind # "none"
    BY <1>3 DEF Proposes, Publishes
  <2>2. request'[s] = Unused /\ request[s] # Unused
    BY <1>1, <2>1, UnusedTyped DEF Answer
  <2>3. QED
    BY <1>1, <1>3, <2>2 DEF Answer
<1>4. ASSUME UNCHANGED request, NEW s \in Requests PROVE ~Proposes(s) /\ ~Publishes(s)
  <2>1. CASE Proposes(s) \/ Publishes(s)
    <3>1. Answer(s) /\ request[s].kind # "none"
      BY <2>1 DEF Proposes, Publishes
    <3>2. QED
      BY <1>1, <1>4, <3>1, UnusedTyped DEF Answer
  <2>2. QED
    BY <2>1
<1>5. CASE UNCHANGED request
  BY <1>4, <1>5
<1>6. CASE \E r \in Requests : Answer(r)
  BY <1>3, <1>6
<1>7. ASSUME NEW r \in Requests, CommitExecute(r), ~Answer(r) PROVE \E row : GoesOn(r, row)
  <2>1. PICK q \in RequestStates : q = request[r]
    BY <1>1
  <2>2. q.kind = "execute" /\ q.intent \in Intents /\ q.actor \in People
    BY <1>1, <1>7, <2>1 DEF CommitExecute, Ready, RequestsSound, RequestSound
  <2>3. /\ Begin(r, "fail", q.intent, q.actor, intents[q.intent]) /\ UNCHANGED <<intents, payload>>
        /\ intents[q.intent].status = "approved"
    BY <1>7, <2>1 DEF CommitExecute
  <2>4. QED
    BY <2>2, <2>3, DecisionGoesOn DEF Deciding, OpenStatus
<1>8. ASSUME NEW r \in Requests, CommitRequest(r) PROVE Answer(r) \/ \E row : GoesOn(r, row)
  BY <1>7, <1>8 DEF CommitRequest, CommitPropose, CommitApprove, CommitFail, CommitExpire, CommitLink
<1>9. ASSUME NEW r \in Requests, ReadHead(r) \/ CommitPublish(r) \/ Lost(r) \/ \E v \in Versions : StagePublish(r, v)
      PROVE  Answer(r) \/ \E row : GoesOn(r, row)
  BY <1>9, ReadsGoOn, PublicationGoesOn DEF CommitPublish, Lost
<1>10. ASSUME NEW r \in Requests, NEW p \in People, NEW i \in Intents,
              StartDecision(r, p, i) \/ \E v \in Versions : StartLink(r, p, i, v)
       PROVE  \E row : GoesOn(r, row)
  BY <1>10, DecisionsGoOn, ProposalGoesOn, LinkGoesOn DEF StartDecision
<1>11. CASE \/ ListAttention \/ OtherEntry \/ PassMs
            \/ \E p \in People : ChangeOwners(p) \/ \E i \in Intents : MarkSeen(p, i)
  BY <1>5, <1>11 DEF ListAttention, OtherEntry, PassMs, ChangeOwners, MarkSeen
<1>12. CASE UNCHANGED gvars
  BY <1>5, <1>12 DEF gvars
<1>13. QED
  BY <1>6, <1>8, <1>9, <1>10, <1>11, <1>12 DEF GovernanceNext

LEMMA RequestsStayTyped ==
  ASSUME GovernanceInv, [GovernanceNext]_gvars PROVE request' \in [Requests -> RequestStates]
<1>1. request \in [Requests -> RequestStates]
  BY DEF GovernanceInv, GovernanceTyped, GovernanceTypeOK
<1>2. QED
  BY <1>1, RequestsStep, UnusedTyped DEF Answer, GoesOn

\* the rows are the same, and so is what is written
LEMMA SoundnessIsOfRows ==
  ASSUME UNCHANGED <<intents, payload>>, NEW q, RequestSound(q) PROVE RequestSound(q)'
<1>1. Written' = Written
  BY DEF Written
<1>2. RowKept(q.row, q.intent)' = RowKept(q.row, q.intent)
  BY DEF RowKept
<1>3. QED
  BY <1>1, <1>2 DEF RequestSound

LEMMA RequestsStaySound == ASSUME GovernanceInv, [GovernanceNext]_gvars PROVE RequestsSound'
<1>1. request \in [Requests -> RequestStates] /\ RequestsSound
  BY DEF GovernanceInv, GovernanceTyped, GovernanceTypeOK
<1> SUFFICES ASSUME NEW s \in Requests PROVE RequestSound(request[s])'
  BY DEF RequestsSound
<1>2. PICK q \in RequestStates : q = request[s]
  BY <1>1
<1>3. PICK next \in RequestStates : next = request'[s]
  BY RequestsStayTyped
<1>4. SUFFICES RequestSound(next)'
  BY <1>3 DEF RequestSound, RowKept
<1>5. CASE UNCHANGED request /\ \A r \in Requests : ~Proposes(r) /\ ~Publishes(r)
  <2>1. RequestSound(q)'
    BY <1>2, <1>5, StaysSound
  <2>2. QED
    BY <1>2, <1>3, <1>5, <2>1
<1>6. ASSUME NEW r \in Requests, Answer(r), \A t \in Requests : Proposes(t) \/ Publishes(t) => t = r
      PROVE  RequestSound(next)'
  <2>1. CASE s = r
    <3>1. next = Unused
      BY <1>1, <1>3, <1>6, <2>1 DEF Answer
    <3>2. QED
      BY <3>1 DEF RequestSound, Unused, Deciding
  <2>2. CASE s # r
    <3>1. RequestSound(q)'
      BY <1>2, <1>6, <2>2, StaysSound
    <3>2. next = q
      BY <1>1, <1>2, <1>3, <1>6, <2>2 DEF Answer
    <3>3. QED
      BY <3>1, <3>2
  <2>3. QED
    BY <2>1, <2>2
<1>7. ASSUME NEW r \in Requests, NEW row, GoesOn(r, row) PROVE RequestSound(next)'
  <2>1. RequestSound(next)
    BY <1>1, <1>3, <1>7 DEF GoesOn, RequestsSound
  <2>2. QED
    BY <1>7, <2>1, SoundnessIsOfRows DEF GoesOn
<1>8. QED
  BY <1>5, <1>6, <1>7, RequestsStep

LEMMA RequestsStayApart == ASSUME GovernanceInv, [GovernanceNext]_gvars PROVE RequestsApart'
<1>1. request \in [Requests -> RequestStates] /\ RequestsApart /\ RequestsSound
  BY DEF GovernanceInv, GovernanceTyped, GovernanceTypeOK
<1>2. CASE UNCHANGED request
  BY <1>1, <1>2 DEF RequestsApart
<1>3. ASSUME NEW r \in Requests, Answer(r) PROVE RequestsApart'
  <2>1. \A s \in Requests : request[s].kind = "propose" => request[s].intent # Nothing
    BY <1>1, GovernanceBounds DEF RequestsSound, RequestSound
  <2>2. QED
    BY <1>1, <1>3, <2>1, UnusedTyped DEF RequestsApart, Answer
<1>4. ASSUME NEW r \in Requests, NEW row, GoesOn(r, row) PROVE RequestsApart'
  BY <1>1, <1>4 DEF RequestsApart, GoesOn, FreshFor
<1>5. QED
  BY <1>2, <1>3, <1>4, RequestsStep

-----------------------------------------------------------------------------
(* Types *)

ItemStates == Waiting \cup {"none", "decided", "expired", "superseded"}

LEMMA ItemsStep ==
  ASSUME GovernanceInv, [GovernanceNext]_gvars PROVE items' \in [Intents -> [People -> ItemStates]]
<1>1. items \in [Intents -> [People -> ItemStates]] /\ RequestsSound
  BY DEF GovernanceInv, GovernanceTyped, GovernanceTypeOK, ItemStates
<1>2. ASSUME NEW i \in Intents, NEW resolution \in {"decided", "expired"}
      PROVE  Resolved(i, resolution) \in [Intents -> [People -> ItemStates]]
  BY <1>1 DEF Resolved, ItemStates
<1>3. Reconciled \in [Intents -> [People -> ItemStates]]
  BY <1>1 DEF Reconciled, ItemStates
<1>4. ASSUME NEW r \in Requests, CommitPropose(r) PROVE items' \in [Intents -> [People -> ItemStates]]
  <2> DEFINE addressed == [p \in People |-> IF p \in request[r].to THEN "open" ELSE "none"]
  <2>1. items' = items \/ items' = [items EXCEPT ![request[r].intent] = addressed]
    BY <1>4 DEF CommitPropose
  <2>2. addressed \in [People -> ItemStates]
    BY DEF ItemStates, Waiting
  <2> HIDE DEF addressed
  <2>3. QED
    BY <1>1, <2>1, <2>2
<1>5. ASSUME NEW r \in Requests, CommitApprove(r) PROVE items' \in [Intents -> [People -> ItemStates]]
  <2>1. request[r].intent \in Intents
    BY <1>1, <1>5 DEF CommitApprove, Ready, RequestsSound, RequestSound
  <2>2. items' = items \/ items' = Resolved(request[r].intent, "decided")
    BY <1>5 DEF CommitApprove
  <2>3. QED
    BY <1>1, <1>2, <2>1, <2>2
<1>6. ASSUME NEW r \in Requests, CommitExpire(r) PROVE items' \in [Intents -> [People -> ItemStates]]
  <2>1. request[r].intent \in Intents
    BY <1>1, <1>6 DEF CommitExpire, Ready, RequestsSound, RequestSound
  <2>2. items' = items \/ items' = Resolved(request[r].intent, "expired")
    BY <1>6 DEF CommitExpire
  <2>3. QED
    BY <1>1, <1>2, <2>1, <2>2
<1>7. ASSUME NEW p \in People, NEW i \in Intents, MarkSeen(p, i) PROVE items' \in [Intents -> [People -> ItemStates]]
  BY <1>3, <1>7 DEF MarkSeen, ItemStates, Waiting
<1>8. CASE ListAttention
  BY <1>3, <1>8 DEF ListAttention
<1>9. ASSUME NEW r \in Requests, CommitRequest(r) PROVE items' \in [Intents -> [People -> ItemStates]]
  BY <1>1, <1>4, <1>5, <1>6, <1>9 DEF CommitRequest, CommitExecute, CommitFail, CommitLink
<1>10. ASSUME NEW r \in Requests, ReadHead(r) \/ CommitPublish(r) \/ Lost(r) \/ \E v \in Versions : StagePublish(r, v)
       PROVE  items' = items
  BY <1>10 DEF ReadHead, CommitPublish, Lost, StagePublish
<1>11. ASSUME NEW r \in Requests, NEW p \in People, NEW i \in Intents,
              StartDecision(r, p, i) \/ \E v \in Versions : StartLink(r, p, i, v)
       PROVE  items' = items
  BY <1>11 DEF StartDecision, StartApprove, StartExecute, StartExpire, StartPropose, StartLink
<1>12. ASSUME OtherEntry \/ PassMs \/ \E p \in People : ChangeOwners(p) PROVE items' = items
  BY <1>12 DEF OtherEntry, PassMs, ChangeOwners
<1>13. CASE UNCHANGED gvars
  BY <1>1, <1>13 DEF gvars
<1>14. QED
  BY <1>1, <1>7, <1>8, <1>9, <1>10, <1>11, <1>12, <1>13 DEF GovernanceNext

\* the clock, the owners and the basis have one action each
LEMMA OneActionEach ==
  ASSUME [GovernanceNext]_gvars
  PROVE  /\ ms' = ms \/ PassMs
         /\ UNCHANGED <<owners, joins>> \/ \E p \in People : ChangeOwners(p)
         /\ basis' = basis \/ \E r \in Requests : CommitLink(r)
<1>1. ASSUME NEW r \in Requests, CommitRequest(r) PROVE UNCHANGED <<ms, owners, joins>> /\ (basis' = basis \/ CommitLink(r))
  BY <1>1 DEF CommitRequest, CommitPropose, CommitApprove, CommitExecute, CommitFail, CommitExpire, CommitLink
<1>2. ASSUME NEW r \in Requests, ReadHead(r) \/ CommitPublish(r) \/ Lost(r) \/ \E v \in Versions : StagePublish(r, v)
      PROVE  UNCHANGED <<ms, owners, joins, basis>>
  BY <1>2 DEF ReadHead, CommitPublish, Lost, StagePublish
<1>3. ASSUME NEW r \in Requests, NEW p \in People, NEW i \in Intents,
             StartDecision(r, p, i) \/ \E v \in Versions : StartLink(r, p, i, v)
      PROVE  UNCHANGED <<ms, owners, joins, basis>>
  BY <1>3 DEF StartDecision, StartApprove, StartExecute, StartExpire, StartPropose, StartLink
<1>4. ASSUME ListAttention \/ OtherEntry \/ \E p \in People, i \in Intents : MarkSeen(p, i)
      PROVE  UNCHANGED <<ms, owners, joins, basis>>
  BY <1>4 DEF ListAttention, OtherEntry, MarkSeen
<1>5. CASE PassMs
  BY <1>5 DEF PassMs
<1>6. ASSUME NEW p \in People, ChangeOwners(p) PROVE UNCHANGED <<ms, basis>>
  BY <1>6 DEF ChangeOwners
<1>7. CASE UNCHANGED gvars
  BY <1>7 DEF gvars
<1>8. QED
  BY <1>1, <1>2, <1>3, <1>4, <1>5, <1>6, <1>7 DEF GovernanceNext

\* the basis is touched only by a link whose set is open
LEMMA BasisStep ==
  ASSUME GovernanceInv, [GovernanceNext]_gvars, basis' # basis
  PROVE  \E i \in Intents, v \in Versions :
           /\ intents[i].status = "proposed"
           /\ basis' = basis \cup {<<i, v>>} \/ basis' = basis \ {<<i, v>>}
<1>1. PICK r \in Requests : CommitLink(r)
  BY OneActionEach
<1>2. request[r].intent \in Intents /\ request[r].version \in Versions
  BY <1>1 DEF CommitLink, Ready, GovernanceInv, RequestsSound, RequestSound
<1>3. QED
  BY <1>1, <1>2 DEF CommitLink, BasisOpen

LEMMA IntentsStayTyped == ASSUME GovernanceInv, [GovernanceNext]_gvars PROVE intents' \in [Intents -> IntentRows]
<1>1. /\ intents \in [Intents -> IntentRows] /\ request \in [Requests -> RequestStates] /\ RequestsSound
  BY DEF GovernanceInv, GovernanceTyped, GovernanceTypeOK
<1>2. ASSUME NEW row \in IntentRows, NEW status \in Statuses, NEW updated \in 0..LastMs + 1, NEW fence \in Requests
      PROVE  /\ [row EXCEPT !.status = status, !.updated = updated] \in IntentRows
             /\ [row EXCEPT !.status = status, !.updated = updated, !.fence = fence] \in IntentRows
  BY DEF IntentRows
<1>3. ASSUME NEW r \in Requests PROVE request[r].at \in 0..LastMs + 1 /\ request[r].at + 1 \in 0..LastMs + 1
  <2>1. request[r].at \in 0..LastMs
    BY <1>1 DEF RequestStates
  <2>2. QED
    BY <2>1, GovernanceBounds
<1>4. ASSUME NEW r \in Requests, Proposes(r) PROVE intents' \in [Intents -> IntentRows]
  <2>1. request[r].row \in IntentRows
    BY <1>1 DEF RequestStates
  <2>2. QED
    BY <1>1, <1>4, <2>1 DEF Proposes
<1>5. ASSUME NEW r \in Requests, ExecutesNow(r) PROVE intents' \in [Intents -> IntentRows]
  <2>1. PICK i \in Intents : i = request[r].intent
    BY <1>1, <1>5 DEF ExecutesNow, RequestsSound, RequestSound
  <2>2. PICK updated \in 0..LastMs + 1 : updated = request[r].at + 1
    BY <1>3
  <2>3. intents' = [intents EXCEPT ![i] = [intents[i] EXCEPT !.status = "succeeded", !.updated = updated, !.fence = r]]
    BY <1>1, <1>5, <2>1, <2>2 DEF ExecutesNow
  <2>4. intents[i] \in IntentRows /\ "succeeded" \in Statuses
    BY <1>1 DEF Statuses
  <2>5. [intents[i] EXCEPT !.status = "succeeded", !.updated = updated, !.fence = r] \in IntentRows
    BY <1>2, <2>4
  <2>6. QED
    BY <1>1, <2>3, <2>5
<1>6. ASSUME NEW r \in Requests, Approves(r) \/ Closes(r, "failed") \/ Closes(r, "expired")
      PROVE  intents' \in [Intents -> IntentRows]
  <2>1. PICK status \in Statuses : intents' =
          [intents EXCEPT ![request[r].intent].status = status, ![request[r].intent].updated = request[r].at]
    BY <1>6 DEF Approves, Closes, Statuses
  <2>2. PICK i \in Intents : i = request[r].intent
    BY <1>1, <1>6 DEF Approves, Closes, RequestsSound, RequestSound
  <2>3. PICK updated \in 0..LastMs + 1 : updated = request[r].at
    BY <1>3
  <2>4. intents' = [intents EXCEPT ![i] = [intents[i] EXCEPT !.status = status, !.updated = updated]]
    BY <1>1, <2>1, <2>2, <2>3
  <2>5. intents[i] \in IntentRows
    BY <1>1
  <2>6. [intents[i] EXCEPT !.status = status, !.updated = updated] \in IntentRows
    BY <1>2, <2>5
  <2>7. QED
    BY <1>1, <2>4, <2>6
<1>7. QED
  BY <1>1, <1>4, <1>5, <1>6, GovernanceSteps DEF GovernanceRows, Publishes

LEMMA LedgerStaysTyped ==
  ASSUME GovernanceInv, [GovernanceNext]_gvars PROVE ledger' \in Seq(Entries) /\ Len(ledger') <= MaxLedger
<1>1. ledger \in Seq(Entries) /\ Len(ledger) \in Nat /\ Len(ledger) <= MaxLedger /\ RequestsSound
  BY LedgerLength DEF GovernanceInv, GovernanceTyped, GovernanceTypeOK
<1>2. ASSUME NEW entry \in Entries PROVE Append(ledger, entry) \in Seq(Entries) /\ Len(Append(ledger, entry)) = Len(ledger) + 1
  BY <1>1, AppendProperties
<1>3. CASE EntersOther
  BY <1>1, <1>2, <1>3, GovernanceBounds DEF EntersOther
<1>4. ASSUME NEW r \in Requests, Proposes(r) \/ Approves(r) \/ ExecutesNow(r) \/ Closes(r, "failed") \/ Closes(r, "expired")
      PROVE  ledger' \in Seq(Entries) /\ Len(ledger') <= MaxLedger
  <2>1. PICK i \in Intents : i = request[r].intent
    BY <1>1, <1>4 DEF Proposes, Approves, ExecutesNow, Closes, RequestsSound, RequestSound
  <2>2. \A kind \in {"proposed", "approved", "started", "succeeded", "failed", "expired"} : Entry(kind, i) \in Entries
    BY DEF Entry, Entries
  <2>3. Len(ledger) + 2 <= MaxLedger
    BY <1>4 DEF Proposes, Approves, ExecutesNow, Closes
  <2>4. CASE ExecutesNow(r)
    <3> DEFINE both == <<Entry("started", i), Entry("succeeded", i)>>
    <3>1. both \in Seq(Entries) /\ Len(both) = 2
      BY <2>2
    <3>2. ledger' = ledger \o both
      BY <2>1, <2>4 DEF ExecutesNow
    <3> HIDE DEF both
    <3>3. ledger' \in Seq(Entries) /\ Len(ledger') = Len(ledger) + Len(both)
      BY <1>1, <3>1, <3>2, ConcatProperties
    <3>4. QED
      BY <1>1, <2>3, <3>1, <3>3, GovernanceBounds
  <2>5. CASE ~ExecutesNow(r)
    <3>1. PICK entry \in Entries : ledger' = Append(ledger, entry)
      BY <1>4, <2>1, <2>2, <2>5 DEF Proposes, Approves, Closes
    <3>2. QED
      BY <1>1, <1>2, <2>3, <3>1, GovernanceBounds
  <2>6. QED
    BY <2>4, <2>5
<1>5. QED
  BY <1>1, <1>3, <1>4, GovernanceSteps DEF Publishes

LEMMA ApprovalsStep ==
  ASSUME GovernanceInv, [GovernanceNext]_gvars PROVE approvals' \subseteq Approvals /\ IsFiniteSet(approvals')
<1>1. approvals \subseteq Approvals /\ IsFiniteSet(approvals) /\ request \in [Requests -> RequestStates] /\ RequestsSound
  BY DEF GovernanceInv, GovernanceTyped, GovernanceTypeOK
<1>2. ASSUME NEW r \in Requests, Approves(r) PROVE approvals' \subseteq Approvals /\ IsFiniteSet(approvals')
  <2> DEFINE approval == [intent |-> request[r].intent, actor |-> request[r].actor, at |-> request[r].at]
  <2>1. request[r].at \in 0..LastMs
    BY <1>1 DEF RequestStates
  <2>2. request[r].intent \in Intents /\ request[r].actor \in People
    BY <1>1, <1>2 DEF Approves, RequestsSound, RequestSound
  <2>3. approval \in Approvals
    BY <2>1, <2>2 DEF Approvals
  <2>4. approvals' = approvals \cup {approval}
    BY <1>2 DEF Approves
  <2> HIDE DEF approval
  <2>5. QED
    BY <1>1, <2>3, <2>4, FS_AddElement
<1>3. QED
  BY <1>1, <1>2, GovernanceSteps DEF GovernanceRows, Proposes, ExecutesNow, Closes, Publishes

LEMMA PayloadsStayTyped ==
  ASSUME GovernanceInv, [GovernanceNext]_gvars
  PROVE  /\ payload' \in [Versions -> Versions \cup {Nothing}] /\ erased' \subseteq Versions
         /\ IsFiniteSet(Written')
<1>1. /\ payload \in [Versions -> Versions \cup {Nothing}] /\ IsFiniteSet(Written) /\ RequestsSound
      /\ erased \subseteq Versions /\ LivePayloads \subseteq Versions
  BY DEF GovernanceInv, GovernanceTyped, GovernanceTypeOK, LivePayloads, Written
<1>2. payload' \in [Versions -> Versions \cup {Nothing}]
  <2>1. ASSUME NEW r \in Requests, Publishes(r) PROVE payload' \in [Versions -> Versions \cup {Nothing}]
    <3>1. request[r].to \subseteq Versions
      BY <1>1, <2>1 DEF Publishes, RequestsSound, RequestSound
    <3>2. QED
      BY <1>1, <2>1, <3>1 DEF Publishes
  <2>2. QED
    BY <1>1, <2>1, GovernanceSteps DEF GovernanceRows, Proposes, Approves, ExecutesNow, Closes
<1>3. erased' \subseteq Versions
  BY <1>1, GovernanceSteps DEF GovernanceRows, Proposes, Approves, ExecutesNow, Closes, Publishes
<1>4. IsFiniteSet(Written')
  <2>1. Written' = Written \/ \E v : Written' \subseteq Written \cup {v}
    <3>1. ASSUME NEW r \in Requests, Publishes(r) PROVE Written' \subseteq Written \cup {request[r].version}
      BY <1>1, <3>1 DEF Publishes, Written
    <3>2. QED
      BY <3>1, GovernanceSteps DEF GovernanceRows, Written, Proposes, Approves, ExecutesNow, Closes
  <2>2. QED
    BY <1>1, <2>1, FS_AddElement, FS_Subset
<1>5. QED
  BY <1>2, <1>3, <1>4

LEMMA GovernanceStaysTyped == ASSUME GovernanceInv, [GovernanceNext]_gvars PROVE GovernanceTyped'
<1>1. GovernanceTypeOK
  BY DEF GovernanceInv, GovernanceTyped
<1>2. ms' \in 0..LastMs
  <2>1. QED
    BY <1>1, OneActionEach, GovernanceBounds DEF GovernanceTypeOK, PassMs
<1>3. owners' \subseteq People /\ joins' \in 0..MaxJoins
  <2>1. QED
    BY <1>1, OneActionEach, GovernanceBounds DEF GovernanceTypeOK, ChangeOwners
<1>4. basis' \subseteq Intents \X Versions
  <2>1. basis \subseteq Intents \X Versions
    BY <1>1 DEF GovernanceTypeOK
  <2>2. QED
    BY <2>1, BasisStep
<1>5. QED
  BY <1>2, <1>3, <1>4, ItemsStep, IntentsStayTyped, LedgerStaysTyped, ApprovalsStep, PayloadsStayTyped, RequestsStayTyped
     DEF GovernanceTyped, GovernanceTypeOK, ItemStates

LEMMA GovernanceStays == GovernanceInv /\ [GovernanceNext]_gvars => GovernanceInv'
<1> SUFFICES ASSUME GovernanceInv, [GovernanceNext]_gvars PROVE GovernanceInv'
  OBVIOUS
<1>1. QED
  BY GovernanceStaysTyped, RequestsStaySound, RequestsStayApart, IntentsStaySound, PayloadsStaySound,
     LedgerTellsStep, ErasedStep DEF GovernanceInv

LEMMA GovernanceHolds == GovernanceSpec => []GovernanceInv
<1>1. GovernanceInit => GovernanceInv
  BY GovernanceStarts
<1>2. GovernanceInv /\ [GovernanceNext]_gvars => GovernanceInv'
  BY GovernanceStays
<1>3. QED
  BY <1>1, <1>2, PTL DEF GovernanceSpec

-----------------------------------------------------------------------------
(* Theorems *)

(* Every variable keeps its type: no request, row or entry leaves the sets  *)
(* the tables allow, and the ledger never exceeds its bound.                *)
THEOREM GovernanceTypes == GovernanceSpec => []GovernanceTypeOK
<1>1. GovernanceInv => GovernanceTypeOK
  BY DEF GovernanceInv, GovernanceTyped
<1>2. QED
  BY <1>1, GovernanceHolds, PTL

(* The ledger tells what became of every intent, whichever requests race:   *)
(* the conditional rows and entries of governance-repository.ts agree.      *)
THEOREM LedgerAgreesWithIntents == GovernanceSpec => []LedgerTellsAll
<1>1. GovernanceInv => LedgerTellsAll
  BY DEF GovernanceInv
<1>2. QED
  BY <1>1, GovernanceHolds, PTL

(* Nothing is erased that an approver did not see, although the batch of    *)
(* executeArtifactErasureIntent compares only how many versions there are.  *)
THEOREM NothingElseErased == GovernanceSpec => []ErasedAsApproved
<1>1. GovernanceInv => ErasedAsApproved
  BY DEF GovernanceInv
<1>2. QED
  BY <1>1, GovernanceHolds, PTL

(* The evidence of an intent changes only while it is proposed: the triggers*)
(* of intent_artifact_evidence decide, not what the request had read.       *)
THEOREM BasisStaysFrozen == GovernanceSpec => BasisFrozen
<1> DEFINE Frozen == \A i \in Intents, v \in Versions :
       intents[i].status \notin {"none", "proposed"} => (<<i, v>> \in basis' <=> <<i, v>> \in basis)
<1>1. GovernanceInv /\ [GovernanceNext]_gvars => [Frozen]_gvars
  <2> SUFFICES ASSUME GovernanceInv, [GovernanceNext]_gvars PROVE Frozen
    OBVIOUS
  <2>1. CASE basis' = basis
    BY <2>1
  <2>2. CASE basis' # basis
    <3>1. PICK i \in Intents, v \in Versions :
            /\ intents[i].status = "proposed"
            /\ basis' = basis \cup {<<i, v>>} \/ basis' = basis \ {<<i, v>>}
      BY <2>2, BasisStep
    <3>2. QED
      BY <3>1
  <2>3. QED
    BY <2>1, <2>2
<1>2. QED
  BY <1>1, GovernanceHolds, PTL DEF GovernanceSpec, BasisFrozen

-----------------------------------------------------------------------------

(* Registry, for every depth the walk along a chain is bounded by. That     *)
(* there is no cycle is not local to a step: the chain from an artifact on  *)
(* is a recursive function (ChainFollows gives its values), one successor   *)
(* each is what makes a chain of it, and a new last link closes no cycle    *)
(* since the walk of the trigger would have met the source (CyclesStep).    *)

(* What a request carries from what it read to its batch: the rows it names *)
(* are there and stay there.                                                *)
RequestShaped(q, relationsLength, reviewsLength) ==
  /\ q.kind = "declare" =>
       /\ q.relation.source \in Artifacts /\ q.relation.target \in Artifacts
       /\ q.relation.status = "active"
  /\ q.kind = "retract" => q.id \in 1..relationsLength
  /\ q.kind = "review" => q.review.replaces \in 0..reviewsLength /\ q.review.status = "active"

RegistryTyped ==
  /\ RegistryTypeOK
  /\ Len(relations) <= MaxRelations /\ Len(reviews) <= MaxReviews
  /\ \A r \in RegRequests : RequestShaped(regRequest[r], Len(relations), Len(reviews))

(* An artifact has one active relation to a successor at most.              *)
OneSuccessor ==
  \A s, t \in DOMAIN relations :
    /\ relations[s].status = "active" /\ relations[t].status = "active"
    /\ relations[s].source = relations[t].source
    => s = t

RegistryInv == RegistryTyped /\ OneSuccessor /\ NoSupersessionCycle /\ OneOpinion

-----------------------------------------------------------------------------
(* Types *)

LEMMA RegistryBounds ==
  /\ VersionMax \in Nat /\ VersionMax > 0 /\ MaxDepth \in Nat /\ MaxTurns \in Nat /\ MaxRelations \in Nat /\ MaxReviews \in Nat
  /\ Nobody \notin Artifacts /\ Nobody \notin Curators
  BY RegistryAssumption

LEMMA NoRequestTyped ==
  /\ NoRelation \in RelationRows /\ NoReview \in ReviewRows /\ NoRequest \in RegRequestRows
  /\ \A m, n \in Nat : RequestShaped(NoRequest, m, n)
<1>1. NoRelation \in RelationRows /\ NoReview \in ReviewRows
  BY RegistryBounds DEF NoRelation, NoReview, RelationRows, ReviewRows, Verdicts
<1>2. QED
  BY <1>1, RegistryBounds DEF NoRequest, RegRequestRows, RequestShaped

LEMMA LengthsTyped ==
  ASSUME RegistryTyped
  PROVE  /\ Len(relations) \in Nat /\ Len(reviews) \in Nat
         /\ DOMAIN relations = 1..Len(relations) /\ DOMAIN reviews = 1..Len(reviews)
         /\ \A a \in Artifacts : Current(a) \in 0..VersionMax /\ DOMAIN versions[a] = 1..Current(a)
<1>1. relations \in Seq(RelationRows) /\ reviews \in Seq(ReviewRows)
  BY DEF RegistryTyped, RegistryTypeOK
<1>2. ASSUME NEW a \in Artifacts PROVE Current(a) \in 0..VersionMax /\ DOMAIN versions[a] = 1..Current(a)
  <2>1. versions[a] \in Seq(VersionRows) /\ Current(a) <= VersionMax
    BY DEF RegistryTyped, RegistryTypeOK
  <2>2. Len(versions[a]) \in Nat /\ DOMAIN versions[a] = 1..Len(versions[a])
    BY <2>1, LenProperties
  <2>3. QED
    BY <2>1, <2>2, RegistryBounds DEF Current
<1>3. QED
  BY <1>1, <1>2, LenProperties

LEMMA RegistryStarts == RegistryInit => RegistryInv
<1> SUFFICES ASSUME RegistryInit PROVE RegistryInv
  OBVIOUS
<1>1. /\ relations = <<>> /\ reviews = <<>> /\ relations \in Seq(RelationRows) /\ reviews \in Seq(ReviewRows)
      /\ Len(relations) = 0 /\ Len(reviews) = 0 /\ DOMAIN relations = {} /\ DOMAIN reviews = {}
  BY EmptySeq, LenProperties DEF RegistryInit
<1>2. regRequest \in [RegRequests -> RegRequestRows] /\ \A r \in RegRequests : regRequest[r] = NoRequest
  BY NoRequestTyped DEF RegistryInit
<1>3. versions \in [Artifacts -> Seq(VersionRows)] /\ \A a \in Artifacts : Current(a) \in {0, 1}
  <2>1. versions \in [Artifacts ->
       {<<>>} \cup {<<row>> : row \in [by : Curators, content : Contents, live : {TRUE}]}]
    BY DEF RegistryInit
  <2>2. ASSUME NEW row \in [by : Curators, content : Contents, live : {TRUE}]
        PROVE  <<row>> \in Seq(VersionRows) /\ Len(<<row>>) = 1
    <3>1. row \in VersionRows
      BY DEF VersionRows
    <3> HIDE DEF Contents
    <3>2. QED
      BY <3>1
  <2>3. <<>> \in Seq(VersionRows) /\ Len(<<>>) = 0
    BY EmptySeq
  <2>4. QED
    BY <2>1, <2>2, <2>3 DEF Current
<1>4. RegistryTyped
  <2>1. \A a \in Artifacts : Current(a) <= VersionMax
    BY <1>3, RegistryBounds
  <2>2. roles \in [Curators -> Roles] /\ turns \in 0..MaxTurns
    BY RegistryBounds DEF RegistryInit
  <2>3. \A r \in RegRequests : RequestShaped(regRequest[r], Len(relations), Len(reviews))
    BY <1>1, <1>2, NoRequestTyped
  <2>4. QED
    BY <1>1, <1>2, <1>3, <2>1, <2>2, <2>3, RegistryBounds DEF RegistryTyped, RegistryTypeOK
<1>5. OneSuccessor /\ OneOpinion
  BY <1>1 DEF OneSuccessor, OneOpinion
<1>6. NoSupersessionCycle
  <2>1. \A a \in Artifacts : ActiveFrom(a) = {}
    BY <1>1 DEF ActiveFrom
  <2>2. \A a \in Artifacts : Successor(a) = Nobody
    BY <2>1 DEF Successor
  <2>3. QED
    BY <2>2, RegistryBounds DEF NoSupersessionCycle
<1>7. QED
  BY <1>4, <1>5, <1>6 DEF RegistryInv

-----------------------------------------------------------------------------
(* What a step does to the relations and the reviews *)

Declares(row) ==
  /\ row \in RelationRows /\ row.status = "active" /\ row.source \in Artifacts /\ row.target \in Artifacts
  /\ RelationAccepted(row) /\ Len(relations) < MaxRelations
  /\ relations' = Append(relations, row) /\ UNCHANGED reviews

Retracts(s) ==
  /\ s \in 1..Len(relations)
  /\ relations' = [relations EXCEPT ![s].status = "retracted"] /\ UNCHANGED reviews

Opines(row, same) ==
  /\ row \in ReviewRows /\ row.status = "active" /\ row.replaces \in 0..Len(reviews)
  /\ OpinionAccepted(row, same) /\ Len(reviews) < MaxReviews
  /\ reviews' = Append(Superseded(row), row) /\ UNCHANGED relations

LEMMA RegistrySteps ==
  ASSUME RegistryTyped, [RegistryNext]_rvars
  PROVE  \/ UNCHANGED <<relations, reviews>>
         \/ \E row : Declares(row)
         \/ \E s : Retracts(s)
         \/ \E row : \E same \in BOOLEAN : Opines(row, same)
<1>1. CASE UNCHANGED rvars
  BY <1>1 DEF rvars
<1>2. ASSUME NEW r \in RegRequests, CommitDeclare(r)
      PROVE  UNCHANGED <<relations, reviews>> \/ Declares(regRequest[r].relation)
  BY <1>2 DEF CommitDeclare, Declares, RegistryTyped, RegistryTypeOK, RequestShaped, RegRequestRows
<1>3. ASSUME NEW r \in RegRequests, CommitRetract(r)
      PROVE  UNCHANGED <<relations, reviews>> \/ Retracts(regRequest[r].id)
  BY <1>3 DEF CommitRetract, Retracts, RegistryTyped, RegistryTypeOK, RequestShaped, RegRequestRows
<1>4. ASSUME NEW r \in RegRequests, NEW same \in BOOLEAN, CommitReview(r, same)
      PROVE  UNCHANGED <<relations, reviews>> \/ Opines(regRequest[r].review, same)
  BY <1>4 DEF CommitReview, Opines, RegistryTyped, RegistryTypeOK, RequestShaped, RegRequestRows
<1>5. ASSUME NEW r \in RegRequests, ReadRegistryHead(r) PROVE UNCHANGED <<relations, reviews>>
  BY <1>5 DEF ReadRegistryHead
<1>6. ASSUME NEW r \in RegRequests, NEW p \in Curators, NEW a, NEW b, NEW verdict,
             StartRetract(r, p, a) \/ StartDeclare(r, p, a, b) \/ StartReview(r, p, a, b, verdict)
      PROVE  UNCHANGED <<relations, reviews>>
  BY <1>6 DEF StartRetract, StartDeclare, StartReview
<1>7. ASSUME NEW a, NEW b, NEW c, ErasePayload(a, b) \/ NewVersion(a, b, c) \/ ChangeRole(a, b)
      PROVE  UNCHANGED <<relations, reviews>>
  BY <1>7 DEF ErasePayload, NewVersion, ChangeRole
<1>8. CASE RegistryNext
  <2>1. CASE \E r \in RegRequests :
               \/ ReadRegistryHead(r) \/ CommitDeclare(r) \/ CommitRetract(r)
               \/ \E same \in BOOLEAN : CommitReview(r, same)
    BY <2>1, <1>2, <1>3, <1>4, <1>5
  <2>2. CASE \E r \in RegRequests, p \in Curators :
               \/ \E s \in DOMAIN relations : StartRetract(r, p, s)
               \/ \E a, b \in Artifacts : StartDeclare(r, p, a, b)
               \/ \E a \in Artifacts, n \in 1..VersionMax, verdict \in Verdicts : StartReview(r, p, a, n, verdict)
    BY <2>2, <1>6
  <2>3. CASE \/ \E a \in Artifacts, n \in 1..VersionMax : ErasePayload(a, n)
             \/ \E a \in Artifacts, p \in Curators, c \in Contents : NewVersion(a, p, c)
             \/ \E p \in Curators, role \in Roles : ChangeRole(p, role)
    BY <2>3, <1>7
  <2>4. QED
    BY <1>8, <2>1, <2>2, <2>3 DEF RegistryNext
<1>9. QED
  BY <1>1, <1>8

-----------------------------------------------------------------------------
(* Opinions *)

LEMMA OpinionsStep == ASSUME RegistryTyped, OneOpinion, [RegistryNext]_rvars PROVE OneOpinion'
<1>1. CASE UNCHANGED reviews
  BY <1>1 DEF OneOpinion, SameOpinion
<1>2. ASSUME NEW row, NEW same \in BOOLEAN, Opines(row, same) PROVE OneOpinion'
  <2> DEFINE n == Len(reviews)
             old == row.replaces
  <2>1. /\ reviews \in Seq(ReviewRows) /\ n \in Nat /\ DOMAIN reviews = 1..n
        /\ row \in ReviewRows /\ row.status = "active" /\ old \in 0..n
    BY <1>2, LengthsTyped DEF Opines, RegistryTyped, RegistryTypeOK
  <2>2. /\ Superseded(row) \in Seq(ReviewRows) /\ Len(Superseded(row)) = n
        /\ \A v \in 1..n : IF v = old /\ reviews[v].status = "active"
                           THEN Superseded(row)[v] = [reviews[v] EXCEPT !.status = "superseded"]
                           ELSE Superseded(row)[v] = reviews[v]
    <3>1. CASE old # 0 /\ reviews[old].status = "active"
      <4>1. old \in 1..n /\ reviews[old] \in ReviewRows
        BY <2>1, <3>1
      <4>2. [reviews[old] EXCEPT !.status = "superseded"] \in ReviewRows
        BY <4>1 DEF ReviewRows
      <4>3. Superseded(row) = [reviews EXCEPT ![old] = [reviews[old] EXCEPT !.status = "superseded"]]
        BY <3>1 DEF Superseded
      <4> DEFINE e == [reviews[old] EXCEPT !.status = "superseded"]
      <4> HIDE DEF e
      <4>4. e \in ReviewRows /\ Superseded(row) = [reviews EXCEPT ![old] = e]
        BY <4>2, <4>3 DEF e
      <4>5. /\ Superseded(row) \in Seq(ReviewRows) /\ Len(Superseded(row)) = n
            /\ \A j \in 1..n : Superseded(row)[j] = IF j = old THEN e ELSE reviews[j]
        BY <2>1, <4>1, <4>4, ExceptSeq
      <4>6. QED
        BY <3>1, <4>5 DEF e
    <3>2. CASE ~(old # 0 /\ reviews[old].status = "active")
      BY <2>1, <3>2 DEF Superseded
    <3>3. QED
      BY <3>1, <3>2
  <2>3. /\ DOMAIN reviews' = 1..n + 1 /\ reviews'[n + 1] = row
        /\ \A v \in 1..n : reviews'[v] = Superseded(row)[v]
    <3>1. reviews' = Append(Superseded(row), row)
      BY <1>2 DEF Opines
    <3>2. /\ reviews' \in Seq(ReviewRows) /\ Len(reviews') = n + 1 /\ reviews'[n + 1] = row
          /\ \A v \in 1..n : reviews'[v] = Superseded(row)[v]
      BY <2>1, <2>2, <3>1, AppendProperties
    <3>3. QED
      BY <3>2, LenProperties
  <2>4. /\ \A v \in 1..n : /\ reviews'[v].artifact = reviews[v].artifact /\ reviews'[v].version = reviews[v].version
                           /\ reviews'[v].by = reviews[v].by /\ reviews'[v].replaces = reviews[v].replaces
                           /\ reviews'[v].status = "active" => reviews[v].status = "active" /\ v # old
                           /\ reviews'[v].status = "superseded" => reviews[v].status = "superseded" \/ v = old
    <3>1. \A v \in 1..n : reviews[v] \in ReviewRows
      BY <2>1
    <3>2. ASSUME NEW v \in 1..n
          PROVE  /\ reviews'[v].artifact = reviews[v].artifact /\ reviews'[v].version = reviews[v].version
                 /\ reviews'[v].by = reviews[v].by /\ reviews'[v].replaces = reviews[v].replaces
                 /\ reviews'[v].status = "active" => reviews[v].status = "active" /\ v # old
                 /\ reviews'[v].status = "superseded" => reviews[v].status = "superseded" \/ v = old
      <4>1. reviews'[v] = Superseded(row)[v] /\ reviews[v] \in ReviewRows
        BY <2>3, <3>1
      <4>2. CASE v = old /\ reviews[v].status = "active"
        <5>1. reviews'[v] = [reviews[v] EXCEPT !.status = "superseded"]
          BY <2>2, <4>1, <4>2
        <5>2. QED
          BY <4>1, <4>2, <5>1 DEF ReviewRows
      <4>3. CASE ~(v = old /\ reviews[v].status = "active")
        BY <2>2, <4>1, <4>3
      <4>4. QED
        BY <4>2, <4>3
    <3>3. QED
      BY <3>2
  <2>5. \A v \in 1..n : reviews'[v].status = "active" =>
          ~(reviews[v].artifact = row.artifact /\ reviews[v].version = row.version /\ reviews[v].by = row.by)
    <3>1. ActiveOpinions(row.artifact, row.version, row.by) \ {old} = {}
      BY <1>2 DEF Opines, OpinionAccepted
    <3>2. QED
      BY <2>1, <2>4, <3>1 DEF ActiveOpinions, SameOpinion
  <2>6. old # 0 => \A w \in 1..n : reviews[w].replaces # old
    BY <1>2, <2>1 DEF Opines, OpinionAccepted
  <2>7. ASSUME NEW v \in 1..n + 1, NEW w \in 1..n + 1, v # w,
               reviews'[v].status = "active", reviews'[w].status = "active"
        PROVE  ~SameOpinion(v, reviews[w].artifact, reviews[w].version, reviews[w].by)'
    <3>1. CASE v \in 1..n /\ w \in 1..n
      <4>1. reviews[v].status = "active" /\ reviews[w].status = "active"
        BY <2>4, <2>7, <3>1
      <4>2. ~SameOpinion(v, reviews[w].artifact, reviews[w].version, reviews[w].by)
        BY <2>1, <2>7, <3>1, <4>1 DEF OneOpinion
      <4>3. QED
        BY <2>4, <3>1, <4>2 DEF SameOpinion
    <3>2. CASE v = n + 1 /\ w \in 1..n
      BY <2>1, <2>3, <2>4, <2>5, <2>7, <3>2 DEF SameOpinion
    <3>3. CASE v \in 1..n /\ w = n + 1
      BY <2>1, <2>3, <2>4, <2>5, <2>7, <3>3 DEF SameOpinion
    <3>4. QED
      BY <2>1, <2>7, <3>1, <3>2, <3>3
  <2>8. ASSUME NEW v \in 1..n + 1, reviews'[v].status = "superseded"
        PROVE  Cardinality({x \in 1..n + 1 : reviews'[x].replaces = v}) = 1
    <3>1. v \in 1..n
      BY <2>1, <2>3, <2>8
    <3>2. CASE v = old
      <4>1. {x \in 1..n + 1 : reviews'[x].replaces = v} = {n + 1}
        BY <2>1, <2>3, <2>4, <2>6, <3>1, <3>2
      <4>2. QED
        BY <4>1, FS_Singleton
    <3>3. CASE v # old
      <4>1. {x \in 1..n + 1 : reviews'[x].replaces = v} = {x \in 1..n : reviews[x].replaces = v}
        BY <2>1, <2>3, <2>4, <3>1, <3>3
      <4>2. reviews[v].status = "superseded"
        BY <2>4, <2>8, <3>1, <3>3
      <4>3. QED
        BY <2>1, <3>1, <4>1, <4>2 DEF OneOpinion
    <3>4. QED
      BY <3>2, <3>3
  <2>9. QED
    BY <2>3, <2>7, <2>8 DEF OneOpinion
<1>3. QED
  BY <1>1, <1>2, RegistrySteps DEF Declares, Retracts

-----------------------------------------------------------------------------
(* Chains of relations *)

\* a set of numbers that has one has a least one
LEMMA LeastNumber == ASSUME NEW T \in SUBSET Nat, T # {} PROVE \E m \in T : \A k \in T : m <= k
<1> DEFINE R == {ss \in Nat \X Nat : ss[1] < ss[2]}
<1>1. IsWellFoundedOn(R, Nat)
  BY NatLessThanWellFounded DEF OpToRel
<1> HIDE DEF R
<1>2. PICK m \in T : \A k \in T : <<k, m>> \notin R
  BY <1>1, WFMin
<1>3. ASSUME NEW k \in T PROVE m <= k
  <2>1. k \in Nat /\ m \in Nat /\ <<k, m>> \notin R
    BY <1>2
  <2>2. ~(k < m)
    BY <2>1 DEF R
  <2>3. QED
    BY <2>1, <2>2
<1>4. QED
  BY <1>3

\* induction over the numbers, for a set instead of a predicate
LEMMA Inductive == ASSUME NEW S \in SUBSET Nat, 0 \in S, \A n \in S : n + 1 \in S PROVE S = Nat
<1> DEFINE T == Nat \ S
<1>1. SUFFICES ASSUME T # {} PROVE FALSE
  OBVIOUS
<1>2. PICK m \in T : \A k \in T : m <= k
  BY <1>1, LeastNumber
<1>3. m # 0 /\ m - 1 \in S
  BY <1>2
<1>4. QED
  BY <1>2, <1>3

\* the recursive definition of the trigger's query has a value
LEMMA ChainFollows ==
  ASSUME NEW b
  PROVE  Chain(b)[0] = b /\ \A d \in 1..MaxDepth : Chain(b)[d] = Successor(Chain(b)[d - 1])
<1> DEFINE Walks(f, n) == f = [d \in 0..n |-> IF d = 0 THEN b ELSE Successor(f[d - 1])]
           S == {n \in Nat : \E f : Walks(f, n)}
<1>1. 0 \in S
  <2>1. Walks([d \in 0..0 |-> b], 0)
    OBVIOUS
  <2>2. QED
    BY <2>1
<1>2. ASSUME NEW n \in S PROVE n + 1 \in S
  <2>1. PICK f : Walks(f, n)
    OBVIOUS
  <2> DEFINE g == [d \in 0..n + 1 |-> IF d <= n THEN f[d] ELSE Successor(f[n])]
  <2>2. n \in Nat /\ 0..n \subseteq 0..n + 1
    OBVIOUS
  <2>3. ASSUME NEW d \in 0..n + 1 PROVE g[d] = IF d = 0 THEN b ELSE Successor(g[d - 1])
    <3>1. CASE d = 0
      BY <2>1, <2>2, <3>1
    <3>2. CASE d \in 1..n
      <4>1. f[d] = Successor(f[d - 1]) /\ d - 1 \in 0..n
        BY <2>1, <2>2, <3>2
      <4>2. g[d] = f[d] /\ g[d - 1] = f[d - 1]
        BY <2>2, <3>2, <4>1
      <4>3. QED
        BY <2>2, <3>2, <4>1, <4>2
    <3>3. CASE d = n + 1
      <4>1. g[d] = Successor(f[n]) /\ g[n] = f[n]
        BY <2>2, <3>3
      <4>2. d - 1 = n /\ d # 0
        BY <2>2, <3>3
      <4>3. QED
        BY <4>1, <4>2
    <3>4. QED
      BY <2>2, <3>1, <3>2, <3>3
  <2>4. g = [d \in 0..n + 1 |-> g[d]]
    OBVIOUS
  <2> HIDE DEF g
  <2>5. Walks(g, n + 1)
    BY <2>3, <2>4
  <2>6. QED
    BY <2>2, <2>5
<1>3. S = Nat
  <2> HIDE DEF S
  <2>1. S \in SUBSET Nat
    BY DEF S
  <2>2. QED
    BY <1>1, <1>2, <2>1, Inductive
<1>4. \E f : Walks(f, MaxDepth)
  BY <1>3, RegistryBounds
<1>5. Chain(b) = CHOOSE f : Walks(f, MaxDepth)
  BY DEF Chain
<1>6. Walks(Chain(b), MaxDepth)
  <2> HIDE DEF Walks
  <2>1. QED
    BY <1>4, <1>5
<1>7. QED
  BY <1>6, RegistryBounds

\* what follows an artifact after a step: what followed it, nothing, or,
\* for the source of a relation just accepted, its target
LEMMA SuccessorsStep ==
  ASSUME RegistryTyped, OneSuccessor, [RegistryNext]_rvars
  PROVE  /\ OneSuccessor'
         /\ \/ \A a \in Artifacts : Successor(a)' \in {Successor(a), Nobody}
            \/ \E a, b \in Artifacts : /\ NoCycle(a, b) /\ Successor(a)' = b
                                       /\ \A x \in Artifacts \ {a} : Successor(x)' = Successor(x)
<1> DEFINE n == Len(relations)
<1>1. n \in Nat /\ DOMAIN relations = 1..n /\ relations \in Seq(RelationRows)
  BY LengthsTyped DEF RegistryTyped, RegistryTypeOK
<1>2. CASE UNCHANGED relations
  <2>1. \A a : Successor(a)' = Successor(a)
    BY <1>2 DEF Successor, ActiveFrom
  <2>2. OneSuccessor'
    BY <1>2 DEF OneSuccessor
  <2>3. QED
    BY <2>1, <2>2
<1>3. ASSUME NEW s, Retracts(s)
      PROVE  OneSuccessor' /\ \A a \in Artifacts : Successor(a)' \in {Successor(a), Nobody}
  <2>1. s \in 1..n /\ relations[s] \in RelationRows
    BY <1>1, <1>3 DEF Retracts
  <2>2. /\ DOMAIN relations' = 1..n
        /\ relations'[s].status = "retracted"
        /\ \A t \in 1..n : relations'[t].source = relations[t].source /\ relations'[t].target = relations[t].target
        /\ \A t \in 1..n \ {s} : relations'[t] = relations[t]
    <3> DEFINE e == [relations[s] EXCEPT !.status = "retracted"]
    <3>1. e \in RelationRows /\ e.status = "retracted" /\ e.source = relations[s].source /\ e.target = relations[s].target
      BY <2>1 DEF RelationRows
    <3>2. relations' = [relations EXCEPT ![s] = e]
      BY <1>3 DEF Retracts
    <3> HIDE DEF e
    <3>3. /\ relations' \in Seq(RelationRows) /\ Len(relations') = n
          /\ \A t \in 1..n : relations'[t] = IF t = s THEN e ELSE relations[t]
      BY <1>1, <2>1, <3>1, <3>2, ExceptSeq
    <3>4. DOMAIN relations' = 1..n
      BY <3>3, LenProperties
    <3>5. QED
      BY <2>1, <3>1, <3>3, <3>4
  <2>3. OneSuccessor'
    BY <1>1, <2>1, <2>2 DEF OneSuccessor
  <2>4. ASSUME NEW a \in Artifacts PROVE Successor(a)' \in {Successor(a), Nobody}
    <3>1. CASE s \in ActiveFrom(a)
      <4>1. ActiveFrom(a) = {s}
        BY <3>1 DEF ActiveFrom, OneSuccessor
      <4>2. ActiveFrom(a)' = {}
        BY <1>1, <2>2, <4>1 DEF ActiveFrom
      <4>3. QED
        BY <4>2 DEF Successor
    <3>2. CASE s \notin ActiveFrom(a)
      <4>1. ActiveFrom(a)' = ActiveFrom(a)
        BY <1>1, <2>1, <2>2, <3>2 DEF ActiveFrom
      <4>2. \A t \in ActiveFrom(a) : relations'[t].target = relations[t].target
        BY <1>1, <2>2 DEF ActiveFrom
      <4>3. CASE ActiveFrom(a) = {}
        BY <4>1, <4>3 DEF Successor
      <4>4. CASE ActiveFrom(a) # {}
        <5>1. (CHOOSE t \in ActiveFrom(a) : TRUE) \in ActiveFrom(a)
          BY <4>4
        <5>2. QED
          BY <4>1, <4>2, <4>4, <5>1 DEF Successor
      <4>5. QED
        BY <4>3, <4>4
    <3>3. QED
      BY <3>1, <3>2
  <2>5. QED
    BY <2>3, <2>4
<1>4. ASSUME NEW row, Declares(row)
      PROVE  /\ OneSuccessor'
             /\ NoCycle(row.source, row.target) /\ Successor(row.source)' = row.target
             /\ row.source \in Artifacts /\ row.target \in Artifacts
             /\ \A x \in Artifacts \ {row.source} : Successor(x)' = Successor(x)
  <2>1. /\ row \in RelationRows /\ row.status = "active" /\ row.source \in Artifacts /\ row.target \in Artifacts
        /\ NoCycle(row.source, row.target) /\ ActiveFrom(row.source) = {}
        /\ relations' = Append(relations, row)
    BY <1>4 DEF Declares, RelationAccepted
  <2>2. /\ DOMAIN relations' = 1..n + 1 /\ relations'[n + 1] = row
        /\ \A t \in 1..n : relations'[t] = relations[t]
    <3>1. /\ relations' \in Seq(RelationRows) /\ Len(relations') = n + 1 /\ relations'[n + 1] = row
          /\ \A t \in 1..n : relations'[t] = relations[t]
      BY <1>1, <2>1, AppendProperties
    <3>2. QED
      BY <3>1, LenProperties
  <2>3. \A t \in 1..n : relations[t].status = "active" => relations[t].source # row.source
    BY <1>1, <2>1 DEF ActiveFrom
  <2>4. OneSuccessor'
    <3> SUFFICES ASSUME NEW s \in 1..n + 1, NEW t \in 1..n + 1,
                        relations'[s].status = "active", relations'[t].status = "active",
                        relations'[s].source = relations'[t].source
                 PROVE  s = t
      BY <2>2 DEF OneSuccessor
    <3>1. CASE s \in 1..n /\ t \in 1..n
      BY <1>1, <2>2, <3>1 DEF OneSuccessor
    <3>2. CASE s = n + 1 /\ t \in 1..n
      BY <2>2, <2>3, <3>2
    <3>3. CASE s \in 1..n /\ t = n + 1
      BY <2>2, <2>3, <3>3
    <3>4. QED
      BY <1>1, <3>1, <3>2, <3>3
  <2>5. Successor(row.source)' = row.target
    <3>1. ActiveFrom(row.source)' = {n + 1}
      <4>1. \A t \in 1..n + 1 : relations'[t].status = "active" /\ relations'[t].source = row.source <=> t = n + 1
        BY <1>1, <2>1, <2>2, <2>3
      <4>2. n + 1 \in 1..n + 1
        BY <1>1
      <4>3. QED
        BY <2>2, <4>1, <4>2 DEF ActiveFrom
    <3>2. row.source # Nobody
      BY <2>1, RegistryBounds
    <3>3. QED
      BY <2>2, <3>1, <3>2 DEF Successor
  <2>6. ASSUME NEW x \in Artifacts \ {row.source} PROVE Successor(x)' = Successor(x)
    <3>1. ActiveFrom(x)' = ActiveFrom(x)
      BY <1>1, <2>2 DEF ActiveFrom
    <3>2. \A t \in ActiveFrom(x) : relations'[t] = relations[t]
      BY <1>1, <2>2 DEF ActiveFrom
    <3>3. CASE ActiveFrom(x) = {}
      BY <3>1, <3>3 DEF Successor
    <3>4. CASE ActiveFrom(x) # {}
      <4>1. (CHOOSE t \in ActiveFrom(x) : TRUE) \in ActiveFrom(x)
        BY <3>4
      <4>2. QED
        BY <3>1, <3>2, <3>4, <4>1 DEF Successor
    <3>5. QED
      BY <3>3, <3>4
  <2>7. QED
    BY <2>1, <2>4, <2>5, <2>6
<1>5. CASE \E row : Declares(row)
  <2>1. PICK row : Declares(row)
    BY <1>5
  <2>2. QED
    BY <2>1, <1>4
<1>6. QED
  BY <1>2, <1>3, <1>5, RegistrySteps DEF Opines

\* a cycle that a relation from a to b closed would hold the whole chain of b,
\* which the trigger followed to its end without finding a
LEMMA CyclesStep ==
  ASSUME RegistryTyped, OneSuccessor, NoSupersessionCycle, [RegistryNext]_rvars
  PROVE  NoSupersessionCycle'
<1> SUFFICES ASSUME NEW S \in SUBSET Artifacts, S # {}, \A x \in S : Successor(x)' \in S PROVE FALSE
  BY DEF NoSupersessionCycle
<1>1. Nobody \notin S /\ MaxDepth \in Nat
  BY RegistryBounds
<1>2. CASE \A x \in Artifacts : Successor(x)' \in {Successor(x), Nobody}
  <2>1. \A x \in S : Successor(x) \in S
    BY <1>1, <1>2
  <2>2. QED
    BY <2>1 DEF NoSupersessionCycle
<1>3. ASSUME NEW a \in Artifacts, NEW b \in Artifacts, NoCycle(a, b), Successor(a)' = b,
             \A x \in Artifacts \ {a} : Successor(x)' = Successor(x)
      PROVE  FALSE
  <2>1. CASE a \notin S
    <3>1. \A x \in S : Successor(x) \in S
      BY <1>3, <2>1
    <3>2. QED
      BY <3>1 DEF NoSupersessionCycle
  <2>2. CASE a \in S
    <3> DEFINE T == {d \in Nat : d <= MaxDepth => Chain(b)[d] \in S}
    <3>1. 0 \in T
      BY <1>1, <1>3, <2>2, ChainFollows
    <3>2. ASSUME NEW d \in T PROVE d + 1 \in T
      <4>1. SUFFICES ASSUME d + 1 <= MaxDepth PROVE Chain(b)[d + 1] \in S
        OBVIOUS
      <4>2. d \in 0..MaxDepth /\ d + 1 \in 1..MaxDepth /\ Chain(b)[d] \in S
        BY <1>1, <4>1
      <4>3. Chain(b)[d] # a
        BY <1>3, <4>2 DEF NoCycle
      <4>4. Chain(b)[d + 1] = Successor(Chain(b)[d])
        BY <4>2, ChainFollows
      <4>5. QED
        BY <1>3, <4>2, <4>3, <4>4
    <3>3. T = Nat
      <4> HIDE DEF T
      <4>1. T \in SUBSET Nat
        BY DEF T
      <4>2. QED
        BY <3>1, <3>2, <4>1, Inductive
    <3>4. Chain(b)[MaxDepth] \in S
      BY <1>1, <3>3
    <3>5. Chain(b)[MaxDepth] # a /\ Successor(Chain(b)[MaxDepth]) = Nobody
      BY <1>1, <1>3 DEF NoCycle
    <3>6. QED
      BY <1>1, <1>3, <3>4, <3>5
  <2>3. QED
    BY <2>1, <2>2
<1>4. QED
  BY <1>2, <1>3, SuccessorsStep

-----------------------------------------------------------------------------
(* Types, kept *)

LEMMA EndRequestTyped ==
  ASSUME RegistryTyped, NEW r \in RegRequests, NEW commits \in BOOLEAN, EndRequest(r, commits),
         NEW m \in Nat, NEW n \in Nat, Len(relations) <= m, Len(reviews) <= n
  PROVE  /\ regRequest' \in [RegRequests -> RegRequestRows]
         /\ \A q \in RegRequests : RequestShaped(regRequest'[q], m, n)
<1> SUFFICES ASSUME NEW q \in RegRequests
             PROVE  regRequest'[q] \in RegRequestRows /\ RequestShaped(regRequest'[q], m, n)
  BY DEF EndRequest
<1>1. /\ regRequest[q] \in RegRequestRows /\ Len(relations) \in Nat /\ Len(reviews) \in Nat
      /\ RequestShaped(regRequest[q], Len(relations), Len(reviews))
  BY LengthsTyped DEF RegistryTyped, RegistryTypeOK
<1>2. RequestShaped(regRequest[q], m, n)
  BY <1>1 DEF RequestShaped
<1>3. CASE regRequest'[q] = NoRequest
  BY <1>3, NoRequestTyped
<1>4. CASE regRequest'[q] = regRequest[q]
  BY <1>1, <1>2, <1>4
<1>5. CASE regRequest'[q] = [regRequest[q] EXCEPT !.head = "moved"]
  <2> DEFINE row == [regRequest[q] EXCEPT !.head = "moved"]
  <2>1. row \in RegRequestRows /\ row.kind = regRequest[q].kind /\ row.relation = regRequest[q].relation
        /\ row.review = regRequest[q].review /\ row.id = regRequest[q].id
    BY <1>1 DEF RegRequestRows
  <2> HIDE DEF row
  <2>2. QED
    BY <1>2, <1>5, <2>1 DEF RequestShaped, row
<1>6. QED
  BY <1>3, <1>4, <1>5 DEF EndRequest

\* a request that begins or reads the head leaves the rows alone
LEMMA RequestReads ==
  ASSUME RegistryTyped, NEW r \in RegRequests, NEW row \in RegRequestRows,
         RequestShaped(row, Len(relations), Len(reviews)), regRequest' = [regRequest EXCEPT ![r] = row],
         UNCHANGED <<versions, roles, turns, relations, reviews>>
  PROVE  RegistryTyped'
<1>1. \A q \in RegRequests : regRequest'[q] \in {row, regRequest[q]} /\ regRequest' \in [RegRequests -> RegRequestRows]
  BY DEF RegistryTyped, RegistryTypeOK
<1>2. \A a \in Artifacts : Current(a)' = Current(a)
  BY DEF Current
<1>3. QED
  BY <1>1, <1>2 DEF RegistryTyped, RegistryTypeOK

LEMMA RequestStartsTyped ==
  ASSUME RegistryTyped, NEW r \in RegRequests
  PROVE  /\ ReadRegistryHead(r) => RegistryTyped'
         /\ \A p \in Curators, a, b \in Artifacts : StartDeclare(r, p, a, b) => RegistryTyped'
         /\ \A p \in Curators, s \in DOMAIN relations : StartRetract(r, p, s) => RegistryTyped'
         /\ \A p \in Curators, a \in Artifacts, n \in 1..VersionMax, verdict \in Verdicts :
              StartReview(r, p, a, n, verdict) => RegistryTyped'
<1> USE DEF Asks
<1>1. /\ regRequest[r] \in RegRequestRows /\ RequestShaped(regRequest[r], Len(relations), Len(reviews))
      /\ Len(relations) \in Nat /\ Len(reviews) \in Nat /\ DOMAIN relations = 1..Len(relations)
      /\ DOMAIN reviews = 1..Len(reviews) /\ Len(relations) <= MaxRelations /\ Len(reviews) <= MaxReviews
  BY LengthsTyped DEF RegistryTyped, RegistryTypeOK
<1>2. 0 \in 0..MaxRelations
  BY RegistryBounds
<1>3. ASSUME ReadRegistryHead(r) PROVE RegistryTyped'
  <2> DEFINE row == [regRequest[r] EXCEPT !.head = "current"]
  <2>1. row \in RegRequestRows /\ row.kind = regRequest[r].kind /\ row.relation = regRequest[r].relation
        /\ row.review = regRequest[r].review /\ row.id = regRequest[r].id
    BY <1>1 DEF RegRequestRows
  <2>2. regRequest' = [regRequest EXCEPT ![r] = row] /\ UNCHANGED <<versions, roles, turns, relations, reviews>>
    BY <1>3 DEF ReadRegistryHead
  <2> HIDE DEF row
  <2>3. RequestShaped(row, Len(relations), Len(reviews))
    BY <1>1, <2>1 DEF RequestShaped
  <2>4. QED
    BY <2>1, <2>2, <2>3, RequestReads
<1>4. ASSUME NEW p \in Curators, NEW a \in Artifacts, NEW b \in Artifacts, StartDeclare(r, p, a, b)
      PROVE  RegistryTyped'
  <2> DEFINE rel == [status |-> "active", source |-> a, target |-> b, sv |-> Current(a), tv |-> Current(b), by |-> p]
             row == [kind |-> "declare", head |-> "unread", by |-> p, relation |-> rel, review |-> NoReview, id |-> 0]
  <2>1. rel \in RelationRows /\ rel.status = "active" /\ rel.source = a /\ rel.target = b
    BY LengthsTyped DEF RelationRows
  <2>2. regRequest' = [regRequest EXCEPT ![r] = row] /\ UNCHANGED <<versions, roles, turns, relations, reviews>>
    BY <1>4 DEF StartDeclare
  <2> HIDE DEF rel
  <2>3. row \in RegRequestRows /\ RequestShaped(row, Len(relations), Len(reviews))
    BY <1>2, <2>1, NoRequestTyped DEF RegRequestRows, RequestShaped
  <2> HIDE DEF row
  <2>4. QED
    BY <2>2, <2>3, RequestReads
<1>5. ASSUME NEW p \in Curators, NEW s \in DOMAIN relations, StartRetract(r, p, s) PROVE RegistryTyped'
  <2> DEFINE row == [kind |-> "retract", head |-> "unread", by |-> p, relation |-> NoRelation, review |-> NoReview, id |-> s]
  <2>1. s \in 1..Len(relations) /\ s \in 0..MaxRelations
    BY <1>1, RegistryBounds
  <2>2. regRequest' = [regRequest EXCEPT ![r] = row] /\ UNCHANGED <<versions, roles, turns, relations, reviews>>
    BY <1>5 DEF StartRetract
  <2>3. row \in RegRequestRows /\ RequestShaped(row, Len(relations), Len(reviews))
    BY <2>1, NoRequestTyped DEF RegRequestRows, RequestShaped
  <2> HIDE DEF row
  <2>4. QED
    BY <2>2, <2>3, RequestReads
<1>6. ASSUME NEW p \in Curators, NEW a \in Artifacts, NEW n \in 1..VersionMax, NEW verdict \in Verdicts,
             StartReview(r, p, a, n, verdict)
      PROVE  RegistryTyped'
  <2> DEFINE active == ActiveOpinions(a, n, p)
             old == IF active = {} THEN 0 ELSE CHOOSE w \in active : TRUE
             rev == [status |-> "active", artifact |-> a, version |-> n, by |-> p, verdict |-> verdict, replaces |-> old]
             row == [kind |-> "review", head |-> "unread", by |-> p, relation |-> NoRelation, review |-> rev, id |-> 0]
  <2>1. old \in 0..Len(reviews) /\ old \in 0..MaxReviews
    <3>1. active \subseteq 1..Len(reviews)
      BY <1>1 DEF ActiveOpinions
    <3>2. old \in {0} \cup active
      OBVIOUS
    <3> HIDE DEF old
    <3>3. QED
      BY <1>1, <3>1, <3>2, RegistryBounds
  <2>2. regRequest' = [regRequest EXCEPT ![r] = row] /\ UNCHANGED <<versions, roles, turns, relations, reviews>>
    BY <1>6 DEF StartReview
  <2> HIDE DEF old
  <2>3. rev \in ReviewRows /\ rev.status = "active" /\ rev.replaces = old
    <3>1. n \in 0..VersionMax
      BY RegistryBounds
    <3>2. QED
      BY <2>1, <3>1 DEF ReviewRows
  <2> HIDE DEF rev
  <2>4. row \in RegRequestRows /\ RequestShaped(row, Len(relations), Len(reviews))
    BY <1>2, <2>1, <2>3, NoRequestTyped DEF RegRequestRows, RequestShaped
  <2> HIDE DEF row
  <2>5. QED
    BY <2>2, <2>4, RequestReads
<1>7. QED
  BY <1>3, <1>4, <1>5, <1>6

LEMMA RequestCommitsTyped ==
  ASSUME RegistryTyped, NEW r \in RegRequests, NEW same \in BOOLEAN,
         CommitDeclare(r) \/ CommitRetract(r) \/ CommitReview(r, same)
  PROVE  RegistryTyped'
<1> DEFINE q == regRequest[r]
<1>1. /\ q \in RegRequestRows /\ RequestShaped(q, Len(relations), Len(reviews))
      /\ relations \in Seq(RelationRows) /\ reviews \in Seq(ReviewRows)
      /\ Len(relations) \in Nat /\ Len(reviews) \in Nat
      /\ Len(relations) <= MaxRelations /\ Len(reviews) <= MaxReviews
  BY LengthsTyped DEF RegistryTyped, RegistryTypeOK
<1>2. UNCHANGED <<versions, roles, turns>> /\ \E commits \in BOOLEAN : EndRequest(r, commits)
  BY DEF CommitDeclare, CommitRetract, CommitReview
<1>3. /\ relations' \in Seq(RelationRows) /\ reviews' \in Seq(ReviewRows)
      /\ Len(relations') \in Nat /\ Len(reviews') \in Nat
      /\ Len(relations) <= Len(relations') /\ Len(reviews) <= Len(reviews')
      /\ Len(relations') <= MaxRelations /\ Len(reviews') <= MaxReviews
  <2>1. CASE UNCHANGED <<relations, reviews>>
    BY <1>1, <2>1
  <2>2. ASSUME NEW row, Declares(row) PROVE <1>3
    <3>1. row \in RelationRows /\ relations' = Append(relations, row) /\ UNCHANGED reviews /\ Len(relations) < MaxRelations
      BY <2>2 DEF Declares
    <3>2. relations' \in Seq(RelationRows) /\ Len(relations') = Len(relations) + 1
      BY <1>1, <3>1, AppendProperties
    <3>3. QED
      BY <1>1, <3>1, <3>2, RegistryBounds
  <2>3. ASSUME NEW s, Retracts(s) PROVE <1>3
    <3> DEFINE e == [relations[s] EXCEPT !.status = "retracted"]
    <3>1. s \in 1..Len(relations) /\ relations' = [relations EXCEPT ![s] = e] /\ UNCHANGED reviews
      BY <2>3 DEF Retracts
    <3>2. e \in RelationRows
      <4>1. relations[s] \in RelationRows
        BY <1>1, <3>1
      <4>2. QED
        BY <4>1 DEF RelationRows
    <3> HIDE DEF e
    <3>3. relations' \in Seq(RelationRows) /\ Len(relations') = Len(relations)
      BY <1>1, <3>1, <3>2, ExceptSeq
    <3>4. QED
      BY <1>1, <3>1, <3>3
  <2>4. ASSUME NEW row, Opines(row, same) PROVE <1>3
    <3>1. row \in ReviewRows /\ row.replaces \in 0..Len(reviews) /\ UNCHANGED relations /\ Len(reviews) < MaxReviews
          /\ reviews' = Append(Superseded(row), row)
      BY <2>4 DEF Opines
    <3>2. Superseded(row) \in Seq(ReviewRows) /\ Len(Superseded(row)) = Len(reviews)
      <4> DEFINE e == [reviews[row.replaces] EXCEPT !.status = "superseded"]
      <4>1. CASE row.replaces # 0 /\ reviews[row.replaces].status = "active"
        <5>1. row.replaces \in 1..Len(reviews) /\ Superseded(row) = [reviews EXCEPT ![row.replaces] = e]
          BY <1>1, <3>1, <4>1 DEF Superseded
        <5>2. e \in ReviewRows
          <6>1. reviews[row.replaces] \in ReviewRows
            BY <1>1, <5>1
          <6>2. QED
            BY <6>1 DEF ReviewRows
        <5> HIDE DEF e
        <5>3. QED
          BY <1>1, <5>1, <5>2, ExceptSeq
      <4>2. CASE ~(row.replaces # 0 /\ reviews[row.replaces].status = "active")
        BY <1>1, <4>2 DEF Superseded
      <4>3. QED
        BY <4>1, <4>2
    <3>3. reviews' \in Seq(ReviewRows) /\ Len(reviews') = Len(reviews) + 1
      BY <3>1, <3>2, AppendProperties
    <3>4. QED
      BY <1>1, <3>1, <3>3, RegistryBounds
  <2>5. \/ UNCHANGED <<relations, reviews>> \/ Declares(q.relation) \/ Retracts(q.id) \/ Opines(q.review, same)
    BY <1>1 DEF CommitDeclare, CommitRetract, CommitReview, Declares, Retracts, Opines, RequestShaped, RegRequestRows
  <2>6. QED
    BY <2>1, <2>2, <2>3, <2>4, <2>5
<1>4. /\ regRequest' \in [RegRequests -> RegRequestRows]
      /\ \A d \in RegRequests : RequestShaped(regRequest'[d], Len(relations'), Len(reviews'))
  BY <1>2, <1>3, EndRequestTyped
<1>5. \A a \in Artifacts : Current(a)' = Current(a)
  BY <1>2 DEF Current
<1>6. QED
  BY <1>2, <1>3, <1>4, <1>5 DEF RegistryTyped, RegistryTypeOK

LEMMA SurroundingsTyped ==
  ASSUME RegistryTyped,
         \/ \E a \in Artifacts, n \in 1..VersionMax : ErasePayload(a, n)
         \/ \E a \in Artifacts, p \in Curators, c \in Contents : NewVersion(a, p, c)
         \/ \E p \in Curators, role \in Roles : ChangeRole(p, role)
  PROVE  RegistryTyped'
<1>1. ASSUME NEW p \in Curators, NEW role \in Roles, ChangeRole(p, role) PROVE RegistryTyped'
  <2>1. turns' \in 0..MaxTurns /\ roles' \in [Curators -> Roles]
    BY <1>1, RegistryBounds DEF ChangeRole, RegistryTyped, RegistryTypeOK
  <2>2. \A a \in Artifacts : Current(a)' = Current(a)
    BY <1>1 DEF Current, ChangeRole
  <2>3. QED
    BY <1>1, <2>1, <2>2 DEF ChangeRole, RegistryTyped, RegistryTypeOK
<1>2. ASSUME NEW a \in Artifacts, NEW list \in Seq(VersionRows), Len(list) <= VersionMax,
             versions' = [versions EXCEPT ![a] = list], UNCHANGED <<roles, turns, relations, reviews, regRequest>>
      PROVE  RegistryTyped'
  <2>1. versions' \in [Artifacts -> Seq(VersionRows)] /\ \A b \in Artifacts : Current(b)' <= VersionMax
    BY <1>2 DEF Current, RegistryTyped, RegistryTypeOK
  <2>2. QED
    BY <1>2, <2>1 DEF RegistryTyped, RegistryTypeOK
<1>3. ASSUME NEW a \in Artifacts, NEW n \in 1..VersionMax, ErasePayload(a, n) PROVE RegistryTyped'
  <2> DEFINE e == [versions[a][n] EXCEPT !.live = FALSE]
             list == [versions[a] EXCEPT ![n] = e]
  <2>1. /\ versions[a] \in Seq(VersionRows) /\ n \in 1..Len(versions[a]) /\ Len(versions[a]) <= VersionMax
        /\ versions[a][n] \in VersionRows
    BY <1>3 DEF ErasePayload, Current, RegistryTyped, RegistryTypeOK
  <2>2. e \in VersionRows
    BY <2>1 DEF VersionRows
  <2>3. versions' = [versions EXCEPT ![a] = list] /\ UNCHANGED <<roles, turns, relations, reviews, regRequest>>
    BY <1>3 DEF ErasePayload
  <2> HIDE DEF e
  <2>4. list \in Seq(VersionRows) /\ Len(list) = Len(versions[a])
    BY <2>1, <2>2, ExceptSeq
  <2> HIDE DEF list
  <2>5. QED
    BY <1>2, <2>1, <2>3, <2>4
<1>4. ASSUME NEW a \in Artifacts, NEW p \in Curators, NEW c \in Contents, NewVersion(a, p, c) PROVE RegistryTyped'
  <2> DEFINE e == [by |-> p, content |-> c, live |-> TRUE]
             list == Append(versions[a], e)
  <2>1. versions[a] \in Seq(VersionRows) /\ Len(versions[a]) \in 1..VersionMax - 1 /\ e \in VersionRows
    BY <1>4 DEF NewVersion, Current, RegistryTyped, RegistryTypeOK, VersionRows
  <2>2. versions' = [versions EXCEPT ![a] = list] /\ UNCHANGED <<roles, turns, relations, reviews, regRequest>>
    BY <1>4 DEF NewVersion
  <2> HIDE DEF e
  <2>3. list \in Seq(VersionRows) /\ Len(list) = Len(versions[a]) + 1
    BY <2>1, AppendProperties
  <2>4. Len(list) <= VersionMax
    BY <2>1, <2>3, RegistryBounds
  <2> HIDE DEF list
  <2>5. QED
    BY <1>2, <2>2, <2>3, <2>4
<1>5. QED
  BY <1>1, <1>3, <1>4

LEMMA RegistryStepTyped == ASSUME RegistryTyped, [RegistryNext]_rvars PROVE RegistryTyped'
<1>1. CASE UNCHANGED rvars
  BY <1>1 DEF rvars, RegistryTyped, RegistryTypeOK, Current
<1>2. CASE RegistryNext
  <2>1. CASE \E r \in RegRequests :
               \/ ReadRegistryHead(r) \/ CommitDeclare(r) \/ CommitRetract(r)
               \/ \E same \in BOOLEAN : CommitReview(r, same)
    <3>1. PICK r \in RegRequests, same \in BOOLEAN :
            ReadRegistryHead(r) \/ CommitDeclare(r) \/ CommitRetract(r) \/ CommitReview(r, same)
      BY <2>1
    <3>2. QED
      BY <3>1, RequestStartsTyped, RequestCommitsTyped
  <2>2. CASE \E r \in RegRequests, p \in Curators :
               \/ \E s \in DOMAIN relations : StartRetract(r, p, s)
               \/ \E a, b \in Artifacts : StartDeclare(r, p, a, b)
               \/ \E a \in Artifacts, n \in 1..VersionMax, verdict \in Verdicts : StartReview(r, p, a, n, verdict)
    BY <2>2, RequestStartsTyped
  <2>3. CASE \/ \E a \in Artifacts, n \in 1..VersionMax : ErasePayload(a, n)
             \/ \E a \in Artifacts, p \in Curators, c \in Contents : NewVersion(a, p, c)
             \/ \E p \in Curators, role \in Roles : ChangeRole(p, role)
    BY <2>3, SurroundingsTyped
  <2>4. QED
    BY <1>2, <2>1, <2>2, <2>3 DEF RegistryNext
<1>3. QED
  BY <1>1, <1>2

-----------------------------------------------------------------------------

LEMMA RegistryKept == ASSUME RegistryInv, [RegistryNext]_rvars PROVE RegistryInv'
  BY RegistryStepTyped, SuccessorsStep, CyclesStep, OpinionsStep DEF RegistryInv

LEMMA RegistryAlways == RegistrySpec => []RegistryInv
<1>1. RegistryInv /\ [RegistryNext]_rvars => RegistryInv'
  BY RegistryKept
<1>2. QED
  BY RegistryStarts, <1>1, PTL DEF RegistrySpec

(* The rows of the registry and of the requests under way are what the      *)
(* schema and its bounds say, in every state.                               *)
THEOREM RegistryTypes == RegistrySpec => []RegistryTypeOK
<1>1. RegistryInv => RegistryTypeOK
  BY DEF RegistryInv, RegistryTyped
<1>2. QED
  BY <1>1, RegistryAlways, PTL

(* No requests, however interleaved, close a cycle of supersessions, for    *)
(* any depth the recursive query of drizzle/0015 is bounded by: a chain     *)
(* longer than the bound is refused, never taken for one without a cycle.   *)
THEOREM NoCycleEver == RegistrySpec => []NoSupersessionCycle
<1>1. RegistryInv => NoSupersessionCycle
  BY DEF RegistryInv
<1>2. QED
  BY <1>1, RegistryAlways, PTL

(* Two reviews of one reviewer racing for one version leave one active, and *)
(* every superseded one with its one successor (drizzle/0014).              *)
THEOREM OneOpinionEach == RegistrySpec => []OneOpinion
<1>1. RegistryInv => OneOpinion
  BY DEF RegistryInv
<1>2. QED
  BY <1>1, RegistryAlways, PTL
=============================================================================
