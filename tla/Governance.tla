----------------------------- MODULE Governance -----------------------------
(***************************************************************************)
(* Governed effects: an intent is proposed, approved by an owner, executed *)
(* or expired (governance-repository.ts, action-intent.ts); artifact       *)
(* versions share payloads by content, and one effect erases the payloads  *)
(* of a content (artifact-repository.ts); artifact versions are linked to  *)
(* an intent as the basis of its decision (evidence-repository.ts); every  *)
(* owner gets an item that says a decision waits (attention-repository.ts).*)
(*                                                                         *)
(* A request reads, computes the row and the ledger entries it wants, and  *)
(* commits them in one batch. Between its reads and its batch other        *)
(* requests run. The batch is all or nothing: it aborts when a trigger     *)
(* refuses a row, or when the ledger has moved on, since every entry       *)
(* carries the next sequence number and that number is unique.             *)
(***************************************************************************)
EXTENDS Naturals, Sequences, FiniteSets

CONSTANTS
  Intents,    \* intent ids
  People,     \* humans that may own or administer the organization
  Versions,   \* artifact versions, all of one content
  Requests,   \* requests that may be under way together
  IntentTtl,  \* life of an intent, in milliseconds of the model
  LastMs,     \* the last millisecond
  MaxLedger,  \* bound of the ledger
  MaxJoins,   \* changes of the set of owners
  Nothing

ASSUME GovernanceAssumption ==
  /\ IntentTtl \in Nat \ {0} /\ LastMs \in Nat /\ MaxLedger \in Nat /\ MaxJoins \in Nat
  /\ Nothing \notin Intents \cup People \cup Versions \cup Requests

VARIABLES
  ms,        \* the clock
  owners,    \* active human owners and administrators
  joins,     \* changes of owners so far
  intents,   \* action_intents
  approvals, \* intent_approvals
  payload,   \* artifact_versions and their payload
  erased,    \* payloads that were erased
  basis,     \* active links between intents and versions
  items,     \* attention_items
  ledger,    \* ledger_entries of these records
  request    \* the requests under way

gvars == <<ms, owners, joins, intents, approvals, payload, erased, basis, items, ledger, request>>

-----------------------------------------------------------------------------
(* Rows *)

Actions == {"simulate", "erase"}
Statuses == {"proposed", "approved", "succeeded", "failed", "expired"}
NoIntent ==
  [status |-> "none", action |-> "simulate", proposer |-> Nothing, apart |-> FALSE,
   refs |-> {}, created |-> 0, updated |-> 0, fence |-> Nothing]
IntentRows ==
  [status : Statuses \cup {"none"}, action : Actions, proposer : People \cup {Nothing},
   apart : BOOLEAN,                  \* separation_of_duties
   refs : SUBSET Versions,           \* affectedVersions, of which the count is the precondition
   created : 0..LastMs, updated : 0..LastMs + 1, fence : Requests \cup {Nothing}]

Approvals == [intent : Intents, actor : People, at : 0..LastMs]
ApprovalsOf(i) == {a \in approvals : a.intent = i}
Entries == [kind : {"proposed", "approved", "started", "succeeded", "failed", "expired",
                    "linked", "unlinked", "other"},
            intent : Intents \cup {Nothing}]
Entry(kind, i) == [kind |-> kind, intent |-> i]
Logged(kind, i) == \E n \in DOMAIN ledger : ledger[n] = Entry(kind, i)

ExpiresAt(row) == row.created + IntentTtl
OpenStatus == {"proposed", "approved"}
Waiting == {"open", "seen"}

Payloads == Versions   \* a payload is named by the version it was first written for
Written == {v \in Versions : payload[v] # Nothing}
ReadableVersion(v) == payload[v] # Nothing /\ payload[v] \notin erased
LivePayloads == {payload[v] : v \in Written} \ erased

(* The artifact erasure intents with one idempotency key: same content and  *)
(* the same number of references. Simulations share one key here.           *)
SameKey(row, action, refs) ==
  row.status # "none" /\ row.action = action /\ Cardinality(row.refs) = Cardinality(refs)

Unused == [kind |-> "none", step |-> "none", intent |-> Nothing, actor |-> Nothing,
         row |-> NoIntent, at |-> 0, tail |-> 0, version |-> Nothing, to |-> {}]
RequestKinds == {"none", "propose", "approve", "execute", "fail", "expire", "publish", "link", "unlink"}
RequestStates ==
  [kind : RequestKinds, step : {"none", "read", "tail"}, intent : Intents \cup {Nothing},
   actor : People \cup {Nothing}, row : IntentRows, at : 0..LastMs, tail : 0..MaxLedger,
   version : Versions \cup {Nothing}, to : (SUBSET Versions) \cup (SUBSET People)]

Begin(r, kind, i, p, row) ==
  request' = [request EXCEPT ![r] =
    [Unused EXCEPT !.kind = kind, !.step = "read", !.intent = i, !.actor = p, !.row = row, !.at = ms]]
Answer(r) == request' = [request EXCEPT ![r] = Unused]
Ready(r, kind) == request[r].kind = kind /\ request[r].step = "tail"

(* appendNextLedgerEntry and its like: the head is read, the sequence       *)
(* numbers that follow it are taken.                                        *)
ReadHead(r) ==
  /\ request[r].step = "read" /\ request[r].kind # "publish"
  /\ request' = [request EXCEPT ![r].step = "tail", ![r].tail = Len(ledger)]
  /\ UNCHANGED <<ms, owners, joins, intents, approvals, payload, erased, basis, items, ledger>>

HeadHolds(r) == request[r].tail = Len(ledger)

-----------------------------------------------------------------------------
(* Propose *)

(* What a proposal writes down. Duties are separated where a person asks    *)
(* for an erasure and is not the only owner.                                *)
SimulationBy(p) ==
  [NoIntent EXCEPT !.status = "proposed", !.proposer = p, !.created = ms, !.updated = ms]
ErasureBy(p) ==
  [SimulationBy(p) EXCEPT !.action = "erase", !.refs = Written, !.apart = Cardinality(owners) >= 2]

(* The latest intent of the key decides. An open one answers, if it has not *)
(* to be expired first (StartExpire); a success is final for the key.       *)
Latest(row) ==
  {i \in Intents : SameKey(intents[i], row.action, row.refs)
     /\ \A j \in Intents : SameKey(intents[j], row.action, row.refs) =>
          intents[j].created <= intents[i].created}

StartPropose(r, p, i, action) ==
  LET row == IF action = "erase" THEN ErasureBy(p) ELSE SimulationBy(p)
      latest == Latest(row) IN
  /\ request[r] = Unused /\ p \in owners
  /\ intents[i].status = "none" /\ \A q \in Requests : request[q].intent # i
  /\ action = "erase" => row.refs # {}
  /\ latest = {} \/ \E j \in latest : intents[j].status \in {"failed", "expired"}
  /\ request' = [request EXCEPT ![r] =
       [Unused EXCEPT !.kind = "propose", !.step = "read", !.intent = i, !.actor = p, !.at = ms,
          !.row = row, !.to = IF row.apart THEN owners \ {p} ELSE owners]]
  /\ UNCHANGED <<ms, owners, joins, intents, approvals, payload, erased, basis, items, ledger>>

(* persistProposedIntent: the live idempotency key is unique, an addressee  *)
(* must still be an owner, the ledger entry takes the next number.          *)
CommitPropose(r) ==
  LET q == request[r]
      taken == \E j \in Intents :
                 intents[j].status \in OpenStatus /\ SameKey(intents[j], q.row.action, q.row.refs)
      commits == ~taken /\ q.to \subseteq owners /\ HeadHolds(r) IN
  /\ Ready(r, "propose") /\ Answer(r)
  /\ IF commits
     THEN /\ intents' = [intents EXCEPT ![q.intent] = q.row]
          /\ items' = [items EXCEPT ![q.intent] = [p \in People |-> IF p \in q.to THEN "open" ELSE "none"]]
          /\ ledger' = Append(ledger, Entry("proposed", q.intent))
     ELSE UNCHANGED <<intents, items, ledger>>
  /\ UNCHANGED <<ms, owners, joins, approvals, payload, erased, basis>>

-----------------------------------------------------------------------------
(* Approve *)

(* approveIntent on the row that was loaded. The proposer may approve only  *)
(* where duties are not separated, and then acknowledges to be alone.       *)
StartApprove(r, p, i) ==
  LET row == intents[i] IN
  /\ request[r] = Unused /\ p \in owners
  /\ row.status \in OpenStatus /\ ms < ExpiresAt(row)
  /\ p = row.proposer => ~row.apart
  /\ \A a \in ApprovalsOf(i) : a.actor # p
  /\ Begin(r, "approve", i, p, row)
  /\ UNCHANGED <<ms, owners, joins, intents, approvals, payload, erased, basis, items, ledger>>

AsLoaded(q) == intents[q.intent].status = q.row.status /\ intents[q.intent].updated = q.row.updated

(* The first statement's condition: the row is as it was loaded, and who    *)
(* approves an own proposal is still alone.                                 *)
InsertsApproval(q) == AsLoaded(q) /\ (q.actor = q.row.proposer => owners \subseteq {q.actor})

Resolved(of, resolution) ==
  [items EXCEPT ![of] = [p \in People |-> IF @[p] \in Waiting THEN resolution ELSE @[p]]]

(* The batch. The trigger on the update wants the approval that was just    *)
(* inserted to be the latest; the attention update has no condition of its  *)
(* own.                                                                     *)
CommitApprove(r) ==
  LET q == request[r]
      inserts == InsertsApproval(q)
      refused == \E a \in ApprovalsOf(q.intent) : a.actor = q.actor \/ a.at > q.at
      commits == ~inserts \/ (~refused /\ HeadHolds(r)) IN
  /\ Ready(r, "approve") /\ Answer(r)
  /\ IF inserts /\ commits
     THEN /\ approvals' = approvals \cup {[intent |-> q.intent, actor |-> q.actor, at |-> q.at]}
          /\ intents' = [intents EXCEPT ![q.intent].status = "approved", ![q.intent].updated = q.at]
          /\ ledger' = Append(ledger, Entry("approved", q.intent))
     ELSE UNCHANGED <<approvals, intents, ledger>>
  /\ items' = IF commits THEN Resolved(q.intent, "decided") ELSE items
  /\ UNCHANGED <<ms, owners, joins, payload, erased, basis>>

-----------------------------------------------------------------------------
(* Execute, fail, expire *)

Counted(refs) == Cardinality(refs) = Cardinality(Written)

(* executeStoredIntent: claimIntentForExecution on what was loaded. A       *)
(* precondition that changed since turns the request into a failure.        *)
StartExecute(r, p, i) ==
  LET row == intents[i] IN
  /\ request[r] = Unused /\ p \in owners
  /\ row.status = "approved" /\ ms < ExpiresAt(row) /\ ApprovalsOf(i) # {}
  /\ Begin(r, IF row.action = "erase" /\ ~Counted(row.refs) THEN "fail" ELSE "execute", i, p, row)
  /\ UNCHANGED <<ms, owners, joins, intents, approvals, payload, erased, basis, items, ledger>>

(* executeSimulatedIntent and executeArtifactErasureIntent: the intent must *)
(* still be approved, and the references as many as were approved, when the *)
(* batch runs; the payloads of the content go with it.                      *)
\* bug: the references are counted before the batch only
ExecutesUncounted(q) == intents[q.intent].status = "approved"
Executes(q) ==
  /\ intents[q.intent].status = "approved"
  /\ q.row.action = "erase" => Counted(q.row.refs)

CommitExecute(r) ==
  LET q == request[r]
      commits == Executes(q) /\ HeadHolds(r) /\ intents[q.intent].updated # q.at + 1 IN
  /\ Ready(r, "execute")
  /\ IF commits
     THEN /\ intents' = [intents EXCEPT ![q.intent].status = "succeeded",
                           ![q.intent].updated = q.at + 1, ![q.intent].fence = r]
          /\ erased' = IF q.row.action = "erase" THEN erased \cup LivePayloads ELSE erased
          /\ ledger' = ledger \o <<Entry("started", q.intent), Entry("succeeded", q.intent)>>
          /\ Answer(r)
     ELSE /\ IF ~Executes(q) /\ q.row.action = "erase" /\ intents[q.intent].status = "approved"
             THEN Begin(r, "fail", q.intent, q.actor, intents[q.intent])
             ELSE Answer(r)
          /\ UNCHANGED <<intents, erased, ledger>>
  /\ UNCHANGED <<ms, owners, joins, approvals, payload, basis, items>>

(* prepareConditionalLedgerInsert: the entry is written if the row says so, *)
(* once.                                                                    *)
\* bug: the entry is written whatever became of the row
EntersAlways(kind, i, updates) == TRUE
Enters(kind, i, updates) == updates /\ ~Logged(kind, i)

(* failArtifactErasureIntent.                                               *)
CommitFail(r) ==
  LET q == request[r]
      updates == intents[q.intent].status = "approved"
      enters == Enters("failed", q.intent, updates)
      aborts == (updates /\ intents[q.intent].updated = q.at) \/ (enters /\ ~HeadHolds(r)) IN
  /\ Ready(r, "fail") /\ Answer(r)
  /\ intents' = IF updates /\ ~aborts
       THEN [intents EXCEPT ![q.intent].status = "failed", ![q.intent].updated = q.at] ELSE intents
  /\ ledger' = IF enters /\ ~aborts THEN Append(ledger, Entry("failed", q.intent)) ELSE ledger
  /\ UNCHANGED <<ms, owners, joins, approvals, payload, erased, basis, items>>

(* expireIntentIfNeeded, the first thing a proposal with the key of an open *)
(* intent does; the proposal goes on after it (StartPropose).               *)
StartExpire(r, p, i) ==
  /\ request[r] = Unused /\ p \in owners
  /\ intents[i].status \in OpenStatus /\ ms >= ExpiresAt(intents[i])
  /\ Begin(r, "expire", i, p, intents[i])
  /\ UNCHANGED <<ms, owners, joins, intents, approvals, payload, erased, basis, items, ledger>>

CommitExpire(r) ==
  LET q == request[r]
      updates == AsLoaded(q)
      enters == Enters("expired", q.intent, updates)
      aborts == (updates /\ intents[q.intent].updated = q.at) \/ (enters /\ ~HeadHolds(r)) IN
  /\ Ready(r, "expire") /\ Answer(r)
  /\ IF updates /\ ~aborts
     THEN /\ intents' = [intents EXCEPT ![q.intent].status = "expired", ![q.intent].updated = q.at]
          /\ items' = Resolved(q.intent, "expired")
     ELSE UNCHANGED <<intents, items>>
  /\ ledger' = IF enters /\ ~aborts THEN Append(ledger, Entry("expired", q.intent)) ELSE ledger
  /\ UNCHANGED <<ms, owners, joins, approvals, payload, erased, basis>>

-----------------------------------------------------------------------------
(* Artifact versions and the basis of a decision *)

(* createArtifact, appendArtifactVersion: a live payload of the content is  *)
(* used again, else one of its own is written.                              *)
StagePublish(r, v) ==
  /\ request[r] = Unused /\ v \notin Written /\ \A q \in Requests : request[q].version # v
  /\ \E ref \in IF LivePayloads = {} THEN {v} ELSE LivePayloads :
       request' = [request EXCEPT ![r] =
         [Unused EXCEPT !.kind = "publish", !.step = "read", !.version = v, !.to = {ref}]]
  /\ UNCHANGED <<ms, owners, joins, intents, approvals, payload, erased, basis, items, ledger>>

(* artifact_versions_validate_before_insert: the payload must be readable.  *)
AcceptsPayload(v, ref) == ref = v \/ ref \in LivePayloads
CommitPublish(r) ==
  LET v == request[r].version IN
  /\ request[r].kind = "publish" /\ Answer(r)
  /\ \E ref \in request[r].to :
       payload' = IF AcceptsPayload(v, ref) THEN [payload EXCEPT ![v] = ref] ELSE payload
  /\ UNCHANGED <<ms, owners, joins, intents, approvals, erased, basis, items, ledger>>

(* attachIntentEvidence and supersedeIntentEvidence: the set is open while  *)
(* the intent is proposed, at the read and again in the batch.              *)
StartLink(r, p, i, v) ==
  /\ request[r] = Unused /\ p \in owners /\ intents[i].status = "proposed"
  /\ \/ ReadableVersion(v) /\ <<i, v>> \notin basis
        /\ request' = [request EXCEPT ![r] =
             [Unused EXCEPT !.kind = "link", !.step = "read", !.intent = i, !.actor = p, !.version = v]]
     \/ <<i, v>> \in basis
        /\ request' = [request EXCEPT ![r] =
             [Unused EXCEPT !.kind = "unlink", !.step = "read", !.intent = i, !.actor = p, !.version = v]]
  /\ UNCHANGED <<ms, owners, joins, intents, approvals, payload, erased, basis, items, ledger>>

(* intent_artifact_evidence_validate_before_insert and _restrict_update.    *)
\* bug: the set was open when the request read it
BasisOpenAtRead(q) == TRUE
BasisOpen(q) == intents[q.intent].status = "proposed"
CommitLink(r) ==
  LET q == request[r]
      link == <<q.intent, q.version>>
      commits == BasisOpen(q) /\ q.actor \in owners /\ HeadHolds(r)
                 /\ (q.kind = "link" => ReadableVersion(q.version) /\ link \notin basis)
                 /\ (q.kind = "unlink" => link \in basis) IN
  /\ Ready(r, "link") \/ Ready(r, "unlink")
  /\ Answer(r)
  /\ IF commits
     THEN /\ basis' = IF q.kind = "link" THEN basis \cup {link} ELSE basis \ {link}
          /\ ledger' = Append(ledger, Entry(IF q.kind = "link" THEN "linked" ELSE "unlinked", q.intent))
     ELSE UNCHANGED <<basis, ledger>>
  /\ UNCHANGED <<ms, owners, joins, intents, approvals, payload, erased, items>>

-----------------------------------------------------------------------------
(* Attention *)

(* reconcileInactiveAttention, before every list and every mark.            *)
Inactive(i) == intents[i].status # "proposed" \/ ms >= ExpiresAt(intents[i])
Reconciled == [i \in Intents |->
  IF Inactive(i)
  THEN [p \in People |->
          IF items[i][p] \notin Waiting THEN items[i][p]
          ELSE IF intents[i].status = "expired" \/ ms >= ExpiresAt(intents[i]) THEN "expired"
          ELSE "superseded"]
  ELSE items[i]]

ListAttention ==
  /\ items' = Reconciled
  /\ UNCHANGED <<ms, owners, joins, intents, approvals, payload, erased, basis, ledger, request>>

(* markAttentionSeen: compare and swap on the version of the item.          *)
MarkSeen(p, i) ==
  /\ p \in owners /\ Reconciled[i][p] = "open"
  /\ items' = [Reconciled EXCEPT ![i][p] = "seen"]
  /\ UNCHANGED <<ms, owners, joins, intents, approvals, payload, erased, basis, ledger, request>>

-----------------------------------------------------------------------------
(* What happens around the requests *)

(* Memberships are rows the deployment writes.                              *)
ChangeOwners(p) ==
  /\ joins < MaxJoins /\ joins' = joins + 1
  /\ owners' = IF p \in owners THEN owners \ {p} ELSE owners \cup {p}
  /\ UNCHANGED <<ms, intents, approvals, payload, erased, basis, items, ledger, request>>

(* Runs, reviews, policies: everything else that appends to the ledger. It  *)
(* matters here when a request has read the head (this bounds it).          *)
OtherEntry ==
  /\ \E r \in Requests : request[r].step = "tail" /\ HeadHolds(r)
  /\ Len(ledger) < MaxLedger /\ ledger' = Append(ledger, Entry("other", Nothing))
  /\ UNCHANGED <<ms, owners, joins, intents, approvals, payload, erased, basis, items, request>>

(* A request is lost before its batch.                                      *)
Lost(r) ==
  /\ request[r] # Unused /\ Answer(r)
  /\ UNCHANGED <<ms, owners, joins, intents, approvals, payload, erased, basis, items, ledger>>

PassMs ==
  /\ ms < LastMs /\ ms' = ms + 1
  /\ UNCHANGED <<owners, joins, intents, approvals, payload, erased, basis, items, ledger, request>>

GovernanceInit ==
  /\ ms = 0 /\ joins = 0 /\ owners \in {{p} : p \in People} \cup {People}
  /\ intents = [i \in Intents |-> NoIntent] /\ approvals = {}
  /\ payload = [v \in Versions |-> Nothing] /\ erased = {} /\ basis = {}
  /\ items = [i \in Intents |-> [p \in People |-> "none"]]
  /\ ledger = <<>> /\ request = [r \in Requests |-> Unused]

(* Starting, for a request that names an actor and an intent.               *)
StartDecision(r, p, i) ==
  \/ StartApprove(r, p, i) \/ StartExecute(r, p, i) \/ StartExpire(r, p, i)
  \/ \E action \in Actions : StartPropose(r, p, i, action)

CommitRequest(r) ==
  /\ Len(ledger) + 2 <= MaxLedger
  /\ \/ CommitPropose(r) \/ CommitApprove(r) \/ CommitExecute(r) \/ CommitFail(r) \/ CommitExpire(r)
     \/ CommitLink(r)

GovernanceNext ==
  \/ \E r \in Requests :
       \/ ReadHead(r) \/ CommitRequest(r) \/ CommitPublish(r) \/ Lost(r)
       \/ \E v \in Versions : StagePublish(r, v)
       \/ \E p \in People, i \in Intents :
            StartDecision(r, p, i) \/ \E v \in Versions : StartLink(r, p, i, v)
  \/ ListAttention \/ OtherEntry \/ PassMs
  \/ \E p \in People : ChangeOwners(p) \/ \E i \in Intents : MarkSeen(p, i)

GovernanceSpec == GovernanceInit /\ [][GovernanceNext]_gvars

-----------------------------------------------------------------------------
(* Properties *)

GovernanceTypeOK ==
  /\ ms \in 0..LastMs /\ owners \subseteq People /\ joins \in 0..MaxJoins
  /\ intents \in [Intents -> IntentRows] /\ approvals \subseteq Approvals
  /\ payload \in [Versions -> Versions \cup {Nothing}] /\ erased \subseteq Versions
  /\ basis \subseteq Intents \X Versions
  /\ ledger \in Seq(Entries) /\ Len(ledger) <= MaxLedger
  /\ request \in [Requests -> RequestStates]
  /\ items \in [Intents -> [People -> Waiting \cup {"none", "decided", "expired", "superseded"}]]

EntriesOf(kind, i) == Cardinality({n \in DOMAIN ledger : ledger[n] = Entry(kind, i)})
Is(i, statuses) == IF intents[i].status \in statuses THEN 1 ELSE 0

(* The ledger tells what became of an intent, whichever requests raced: one *)
(* entry for each approval that counts, and one for the outcome the row has *)
(* and none for an outcome it has not.                                      *)
LedgerTellsAll ==
  \A i \in Intents :
    /\ EntriesOf("proposed", i) = Is(i, Statuses)
    /\ EntriesOf("approved", i) = Cardinality(ApprovalsOf(i))
    /\ EntriesOf("started", i) = Is(i, {"succeeded"})
    /\ \A outcome \in {"succeeded", "failed", "expired"} :
         EntriesOf(outcome, i) = Is(i, {outcome})

(* Only what an approver saw is erased: every version whose payload is gone *)
(* was listed by an erasure that was approved, by somebody other than its   *)
(* proposer unless the proposer was alone.                                  *)
ErasedAsApproved ==
  \A v \in Written : payload[v] \in erased =>
    \E i \in Intents :
      /\ intents[i].status = "succeeded" /\ intents[i].action = "erase" /\ v \in intents[i].refs
      /\ \E a \in ApprovalsOf(i) : a.actor = intents[i].proposer => ~intents[i].apart

(* The basis of a decision is what it was when the decision was made.       *)
BasisFrozen ==
  [][\A i \in Intents, v \in Versions :
       intents[i].status \notin {"none", "proposed"} => (<<i, v>> \in basis' <=> <<i, v>> \in basis)]_gvars

(* docs/BUSINESS-RULES.md:107, "A governance decision resolves every        *)
(* addressee copy in the same transaction": an item that reads `decided`    *)
(* belongs to an intent that was decided.                                   *)
DecidedWhenDecided ==
  \A i \in Intents, p \in People : items[i][p] = "decided" => ApprovalsOf(i) # {}
=============================================================================
