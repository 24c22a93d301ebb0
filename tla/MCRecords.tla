---------------------------- MODULE MCRecords ----------------------------
(* The components that keep the organization's records, in one run: each    *)
(* behavior starts with a part, and takes steps of that part's component    *)
(* only, the others stay as they began. Ids of one letter are of one sort:  *)
(* q1, q2 are requests, calls or tabs under way together, p1 to p3 are      *)
(* people, or passes of retention, i are intents or nonces, v are versions, *)
(* artifacts or uploads, k are keys and r engine runs.                      *)
EXTENDS Governance, Registry, Conversation, Presence, Publication, TLC

CONSTANTS p1, p2, p3, q1, q2, i1, i2, v1, v2, v3, k1, k2, r1, r2, Parts
VARIABLE part

Symmetry ==
  Permutations({p1, p2}) \cup Permutations({q1, q2})

GovernanceParts == {"erase", "items", "basis"}
Relations == {"chain", "heads"}
PresenceParts == {"hidden", "queued"}
RegistryParts == Relations \cup {"opinion"}
PublishParts == {"publish", "tab"}
PayloadParts == PublishParts \cup {"prompts", "retention"}
In(parts) == part \in parts /\ UNCHANGED part

NoGovernanceStep == UNCHANGED gvars
NoRegistryStep == UNCHANGED rvars
NoConversationStep == UNCHANGED cvars
NoPresenceStep == UNCHANGED pvars
NoPayloadStep == UNCHANGED <<custodyVars, publicationVars>>
Governing(parts) ==
  In(parts) /\ NoRegistryStep /\ NoConversationStep /\ NoPresenceStep /\ NoPayloadStep
Registering(parts) ==
  In(parts) /\ NoGovernanceStep /\ NoConversationStep /\ NoPresenceStep /\ NoPayloadStep
Conversing(parts) ==
  In(parts) /\ NoGovernanceStep /\ NoRegistryStep /\ NoPresenceStep /\ NoPayloadStep
Attending(parts) ==
  In(parts) /\ NoGovernanceStep /\ NoRegistryStep /\ NoConversationStep /\ NoPayloadStep
OnPayloads(parts) ==
  In(parts) /\ NoGovernanceStep /\ NoRegistryStep /\ NoConversationStep /\ NoPresenceStep
Keeping(parts) == OnPayloads(parts) /\ UNCHANGED publicationVars
Publishing(parts) == OnPayloads(parts) /\ UNCHANGED custodyVars

-----------------------------------------------------------------------------
(* Where the parts start *)

Published == {a \in Artifacts : versions[a] # <<>>}
OneCurator ==
  /\ roles = [p \in Curators |-> IF p = p1 THEN "owner" ELSE "viewer"]
  /\ \A a \in Published : versions[a][1].by = p1
RegistryStart ==
  CASE part = "chain" -> Published = Artifacts /\ OneCurator
    [] part = "heads" -> Published = {v1, v2} /\ OneCurator
    [] part = "opinion" -> Published = {v1} /\ roles[p1] = "owner" /\ roles[p2] \in {"viewer", "member"}
    [] OTHER -> Published = {} /\ OneCurator

ConversationStart ==
  /\ chat.kind = "room" \/ part = "roles"
  /\ ActiveOwners = {p1}
  /\ part # "roles" => Active(p2) /\ ~Active(p3)

GovernanceStart == part \notin GovernanceParts => owners = {p1}

(* A run has been created and claimed, under the key of the deployed worker; *)
(* in "prompts" that is to come.                                            *)
Claimed == [NoRow EXCEPT !.status = "leased", !.fence = 1, !.lease = "active", !.until = LeaseFor]
StartRow(r) ==
  IF part = "retention" \/ (part \in PublishParts /\ r = r1) THEN Claimed ELSE NoRow
FirstRing == [active |-> k1, keys |-> KeyIds]
CustodyStart ==
  /\ row = [r \in Runs |-> StartRow(r)]
  /\ prompt = [r \in Runs |-> IF StartRow(r) = NoRow THEN NoPayload ELSE Encrypted(k1, "none")]
  /\ excerpt = [r \in Runs |-> NoPayload]
  /\ readRows = [n \in ReadNonces |-> NoReadRow]
  /\ runnerUp = TRUE /\ ring = FirstRing /\ making = [run |-> Absent, ring |-> FirstRing]
  /\ reading = [q \in Reads |-> IdleRead] /\ pass = [p \in Passes |-> IdlePass]
  /\ erasures = [x \in Protected |-> 0] /\ hour = 0

RecordsInit ==
  /\ part \in Parts
  /\ GovernanceInit /\ RegistryInit /\ ConversationInit /\ PresenceInit
  /\ CustodyStart /\ PublicationInit
  /\ GovernanceStart /\ RegistryStart /\ ConversationStart

-----------------------------------------------------------------------------
(* One intent, where the races of two say nothing more; the second intent   *)
(* and the second version come after the first.                             *)
IntentsOfPart == IF part = "erase" THEN Intents ELSE {i1}
InTurn(i) == i = i1 \/ intents[i1].status # "none" \/ \E q \in Requests : request[q].intent = i1
VersionInTurn(v) == v = v1 \/ v1 \in Written \/ \E q \in Requests : request[q].version = v1

(* Versions and successors of two artifacts, or chains of three.           *)
RelationsLeft == Len(relations) < IF part = "heads" THEN 2 ELSE 3

RecordsNext ==
  \/ Governing(GovernanceParts) /\ \E r \in Requests : ReadHead(r) \/ CommitRequest(r) \/ Lost(r)
  \/ Governing(GovernanceParts) /\ PassMs
  \/ Governing({"erase"}) /\ \E r \in Requests, p \in People, i \in Intents :
       StartApprove(r, p, i) \/ StartExecute(r, p, i) \/ (InTurn(i) /\ StartPropose(r, p, i, "erase"))
  \/ Governing({"items", "basis"}) /\ \E r \in Requests, p \in People, i \in IntentsOfPart :
       \/ StartApprove(r, p, i) \/ StartExecute(r, p, i) \/ StartExpire(r, p, i)
       \/ StartPropose(r, p, i, "simulate")
  \/ Governing({"erase", "basis"}) /\ \E r \in Requests :
       CommitPublish(r) \/ \E v \in Versions : (VersionInTurn(v) /\ StagePublish(r, v))
  \/ Governing({"items"}) /\ ~Logged("other", Nothing) /\ OtherEntry
  \/ Governing({"basis"}) /\ \E r \in Requests, p \in People, i \in IntentsOfPart, v \in Versions :
       StartLink(r, p, i, v)
  \/ Governing({"items"}) /\ ListAttention
  \/ Governing({"items"}) /\ \E p \in People : ChangeOwners(p) \/ \E i \in Intents : MarkSeen(p, i)
  \/ Registering(RegistryParts) /\ \E r \in RegRequests : ReadRegistryHead(r)
  \/ Registering(Relations) /\ \E r \in RegRequests :
       \/ CommitDeclare(r) \/ CommitRetract(r)
       \/ \E p \in Curators, s \in DOMAIN relations : StartRetract(r, p, s)
       \/ \E p \in Curators, a, b \in Artifacts : RelationsLeft /\ StartDeclare(r, p, a, b)
  \/ Registering({"heads"}) /\ \E a \in Artifacts, p \in Curators, c \in Contents : NewVersion(a, p, c)
  \/ Registering({"opinion"}) /\ \E r \in RegRequests :
       \/ \E same \in BOOLEAN : CommitReview(r, same)
       \/ \E p \in Curators, a \in Artifacts, n \in 1..VersionMax, verdict \in Verdicts :
            StartReview(r, p, a, n, verdict)
  \/ Registering({"opinion"}) /\ \E a \in Artifacts, n \in 1..VersionMax : ErasePayload(a, n)
  \/ Registering({"opinion"}) /\ \E p \in Curators, role \in Roles : ChangeRole(p, role)
  \/ Conversing({"roles"}) /\ \E c \in Calls :
       \/ CommitAdd(c) \/ CommitRole(c) \/ CommitRemove(c)
       \/ \E p, of \in Members :
            \/ StartAdd(c, p, of, "member") \/ StartRemove(c, p, of)
            \/ \E role \in {"owner", "member"} : StartRole(c, p, of, role)
  \/ Conversing({"roles"}) /\ \E p \in Members : ChangeMembership(p)
  \/ Conversing({"files", "pins"}) /\ \E c \in Calls :
       \/ CommitStatus(c) \/ CommitSend(c) \/ LoseCall(c)
       \/ \E p \in Members, kind \in {"archive", "reopen"} : StartStatus(c, p, kind)
       \/ \E p \in Members, fs \in SUBSET Uploads : StartSend(c, p, fs)
  \/ Conversing({"files"}) /\ \E c \in Calls :
       CommitStage(c) \/ \E p \in Members, f \in Uploads : StartStage(c, p, f)
  \/ Conversing({"pins"}) /\ \E c \in Calls :
       CommitPin(c) \/ \E p \in Members, m \in 1..MaxMessages : StartPin(c, p, m)
  \/ Conversing({"pins"}) /\ \E p \in Members : \E pin \in pins : Unpin(p, pin)
  \/ Attending(PresenceParts) /\ \E t \in Tabs :
       \/ Granted(t) \/ Refused(t) \/ PutLost(t) \/ ReadSession(t) \/ PersistLease(t)
       \/ \E force \in BOOLEAN :
            /\ put[t].step = "none" \/ (part = "queued" /\ ~(tab[t].pending /\ (force => tab[t].force)))
            /\ WantWrite(t, force)
  \/ Attending(PresenceParts) /\ (CleanUp \/ NextEpoch)
  \/ Attending({"hidden"}) /\ \E t \in Tabs : Hide(t) \/ \E token \in 1..MaxFence : Release(t, token)
  \/ Keeping(PayloadParts) /\ NextHour
  \/ Keeping({"prompts"}) /\ (WriteRun \/ DropCreation \/ RevokeRunner \/ ReadStep)
  \/ Keeping({"prompts"}) /\ ring = FirstRing /\ Rotate /\ k1 \notin ring'.keys
  \/ Keeping({"prompts"}) /\
       \/ AskCipher(r1) \/ ExpireRun(r1)
       \/ \E until \in LeaseEnds : Claim(r1, until) \/ Renew(r1, until)
       \/ CompleteEngine(r1, "succeeded", "text", k1)
  \/ Keeping({"retention"}) /\ PassStep
  \/ Keeping({"retention"}) /\ \E r \in Runs :
       ExpireRun(r) \/ CompleteEngine(r, "failed", "cut", k1)
  \/ Keeping(PublishParts) /\ \E outcome \in {"succeeded", "failed"}, output \in {"text", "blank"} :
       CompleteEngine(r1, outcome, output, k1)
  \/ Keeping({"publish"}) /\ (StartPass(p1) \/ ListDue(p1) \/ EraseDue(p1))
  \/ Publishing({"publish"}) /\
       \/ ownerIn /\ OwnerChanges
       \/ head = 0 /\ (\E q \in Publishers : publisher[q].step = "batch") /\ OtherEntries
  \/ Publishing(PublishParts) /\ \E q \in Publishers :
       \/ ReadRow(q) \/ ReadExcerpt(q) \/ ReadFails(q) \/ ReadContent(q) \/ ReadLedgerHead(q)
       \/ CommitPublication(q) \/ FailPublication(q) \/ TakePublished(q) \/ LosePublished(q)
       \/ Publish(q, r1, FALSE)
  \/ Publishing({"tab"}) /\
       \/ AskList \/ ListRows \/ ListExcerpts \/ TakeList
       \/ \E q \in Publishers : Click(q, r1)

RecordsSpec ==
  RecordsInit /\ [][RecordsNext]_<<gvars, rvars, cvars, pvars, custodyVars, publicationVars, part>>
=============================================================================
