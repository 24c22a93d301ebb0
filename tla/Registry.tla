------------------------------ MODULE Registry ------------------------------
(***************************************************************************)
(* What the organization says about its artifact versions: one artifact    *)
(* supersedes another (supersession-repository.ts, drizzle/0015) and a     *)
(* reviewer has an opinion on a version (review-repository.ts,             *)
(* drizzle/0014). A request reads, takes the next ledger number and sends  *)
(* one batch; the triggers judge the batch by the rows of its own moment.  *)
(***************************************************************************)
EXTENDS Naturals, Sequences, FiniteSets

CONSTANTS
  Artifacts, Curators,
  RegRequests,   \* requests that may be under way together
  VersionMax,    \* versions of one artifact
  MaxDepth,      \* relations the cycle check follows (100 in the code)
  MaxTurns,      \* changes of roles
  MaxRelations,  \* relations ever declared
  MaxReviews,    \* reviews ever recorded
  Nobody

ASSUME RegistryAssumption ==
  /\ VersionMax \in Nat \ {0} /\ {MaxDepth, MaxTurns, MaxRelations, MaxReviews} \subseteq Nat
  /\ Nobody \notin Artifacts \cup Curators

VARIABLES
  versions,   \* artifact_versions with their payload
  roles,      \* workspace role of each human
  turns,      \* changes of roles so far
  relations,  \* artifact_supersessions, in the order of their entries
  reviews,    \* artifact_reviews, likewise
  regRequest  \* the requests under way

rvars == <<versions, roles, turns, relations, reviews, regRequest>>

-----------------------------------------------------------------------------
(* Rows *)

Roles == {"owner", "admin", "member", "viewer"}
Governs(p) == roles[p] \in {"owner", "admin"}
Contributes(p) == roles[p] \in {"owner", "admin", "member"}

Contents == Artifacts   \* a content is named by the artifact that had it first
VersionRows == [by : Curators, content : Contents, live : BOOLEAN]
Current(a) == Len(versions[a])
HeadOf(a) == versions[a][Current(a)]

NoRelation ==
  [status |-> "active", source |-> Nobody, target |-> Nobody, sv |-> 0, tv |-> 0, by |-> Nobody]
RelationRows ==
  [status : {"active", "retracted"}, source : Artifacts \cup {Nobody},
   target : Artifacts \cup {Nobody}, sv : 0..VersionMax, tv : 0..VersionMax,
   by : Curators \cup {Nobody}]
ActiveFrom(a) == {s \in DOMAIN relations : relations[s].status = "active" /\ relations[s].source = a}

NoReview == [status |-> "active", artifact |-> Nobody, version |-> 0, by |-> Nobody,
             verdict |-> "approved", replaces |-> 0]
Verdicts == {"approved", "changes_requested"}
ReviewRows ==
  [status : {"active", "superseded"}, artifact : Artifacts \cup {Nobody},
   version : 0..VersionMax, by : Curators \cup {Nobody}, verdict : Verdicts,
   replaces : 0..MaxReviews]   \* 0 stands for no review
SameOpinion(v, a, n, p) == reviews[v].artifact = a /\ reviews[v].version = n /\ reviews[v].by = p
ActiveOpinions(a, n, p) ==
  {v \in DOMAIN reviews : SameOpinion(v, a, n, p) /\ reviews[v].status = "active"}

(* A request: what it read and will write. `head` says whether it has read  *)
(* the head of the ledger, and whether that is still the head.              *)
NoRequest == [kind |-> "none", head |-> "unread", by |-> Nobody, relation |-> NoRelation,
              review |-> NoReview, id |-> 0]
RegRequestRows ==
  [kind : {"none", "declare", "retract", "review"}, head : {"unread", "current", "moved"},
   by : Curators \cup {Nobody}, relation : RelationRows, review : ReviewRows,
   id : 0..MaxRelations]

Asks(r, kind, p, id, relation, review) ==
  regRequest' = [regRequest EXCEPT ![r] =
    [kind |-> kind, head |-> "unread", by |-> p, relation |-> relation, review |-> review, id |-> id]]

(* The head of the ledger is the last thing a request reads. An entry of    *)
(* one request takes the number every other request has in mind.            *)
ReadRegistryHead(r) ==
  /\ regRequest[r].kind # "none" /\ regRequest[r].head = "unread"
  /\ regRequest' = [regRequest EXCEPT ![r].head = "current"]
  /\ UNCHANGED <<versions, roles, turns, relations, reviews>>

EndRequest(r, commits) ==
  regRequest' = [q \in RegRequests |->
    IF q = r THEN NoRequest
    ELSE IF commits /\ regRequest[q].head = "current" THEN [regRequest[q] EXCEPT !.head = "moved"]
    ELSE regRequest[q]]

-----------------------------------------------------------------------------
(* Supersession *)

(* declareArtifactSupersession up to the batch.                             *)
StartDeclare(r, p, a, b) ==
  /\ regRequest[r].kind = "none" /\ Governs(p) /\ a # b
  /\ ActiveFrom(a) = {} /\ Current(a) > 0 /\ Current(b) > 0
  /\ HeadOf(a).content # HeadOf(b).content /\ HeadOf(b).live
  /\ Asks(r, "declare", p, 0,
          [status |-> "active", source |-> a, target |-> b,
           sv |-> Current(a), tv |-> Current(b), by |-> p],
          NoReview)
  /\ UNCHANGED <<versions, roles, turns, relations, reviews>>

Successor(a) ==
  IF a = Nobody \/ ActiveFrom(a) = {} THEN Nobody
  ELSE relations[CHOOSE s \in ActiveFrom(a) : TRUE].target

(* The recursive query of the trigger: the artifacts that follow b, as far  *)
(* as the bound lets it look.                                               *)
Chain(b) ==
  LET walk[d \in 0..MaxDepth] == IF d = 0 THEN b ELSE Successor(walk[d - 1]) IN walk

\* bug: a chain that goes on beyond the bound is taken for one without a cycle
NoCycleInSight(a, b) == a \notin {Chain(b)[d] : d \in 0..MaxDepth}
NoCycle(a, b) ==
  /\ a \notin {Chain(b)[d] : d \in 0..MaxDepth}
  /\ Successor(Chain(b)[MaxDepth]) = Nobody

(* artifact_supersessions_validate_before_insert.                           *)
RelationAccepted(row) ==
  /\ row.sv = Current(row.source) /\ row.tv = Current(row.target)
  /\ HeadOf(row.target).live /\ Governs(row.by)
  /\ ActiveFrom(row.source) = {}
  /\ NoCycle(row.source, row.target)

CommitDeclare(r) ==
  LET q == regRequest[r]
      commits == q.head = "current" /\ RelationAccepted(q.relation) IN
  /\ q.kind = "declare" /\ q.head # "unread" /\ Len(relations) < MaxRelations
  /\ relations' = IF commits THEN Append(relations, q.relation) ELSE relations
  /\ EndRequest(r, commits)
  /\ UNCHANGED <<versions, roles, turns, reviews>>

(* retractArtifactSupersession: the relation was active when it was loaded. *)
StartRetract(r, p, s) ==
  /\ regRequest[r].kind = "none" /\ Governs(p) /\ relations[s].status = "active"
  /\ Asks(r, "retract", p, s, NoRelation, NoReview)
  /\ UNCHANGED <<versions, roles, turns, relations, reviews>>

(* If another retraction came first the update finds no row, and the        *)
(* trigger on the ledger refuses the second entry.                          *)
CommitRetract(r) ==
  LET q == regRequest[r]
      commits == q.head = "current" /\ relations[q.id].status = "active" /\ Governs(q.by) IN
  /\ q.kind = "retract" /\ q.head # "unread"
  /\ relations' = IF commits THEN [relations EXCEPT ![q.id].status = "retracted"] ELSE relations
  /\ EndRequest(r, commits)
  /\ UNCHANGED <<versions, roles, turns, reviews>>

-----------------------------------------------------------------------------
(* Reviews *)

(* An approval of one's own version is for an owner nobody else can stand   *)
(* in for (recordArtifactReview, and the trigger again).                    *)
Alone(p) == \A o \in Curators \ {p} : ~Contributes(o)
MayGive(p, a, n, verdict) ==
  verdict = "approved" /\ versions[a][n].by = p => roles[p] = "owner" /\ Alone(p)

StartReview(r, p, a, n, verdict) ==
  LET active == ActiveOpinions(a, n, p)
      current == IF active = {} THEN 0 ELSE CHOOSE w \in active : TRUE IN
  /\ regRequest[r].kind = "none" /\ Contributes(p) /\ n \in 1..Current(a)
  /\ versions[a][n].live /\ MayGive(p, a, n, verdict)
  /\ Asks(r, "review", p, 0, NoRelation,
          [status |-> "active", artifact |-> a, version |-> n, by |-> p, verdict |-> verdict,
           replaces |-> current])
  /\ UNCHANGED <<versions, roles, turns, relations, reviews>>

(* The first statement of the batch, when there is an opinion to supersede. *)
Superseded(row) ==
  IF row.replaces # 0 /\ reviews[row.replaces].status = "active"
  THEN [reviews EXCEPT ![row.replaces].status = "superseded"] ELSE reviews

(* What the insert asks of the reviewer's other opinions. The trigger: none *)
(* is active, or the one replaced was superseded at this millisecond, by    *)
(* this batch (or, if `same`, by another). The unique indexes: no other     *)
(* active opinion, no other successor.                                      *)
\* bug: the trigger alone, without the unique indexes
OpinionTriggered(row, same) ==
  IF row.replaces = 0 THEN ActiveOpinions(row.artifact, row.version, row.by) = {}
  ELSE reviews[row.replaces].status = "active" \/ same
OpinionAccepted(row, same) ==
  /\ IF row.replaces = 0 THEN ActiveOpinions(row.artifact, row.version, row.by) = {}
     ELSE reviews[row.replaces].status = "active" \/ same
  /\ ActiveOpinions(row.artifact, row.version, row.by) \ {row.replaces} = {}
  /\ row.replaces = 0 \/ \A w \in DOMAIN reviews : reviews[w].replaces # row.replaces

CommitReview(r, same) ==
  LET q == regRequest[r]
      row == q.review
      commits == /\ q.head = "current" /\ versions[row.artifact][row.version].live
                 /\ Contributes(row.by) /\ MayGive(row.by, row.artifact, row.version, row.verdict)
                 /\ OpinionAccepted(row, same) IN
  /\ q.kind = "review" /\ q.head # "unread" /\ Len(reviews) < MaxReviews
  /\ reviews' = IF commits THEN Append(Superseded(row), row) ELSE reviews
  /\ EndRequest(r, commits)
  /\ UNCHANGED <<versions, roles, turns, relations>>

-----------------------------------------------------------------------------
(* Around them: new versions, erased payloads, changed roles *)

NewVersion(a, p, c) ==
  /\ Contributes(p) /\ Current(a) \in 1..VersionMax - 1
  /\ versions' = [versions EXCEPT ![a] = Append(@, [by |-> p, content |-> c, live |-> TRUE])]
  /\ UNCHANGED <<roles, turns, relations, reviews, regRequest>>

ErasePayload(a, n) ==
  /\ n \in 1..Current(a) /\ versions[a][n].live
  /\ versions' = [versions EXCEPT ![a][n].live = FALSE]
  /\ UNCHANGED <<roles, turns, relations, reviews, regRequest>>

ChangeRole(p, role) ==
  /\ turns < MaxTurns /\ turns' = turns + 1 /\ role # roles[p]
  /\ roles' = [roles EXCEPT ![p] = role]
  /\ UNCHANGED <<versions, relations, reviews, regRequest>>

RegistryInit ==
  /\ versions \in [Artifacts ->
       {<<>>} \cup {<<row>> : row \in [by : Curators, content : Contents, live : {TRUE}]}]
  /\ \A a \in Artifacts : versions[a] # <<>> => versions[a][1].content = a
  /\ roles \in [Curators -> Roles] /\ turns = 0
  /\ relations = <<>> /\ reviews = <<>>
  /\ regRequest = [r \in RegRequests |-> NoRequest]

RegistryNext ==
  \/ \E r \in RegRequests :
       \/ ReadRegistryHead(r) \/ CommitDeclare(r) \/ CommitRetract(r)
       \/ \E same \in BOOLEAN : CommitReview(r, same)
       \/ \E p \in Curators :
            \/ \E s \in DOMAIN relations : StartRetract(r, p, s)
            \/ \E a, b \in Artifacts : StartDeclare(r, p, a, b)
            \/ \E a \in Artifacts, n \in 1..VersionMax, verdict \in Verdicts :
                 StartReview(r, p, a, n, verdict)
  \/ \E a \in Artifacts, n \in 1..VersionMax : ErasePayload(a, n)
  \/ \E a \in Artifacts, p \in Curators, c \in Contents : NewVersion(a, p, c)
  \/ \E p \in Curators, role \in Roles : ChangeRole(p, role)

RegistrySpec == RegistryInit /\ [][RegistryNext]_rvars

-----------------------------------------------------------------------------
(* Properties *)

RegistryTypeOK ==
  /\ versions \in [Artifacts -> Seq(VersionRows)] /\ \A a \in Artifacts : Current(a) <= VersionMax
  /\ roles \in [Curators -> Roles] /\ turns \in 0..MaxTurns
  /\ relations \in Seq(RelationRows) /\ reviews \in Seq(ReviewRows)
  /\ regRequest \in [RegRequests -> RegRequestRows]

(* Whatever requests were under way together, and however long the chains   *)
(* have grown, following what supersedes what never comes back: there is no *)
(* set of artifacts each of which is superseded by one of the set.          *)
NoSupersessionCycle ==
  \A S \in SUBSET Artifacts : S # {} => \E a \in S : Successor(a) \notin S

(* A reviewer has one opinion on a version, and what became of an earlier   *)
(* one can be followed: every superseded opinion has exactly one successor. *)
OneOpinion ==
  \A v, w \in DOMAIN reviews :
    /\ v # w /\ reviews[v].status = "active" /\ reviews[w].status = "active"
         => ~SameOpinion(v, reviews[w].artifact, reviews[w].version, reviews[w].by)
    /\ reviews[v].status = "superseded" =>
         Cardinality({x \in DOMAIN reviews : reviews[x].replaces = v}) = 1
=============================================================================
