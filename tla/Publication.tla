---------------------------- MODULE Publication ----------------------------
(***************************************************************************)
(* What an owner makes of the output of an operation: publishOperation of  *)
(* operation-repository.ts turns the excerpt of its run into the first     *)
(* version of an artifact, and operations-view.tsx shows what is published.*)
(* The operation of a run is called by the run. Its state is read in two   *)
(* statements, the row and then the excerpt, at the start, before every    *)
(* attempt, after one that failed and after one that did not; the batch is *)
(* refused when another one came first, when the excerpt was erased, or    *)
(* when its sequence in the ledger is taken.                               *)
(***************************************************************************)
EXTENDS Custody

CONSTANTS
  Publishers,  \* publish requests under way together
  PublishTries, \* attempts of publishOperation
  MaxHead      \* bound of the ledger

ASSUME PublicationAssumption ==
  PublishTries \in Nat \ {0} /\ MaxHead \in Nat

VARIABLES
  publication, \* operation_publications: the operations that have one
  shelf,       \* artifacts each operation made, with version, payload and ledger entry
  told,        \* answers `published: true` for each operation
  head,        \* the last sequence of the ledger
  ownerIn,     \* the owner who publishes is one still
  publisher,   \* the requests
  shown,       \* what the tab shows for each operation
  listing      \* the list the tab waits for

registered == <<publication, shelf, head>>
tabVars == <<shown, listing>>
publicationVars == <<registered, told, ownerIn, publisher, tabVars>>

-----------------------------------------------------------------------------

States == {"none", "pending", "blocked", "eligible", "published"}

(* first, raced, after, done: why the operation is read.                    *)
Phases == {"first", "raced", "after", "done"}
IdlePublisher == [step |-> "none", phase |-> "first", run |-> Absent, tab |-> FALSE,
                  tries |-> 0, at |-> 0, answer |-> "none"]
PublisherRecords ==
  [step : {"none", "row", "excerpt", "content", "head", "batch", "answered"}, phase : Phases,
   run : Runs \cup {Absent}, tab : BOOLEAN, tries : 0..PublishTries, at : 0..MaxHead,
   answer : {"none", "new", "known", "error"}]

NoListing == [step |-> "none", seen |-> [r \in Runs |-> "none"]]

PublicationInit ==
  /\ publication = {} /\ shelf = [r \in Runs |-> 0] /\ told = [r \in Runs |-> 0]
  /\ head = 0 /\ ownerIn = TRUE
  /\ publisher = [q \in Publishers |-> IdlePublisher]
  /\ shown = [r \in Runs |-> "none"] /\ listing = NoListing

(* deriveOperationPublicationState, and the publication before it.          *)
RowState(r) ==
  IF r \in publication THEN "published"
  ELSE IF row[r].status \in {"queued", "leased"} THEN "pending"
  ELSE IF row[r].outcome # "succeeded" \/ excerpt[r].state # "stored" \/ excerpt[r].output = "cut" THEN "blocked"
  ELSE "eligible"
(* readEngineRunExcerpt and projectOperationArtifactContent, by the owner.  *)
HasText(r) == ownerIn /\ excerpt[r].state = "stored" /\ excerpt[r].output = "text"
ExcerptState(r) == IF HasText(r) THEN "eligible" ELSE "blocked"

-----------------------------------------------------------------------------
(* publishOperation *)

Phase(q, phase) == [publisher[q] EXCEPT !.step = "row", !.phase = phase]
Says(q, answer) == [publisher[q] EXCEPT !.step = "answered", !.answer = answer]

(* A request comes in, of an owner; the tab's own, or one of another tab or *)
(* one it gave up.                                                          *)
Publish(q, r, tab) ==
  /\ publisher[q] = IdlePublisher /\ row[r].status # "absent" /\ ownerIn
  /\ publisher' = [publisher EXCEPT ![q] = [IdlePublisher EXCEPT !.step = "row", !.run = r, !.tab = tab]]
  /\ UNCHANGED <<registered, told, ownerIn, tabVars>>

(* What follows from the state that was read.                               *)
\* bug: a request calls every publication it finds its own
ConcludedAsOwn(q, state) ==
  CASE state = "published" -> Says(q, "new")
    [] state = "eligible" /\ publisher[q].phase = "first" -> [publisher[q] EXCEPT !.step = "content"]
    [] state \in {"eligible", "pending"} /\ publisher[q].phase = "raced" -> [publisher[q] EXCEPT !.step = "head"]
    [] state \in {"eligible", "pending"} /\ publisher[q].phase = "after" /\ publisher[q].tries + 1 < PublishTries ->
         [Phase(q, "raced") EXCEPT !.tries = @ + 1]
    [] OTHER -> Says(q, "error")
Concluded(q, state) ==
  CASE state = "published" /\ publisher[q].phase = "done" -> Says(q, "new")
    [] state = "published" /\ publisher[q].phase # "done" -> Says(q, "known")
    [] state = "eligible" /\ publisher[q].phase = "first" -> [publisher[q] EXCEPT !.step = "content"]
    [] state \in {"eligible", "pending"} /\ publisher[q].phase = "raced" -> [publisher[q] EXCEPT !.step = "head"]
    [] state \in {"eligible", "pending"} /\ publisher[q].phase = "after" /\ publisher[q].tries + 1 < PublishTries ->
         [Phase(q, "raced") EXCEPT !.tries = @ + 1]
    [] OTHER -> Says(q, "error")
Reached(q, state) ==
  LET next == Concluded(q, state) IN
  /\ publisher' = [publisher EXCEPT ![q] = next]
  /\ told' = IF next.answer = "new" THEN [told EXCEPT ![publisher[q].run] = @ + 1] ELSE told

(* requireOperation: an excerpt that cannot be read or decrypted blocks.    *)
ReadRow(q) ==
  LET state == RowState(publisher[q].run) IN
  /\ publisher[q].step = "row" /\ ownerIn
  /\ IF state = "eligible"
     THEN publisher' = [publisher EXCEPT ![q].step = "excerpt"] /\ UNCHANGED told
     ELSE Reached(q, state)
  /\ UNCHANGED <<registered, ownerIn, tabVars>>
ReadExcerpt(q) ==
  /\ publisher[q].step = "excerpt"
  /\ \E state \in {ExcerptState(publisher[q].run), "blocked"} : Reached(q, state)
  /\ UNCHANGED <<registered, ownerIn, tabVars>>
(* The owner is none any more, or a read fails; behind a batch that went    *)
(* through it is one more failure of the attempt.                           *)
ReadFails(q) ==
  /\ publisher[q].step \in {"row", "content", "head"}
  /\ publisher' = [publisher EXCEPT ![q] = IF publisher[q].phase = "done" THEN Phase(q, "after") ELSE Says(q, "error")]
  /\ UNCHANGED <<registered, told, ownerIn, tabVars>>

ReadContent(q) ==
  /\ publisher[q].step = "content"
  /\ publisher' = [publisher EXCEPT ![q] = IF HasText(publisher[q].run) THEN Phase(q, "raced") ELSE Says(q, "error")]
  /\ UNCHANGED <<registered, told, ownerIn, tabVars>>
ReadLedgerHead(q) ==
  /\ publisher[q].step = "head"
  /\ publisher' = [publisher EXCEPT ![q].step = "batch", ![q].at = head]
  /\ UNCHANGED <<registered, told, ownerIn, tabVars>>

(* operation_publications: its key, its trigger, and the ledger's sequence. *)
Publishable(q) ==
  LET r == publisher[q].run IN
  /\ ownerIn /\ r \notin publication /\ head = publisher[q].at
  /\ row[r].status = "completed" /\ row[r].outcome = "succeeded" /\ excerpt[r].state = "stored"
(* Payload, artifact, version, publication and ledger entry; the answer may *)
(* be lost.                                                                 *)
CommitPublication(q) ==
  LET r == publisher[q].run IN
  /\ publisher[q].step = "batch" /\ Publishable(q) /\ head < MaxHead
  /\ publication' = publication \cup {r}
  /\ shelf' = [shelf EXCEPT ![r] = @ + 1]
  /\ head' = head + 1
  /\ \E phase \in {"done", "after"} : publisher' = [publisher EXCEPT ![q] = Phase(q, phase)]
  /\ UNCHANGED <<told, ownerIn, tabVars>>
(* Refused, or failed.                                                      *)
FailPublication(q) ==
  /\ publisher[q].step = "batch"
  /\ publisher' = [publisher EXCEPT ![q] = Phase(q, "after")]
  /\ UNCHANGED <<registered, told, ownerIn, tabVars>>

(* The answer arrives at whoever asked, or does not; the tab's is merged    *)
(* into its list.                                                           *)
Answered(q) ==
  /\ publisher[q].step = "answered"
  /\ publisher' = [publisher EXCEPT ![q] = IdlePublisher]
  /\ UNCHANGED <<registered, told, ownerIn, listing>>
TakePublished(q) ==
  /\ Answered(q)
  /\ shown' = IF publisher[q].tab /\ publisher[q].answer \in {"new", "known"}
              THEN [shown EXCEPT ![publisher[q].run] = "published"] ELSE shown
LosePublished(q) == Answered(q) /\ UNCHANGED shown

OtherEntries ==
  /\ head < MaxHead
  /\ head' = head + 1
  /\ UNCHANGED <<publication, shelf, told, ownerIn, publisher, tabVars>>
OwnerChanges ==
  /\ ownerIn' = ~ownerIn
  /\ UNCHANGED <<registered, told, publisher, tabVars>>

-----------------------------------------------------------------------------
(* The tab *)

(* One at a time, of what the tab shows as eligible.                        *)
Click(q, r) == shown[r] = "eligible" /\ (\A p \in Publishers : ~publisher[p].tab) /\ Publish(q, r, TRUE)

(* A list that is asked for anew makes the tab drop the one under way.      *)
AskList ==
  /\ listing' = [NoListing EXCEPT !.step = "rows"]
  /\ UNCHANGED <<registered, told, ownerIn, publisher, shown>>
Listed(r) == IF row[r].status = "absent" THEN "none" ELSE RowState(r)
ListRows ==
  /\ listing.step = "rows" /\ ownerIn
  /\ listing' = [step |-> "excerpts", seen |-> [r \in Runs |-> Listed(r)]]
  /\ UNCHANGED <<registered, told, ownerIn, publisher, shown>>
ListExcerpts ==
  /\ listing.step = "excerpts"
  /\ \E unread \in SUBSET Runs :
       listing' = [step |-> "answered",
                   seen |-> [r \in Runs |-> IF listing.seen[r] # "eligible" THEN listing.seen[r]
                                            ELSE IF r \in unread THEN "blocked" ELSE ExcerptState(r)]]
  /\ UNCHANGED <<registered, told, ownerIn, publisher, shown>>
TakeList ==
  /\ listing.step = "answered"
  /\ shown' = listing.seen /\ listing' = NoListing
  /\ UNCHANGED <<registered, told, ownerIn, publisher>>

-----------------------------------------------------------------------------
PublisherStep ==
  \/ OtherEntries \/ OwnerChanges
  \/ \E q \in Publishers :
       \/ ReadRow(q) \/ ReadExcerpt(q) \/ ReadFails(q) \/ ReadContent(q) \/ ReadLedgerHead(q)
       \/ CommitPublication(q) \/ FailPublication(q) \/ TakePublished(q) \/ LosePublished(q)
  \/ \E q \in Publishers, r \in Runs : Publish(q, r, FALSE)
TabStep ==
  \/ AskList \/ ListRows \/ ListExcerpts \/ TakeList
  \/ \E q \in Publishers, r \in Runs : Click(q, r)

PublicationNext ==
  \/ CustodyNext /\ UNCHANGED publicationVars
  \/ (PublisherStep \/ TabStep) /\ UNCHANGED custodyVars
PublicationSpec == CustodyInit /\ PublicationInit /\ [][PublicationNext]_<<custodyVars, publicationVars>>

-----------------------------------------------------------------------------
(* Properties *)

PublicationTypeOK ==
  /\ publication \subseteq Runs
  /\ shelf \in [Runs -> Nat] /\ told \in [Runs -> Nat]
  /\ head \in 0..MaxHead /\ ownerIn \in BOOLEAN
  /\ publisher \in [Publishers -> PublisherRecords]
  /\ shown \in [Runs -> States]
  /\ listing \in [step : {"none", "rows", "excerpts", "answered"}, seen : [Runs -> States]]

(* However many publish an operation at once, retry and lose their answers, *)
(* it makes one artifact, of the text a succeeded run left; one of them is  *)
(* told it published at most, and the tab shows as published what is, even  *)
(* when a list it asked for before comes after (operation_publications, the *)
(* retry loop of publishOperation, mergeOperation).                         *)
PublishedOnce ==
  \A r \in Runs :
    /\ shelf[r] = IF r \in publication THEN 1 ELSE 0
    /\ r \in publication => row[r].outcome = "succeeded" /\ excerpt[r].output = "text"
    /\ told[r] <= shelf[r]
    /\ shown[r] = "published" => r \in publication
=============================================================================
