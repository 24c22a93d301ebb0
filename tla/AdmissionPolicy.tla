--------------------------- MODULE AdmissionPolicy ---------------------------
(***************************************************************************)
(* How owners change the policy by which runners are admitted: the current *)
(* policy, its versions and their ledger entries                           *)
(* (admission-policy-repository.ts with the triggers of drizzle/0022 and   *)
(* 0024), and the panels in which two owners read, draft and submit it     *)
(* (admission-policy-panel.tsx, admission-policy-editor.tsx).              *)
(***************************************************************************)
EXTENDS Naturals, FiniteSets

CONSTANTS
  Editors,        \* people with the panel open
  Puts,           \* PUT requests under way together
  MaxVersion,     \* bound of the versions
  MaxDrafts,      \* bound of the drafts a person opens
  MaxOthers,      \* bound of the ledger entries written by others
  PolicyRetries,  \* LEDGER_RETRY_LIMIT
  Instants,       \* readings of the clocks of the servers
  Absent

ASSUME PolicyAssumption ==
  /\ {MaxVersion, MaxDrafts, PolicyRetries} \subseteq Nat \ {0} /\ MaxOthers \in Nat
  /\ Instants \subseteq Nat /\ Absent \notin Editors

VARIABLES
  policy,   \* runner_admission_policies and runner_admission_policy_versions
  journal,  \* ledger_entries: the last number, the versions entered, the others
  owners,   \* who is an owner or admin
  puts,     \* PUT requests
  panels    \* RunnerAdmissionPolicyPanel of each editor

polvars == <<policy, journal, owners, puts, panels>>

-----------------------------------------------------------------------------

Versions == 1..MaxVersion
NoVersion == [by |-> Absent, text |-> 0, shown |-> 0, at |-> 0]
NoPut == [step |-> "none", by |-> Absent, text |-> 0, shown |-> 0, expected |-> 0, now |-> 0, head |-> 0,
          tries |-> 0, why |-> "none", heard |-> FALSE]
NoDraft == [open |-> FALSE, text |-> 0, base |-> 0, conflict |-> 0, lost |-> FALSE]
NewPanel == [shown |-> 0, mayEdit |-> FALSE, load |-> Absent, draft |-> NoDraft, sent |-> NoDraft, does |-> "rest",
             got |-> Absent, opened |-> 0]

Head == policy.head
UpdatedAt == IF Head = 0 THEN 0 ELSE policy.rows[Head].at
View(p) == [version |-> Head, mayEdit |-> p \in owners]

-----------------------------------------------------------------------------
(* putRunnerAdmissionPolicy                                                 *)

AnswerPut(w, reply) ==
  LET p == puts[w].by IN
  /\ puts' = [puts EXCEPT ![w] = NoPut]
  /\ panels' = IF puts[w].heard THEN [panels EXCEPT ![p].does = reply] ELSE panels

GoOn(w, step) == puts' = [puts EXCEPT ![w].step = step] /\ UNCHANGED panels

ArrivePut(w) ==
  /\ puts[w].step = "sent"
  /\ IF puts[w].by \in owners
     THEN \E now \in Instants :
            puts' = [puts EXCEPT ![w].step = "read", ![w].now = now] /\ UNCHANGED panels
     ELSE AnswerPut(w, "forbidden")
  /\ UNCHANGED <<policy, journal, owners>>

\* bug: the draft wins over whatever was decided since
ExpectedAny(w) == TRUE
Expected(w) == Head = puts[w].expected

ReadPolicy(w) ==
  /\ puts[w].step = "read"
  /\ IF Expected(w) THEN GoOn(w, "tail") ELSE AnswerPut(w, "conflict")
  /\ UNCHANGED <<policy, journal, owners>>

ReadTail(w) ==
  /\ puts[w].step = "tail"
  /\ puts' = [puts EXCEPT ![w].step = "commit", ![w].head = journal.last]
  /\ UNCHANGED <<policy, journal, owners, panels>>

nextPolicyUpdatedAt(w) == IF UpdatedAt < puts[w].now THEN puts[w].now ELSE UpdatedAt + 1

(* The current policy, its version and the entry, or nothing: the actor is  *)
(* an owner, the version is the next one, the number is not taken.          *)
NextNumber(w) == puts[w].head = journal.last
Committable(w) == puts[w].by \in owners /\ Expected(w) /\ NextNumber(w) /\ Head < MaxVersion

WriteVersion(w) ==
  /\ policy' = [head |-> Head + 1,
                rows |-> [policy.rows EXCEPT ![Head + 1] = [by |-> puts[w].by, text |-> puts[w].text,
                                                            shown |-> puts[w].shown, at |-> nextPolicyUpdatedAt(w)]]]
  /\ journal' = [journal EXCEPT !.last = @ + 1, !.versions[puts[w].expected + 1] = @ + 1]

(* The version is read back for the answer, which may fail.                 *)
CommitPolicy(w) ==
  /\ puts[w].step = "commit"
  /\ \/ /\ Committable(w) /\ WriteVersion(w)
        /\ \E reply \in {"saved", "ambiguous"} : AnswerPut(w, reply)
     \/ /\ ~Committable(w)
        /\ puts' = [puts EXCEPT ![w].step = "after",
                                ![w].why = IF puts[w].by \in owners THEN "number" ELSE "actor"]
        /\ UNCHANGED <<policy, journal, panels>>
  /\ UNCHANGED owners

(* D1 fails, with or without the batch committed.                           *)
FailPolicy(w) ==
  /\ puts[w].step = "commit"
  /\ \/ UNCHANGED <<policy, journal>>
     \/ Committable(w) /\ WriteVersion(w)
  /\ puts' = [puts EXCEPT ![w].step = "after", ![w].why = "d1"]
  /\ UNCHANGED <<owners, panels>>

AfterPolicy(w) ==
  /\ puts[w].step = "after"
  /\ \/ Head # puts[w].expected /\ AnswerPut(w, "conflict")
     \/ /\ Head = puts[w].expected
        /\ \/ puts[w].why = "actor" /\ AnswerPut(w, "forbidden")
           \/ puts[w].why = "d1" /\ AnswerPut(w, "ambiguous")
           \/ /\ puts[w].why = "number"
              /\ IF puts[w].tries + 1 < PolicyRetries
                 THEN puts' = [puts EXCEPT ![w].step = "read", ![w].tries = @ + 1] /\ UNCHANGED panels
                 ELSE AnswerPut(w, "conflict")
  /\ UNCHANGED <<policy, journal, owners>>

-----------------------------------------------------------------------------
(* loadPolicy and openEditor of the panel                                   *)

Panel(p, row) == panels' = [panels EXCEPT ![p] = row]

(* mergeRunnerAdmissionPolicyResponse                                       *)
Merged(panel, view) ==
  IF view.version < panel.shown THEN panel ELSE [panel EXCEPT !.shown = view.version, !.mayEdit = view.mayEdit]

(* First, every 20 s while no editor is open; the one before is aborted.    *)
AskPolicy(p) ==
  /\ ~panels[p].draft.open /\ panels[p].load = Absent
  /\ Panel(p, [panels[p] EXCEPT !.load = View(p)])
  /\ UNCHANGED <<policy, journal, owners, puts>>

HearPolicy(p) ==
  /\ panels[p].load # Absent
  /\ Panel(p, [Merged(panels[p], panels[p].load) EXCEPT !.load = Absent])
  /\ UNCHANGED <<policy, journal, owners, puts>>

OpenEditor(p) ==
  LET panel == panels[p] IN
  /\ ~panel.draft.open /\ panel.mayEdit /\ panel.opened < MaxDrafts
  /\ Panel(p, [panel EXCEPT !.load = Absent, !.opened = @ + 1, !.does = "rest",
                            !.draft = [NoDraft EXCEPT !.open = TRUE, !.base = panel.shown, !.text = panel.opened + 1]])
  /\ UNCHANGED <<policy, journal, owners, puts>>

Hushed(p) == [w \in Puts |-> IF puts[w].by = p THEN [puts[w] EXCEPT !.heard = FALSE] ELSE puts[w]]

StopsHearing(p) == Hushed(p)

CloseEditor(p) ==
  /\ panels[p].draft.open
  /\ puts' = StopsHearing(p)
  /\ Panel(p, [panels[p] EXCEPT !.draft = NoDraft, !.does = "rest", !.got = Absent])
  /\ UNCHANGED <<policy, journal, owners>>

-----------------------------------------------------------------------------
(* submitDraft                                                              *)

Rebased(draft) == IF draft.conflict > 0 THEN [draft EXCEPT !.base = draft.conflict, !.conflict = 0] ELSE draft

SubmitDraft(p, w) ==
  LET draft == Rebased(panels[p].draft) IN
  /\ panels[p].draft.open /\ panels[p].does = "rest" /\ ~draft.lost /\ puts[w] = NoPut
  /\ draft.base < MaxVersion
  /\ puts' = [StopsHearing(p) EXCEPT ![w] = [NoPut EXCEPT !.step = "sent", !.by = p, !.text = draft.text, !.shown = panels[p].shown,
                                                     !.expected = draft.base, !.heard = TRUE]]
  /\ Panel(p, [panels[p] EXCEPT !.draft = draft, !.sent = draft, !.does = "submit"])
  /\ UNCHANGED <<policy, journal, owners>>

(* The connection breaks; the request goes on.                              *)
LosePut(p) ==
  /\ panels[p].does = "submit"
  /\ puts' = Hushed(p)
  /\ Panel(p, [panels[p] EXCEPT !.does = "ambiguous"])
  /\ UNCHANGED <<policy, journal, owners>>

(* 200: the version after the draft's base is shown, the editor closes.     *)
HearSaved(p) ==
  /\ panels[p].does = "saved"
  /\ Panel(p, [Merged(panels[p], [version |-> panels[p].sent.base + 1, mayEdit |-> TRUE])
                 EXCEPT !.draft = NoDraft, !.does = "rest"])
  /\ UNCHANGED <<policy, journal, owners, puts>>

(* 409, 403 or no certainty: the facts are read again ...                   *)
RefreshFacts(p) ==
  /\ panels[p].does \in {"conflict", "forbidden", "ambiguous"} /\ panels[p].got = Absent
  /\ \E view \in {View(p), [version |-> 0, mayEdit |-> FALSE]} : Panel(p, [panels[p] EXCEPT !.got = view])
  /\ UNCHANGED <<policy, journal, owners, puts>>

(* ... and shown, with the draft that was sent, unless they say nothing new.*)
Facts(p) ==
  LET panel == [panels[p] EXCEPT !.draft = panels[p].sent]
      got == panel.got
      ahead == got.version > panel.draft.base
      read == ahead \/ (panel.does = "ambiguous" /\ got.version = panel.draft.base)
  IN CASE panel.does = "forbidden" -> [Merged(panel, got) EXCEPT !.mayEdit = FALSE, !.draft.lost = TRUE]
       [] panel.does # "forbidden" /\ read /\ ~got.mayEdit -> [Merged(panel, got) EXCEPT !.draft.lost = TRUE]
       [] panel.does # "forbidden" /\ read /\ got.mayEdit ->
            [Merged(panel, got) EXCEPT !.draft.conflict = IF ahead THEN got.version ELSE 0]
       [] OTHER -> panel

HearFacts(p) ==
  /\ panels[p].does \in {"conflict", "forbidden", "ambiguous"} /\ panels[p].got # Absent
  /\ Panel(p, [Facts(p) EXCEPT !.does = "rest", !.got = Absent])
  /\ UNCHANGED <<policy, journal, owners, puts>>

-----------------------------------------------------------------------------

(* Another entry of the organization's ledger.                              *)
OtherEntry ==
  /\ journal.others < MaxOthers
  /\ journal' = [journal EXCEPT !.last = @ + 1, !.others = @ + 1]
  /\ UNCHANGED <<policy, owners, puts, panels>>

ChangeRole(p) ==
  /\ owners' = owners \ {p} /\ p \in owners /\ owners # {p}
  /\ UNCHANGED <<policy, journal, puts, panels>>

PolicyInit ==
  /\ policy = [head |-> 0, rows |-> [v \in Versions |-> NoVersion]]
  /\ journal = [last |-> 0, versions |-> [v \in Versions |-> 0], others |-> 0]
  /\ owners = Editors
  /\ puts = [w \in Puts |-> NoPut]
  /\ panels = [p \in Editors |-> NewPanel]

HandlePut(w) == ArrivePut(w) \/ ReadPolicy(w) \/ ReadTail(w) \/ CommitPolicy(w) \/ FailPolicy(w) \/ AfterPolicy(w)
UsePanel(p) ==
  AskPolicy(p) \/ HearPolicy(p) \/ OpenEditor(p) \/ CloseEditor(p) \/ LosePut(p) \/ HearSaved(p)
    \/ RefreshFacts(p) \/ HearFacts(p)

PolicyNext ==
  \/ \E w \in Puts : HandlePut(w)
  \/ \E p \in Editors : UsePanel(p) \/ ChangeRole(p)
  \/ \E p \in Editors, w \in Puts : SubmitDraft(p, w)
  \/ OtherEntry

PolicySpec == PolicyInit /\ [][PolicyNext]_polvars

-----------------------------------------------------------------------------
(* Properties *)

Texts == 0..MaxDrafts
Drafts == [open : BOOLEAN, text : Texts, base : Nat, conflict : Nat, lost : BOOLEAN]
Views == [version : Nat, mayEdit : BOOLEAN]
VersionRows == [by : Editors \cup {Absent}, text : Texts, shown : Nat, at : Nat]
PutRows ==
  [step : {"none", "sent", "read", "tail", "commit", "after"}, by : Editors \cup {Absent}, text : Texts,
   shown : Nat, expected : Nat, now : Nat, head : Nat, tries : Nat,
   why : {"none", "number", "actor", "d1"}, heard : BOOLEAN]
Doings == {"rest", "submit", "saved", "conflict", "forbidden", "ambiguous"}
Panels ==
  [shown : Nat, mayEdit : BOOLEAN, load : Views \cup {Absent}, draft : Drafts, sent : Drafts, does : Doings,
   got : Views \cup {Absent}, opened : Texts]
PolicyTypeOK ==
  /\ policy \in [head : 0..MaxVersion, rows : [Versions -> VersionRows]]
  /\ journal \in [last : Nat, versions : [Versions -> Nat], others : Nat]
  /\ owners \subseteq Editors /\ puts \in [Puts -> PutRows] /\ panels \in [Editors -> Panels]

(* Every version was decided once, with one ledger entry, later than the    *)
(* one before, on a screen that showed the one before; and the text of an   *)
(* open draft is what its owner typed since it was opened, whatever answers *)
(* to earlier drafts arrive (COMPARE-AND-SWAP of the editor).               *)
DecidedOnFacts ==
  /\ \A v \in Versions :
       /\ journal.versions[v] = (IF v <= Head THEN 1 ELSE 0)
       /\ v <= Head => policy.rows[v].by # Absent /\ policy.rows[v].shown = v - 1
       /\ v > 1 /\ v <= Head => policy.rows[v].at > policy.rows[v - 1].at
  /\ \A p \in Editors : panels[p].draft.open => panels[p].draft.text = panels[p].opened
=============================================================================
