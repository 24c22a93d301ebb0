---------------------------- MODULE RunnerReports ----------------------------
(***************************************************************************)
(* What a runner declares about itself and what the control plane takes it *)
(* to be: the reports of one runner and their nonces (engine-report- and   *)
(* capability-report-repository.ts, declaration-nonce.ts, the triggers of  *)
(* drizzle/0019, 0020 and 0024), and the commands that send them, with     *)
(* their outbox entry and engine-report-state.json (nexus-runner.mjs).     *)
(* Both kinds of reports are handled alike; a behavior is about one kind.  *)
(* One command runs at a time (the lock of RunnerLock).                    *)
(***************************************************************************)
EXTENDS Naturals, FiniteSets

CONSTANTS
  Inventories,    \* what a probe of the machine may find
  Reports,        \* ids of reports: random, and they break ties (numbers)
  Sends,          \* nonces of signed requests, in the order of their use
  Wires,          \* requests under way together
  Freshness,      \* values of capability/engineFreshnessSeconds
  Interval,       \* ENGINE_REPORT_INTERVAL_MAX_SECONDS
  SignedFor,      \* RUNNER_SKEW_PAST_MS
  LongestPost,    \* how long the platform lets a request run
  DeclarationTtl, \* DECLARATION_NONCE_TTL_MS
  ResponseTtl,    \* DECLARATION_RESPONSE_TTL_MS
  ApplyAttempts,  \* CAPABILITY_APPLY_ATTEMPTS, ENGINE_APPLY_ATTEMPTS
  LastTime,       \* bound of the clock
  Nil

ASSUME ReportsAssumption ==
  /\ Reports \subseteq Nat \ {0} /\ Sends \subseteq Nat \ {0} /\ Freshness \subseteq Nat \ {0, 1}
  /\ Nil \notin Reports \cup Inventories
  /\ {Interval, ApplyAttempts} \subseteq Nat \ {0}
  /\ {SignedFor, LongestPost, DeclarationTtl, ResponseTtl, LastTime} \subseteq Nat
  /\ DeclarationTtl > SignedFor + LongestPost /\ ResponseTtl >= DeclarationTtl

VARIABLES
  kind,       \* the kind of the reports of this behavior
  declared,   \* runner_engine_reports or runner_capability_reports
  nonceRows,  \* runner_capability_nonces: the report answered and the expiry
  enlisted,   \* the runner and its principal are active
  lastSeen,   \* runners.last_seen_at
  freshness,  \* the freshness of the current admission policy
  requests,   \* requests under way
  sends,      \* signed requests: their report and when they were signed
  answers,    \* the 201 answers given for a report
  inventory,  \* what a probe of the machine would find
  entry,      \* the pending report of the outbox
  memo,       \* engine-report-state.json
  reporter,   \* the command that reports
  time        \* the clock

repvars == <<kind, declared, nonceRows, enlisted, lastSeen, freshness, requests, sends, answers, inventory, entry, memo,
           reporter, time>>
tables == <<declared, nonceRows, enlisted, lastSeen>>
local == <<inventory, entry, memo>>
world == <<kind, freshness>>

-----------------------------------------------------------------------------

Unreported == [finds |-> Nil, at |-> 0, body |-> Nil, compacted |-> FALSE, replays |-> 0, applied |-> 0,
              fresh |-> 0, age |-> 0]
NoPost == [step |-> "none", send |-> 0, now |-> 0, prev |-> 0, fresh |-> 0, tries |-> 0, heard |-> FALSE]
IdleCommand == [at |-> "idle", finds |-> Nil, replaced |-> FALSE, body |-> Nil, since |-> 0]
ReportKinds == {"engine", "capability"}

Unposted(c) == requests[c].step = "none"
ReportOf(c) == sends[requests[c].send].report
Declared(r) == declared[r].at > 0
GoesOn(c, step) == requests' = [requests EXCEPT ![c].step = step]

-----------------------------------------------------------------------------
(* The latest report: ORDER BY received_at DESC, report_id DESC.            *)

Newer(r, s) == declared[r].at > declared[s].at \/ (declared[r].at = declared[s].at /\ r > s)
LatestReport(r) == Declared(r) /\ \A s \in Reports \ {r} : Declared(s) => Newer(r, s)
LatestAt == IF \E r \in Reports : LatestReport(r) THEN declared[CHOOSE r \in Reports : LatestReport(r)].at ELSE 0

-----------------------------------------------------------------------------
(* Answers: 201 with a body, 403, 410 and 409 report_conflict, which settle *)
(* the entry, and what leaves it pending: 5xx, 409 nonce_reused, no answer. *)

Reply(c, reply, body) ==
  /\ requests' = [requests EXCEPT ![c] = NoPost]
  /\ answers' = IF reply = "accepted" THEN [answers EXCEPT ![ReportOf(c)] = @ \cup {body}] ELSE answers
  /\ reporter' = IF requests[c].heard THEN [reporter EXCEPT !.at = reply, !.body = body] ELSE reporter

TurnDown(c, reply) == Reply(c, reply, Nil)

(* What assert, nonce and stored report say, at the start and again after a *)
(* batch that failed. What changes between the three reads, the batch finds.*)
Replayed(c) == enlisted /\ nonceRows[requests[c].send].report # Nil
Stored(c) == enlisted /\ Declared(ReportOf(c))
Unanswered(c) == enlisted /\ ~Replayed(c) /\ ~Stored(c)
BodyOfNonce(c) == nonceRows[requests[c].send].body

Look(c) ==
  \/ ~enlisted /\ TurnDown(c, "settled")
  \/ Replayed(c) /\ Reply(c, "accepted", BodyOfNonce(c))
  \/ /\ Stored(c) /\ ~Replayed(c)
     /\ IF declared[ReportOf(c)].compacted
        THEN TurnDown(c, "settled")
        ELSE GoesOn(c, "replay") /\ UNCHANGED <<answers, reporter>>

-----------------------------------------------------------------------------
(* applyRunnerEngineReport, applyRunnerCapabilityReport                     *)

Timely(c) == sends[requests[c].send].signed + SignedFor >= time

(* signedDeclarationRoute takes now once, when the signature is verified.   *)
ArriveReport(c) ==
  /\ requests[c].step = "sent"
  /\ IF enlisted /\ Timely(c)
     THEN requests' = [requests EXCEPT ![c].step = "look", ![c].now = time] /\ UNCHANGED <<answers, reporter>>
     ELSE TurnDown(c, "settled")
  /\ UNCHANGED <<tables, world, sends, local, time>>

LookAtReport(c) ==
  /\ requests[c].step = "look"
  /\ \/ Look(c)
     \/ Unanswered(c) /\ GoesOn(c, "read") /\ UNCHANGED <<answers, reporter>>
  /\ UNCHANGED <<tables, world, sends, local, time>>

ReadLatest(c) ==
  /\ requests[c].step = "read"
  /\ requests' = [requests EXCEPT ![c].step = "apply", ![c].prev = LatestAt, ![c].fresh = freshness]
  /\ UNCHANGED <<tables, world, sends, answers, local, reporter, time>>

Later(s, t) == IF s > t THEN s ELSE t
nextReceivedAt(c) == Later(requests[c].now, requests[c].prev)

IntervalOf(c) == IF requests[c].fresh \div 2 < Interval THEN requests[c].fresh \div 2 ELSE Interval
Acknowledgement(c) ==
  [at |-> nextReceivedAt(c), next |-> IF kind = "engine" THEN nextReceivedAt(c) + IntervalOf(c) ELSE 0]

(* The triggers of the two tables and their primary keys.                   *)
Insertable(c) ==
  /\ enlisted /\ ~Declared(ReportOf(c)) /\ nextReceivedAt(c) >= LatestAt
  /\ nonceRows[requests[c].send].report = Nil

NoteNonce(c, body) ==
  nonceRows' = [nonceRows EXCEPT ![requests[c].send] =
                  [report |-> ReportOf(c), until |-> requests[c].now + DeclarationTtl, body |-> body]]
SeeRunner(c) == lastSeen' = Later(lastSeen, requests[c].now)

Insert(c) ==
  /\ declared' = [declared EXCEPT ![ReportOf(c)] =
       [finds |-> sends[requests[c].send].finds, at |-> nextReceivedAt(c), body |-> Acknowledgement(c),
        compacted |-> FALSE, replays |-> 0, applied |-> @.applied + 1, fresh |-> requests[c].fresh,
        age |-> Cardinality({r \in Reports : Declared(r)}) + 1]]
  /\ NoteNonce(c, Acknowledgement(c)) /\ SeeRunner(c) /\ UNCHANGED enlisted

ApplyReport(c) ==
  /\ requests[c].step = "apply"
  /\ \/ Insertable(c) /\ Insert(c) /\ GoesOn(c, "tidy")
     \/ ~Insertable(c) /\ GoesOn(c, "failed") /\ UNCHANGED tables
  /\ UNCHANGED <<world, sends, answers, local, reporter, time>>

(* D1 fails, with or without the batch committed. No other attempt follows. *)
FailReport(c) ==
  /\ requests[c].step = "apply"
  /\ \/ UNCHANGED tables
     \/ Insertable(c) /\ Insert(c)
  /\ requests' = [requests EXCEPT ![c].step = "failed", ![c].tries = ApplyAttempts]
  /\ UNCHANGED <<world, sends, answers, local, reporter, time>>

(* resolveEngineApplyFailure; isEngineReceiveRace lets it try again.        *)
AfterFailure(c) ==
  /\ requests[c].step = "failed"
  /\ \/ Look(c)
     \/ /\ Unanswered(c)
        /\ IF requests[c].tries + 1 < ApplyAttempts
           THEN /\ requests' = [requests EXCEPT ![c].step = "read", ![c].tries = @ + 1]
                /\ UNCHANGED <<answers, reporter>>
           ELSE TurnDown(c, "open")
  /\ UNCHANGED <<tables, world, sends, local, time>>

-----------------------------------------------------------------------------
(* replayStoredEngineReport: the replay is counted and gets a nonce, or its *)
(* report was compacted, or its nonce is taken.                             *)

Replayable(c) ==
  LET row == declared[ReportOf(c)] IN
  enlisted /\ ~row.compacted /\ nonceRows[requests[c].send].report = Nil

ReplayReport(c) ==
  /\ requests[c].step = "replay"
  /\ IF Replayable(c)
     THEN /\ declared' = [declared EXCEPT ![ReportOf(c)].replays = @ + 1]
          /\ NoteNonce(c, declared[ReportOf(c)].body) /\ SeeRunner(c) /\ UNCHANGED enlisted
          /\ GoesOn(c, "tidy")
     ELSE GoesOn(c, "miss") /\ UNCHANGED tables
  /\ UNCHANGED <<world, sends, answers, local, reporter, time>>

(* A compacted report is 410; any other miss leaves the outcome open.       *)
MissReplay(c) ==
  /\ requests[c].step = "miss"
  /\ \/ Replayed(c) /\ Reply(c, "accepted", BodyOfNonce(c))
     \/ ~Replayed(c) /\ ~enlisted /\ TurnDown(c, "settled")
     \/ /\ ~Replayed(c) /\ enlisted
        /\ TurnDown(c, IF declared[ReportOf(c)].compacted THEN "settled" ELSE "open")
  /\ UNCHANGED <<tables, world, sends, local, time>>

-----------------------------------------------------------------------------
(* cleanupDeclarationOperationalState, whose failure is ignored             *)

Compacts(r) == [declared[r] EXCEPT !.compacted = TRUE]

TidyUp(c) ==
  LET now == requests[c].now IN
  /\ nonceRows' = [n \in Sends |-> IF nonceRows[n].report # Nil /\ nonceRows[n].until <= now
                                   THEN [report |-> Nil, until |-> 0, body |-> Nil] ELSE nonceRows[n]]
  /\ declared' = [r \in Reports |-> IF Declared(r) /\ declared[r].at + ResponseTtl <= now
                                    THEN Compacts(r) ELSE declared[r]]
  /\ UNCHANGED <<enlisted, lastSeen>>

\* bug: a replay is acknowledged anew
AnsweredAnew(c) == Acknowledgement(c)
Answered(c) == declared[ReportOf(c)].body

FinishReport(c) ==
  /\ requests[c].step = "tidy"
  /\ Reply(c, "accepted", Answered(c))
  /\ TidyUp(c) \/ UNCHANGED tables
  /\ UNCHANGED <<world, sends, local, time>>

-----------------------------------------------------------------------------
(* nexus-runner engines report, nexus-runner report                         *)

Probed(finds) == [IdleCommand EXCEPT !.at = "look", !.finds = finds]
Leave == [IdleCommand EXCEPT !.since = time]
Goes(at) == reporter' = [reporter EXCEPT !.at = at]

(* engineReportSnapshot probes the machine; a command takes longer than the *)
(* clock's resolution.                                                      *)
ProbeMachine ==
  /\ reporter.at = "idle" /\ time > reporter.since
  /\ reporter' = Probed(inventory)
  /\ UNCHANGED <<tables, world, requests, sends, answers, local, time>>

\* bug: a pending report is sent although the machine has changed
OutdatedNever == FALSE
Outdated == kind = "engine" /\ entry.report # Nil /\ entry.finds # reporter.finds
Suppressed == kind = "engine" /\ ~reporter.replaced /\ memo.finds = reporter.finds /\ time < memo.next

AbandonOutdated ==
  /\ reporter.at = "look" /\ Outdated
  /\ entry' = [report |-> Nil, finds |-> Nil]
  /\ reporter' = [reporter EXCEPT !.replaced = TRUE]
  /\ UNCHANGED <<tables, world, requests, sends, answers, inventory, memo, time>>

ResumePending ==
  /\ reporter.at = "look" /\ entry.report # Nil /\ ~Outdated
  /\ Goes("deliver")
  /\ UNCHANGED <<tables, world, requests, sends, answers, local, time>>

SuppressReport ==
  /\ reporter.at = "look" /\ entry.report = Nil /\ Suppressed
  /\ Goes("suppressed")
  /\ UNCHANGED <<tables, world, requests, sends, answers, local, time>>

FreshId(r) == ~Declared(r) /\ \A n \in Sends : sends[n].report # r
PersistReport(r) ==
  /\ reporter.at = "look" /\ entry.report = Nil /\ ~Suppressed /\ FreshId(r)
  /\ entry' = [report |-> r, finds |-> reporter.finds]
  /\ Goes("deliver")
  /\ UNCHANGED <<tables, world, requests, sends, answers, inventory, memo, time>>

NextSend(n) == sends[n].report = Nil /\ \A m \in Sends : m < n => sends[m].report # Nil

SendReport(c, n) ==
  /\ reporter.at = "deliver" /\ Unposted(c) /\ NextSend(n)
  /\ sends' = [sends EXCEPT ![n] = [report |-> entry.report, finds |-> entry.finds, signed |-> time]]
  /\ requests' = [requests EXCEPT ![c] = [NoPost EXCEPT !.step = "sent", !.send = n, !.heard = TRUE]]
  /\ Goes("waiting")
  /\ UNCHANGED <<tables, world, answers, local, time>>

(* The request timed out: its call is no longer heard.                      *)
Unheard == [c \in Wires |-> [requests[c] EXCEPT !.heard = FALSE]]
StopHearing ==
  /\ reporter.at = "waiting"
  /\ requests' = Unheard /\ Goes("open")
  /\ UNCHANGED <<tables, world, sends, answers, local, time>>

(* deliverEngineReport, deliverCapabilityReport: the entry is acked or      *)
(* rejected, or stays pending.                                              *)
HearReport ==
  /\ reporter.at \in {"accepted", "settled", "open"}
  /\ entry' = IF reporter.at = "open" THEN entry ELSE [report |-> Nil, finds |-> Nil]
  /\ reporter' = IF reporter.at = "accepted" /\ kind = "engine" THEN [reporter EXCEPT !.at = "acked"] ELSE Leave
  /\ UNCHANGED <<tables, world, requests, sends, answers, inventory, memo, time>>

(* writeEngineReportState; the send it is about is not in the file.         *)
LastSend == CHOOSE n \in Sends : sends[n].report # Nil /\ \A m \in Sends : m > n => sends[m].report = Nil
WriteMemo ==
  /\ reporter.at = "acked"
  /\ memo' = [finds |-> reporter.finds, next |-> reporter.body.next, send |-> LastSend]
  /\ reporter' = Leave
  /\ UNCHANGED <<tables, world, requests, sends, answers, inventory, entry, time>>

(* Killed between any two steps, or its state could not be written.         *)
EndCommand ==
  /\ reporter.at # "idle"
  /\ requests' = Unheard /\ reporter' = Leave
  /\ UNCHANGED <<tables, world, sends, answers, local, time>>

-----------------------------------------------------------------------------
(* The world around                                                         *)

CopyReport(c, n) ==
  /\ Unposted(c) /\ sends[n].report # Nil
  /\ requests' = [requests EXCEPT ![c] = [NoPost EXCEPT !.step = "sent", !.send = n]]
  /\ UNCHANGED <<tables, world, sends, answers, local, reporter, time>>

LoseReport(c) ==
  /\ requests[c].step = "sent" /\ ~requests[c].heard
  /\ requests' = [requests EXCEPT ![c] = NoPost]
  /\ UNCHANGED <<tables, world, sends, answers, local, reporter, time>>

ChangeInventory ==
  /\ reporter.at = "idle"
  /\ inventory' \in Inventories \ {inventory}
  /\ UNCHANGED <<tables, world, requests, sends, answers, entry, memo, reporter, time>>

ChangeFreshness ==
  /\ freshness' \in Freshness \ {freshness}
  /\ UNCHANGED <<tables, kind, requests, sends, answers, local, reporter, time>>

RevokeReporter ==
  /\ enlisted /\ enlisted' = FALSE
  /\ UNCHANGED <<declared, nonceRows, lastSeen, world, requests, sends, answers, local, reporter, time>>

TimePasses ==
  /\ time < LastTime
  /\ \A c \in Wires : requests[c].step \in {"none", "sent"} \/ time < requests[c].now + LongestPost
  /\ time' = time + 1
  /\ UNCHANGED <<tables, world, requests, sends, answers, local, reporter>>

-----------------------------------------------------------------------------

ReportsInit ==
  /\ kind \in ReportKinds
  /\ declared = [r \in Reports |-> Unreported]
  /\ nonceRows = [n \in Sends |-> [report |-> Nil, until |-> 0, body |-> Nil]]
  /\ enlisted = TRUE /\ lastSeen = 0
  /\ freshness \in Freshness
  /\ requests = [c \in Wires |-> NoPost]
  /\ sends = [n \in Sends |-> [report |-> Nil, finds |-> Nil, signed |-> 0]]
  /\ answers = [r \in Reports |-> {}]
  /\ inventory \in Inventories
  /\ entry = [report |-> Nil, finds |-> Nil]
  /\ memo = [finds |-> Nil, next |-> 0, send |-> 0]
  /\ reporter = IdleCommand
  /\ time = 1

HandleReport(c) ==
  ArriveReport(c) \/ LookAtReport(c) \/ ReadLatest(c) \/ ApplyReport(c) \/ FailReport(c) \/ AfterFailure(c)
    \/ ReplayReport(c) \/ MissReplay(c) \/ FinishReport(c)

RunCommand ==
  ProbeMachine \/ AbandonOutdated \/ ResumePending \/ SuppressReport \/ HearReport \/ WriteMemo

ReportsNext ==
  \/ \E c \in Wires : HandleReport(c) \/ LoseReport(c)
  \/ \E c \in Wires, n \in Sends : SendReport(c, n) \/ CopyReport(c, n)
  \/ \E r \in Reports : PersistReport(r)
  \/ RunCommand \/ StopHearing \/ EndCommand
  \/ ChangeInventory \/ ChangeFreshness \/ RevokeReporter \/ TimePasses

ReportsSpec == ReportsInit /\ [][ReportsNext]_repvars

-----------------------------------------------------------------------------

(* A report is applied once, also when copies and retries of it meet, and   *)
(* when its answer was compacted long ago; every 201 for it says the same;  *)
(* a signed request counts as one replay however often it arrives; and the  *)
(* runner was last seen no earlier than its latest report.                  *)
ReportedOnce ==
  /\ \A r \in Reports :
       /\ declared[r].applied <= 1 /\ Cardinality(answers[r]) <= 1
       /\ Declared(r) => declared[r].replays < Cardinality({n \in Sends : sends[n].report = r})
  /\ LatestAt <= lastSeen

(* While the runner keeps silent because of what it has reported, and that  *)
(* was the last thing it sent and was applied last, the control plane takes *)
(* its machine to be just that, and the report is still fresh by the policy *)
(* under which it was acknowledged. Of two reports received in the same     *)
(* instant the greater id counts as the later, whichever it was.            *)
SilentSince ==
  LET r == sends[memo.send].report IN
  /\ memo.finds # Nil /\ memo.send = LastSend
  /\ \A s \in Reports : declared[s].age <= declared[r].age
  /\ \A s \in Reports \ {r} : declared[s].at # declared[r].at
DeclaredUntilDue ==
  (SilentSince /\ time < memo.next) =>
    \E r \in Reports : /\ LatestReport(r) /\ r = sends[memo.send].report /\ declared[r].finds = memo.finds
                      /\ time < declared[r].at + declared[r].fresh
=============================================================================
