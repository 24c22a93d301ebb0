------------------------------ MODULE MCFleet ------------------------------
(* How runners come to be known, stay known and are admitted, in one run.   *)
(* Each behavior starts with a part, and takes steps of that part only.     *)
(* c1 and c2 are requests under way together, b1 and b2 heartbeats or what  *)
(* a probe of the machine finds.                                            *)
EXTENDS Enrollment, RunnerReports, AdmissionPolicy, TLC

CONSTANTS Parts, c1, c2, b1, b2, d1, d2, t1, t2, e1, o1
VARIABLE part

Symmetry == Permutations({c1, c2}) \cup Permutations({b1, b2})

In(parts) == part \in parts /\ UNCHANGED part
Enrolling(parts) == In(parts) /\ UNCHANGED repvars /\ UNCHANGED polvars
Reporting(parts) == In(parts) /\ UNCHANGED evars /\ UNCHANGED polvars
Admitting(parts) == In(parts) /\ UNCHANGED evars /\ UNCHANGED repvars

-----------------------------------------------------------------------------
(* In "enroll" commands follow one another in one directory, in "race" two  *)
(* directories use one token, in "beat" one is enrolled and its clock ahead.*)

EnrollParts == {"enroll", "race"}
TokensOfPart == IF part = "race" THEN {t1} ELSE {t1, t2}

EnrollNext ==
  \/ Enrolling(EnrollParts) /\ \E t \in TokensOfPart : IssueToken(t)
  \/ Enrolling(EnrollParts) /\ \E e \in Enrollers : EnrollStep(e)
  \/ Enrolling(EnrollParts) /\ \E e \in Enrollers, c \in Calls : SendEnroll(e, c)
  \/ Enrolling(EnrollParts) /\ \E c \in Calls : HandleEnroll(c)
  \/ Enrolling({"enroll"}) /\ \E t \in Tokens : cli[e1].at = "idle" /\ StartEnroll(e1, d1, t)
  \/ Enrolling({"enroll"}) /\ (StopWaiting(e1) \/ KillEnroll(e1) \/ ClearLock(d1))
  \/ Enrolling({"race"}) /\ \E e \in Enrollers : StartEnroll(e, IF e = e1 THEN d1 ELSE d2, t1)
  \/ Enrolling({"race"}) /\ \E c \in Calls : AskWithdraw(c, t1)
  \/ Enrolling({"enroll", "beat"}) /\ \E c \in Calls, r \in RunnerIds : AskRunnerRevoked(c, r)
  \/ Enrolling(EnrollParts \cup {"beat"}) /\ \E c \in Calls : ReadHead(c) \/ HandleOwner(c)
  \/ Enrolling({"beat"}) /\ \E c \in Calls : HandleBeat(c) \/ LoseCall(c)
  \/ Enrolling({"beat"}) /\ \E c \in Calls, n \in Beats : CopyBeat(c, n)
  \/ Enrolling({"beat"}) /\ \E c \in Calls, n \in Beats : SendBeat(d1, c, n, tick + SkewFuture)
  \/ Enrolling({"beat"}) /\ StopBeating(d1)
  \/ Enrolling({"race", "beat"}) /\ (part = "race" => tick < TokenTtl) /\ PassTime

-----------------------------------------------------------------------------
(* In "silent" the machine and the policy change between the reports, in    *)
(* "copies" requests for one report are repeated by whoever carries them.   *)

ReportParts == {"silent", "copies"}
ReportsOfPart == IF part = "copies" THEN {1} ELSE Reports

ReportStart ==
  /\ part = "silent" => kind = "engine"
  /\ part # "silent" => \A f \in Freshness : freshness <= f
  /\ part \notin ReportParts => kind = "engine" /\ inventory = b1

ReportNext ==
  \/ Reporting(ReportParts) /\ RunCommand
  \/ Reporting(ReportParts) /\ \E r \in ReportsOfPart : PersistReport(r)
  \/ Reporting(ReportParts) /\ \E c \in Wires, n \in Sends : SendReport(c, n)
  \/ Reporting(ReportParts) /\ \E c \in Wires : HandleReport(c) \/ LoseReport(c)
  \/ Reporting(ReportParts) /\ (EndCommand \/ TimePasses)
  \/ Reporting({"silent"}) /\ (ChangeInventory \/ ChangeFreshness)
  \/ Reporting({"copies"}) /\ (StopHearing \/ RevokeReporter)
  \/ Reporting({"copies"}) /\ \E c \in Wires, n \in Sends : CopyReport(c, n)

-----------------------------------------------------------------------------
(* In "panel" one owner writes several drafts, in "rivals" two write one    *)
(* each while roles and the ledger change.                                  *)

PolicyParts == {"panel", "rivals"}
EditorsOfPart == IF part = "panel" THEN {o1} ELSE Editors

PolicyPartNext ==
  \/ Admitting(PolicyParts) /\ \E w \in Puts : HandlePut(w)
  \/ Admitting(PolicyParts) /\ \E p \in EditorsOfPart, w \in Puts : SubmitDraft(p, w)
  \/ Admitting({"panel"}) /\ UsePanel(o1)
  \/ Admitting({"rivals"}) /\ \E p \in Editors : panels[p].opened = 0 /\ OpenEditor(p)
  \/ Admitting({"rivals"}) /\ \E p \in Editors :
       AskPolicy(p) \/ HearPolicy(p) \/ HearSaved(p) \/ RefreshFacts(p) \/ HearFacts(p)
  \/ Admitting({"rivals"}) /\ \E p \in Editors : ChangeRole(p)
  \/ Admitting({"rivals"}) /\ OtherEntry

-----------------------------------------------------------------------------

FleetInit ==
  /\ part \in Parts
  /\ IF part = "beat" THEN EnrolledInit(d1, t1) ELSE EnrollmentInit
  /\ ReportsInit /\ ReportStart /\ PolicyInit
FleetNext == EnrollNext \/ ReportNext \/ PolicyPartNext
FleetSpec == FleetInit /\ [][FleetNext]_<<evars, repvars, polvars, part>>
=============================================================================
