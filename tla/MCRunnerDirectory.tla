-------------------------- MODULE MCRunnerDirectory --------------------------
(* What a runner keeps on its machine, in one run: the two modules of its    *)
(* state directory, and the lease of an engine it runs. A behavior starts   *)
(* with a part and takes its steps only.                                    *)
EXTENDS RunnerLock, RunnerOutbox, LeaseHorizon, TLC

CONSTANT Parts
VARIABLE part

(* The attempts are not interchangeable: files of some may be spoiled.      *)
Symmetry == Permutations(Pid) \cup Permutations(LocalOps)

CycleParts == {"engines", "reports", "prune"}
OutboxParts == CycleParts \cup {"diagnose"}
In(parts) == part \in parts /\ UNCHANGED part
AttemptsOfPart == IF part = "reports" THEN Corruptible ELSE Attempts
Locking == In({"lock"}) /\ UNCHANGED ovars /\ UNCHANGED hvars
Boxing(parts) == In(parts) /\ UNCHANGED vars /\ UNCHANGED hvars

(* Of the code's 60 s lease, 20 s interval, 10 s window, 30 s reserve and   *)
(* timeouts of 270 s and more, what matters is the order in which they end: *)
(* a lease outlives a renewal that fails, a window does not fit behind      *)
(* every expiry, a timeout spans more than one lease, and the reserve is    *)
(* shorter than a lease.                                                    *)
Renewing == In({"horizon"}) /\ UNCHANGED vars /\ UNCHANGED ovars

DirectoryInit == part \in Parts /\ Init /\ OutboxInit /\ HorizonInit
DirectoryNext ==
  \/ Locking /\ Next
  \/ Boxing(CycleParts) /\ (StartCycle \/ CycleStep)
  \/ Boxing(CycleParts) /\ \E a \in AttemptsOfPart : JournalResult(a)
  \/ Boxing({"engines"}) /\ (StartEngines \/ WriteEngineReport)
  \/ Boxing({"engines", "prune"}) /\ \E op \in Ops : Spoil(op)
  \/ Boxing({"reports"}) /\ StartReport
  \/ Boxing({"engines", "reports"}) /\ ReportAnswered
  \/ Boxing({"prune"}) /\ InspectOutbox
  \/ Boxing({"diagnose"}) /\
       (DrainCompletion \/ ResumeDiagnose \/ EndRecovered \/ ClaimAnswered \/ SupersedeClaim
         \/ HoldLease \/ CompletionAnswered)
  \/ Boxing({"diagnose"}) /\ \E run \in DiagRuns : StartDiagnose(run)
  \/ Boxing({"diagnose"}) /\ \E op \in Ops : LeaseEnds(op)
  \/ Boxing(OutboxParts) /\ (Send \/ Dies \/ Day)
  \/ Renewing /\ HorizonNext
DirectorySpec == DirectoryInit /\ [][DirectoryNext]_<<vars, ovars, hvars, part>>
=============================================================================
