---------------------------- MODULE MCRunControl ----------------------------
(* Scenarios that share their constants are checked in one run: each starts *)
(* with its part of the actions, and keeps to it.                           *)
EXTENDS RunControl, TLC
CONSTANTS r1, r2, r3, w1, w2, Parts
VARIABLE part

Unassigned == [r \in Runs |-> None]
EnginesToOne == [r \in Runs |-> IF IsEngine(r) THEN w1 ELSE None]
TwoClaims == [r \in Runs |-> 2]
Symmetry == Permutations(Ops) \cup Permutations(Nonces) \cup Permutations(Slots \ CronSlots)

AllParts == {"handover", "cancel", "retention", "two", "engine"}
In(parts) == part \in parts /\ UNCHANGED part

(* Handing over takes two runners, of a revoked one the other parts say     *)
(* enough; a run that is canceled needs two operation ids at most.          *)
Used == ({x.op : x \in ops} \cup {req[s].op : s \in Slots}) \ {None}
Signs(q) ==
  /\ part # "handover" => q.runner = w1
  /\ part = "cancel" => q.op \in Used \cup {None} \/ Cardinality(Used) < 2
  /\ part # "cancel" => q.outcome # "canceled"
RunsOfPart == IF part = "engine" THEN EngineRuns ELSE Runs \ EngineRuns
SlotsOfPart == IF part = "engine" THEN Slots ELSE Slots \ CronSlots

PartsInit == Init /\ part \in Parts
PartsNext ==
  \/ In(AllParts) /\ Tick
  \/ In(AllParts) /\ \E s \in SlotsOfPart :
       SlotStep(s) \/ Crash(s) \/ \E r \in RunsOfPart : AskCreate(s, r)
  \/ In(AllParts) /\ \E w \in Runners, r \in Runs, n \in Nonces : \E q \in RunnerRequests(w, r, n) :
       Signs(q) /\ (Resubmit(q) \/ \E s \in Slots : Submit(s, q))
  \/ In({"cancel"}) /\ \E s \in Slots, r \in Runs : AskCancel(s, r)
  \/ In({"retention"}) /\ Cleanup
  \/ In({"two"}) /\ \E s \in Slots, w \in Runners : AskRevoke(s, w)
  \/ In({"engine"}) /\ \E w \in Runners : NewReport(w)
PartsSpec == PartsInit /\ [][PartsNext]_<<vars, part>>
FairPartsSpec == PartsSpec /\ Fairness
=============================================================================
