---------------------------- MODULE RunOwnership ----------------------------
(***************************************************************************)
(* What the execution control plane promises, without its tables, clocks   *)
(* or requests: a run is owned by at most one runner at a time, a runner   *)
(* owns at most one run, every grant opens a new epoch, and the one        *)
(* outcome a run may get is written by its owner of that moment.           *)
(***************************************************************************)
EXTENDS Naturals

CONSTANTS Runs, Runners, Outcomes, None

VARIABLES
  stage,    \* "absent", "open" or "closed"
  owner,    \* the runner that owns the run, or None
  epoch,    \* how many times the run was granted
  result    \* the outcome with the epoch and the owner that wrote it, or None

vars == <<stage, owner, epoch, result>>

Init ==
  /\ stage = [r \in Runs |-> "absent"]
  /\ owner = [r \in Runs |-> None]
  /\ epoch = [r \in Runs |-> 0]
  /\ result = [r \in Runs |-> None]

Open(r) ==
  /\ stage[r] = "absent"
  /\ stage' = [stage EXCEPT ![r] = "open"]
  /\ UNCHANGED <<owner, epoch, result>>

\* a grant takes the run from an owner whose time is up, and from the new owner
\* the run it may have owned before
Grant(r, w) ==
  /\ stage[r] = "open"
  /\ owner' = [x \in Runs |-> IF x = r THEN w ELSE IF owner[x] = w THEN None ELSE owner[x]]
  /\ epoch' = [epoch EXCEPT ![r] = @ + 1]
  /\ UNCHANGED <<stage, result>>

\* the owner is cut off: its runner is revoked, or its time ran out
Withdraw(r) ==
  /\ stage[r] = "open" /\ owner[r] # None
  /\ owner' = [owner EXCEPT ![r] = None]
  /\ UNCHANGED <<stage, epoch, result>>

\* the owner writes the outcome
Finish(r, out) ==
  /\ stage[r] = "open" /\ owner[r] # None
  /\ stage' = [stage EXCEPT ![r] = "closed"]
  /\ result' = [result EXCEPT ![r] = [epoch |-> epoch[r], by |-> owner[r], outcome |-> out]]
  /\ owner' = [owner EXCEPT ![r] = None]
  /\ UNCHANGED epoch

\* canceled or expired: closed without an outcome
Close(r) ==
  /\ stage[r] = "open"
  /\ stage' = [stage EXCEPT ![r] = "closed"]
  /\ owner' = [owner EXCEPT ![r] = None]
  /\ UNCHANGED <<epoch, result>>

Next == \E r \in Runs :
  \/ Open(r) \/ Withdraw(r) \/ Close(r)
  \/ \E w \in Runners : Grant(r, w)
  \/ \E out \in Outcomes : Finish(r, out)

Spec == Init /\ [][Next]_vars
=============================================================================
