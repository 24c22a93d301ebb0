----------------------------- MODULE MCProgress -----------------------------
(* What must come to an end, in one run: the deadline of an engine run, and *)
(* the creation of one under a key whose outcome the caller cannot see.     *)
(* Each behavior starts with a part, and takes steps of that part only.     *)
EXTENDS MCRunControl, RunCreation

CONSTANTS k1, k2, k3, k4, b1, b2, q1, q2

CreationParts == {"tab", "api", "operate"}
KeysOfPart == IF part = "operate" THEN OperationKeys ELSE ApiKeys \ OperationKeys
BodiesOfPart == IF part = "tab" THEN {b1} ELSE Bodies

Creating(parts) == In(parts) /\ UNCHANGED vars

ProgressInit == PartsInit /\ CreationInit
ProgressNext ==
  \/ PartsNext /\ UNCHANGED kvars
  \/ Creating(CreationParts) /\ (LedgerGrows \/ NextDay \/ CollectProofs)
  \/ Creating(CreationParts) /\ \E q \in Posts : HandlePost(q) \/ HangUp(q)
  \/ Creating({"tab"}) /\ \E q \in Posts, key \in TabKeys, body \in BodiesOfPart : Create(q, key, body)
  \/ Creating({"tab"}) /\ \E q \in Posts : Reconcile(q) \/ Hear(q)
  \/ Creating({"tab"}) /\ (GiveUp \/ Reload)
  \/ Creating({"api", "operate"}) /\ \E q \in Posts, kind \in {"create", "operate", "reconcile"},
       key \in KeysOfPart, body \in BodiesOfPart \cup {Missing} : OtherSends(q, kind, key, body)

ProgressSpec == ProgressInit /\ [][ProgressNext]_<<vars, part, kvars>> /\ Fairness
=============================================================================
