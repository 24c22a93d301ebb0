----------------------------- MODULE RunnerLock -----------------------------
(***************************************************************************)
(* The lock of a runner's state directory: runner/durable-outbox.mjs.      *)
(*                                                                         *)
(* Every command of the runner that touches its journal or its outbox      *)
(* first creates `outbox.lock` exclusively, writes its pid into it, and    *)
(* unlinks it when it is done. A process that finds the file there reads   *)
(* the pid; if that process is alive it gives up, otherwise it unlinks the *)
(* file and tries once more. Each await of acquireOutboxLock is a step of  *)
(* its own: the other processes of the machine run in between.             *)
(*                                                                         *)
(* The owner's loops then take turns on the capability the lock returned   *)
(* (withOutboxLockOwnership), and the capability is given back only when   *)
(* no loop is using it or waiting for it.                                  *)
(***************************************************************************)
EXTENDS Naturals, FiniteSets, Sequences

CONSTANTS
  Pid,        \* the pids that commands started on the directory may get
  Loop,       \* the loops of a process that borrow the lock
  MaxBorrows  \* bound on the turns taken over a behaviour

ASSUME LockAssumption == Pid # {} /\ MaxBorrows \in Nat

VARIABLES
  lock,     \* the file outbox.lock: NoFile, or who created it and whether its pid is in it
  pc,       \* [Pid -> step]: where each process stands in acquireOutboxLock and after it
  attempt,  \* [Pid -> 0..1]: the loop counter of acquireOutboxLock
  seen,     \* [Pid -> the pid last read from the file, or NoPid]
  turns,    \* [Pid -> sequence of loops that wait for their turn]: ownership.tail
  inUse,    \* [Pid -> the loop whose turn it is, or NoLoop]: ownership.inUse
  borrows,  \* number of turns asked for so far
  met,      \* history: the pids whose acquisition met another live process of Pid, or that were used before
  raced     \* history: two processes were inside acquireOutboxLock at once

vars == <<lock, pc, attempt, seen, turns, inUse, borrows, met, raced>>
turnVars == <<turns, inUse, borrows>>
history == <<met, raced>>

NoFile == [by |-> {}, written |-> FALSE]
NoPid == {}
NoLoop == {}

Acquiring == {"open", "write", "read", "probe", "unlink"}
Live == Acquiring \cup {"held", "releasing"}
Over == {"exited", "refused", "dead"}

(* A pid whose command is over may go to a process that is no runner's.     *)
Alive == Live \cup {"other"}

(* The pid text is there for whoever reads the file by name: an inode that  *)
(* has been unlinked under its writer is no longer the file.                *)
FileOf(p) == [by |-> {p}, written |-> FALSE]
Named(p) == [by |-> {p}, written |-> TRUE]
Present == lock # NoFile

Contenders(p) == {q \in Pid \ {p} : pc[q] \in Alive}

TypeOK ==
  /\ lock \in {NoFile} \cup {FileOf(p) : p \in Pid} \cup {Named(p) : p \in Pid}
  /\ pc \in [Pid -> {"idle"} \cup Alive \cup Over]
  /\ attempt \in [Pid -> 0..1]
  /\ seen \in [Pid -> {NoPid} \cup {{p} : p \in Pid}]
  /\ turns \in [Pid -> Seq(Loop)]
  /\ inUse \in [Pid -> {NoLoop} \cup {{l} : l \in Loop}]
  /\ borrows \in 0..MaxBorrows
  /\ met \subseteq Pid
  /\ raced \in BOOLEAN

Init ==
  /\ lock = NoFile
  /\ pc = [p \in Pid |-> "idle"]
  /\ attempt = [p \in Pid |-> 0]
  /\ seen = [p \in Pid |-> NoPid]
  /\ turns = [p \in Pid |-> <<>>]
  /\ inUse = [p \in Pid |-> NoLoop]
  /\ borrows = 0
  /\ met = {}
  /\ raced = FALSE

Goto(p, step) == pc' = [pc EXCEPT ![p] = step]

-----------------------------------------------------------------------------
(* acquireOutboxLock.                                                       *)

(* A command is started on the directory, perhaps with the pid of an        *)
(* earlier one, which in a container is the rule.                           *)
Start(p) ==
  /\ pc[p] \in {"idle"} \cup Over
  /\ Goto(p, "open")
  /\ attempt' = [attempt EXCEPT ![p] = 0]
  /\ met' = met \cup Contenders(p)
                \cup (IF Contenders(p) = {} /\ pc[p] = "idle" THEN {} ELSE {p})
  /\ raced' = (raced \/ \E q \in Contenders(p) : pc[q] \in Acquiring)
  /\ UNCHANGED <<lock, seen, turnVars>>

(* The pid of a command that is over goes to a process of another program.  *)
ReusePid(p) ==
  /\ pc[p] \in Over
  /\ Goto(p, "other")
  /\ met' = met \cup {q \in Pid : pc[q] \in Live}
  /\ UNCHANGED <<lock, attempt, seen, turnVars, raced>>

(* open(lock, "wx"): creates the file or fails with EEXIST.                 *)
OpenExclusive(p) ==
  /\ pc[p] = "open"
  /\ IF Present
       THEN Goto(p, "read") /\ UNCHANGED lock
       ELSE Goto(p, "write") /\ lock' = FileOf(p)
  /\ UNCHANGED <<attempt, seen, turnVars, history>>

(* handle.writeFile and sync: to the inode this process opened, whether or  *)
(* not the name still leads to it.                                          *)
WritePid(p) ==
  /\ pc[p] = "write"
  /\ lock' = IF lock = FileOf(p) THEN Named(p) ELSE lock
  /\ Goto(p, "held")
  /\ UNCHANGED <<attempt, seen, turnVars, history>>

(* After the verdict that the recorded owner is gone.                       *)
Gone(p) == IF attempt[p] = 0 THEN "unlink" ELSE "refused"

\* bug: a file whose text is not there yet is taken for a running owner's
UnreadableBusy(p) == "refused"
(* readLockPid is undefined: no file, or no pid in it yet.                  *)
Unreadable(p) == Gone(p)

ReadLockPid(p) ==
  /\ pc[p] = "read"
  /\ seen' = [seen EXCEPT ![p] = IF lock.written THEN lock.by ELSE NoPid]
  /\ Goto(p, IF lock.written THEN "probe" ELSE Unreadable(p))
  /\ UNCHANGED <<lock, attempt, turnVars, history>>

\* bug: a process the runner may not signal (EPERM) is taken for dead
SeenDead(p) == FALSE
(* processIsAlive(pid): signal 0 to the pid that was read, whoever has it.  *)
SeenAlive(p) == \E q \in seen[p] : pc[q] \in Alive

ProbeOwner(p) ==
  /\ pc[p] = "probe"
  /\ Goto(p, IF SeenAlive(p) THEN "refused" ELSE Gone(p))
  /\ UNCHANGED <<lock, attempt, seen, turnVars, history>>

(* unlink(lock), by name, then the second and last round of the loop.       *)
UnlinkStale(p) ==
  /\ pc[p] = "unlink"
  /\ lock' = NoFile
  /\ attempt' = [attempt EXCEPT ![p] = @ + 1]
  /\ Goto(p, "open")
  /\ UNCHANGED <<seen, turnVars, history>>

-----------------------------------------------------------------------------
(* The capability.                                                          *)

(* withOutboxLockOwnership: a loop queues for its turn. A loop waits for    *)
(* its own turn to end before it asks for another.                          *)
Borrow(p, l) ==
  /\ pc[p] = "held"
  /\ inUse[p] # {l}
  /\ \A i \in DOMAIN turns[p] : turns[p][i] # l
  /\ borrows < MaxBorrows
  /\ turns' = [turns EXCEPT ![p] = Append(@, l)]
  /\ borrows' = borrows + 1
  /\ UNCHANGED <<lock, pc, attempt, seen, inUse, history>>

(* `await previous` returns: the turn starts if the capability is active,   *)
(* otherwise the borrower is turned away.                                   *)
EnterTurn(p) ==
  /\ pc[p] \in {"held", "releasing"}
  /\ inUse[p] = NoLoop
  /\ turns[p] # <<>>
  /\ turns' = [turns EXCEPT ![p] = Tail(@)]
  /\ inUse' = [inUse EXCEPT ![p] = IF pc[p] = "held" THEN {Head(turns[p])} ELSE NoLoop]
  /\ UNCHANGED <<lock, pc, attempt, seen, borrows, history>>

LeaveTurn(p) ==
  /\ pc[p] \in {"held", "releasing"}
  /\ inUse[p] # NoLoop
  /\ inUse' = [inUse EXCEPT ![p] = NoLoop]
  /\ UNCHANGED <<lock, pc, attempt, seen, turns, borrows, history>>

\* bug: a loop that still waits for its turn is forgotten
ReleasableUnused(p) == inUse[p] = NoLoop
(* releaseLock is refused while a turn is taken or awaited.                 *)
Releasable(p) == inUse[p] = NoLoop /\ turns[p] = <<>>

(* releaseLock up to its await: the capability is dead from here on.        *)
Deactivate(p) ==
  /\ pc[p] = "held"
  /\ Releasable(p)
  /\ Goto(p, "releasing")
  /\ UNCHANGED <<lock, attempt, seen, turnVars, history>>

(* unlink(lock), by name; the command ends.                                 *)
UnlinkOwn(p) ==
  /\ pc[p] = "releasing"
  /\ lock' = NoFile
  /\ Goto(p, "exited")
  /\ UNCHANGED <<attempt, seen, turnVars, history>>

(* The process stops without releasing: it is killed at any point, or serve *)
(* ends on a durable authentication rejection and keeps the file on purpose.*)
Die(p) ==
  /\ pc[p] \in Alive
  /\ Goto(p, "dead")
  /\ turns' = [turns EXCEPT ![p] = <<>>]
  /\ inUse' = [inUse EXCEPT ![p] = NoLoop]
  /\ UNCHANGED <<lock, attempt, seen, borrows, history>>

-----------------------------------------------------------------------------
Acquire(p) ==
  \/ Start(p) \/ OpenExclusive(p) \/ WritePid(p)
  \/ ReadLockPid(p) \/ ProbeOwner(p) \/ UnlinkStale(p)

Own(p) ==
  \/ \E l \in Loop : Borrow(p, l)
  \/ EnterTurn(p) \/ LeaveTurn(p)
  \/ Deactivate(p) \/ UnlinkOwn(p)

Next == \E p \in Pid : Acquire(p) \/ Own(p) \/ Die(p) \/ ReusePid(p)

Spec == Init /\ [][Next]_vars

-----------------------------------------------------------------------------
(* Properties.                                                              *)

Owners == {p \in Pid : pc[p] = "held"}

(* One process owns the state directory, as the test plan says of serve.    *)
(* The code does not keep it: see OneOwnerUnlessRaced.                      *)
OneOwner == \A p, q \in Owners : p = q

(* The lock excludes everyone, through crashes at every await and takeovers *)
(* of a dead owner's file, as long as no two processes were ever inside     *)
(* acquireOutboxLock together.                                              *)
OneOwnerUnlessRaced == raced \/ OneOwner

(* A command with a pid of its own is turned away with                      *)
(* runner_already_running only if, while it tried, another live process     *)
(* contended for the directory or had the pid of an earlier command: a file *)
(* left by a crash, empty or not, does not lock the next command out.       *)
RefusedForAReason == \A p \in Pid : pc[p] = "refused" => p \in met

(* A turn on the capability is taken only by the process the file names,    *)
(* and nobody waits for a turn on a capability that was given back.         *)
TurnsUnderLock ==
  \A p \in Pid :
    /\ inUse[p] # NoLoop => pc[p] = "held" /\ (raced \/ lock = Named(p))
    /\ turns[p] # <<>> => pc[p] = "held"

=============================================================================
