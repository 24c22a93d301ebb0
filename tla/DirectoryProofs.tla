------------------------- MODULE DirectoryProofs --------------------------
(***************************************************************************)
(* What the processes that share a runner's directory keep: RunnerLock for *)
(* every set of processes, loops and borrows, RunnerOutbox for every set   *)
(* of attempts, operations and runs and every retention, LeaseHorizon for  *)
(* every length of a lease, of an interval and of a timeout.               *)
(***************************************************************************)
EXTENDS RunnerLock, RunnerOutbox, LeaseHorizon, SequenceTheorems, FiniteSetTheorems, TLAPS

(* RunnerLock *)

Keeps(p) == pc[p] \in {"held", "releasing"}

(* Two acquisitions overlapped, or there is one at most.                    *)
OneAcquirer ==
  raced \/ \A p, q \in Pid : pc[p] \in Acquiring /\ pc[q] \in Acquiring => p = q

(* Unless two acquisitions overlapped, the file is the owner's, and nobody  *)
(* who is about to unlink it or has read another name is beside an owner.   *)
FileIsOwners ==
  raced \/ \A p \in Pid :
    /\ Keeps(p) => lock = Named(p)
    /\ pc[p] = "write" => lock = FileOf(p)
    /\ \A q \in Pid : Keeps(q) =>
         /\ pc[p] # "unlink"
         /\ pc[p] = "probe" => seen[p] = {q}

(* Whoever acquires beside a live process has met it.                       *)
MetOthers ==
  \A p, q \in Pid : p # q /\ pc[p] \in Acquiring /\ pc[q] \in Alive => p \in met

(* A process with a fresh pid creates the file at most once and never reads *)
(* its own name; in its second round it finds a file only if it has met     *)
(* whoever made it.                                                         *)
SecondRound ==
  \A p \in Pid :
    /\ p \in lock.by /\ p \notin met => pc[p] \in {"write", "held", "releasing", "other"} \cup Over
    /\ p \in seen[p] => p \in met
    /\ pc[p] \in {"idle", "unlink"} => attempt[p] = 0
    /\ pc[p] = "open" /\ attempt[p] = 1 /\ p \notin met => lock = NoFile
    /\ pc[p] \in {"read", "probe"} /\ attempt[p] = 1 => p \in met
    /\ pc[p] = "refused" => p \in met

(* Turns are only queued or taken on a live capability.                     *)
TurnsLive ==
  \A p \in Pid : inUse[p] # NoLoop \/ turns[p] # <<>> => pc[p] = "held"

LockInv == TypeOK /\ OneAcquirer /\ FileIsOwners /\ MetOthers /\ SecondRound /\ TurnsLive

LEMMA InitInv == Init => LockInv
<1> SUFFICES ASSUME Init PROVE LockInv
  OBVIOUS
<1>1. TypeOK
  <2>1. turns \in [Pid -> Seq(Loop)] /\ borrows \in 0..MaxBorrows
    BY LockAssumption DEF Init
  <2>2. lock \in {NoFile} \cup {FileOf(p) : p \in Pid} \cup {Named(p) : p \in Pid}
    BY DEF Init
  <2>3. pc \in [Pid -> {"idle"} \cup Alive \cup Over] /\ attempt \in [Pid -> 0..1]
    BY DEF Init
  <2>4. seen \in [Pid -> {NoPid} \cup {{p} : p \in Pid}]
    BY DEF Init
  <2>5. inUse \in [Pid -> {NoLoop} \cup {{l} : l \in Loop}]
    BY DEF Init
  <2>6. met \subseteq Pid /\ raced \in BOOLEAN
    BY DEF Init
  <2> QED BY <2>1, <2>2, <2>3, <2>4, <2>5, <2>6 DEF TypeOK
<1>2. OneAcquirer /\ FileIsOwners /\ MetOthers
  BY DEF Init, OneAcquirer, FileIsOwners, MetOthers, Acquiring, Keeps
<1>3. SecondRound /\ TurnsLive
  BY DEF Init, SecondRound, TurnsLive, Acquiring, Over, NoFile, NoPid, NoLoop
<1> QED BY <1>1, <1>2, <1>3 DEF LockInv

(* The text of the file names one process.                                  *)
LEMMA OneName ==
  \A p, q \in Pid :
    /\ Named(p) = Named(q) => p = q
    /\ Named(p) # NoFile /\ Named(p) # FileOf(q) /\ FileOf(p) # NoFile
    /\ Named(p).by = {p} /\ Named(p).written /\ FileOf(p).by = {p} /\ ~FileOf(p).written
  BY DEF Named, FileOf, NoFile

LEMMA FileNames == TypeOK => (lock.written => \E q \in Pid : lock.by = {q})
<1> SUFFICES ASSUME TypeOK, lock.written PROVE \E q \in Pid : lock.by = {q}
  OBVIOUS
<1>1. lock = NoFile \/ \E q \in Pid : lock = FileOf(q) \/ lock = Named(q)
  BY DEF TypeOK
<1>2. ~NoFile.written
  BY DEF NoFile
<1> QED BY <1>1, <1>2, OneName

(* Every step keeps every part: one lemma per action.                       *)

LEMMA StartKeeps ==
  ASSUME LockInv, NEW p \in Pid, Start(p)
  PROVE  LockInv'
<1> USE DEF Start, Goto, vars, turnVars, history, Acquiring, Live, Alive, Over,
       NoFile, NoPid, NoLoop, FileOf, Named, Present, Contenders, Keeps
<1>1. TypeOK'
  <2>1. lock' \in {NoFile} \cup {FileOf(q) : q \in Pid} \cup {Named(q) : q \in Pid}
    BY LockAssumption DEF LockInv, TypeOK
  <2>2. pc' \in [Pid -> {"idle"} \cup Alive \cup Over]
    BY LockAssumption DEF LockInv, TypeOK
  <2>3. attempt' \in [Pid -> 0..1]
    BY LockAssumption DEF LockInv, TypeOK
  <2>4. seen' \in [Pid -> {NoPid} \cup {{q} : q \in Pid}]
    BY LockAssumption DEF LockInv, TypeOK
  <2>5. turns' \in [Pid -> Seq(Loop)]
    BY LockAssumption DEF LockInv, TypeOK
  <2>6. inUse' \in [Pid -> {NoLoop} \cup {{k} : k \in Loop}]
    BY LockAssumption DEF LockInv, TypeOK
  <2>7. borrows' \in 0..MaxBorrows
    BY LockAssumption DEF LockInv, TypeOK
  <2>8. met' \subseteq Pid
    BY LockAssumption DEF LockInv, TypeOK
  <2>9. raced' \in BOOLEAN
    BY LockAssumption DEF LockInv, TypeOK
  <2> QED BY <2>1, <2>2, <2>3, <2>4, <2>5, <2>6, <2>7, <2>8, <2>9 DEF TypeOK
<1>2. OneAcquirer'
  BY DEF LockInv, TypeOK, OneAcquirer
<1>3. FileIsOwners'
  BY DEF LockInv, TypeOK, FileIsOwners
<1>4. MetOthers'
  BY DEF LockInv, TypeOK, MetOthers
<1>5. SecondRound'
  <2>1. met \subseteq met'
    OBVIOUS
  <2>2. \A q \in Pid : q # p => pc'[q] = pc[q] /\ attempt'[q] = attempt[q]
    BY DEF LockInv, TypeOK
  <2>3. pc'[p] = "open" /\ attempt'[p] = 0
    BY DEF LockInv, TypeOK
  <2>4. p \in lock.by => p \in met'
    BY DEF LockInv, SecondRound
  <2> QED BY <2>1, <2>2, <2>3, <2>4 DEF LockInv, SecondRound
<1>6. TurnsLive'
  BY DEF LockInv, TypeOK, TurnsLive
<1> QED BY <1>1, <1>2, <1>3, <1>4, <1>5, <1>6 DEF LockInv

LEMMA OpenExclusiveKeeps ==
  ASSUME LockInv, NEW p \in Pid, OpenExclusive(p)
  PROVE  LockInv'
<1> USE DEF OpenExclusive, Goto, vars, turnVars, history, Acquiring, Live, Alive, Over,
       NoFile, NoPid, NoLoop, FileOf, Named, Present, Contenders, Keeps
<1>1. TypeOK'
  BY DEF LockInv, TypeOK
<1>2. OneAcquirer'
  BY DEF LockInv, TypeOK, OneAcquirer
<1>3. FileIsOwners'
  BY DEF LockInv, TypeOK, FileIsOwners, OneAcquirer
<1>4. MetOthers'
  BY DEF LockInv, TypeOK, MetOthers
<1>5. SecondRound'
  BY DEF LockInv, TypeOK, SecondRound, MetOthers
<1>6. TurnsLive'
  BY DEF LockInv, TypeOK, TurnsLive
<1> QED BY <1>1, <1>2, <1>3, <1>4, <1>5, <1>6 DEF LockInv

LEMMA WritePidKeeps ==
  ASSUME LockInv, NEW p \in Pid, WritePid(p)
  PROVE  LockInv'
<1> USE DEF WritePid, Goto, vars, turnVars, history, Acquiring, Live, Alive, Over,
       NoFile, NoPid, NoLoop, FileOf, Named, Present, Contenders, Keeps
<1>1. TypeOK'
  BY DEF LockInv, TypeOK
<1>2. OneAcquirer'
  BY DEF LockInv, TypeOK, OneAcquirer
<1>3. FileIsOwners'
  <2>1. \A q \in Pid : raced \/ ~Keeps(q)
    BY OneName DEF LockInv, FileIsOwners
  <2>2. raced \/ lock' = Named(p)
    BY DEF LockInv, FileIsOwners
  <2>3. \A q \in Pid : raced \/ pc[q] \notin Acquiring \/ q = p
    BY DEF LockInv, OneAcquirer
  <2> QED BY <2>1, <2>2, <2>3 DEF LockInv, TypeOK, FileIsOwners
<1>4. MetOthers'
  BY DEF LockInv, TypeOK, MetOthers
<1>5. SecondRound'
  BY DEF LockInv, TypeOK, SecondRound, MetOthers
<1>6. TurnsLive'
  BY DEF LockInv, TypeOK, TurnsLive
<1> QED BY <1>1, <1>2, <1>3, <1>4, <1>5, <1>6 DEF LockInv

LEMMA ReadLockPidKeeps ==
  ASSUME LockInv, NEW p \in Pid, ReadLockPid(p)
  PROVE  LockInv'
<1> USE DEF ReadLockPid, Goto, vars, turnVars, history, Acquiring, Live, Alive, Over,
       NoFile, NoPid, NoLoop, FileOf, Named, Present, Contenders, Keeps, Gone, Unreadable
<1>1. TypeOK'
  <2>1. lock' \in {NoFile} \cup {FileOf(q) : q \in Pid} \cup {Named(q) : q \in Pid}
    BY LockAssumption DEF LockInv, TypeOK
  <2>2. pc' \in [Pid -> {"idle"} \cup Alive \cup Over]
    BY LockAssumption DEF LockInv, TypeOK
  <2>3. attempt' \in [Pid -> 0..1]
    BY LockAssumption DEF LockInv, TypeOK
  <2>4. seen' \in [Pid -> {NoPid} \cup {{q} : q \in Pid}]
    <3>1. lock.written => \E q \in Pid : lock.by = {q}
      BY FileNames DEF LockInv
    <3> QED BY <3>1 DEF LockInv, TypeOK
  <2>5. turns' \in [Pid -> Seq(Loop)]
    BY LockAssumption DEF LockInv, TypeOK
  <2>6. inUse' \in [Pid -> {NoLoop} \cup {{k} : k \in Loop}]
    BY LockAssumption DEF LockInv, TypeOK
  <2>7. borrows' \in 0..MaxBorrows
    BY LockAssumption DEF LockInv, TypeOK
  <2>8. met' \subseteq Pid
    BY LockAssumption DEF LockInv, TypeOK
  <2>9. raced' \in BOOLEAN
    BY LockAssumption DEF LockInv, TypeOK
  <2> QED BY <2>1, <2>2, <2>3, <2>4, <2>5, <2>6, <2>7, <2>8, <2>9 DEF TypeOK
<1>2. OneAcquirer'
  BY DEF LockInv, TypeOK, OneAcquirer
<1>3. FileIsOwners'
  BY DEF LockInv, TypeOK, FileIsOwners
<1>4. MetOthers'
  BY DEF LockInv, TypeOK, MetOthers
<1>5. SecondRound'
  BY DEF LockInv, TypeOK, SecondRound
<1>6. TurnsLive'
  BY DEF LockInv, TypeOK, TurnsLive
<1> QED BY <1>1, <1>2, <1>3, <1>4, <1>5, <1>6 DEF LockInv

LEMMA ProbeOwnerKeeps ==
  ASSUME LockInv, NEW p \in Pid, ProbeOwner(p)
  PROVE  LockInv'
<1> USE DEF ProbeOwner, Goto, vars, turnVars, history, Acquiring, Live, Alive, Over,
       NoFile, NoPid, NoLoop, FileOf, Named, Present, Contenders, Keeps, Gone, SeenAlive
<1>1. TypeOK'
  BY DEF LockInv, TypeOK
<1>2. OneAcquirer'
  BY DEF LockInv, TypeOK, OneAcquirer
<1>3. FileIsOwners'
  BY DEF LockInv, TypeOK, FileIsOwners
<1>4. MetOthers'
  BY DEF LockInv, TypeOK, MetOthers
<1>5. SecondRound'
  <2>1. SeenAlive(p) => p \in met
    <3>1. ASSUME NEW q \in seen[p], pc[q] \in Alive PROVE p \in met
      <4>1. seen[p] = NoPid \/ \E r \in Pid : seen[p] = {r}
        BY SMTT(60) DEF LockInv, TypeOK
      <4>2. q \in Pid
        BY <3>1, <4>1
      <4>3. CASE q = p
        BY <4>3 DEF LockInv, SecondRound
      <4>4. CASE q # p
        BY <3>1, <4>2, <4>4 DEF LockInv, MetOthers
      <4> QED BY <4>3, <4>4
    <3> QED BY <3>1
  <2>2. attempt[p] # 0 => p \in met
    BY DEF LockInv, TypeOK, SecondRound
  <2> QED BY <2>1, <2>2 DEF LockInv, TypeOK, SecondRound
<1>6. TurnsLive'
  BY DEF LockInv, TypeOK, TurnsLive
<1> QED BY <1>1, <1>2, <1>3, <1>4, <1>5, <1>6 DEF LockInv

LEMMA UnlinkStaleKeeps ==
  ASSUME LockInv, NEW p \in Pid, UnlinkStale(p)
  PROVE  LockInv'
<1> USE DEF UnlinkStale, Goto, vars, turnVars, history, Acquiring, Live, Alive, Over,
       NoFile, NoPid, NoLoop, FileOf, Named, Present, Contenders, Keeps
<1>1. TypeOK'
  <2>1. lock' \in {NoFile} \cup {FileOf(q) : q \in Pid} \cup {Named(q) : q \in Pid}
    BY LockAssumption DEF LockInv, TypeOK, SecondRound
  <2>2. pc' \in [Pid -> {"idle"} \cup Alive \cup Over]
    BY LockAssumption DEF LockInv, TypeOK, SecondRound
  <2>3. attempt' \in [Pid -> 0..1]
    BY LockAssumption DEF LockInv, TypeOK, SecondRound
  <2>4. seen' \in [Pid -> {NoPid} \cup {{q} : q \in Pid}]
    BY LockAssumption DEF LockInv, TypeOK, SecondRound
  <2>5. turns' \in [Pid -> Seq(Loop)]
    BY LockAssumption DEF LockInv, TypeOK, SecondRound
  <2>6. inUse' \in [Pid -> {NoLoop} \cup {{k} : k \in Loop}]
    BY LockAssumption DEF LockInv, TypeOK, SecondRound
  <2>7. borrows' \in 0..MaxBorrows
    BY LockAssumption DEF LockInv, TypeOK, SecondRound
  <2>8. met' \subseteq Pid
    BY LockAssumption DEF LockInv, TypeOK, SecondRound
  <2>9. raced' \in BOOLEAN
    BY LockAssumption DEF LockInv, TypeOK, SecondRound
  <2> QED BY <2>1, <2>2, <2>3, <2>4, <2>5, <2>6, <2>7, <2>8, <2>9 DEF TypeOK
<1>2. OneAcquirer'
  BY DEF LockInv, TypeOK, OneAcquirer
<1>3. FileIsOwners'
  BY DEF LockInv, TypeOK, FileIsOwners, OneAcquirer
<1>4. MetOthers'
  BY DEF LockInv, TypeOK, MetOthers
<1>5. SecondRound'
  BY DEF LockInv, TypeOK, SecondRound
<1>6. TurnsLive'
  BY DEF LockInv, TypeOK, TurnsLive
<1> QED BY <1>1, <1>2, <1>3, <1>4, <1>5, <1>6 DEF LockInv

LEMMA BorrowKeeps ==
  ASSUME LockInv, NEW p \in Pid, NEW l \in Loop, Borrow(p, l)
  PROVE  LockInv'
<1> USE DEF Borrow, Goto, vars, turnVars, history, Acquiring, Live, Alive, Over,
       NoFile, NoPid, NoLoop, FileOf, Named, Present, Contenders, Keeps
<1>1. TypeOK'
  <2>1. lock' \in {NoFile} \cup {FileOf(q) : q \in Pid} \cup {Named(q) : q \in Pid}
    BY LockAssumption DEF LockInv, TypeOK
  <2>2. pc' \in [Pid -> {"idle"} \cup Alive \cup Over]
    BY LockAssumption DEF LockInv, TypeOK
  <2>3. attempt' \in [Pid -> 0..1]
    BY LockAssumption DEF LockInv, TypeOK
  <2>4. seen' \in [Pid -> {NoPid} \cup {{q} : q \in Pid}]
    BY LockAssumption DEF LockInv, TypeOK
  <2>5. turns' \in [Pid -> Seq(Loop)]
    BY LockAssumption DEF LockInv, TypeOK
  <2>6. inUse' \in [Pid -> {NoLoop} \cup {{k} : k \in Loop}]
    BY LockAssumption DEF LockInv, TypeOK
  <2>7. borrows' \in 0..MaxBorrows
    BY LockAssumption DEF LockInv, TypeOK
  <2>8. met' \subseteq Pid
    BY LockAssumption DEF LockInv, TypeOK
  <2>9. raced' \in BOOLEAN
    BY LockAssumption DEF LockInv, TypeOK
  <2> QED BY <2>1, <2>2, <2>3, <2>4, <2>5, <2>6, <2>7, <2>8, <2>9 DEF TypeOK
<1>2. OneAcquirer'
  BY DEF LockInv, TypeOK, OneAcquirer
<1>3. FileIsOwners'
  BY DEF LockInv, TypeOK, FileIsOwners
<1>4. MetOthers'
  BY DEF LockInv, TypeOK, MetOthers
<1>5. SecondRound'
  BY DEF LockInv, TypeOK, SecondRound
<1>6. TurnsLive'
  BY DEF LockInv, TypeOK, TurnsLive
<1> QED BY <1>1, <1>2, <1>3, <1>4, <1>5, <1>6 DEF LockInv

LEMMA EnterTurnKeeps ==
  ASSUME LockInv, NEW p \in Pid, EnterTurn(p)
  PROVE  LockInv'
<1> USE DEF EnterTurn, Goto, vars, turnVars, history, Acquiring, Live, Alive, Over,
       NoFile, NoPid, NoLoop, FileOf, Named, Present, Contenders, Keeps
<1>1. TypeOK'
  <2>1. lock' \in {NoFile} \cup {FileOf(q) : q \in Pid} \cup {Named(q) : q \in Pid}
    BY LockAssumption DEF LockInv, TypeOK
  <2>2. pc' \in [Pid -> {"idle"} \cup Alive \cup Over]
    BY LockAssumption DEF LockInv, TypeOK
  <2>3. attempt' \in [Pid -> 0..1]
    BY LockAssumption DEF LockInv, TypeOK
  <2>4. seen' \in [Pid -> {NoPid} \cup {{q} : q \in Pid}]
    BY LockAssumption DEF LockInv, TypeOK
  <2>5. turns' \in [Pid -> Seq(Loop)]
    BY LockAssumption DEF LockInv, TypeOK
  <2>6. inUse' \in [Pid -> {NoLoop} \cup {{k} : k \in Loop}]
    <3>1. turns[p] \in Seq(Loop) /\ turns[p] # <<>>
      BY DEF LockInv, TypeOK
    <3>2. Head(turns[p]) \in Loop
      BY <3>1
    <3> QED BY <3>2 DEF LockInv, TypeOK
  <2>7. borrows' \in 0..MaxBorrows
    BY LockAssumption DEF LockInv, TypeOK
  <2>8. met' \subseteq Pid
    BY LockAssumption DEF LockInv, TypeOK
  <2>9. raced' \in BOOLEAN
    BY LockAssumption DEF LockInv, TypeOK
  <2> QED BY <2>1, <2>2, <2>3, <2>4, <2>5, <2>6, <2>7, <2>8, <2>9 DEF TypeOK
<1>2. OneAcquirer'
  BY DEF LockInv, TypeOK, OneAcquirer
<1>3. FileIsOwners'
  BY DEF LockInv, TypeOK, FileIsOwners
<1>4. MetOthers'
  BY DEF LockInv, TypeOK, MetOthers
<1>5. SecondRound'
  BY DEF LockInv, TypeOK, SecondRound
<1>6. TurnsLive'
  BY DEF LockInv, TypeOK, TurnsLive
<1> QED BY <1>1, <1>2, <1>3, <1>4, <1>5, <1>6 DEF LockInv

LEMMA LeaveTurnKeeps ==
  ASSUME LockInv, NEW p \in Pid, LeaveTurn(p)
  PROVE  LockInv'
<1> USE DEF LeaveTurn, Goto, vars, turnVars, history, Acquiring, Live, Alive, Over,
       NoFile, NoPid, NoLoop, FileOf, Named, Present, Contenders, Keeps
<1>1. TypeOK'
  BY DEF LockInv, TypeOK
<1>2. OneAcquirer'
  BY DEF LockInv, TypeOK, OneAcquirer
<1>3. FileIsOwners'
  BY DEF LockInv, TypeOK, FileIsOwners
<1>4. MetOthers'
  BY DEF LockInv, TypeOK, MetOthers
<1>5. SecondRound'
  BY DEF LockInv, TypeOK, SecondRound
<1>6. TurnsLive'
  BY DEF LockInv, TypeOK, TurnsLive
<1> QED BY <1>1, <1>2, <1>3, <1>4, <1>5, <1>6 DEF LockInv

LEMMA DeactivateKeeps ==
  ASSUME LockInv, NEW p \in Pid, Deactivate(p)
  PROVE  LockInv'
<1> USE DEF Deactivate, Goto, vars, turnVars, history, Acquiring, Live, Alive, Over,
       NoFile, NoPid, NoLoop, FileOf, Named, Present, Contenders, Keeps, Releasable
<1>1. TypeOK'
  BY DEF LockInv, TypeOK
<1>2. OneAcquirer'
  BY DEF LockInv, TypeOK, OneAcquirer
<1>3. FileIsOwners'
  BY DEF LockInv, TypeOK, FileIsOwners
<1>4. MetOthers'
  BY DEF LockInv, TypeOK, MetOthers
<1>5. SecondRound'
  BY DEF LockInv, TypeOK, SecondRound
<1>6. TurnsLive'
  BY DEF LockInv, TypeOK, TurnsLive
<1> QED BY <1>1, <1>2, <1>3, <1>4, <1>5, <1>6 DEF LockInv

LEMMA UnlinkOwnKeeps ==
  ASSUME LockInv, NEW p \in Pid, UnlinkOwn(p)
  PROVE  LockInv'
<1> USE DEF UnlinkOwn, Goto, vars, turnVars, history, Acquiring, Live, Alive, Over,
       NoFile, NoPid, NoLoop, FileOf, Named, Present, Contenders, Keeps
<1>1. TypeOK'
  <2>1. lock' \in {NoFile} \cup {FileOf(q) : q \in Pid} \cup {Named(q) : q \in Pid}
    BY LockAssumption DEF LockInv, TypeOK
  <2>2. pc' \in [Pid -> {"idle"} \cup Alive \cup Over]
    BY LockAssumption DEF LockInv, TypeOK
  <2>3. attempt' \in [Pid -> 0..1]
    BY LockAssumption DEF LockInv, TypeOK
  <2>4. seen' \in [Pid -> {NoPid} \cup {{q} : q \in Pid}]
    BY LockAssumption DEF LockInv, TypeOK
  <2>5. turns' \in [Pid -> Seq(Loop)]
    BY LockAssumption DEF LockInv, TypeOK
  <2>6. inUse' \in [Pid -> {NoLoop} \cup {{k} : k \in Loop}]
    BY LockAssumption DEF LockInv, TypeOK
  <2>7. borrows' \in 0..MaxBorrows
    BY LockAssumption DEF LockInv, TypeOK
  <2>8. met' \subseteq Pid
    BY LockAssumption DEF LockInv, TypeOK
  <2>9. raced' \in BOOLEAN
    BY LockAssumption DEF LockInv, TypeOK
  <2> QED BY <2>1, <2>2, <2>3, <2>4, <2>5, <2>6, <2>7, <2>8, <2>9 DEF TypeOK
<1>2. OneAcquirer'
  BY DEF LockInv, TypeOK, OneAcquirer
<1>3. FileIsOwners'
  <2>1. \A q \in Pid : raced \/ (Keeps(q) => q = p)
    BY OneName DEF LockInv, FileIsOwners
  <2>2. \A q \in Pid : raced \/ pc[q] # "write"
    BY OneName DEF LockInv, FileIsOwners
  <2> QED BY <2>1, <2>2 DEF LockInv, TypeOK, FileIsOwners
<1>4. MetOthers'
  BY DEF LockInv, TypeOK, MetOthers
<1>5. SecondRound'
  BY DEF LockInv, TypeOK, SecondRound
<1>6. TurnsLive'
  BY DEF LockInv, TypeOK, TurnsLive
<1> QED BY <1>1, <1>2, <1>3, <1>4, <1>5, <1>6 DEF LockInv

LEMMA DieKeeps ==
  ASSUME LockInv, NEW p \in Pid, Die(p)
  PROVE  LockInv'
<1> USE DEF Die, Goto, vars, turnVars, history, Acquiring, Live, Alive, Over,
       NoFile, NoPid, NoLoop, FileOf, Named, Present, Contenders, Keeps
<1>1. TypeOK'
  <2>1. lock' \in {NoFile} \cup {FileOf(q) : q \in Pid} \cup {Named(q) : q \in Pid}
    BY LockAssumption DEF LockInv, TypeOK
  <2>2. pc' \in [Pid -> {"idle"} \cup Alive \cup Over]
    BY LockAssumption DEF LockInv, TypeOK
  <2>3. attempt' \in [Pid -> 0..1]
    BY LockAssumption DEF LockInv, TypeOK
  <2>4. seen' \in [Pid -> {NoPid} \cup {{q} : q \in Pid}]
    BY LockAssumption DEF LockInv, TypeOK
  <2>5. turns' \in [Pid -> Seq(Loop)]
    BY LockAssumption DEF LockInv, TypeOK
  <2>6. inUse' \in [Pid -> {NoLoop} \cup {{k} : k \in Loop}]
    BY LockAssumption DEF LockInv, TypeOK
  <2>7. borrows' \in 0..MaxBorrows
    BY LockAssumption DEF LockInv, TypeOK
  <2>8. met' \subseteq Pid
    BY LockAssumption DEF LockInv, TypeOK
  <2>9. raced' \in BOOLEAN
    BY LockAssumption DEF LockInv, TypeOK
  <2> QED BY <2>1, <2>2, <2>3, <2>4, <2>5, <2>6, <2>7, <2>8, <2>9 DEF TypeOK
<1>2. OneAcquirer'
  BY DEF LockInv, TypeOK, OneAcquirer
<1>3. FileIsOwners'
  BY DEF LockInv, TypeOK, FileIsOwners
<1>4. MetOthers'
  BY DEF LockInv, TypeOK, MetOthers
<1>5. SecondRound'
  BY DEF LockInv, TypeOK, SecondRound
<1>6. TurnsLive'
  BY DEF LockInv, TypeOK, TurnsLive
<1> QED BY <1>1, <1>2, <1>3, <1>4, <1>5, <1>6 DEF LockInv

LEMMA ReusePidKeeps ==
  ASSUME LockInv, NEW p \in Pid, ReusePid(p)
  PROVE  LockInv'
<1> USE DEF ReusePid, Goto, vars, turnVars, history, Acquiring, Live, Alive, Over,
       NoFile, NoPid, NoLoop, FileOf, Named, Present, Contenders, Keeps
<1>1. TypeOK'
  BY DEF LockInv, TypeOK
<1>2. OneAcquirer'
  BY DEF LockInv, TypeOK, OneAcquirer
<1>3. FileIsOwners'
  BY DEF LockInv, TypeOK, FileIsOwners
<1>4. MetOthers'
  BY DEF LockInv, TypeOK, MetOthers
<1>5. SecondRound'
  BY DEF LockInv, TypeOK, SecondRound
<1>6. TurnsLive'
  BY DEF LockInv, TypeOK, TurnsLive
<1> QED BY <1>1, <1>2, <1>3, <1>4, <1>5, <1>6 DEF LockInv

LEMMA NextInv == LockInv /\ [Next]_vars => LockInv'
<1> SUFFICES ASSUME LockInv, [Next]_vars PROVE LockInv'
  OBVIOUS
<1>1. ASSUME NEW p \in Pid, Acquire(p) PROVE LockInv'
  BY <1>1, StartKeeps, OpenExclusiveKeeps, WritePidKeeps, ReadLockPidKeeps,
     ProbeOwnerKeeps, UnlinkStaleKeeps DEF Acquire
<1>2. ASSUME NEW p \in Pid, Own(p) PROVE LockInv'
  BY <1>2, BorrowKeeps, EnterTurnKeeps, LeaveTurnKeeps, DeactivateKeeps, UnlinkOwnKeeps DEF Own
<1>3. ASSUME NEW p \in Pid, Die(p) PROVE LockInv'
  BY <1>3, DieKeeps
<1>4. ASSUME NEW p \in Pid, ReusePid(p) PROVE LockInv'
  BY <1>4, ReusePidKeeps
<1>5. CASE UNCHANGED vars
  BY <1>5 DEF vars, LockInv, TypeOK, OneAcquirer, FileIsOwners, MetOthers, SecondRound, TurnsLive,
              Present, Keeps
<1> QED BY <1>1, <1>2, <1>3, <1>4, <1>5 DEF Next

(* The inductive invariant holds throughout.                               *)
THEOREM LockInvariant == Spec => []LockInv
  BY InitInv, NextInv, PTL DEF Spec

(* The values of the variables stay in their types; in particular the loop  *)
(* of acquireOutboxLock ends in its second round.                           *)
THEOREM LockTypeCorrect == Spec => []TypeOK
  BY LockInvariant, PTL DEF LockInv

(* However many commands are started, crash and take over: as long as no    *)
(* two were inside acquireOutboxLock at once, one process owns the          *)
(* directory at most.                                                       *)
THEOREM LockExcludes == Spec => []OneOwnerUnlessRaced
<1>1. LockInv => OneOwnerUnlessRaced
  BY OneName DEF LockInv, FileIsOwners, Keeps, OneOwnerUnlessRaced, OneOwner, Owners
<1> QED BY <1>1, LockInvariant, PTL

(* No file that a crash left, at whichever await, locks a command out.      *)
THEOREM LockRecovers == Spec => []RefusedForAReason
<1>1. LockInv => RefusedForAReason
  BY DEF LockInv, SecondRound, RefusedForAReason
<1> QED BY <1>1, LockInvariant, PTL

(* A turn is taken or awaited only on a capability that is still the        *)
(* directory's.                                                             *)
THEOREM LockCoversTurns == Spec => []TurnsUnderLock
<1>1. LockInv => TurnsUnderLock
  BY DEF LockInv, FileIsOwners, TurnsLive, Keeps, TurnsUnderLock
<1> QED BY <1>1, LockInvariant, PTL

-----------------------------------------------------------------------------

(* RunnerOutbox. Files wear (they are lost when nobody can read them, or    *)
(* old and answered), and are written over by answers; attempts move on     *)
(* (TailMoves). A file says of an attempt what the server answered          *)
(* (AnswerSound), the cycle sends only what was not answered (CycleSound),  *)
(* and a command knows that nothing of its kind is pending when it draws an *)
(* operation (CommandSound). These three carry each other.                  *)

(* What a file says of its operation, and of an attempt whose answer it holds. *)
AsServed(a, status) ==
  /\ status \in {"acked", "rejected", "superseded"}
  /\ status = "acked" => a \in applied
  /\ status = "superseded" => a \notin applied
FileSound(op) ==
  /\ Here(op) => (op \in Attempts <=> box[op].kind = "engine.complete")
  /\ box[op].bad => op \in Corruptible
FilesSound == box \in [Ops -> Files \cup {NoEntry}] /\ \A op \in Ops : FileSound(op)
AnswerSound(a) ==
  /\ PendingOp(a) => a \notin heard
  /\ TerminalOp(a) => a \in heard /\ AsServed(a, box[a].status)
  /\ a \in heard => tail[a].stage \notin {"open", "result"}
  /\ tail[a].stage = "settled" => a \in heard /\ AsServed(a, tail[a].outcome)
  /\ a \notin Corruptible /\ tail[a].stage = "outboxed" /\ a \notin heard => PendingOp(a)
AnswersSound == tail \in [Attempts -> Tails] /\ \A a \in Attempts : AnswerSound(a)

(* The cycle carries attempts whose result is in the outbox, and sends only *)
(* what was not answered.                                                   *)
CycleSteps == {"reconcile", "send", "adopt", "settle", "finalize"}
CycleSound ==
  command.name = "cycle" =>
    /\ command.step \in CycleSteps
    /\ plan.intents \subseteq plan.deliver /\ plan.intents \cap heard = {}
    /\ \A a \in plan.deliver : tail[a].stage \notin {"open", "result"}
    /\ command.step \in {"adopt", "settle"} => command.op \in plan.deliver \ plan.intents
    /\ command.step = "adopt" =>
         /\ plan.answer = "ok" => command.op \in applied
         /\ plan.answer = "superseded" => command.op \notin applied
    /\ command.step = "settle" => TerminalOp(command.op)

(* A command sends the one pending operation of its kind. *)
SendSteps == {"deliver", "drain", "drain_more", "claim", "complete"}
CommandSound ==
  /\ command.step \in SendSteps => command.op \in LocalOps /\ PendingOp(command.op)
  /\ command.step = "claim" => box[command.op].kind = "lease.claim"
  /\ command.step = "expired" =>
       command.op \in LocalOps /\ Here(command.op) /\ PendingOf("lease.claim", box) = {}
  /\ command.step = "write" => PendingOf("engine.report", box) = {}
  /\ command.step \in {"claim", "expired", "hold"} => PendingOf("run.complete", box) = {}
OneShot == Kinds \ {"engine.complete"}
AtMostOne ==
  \A kind \in OneShot : \A x, y \in PendingOf(kind, box) : x = y

StepNames == CycleSteps \cup SendSteps \cup {"none", "write", "recover", "recovered", "expired", "hold"}
LocalsTyped ==
  /\ applied \subseteq Attempts /\ heard \subseteq Attempts /\ leased \subseteq LocalOps
  /\ command \in CommandStates /\ plan \in Plans

OutboxInv == FilesSound /\ AnswersSound /\ CycleSound /\ CommandSound /\ AtMostOne /\ LocalsTyped

-----------------------------------------------------------------------------
(* Files *)

LEMMA Apart ==
  /\ \A op \in Ops : op \in Attempts \/ op \in LocalOps
  /\ \A op \in LocalOps : op \in Ops /\ op \notin Attempts
  /\ Attempts \subseteq Ops /\ NoOp \notin Ops /\ Corruptible \subseteq Ops
  BY OutboxAssumption DEF Ops

LEMMA NoEntryIs ==
  /\ NoEntry \notin Files /\ NoEntry.status = "none" /\ NoEntry.kind = "none" /\ NoEntry.bad = FALSE
  /\ "none" \notin TerminalStates \cup {"pending"} /\ "pending" \notin TerminalStates
  /\ \A f \in Files \cup {NoEntry} : f.status = "none" <=> f = NoEntry
  BY DEF NoEntry, Files, Kinds, TerminalStates

LEMMA FileAt ==
  ASSUME OutboxInv, NEW op \in Ops
  PROVE  box[op] \in Files \cup {NoEntry} /\ FileSound(op) /\ (Here(op) <=> box[op] \in Files)
         /\ (Here(op) <=> PendingOp(op) \/ TerminalOp(op)) /\ DOMAIN box = Ops
<1>1. box[op] \in Files \cup {NoEntry} /\ FileSound(op) /\ DOMAIN box = Ops
  BY DEF OutboxInv, FilesSound
<1>2. Here(op) <=> box[op] \in Files
  BY <1>1, NoEntryIs DEF Here
<1>3. box[op] \in Files => box[op].status \in TerminalStates \cup {"pending"}
  BY DEF Files
<1>4. QED
  BY <1>1, <1>2, <1>3, NoEntryIs DEF Here, PendingOp, TerminalOp

LEMMA AttemptAt ==
  ASSUME OutboxInv, NEW a \in Attempts
  PROVE  a \in Ops /\ tail[a] \in Tails /\ DOMAIN tail = Attempts /\ AnswerSound(a)
  BY Apart DEF OutboxInv, AnswersSound

(* Files some of which were lost because nobody could read them, or because *)
(* they were old and answered.                                              *)
Worn(op, file) ==
  \/ file.kind = box[op].kind /\ file.status = box[op].status
  \/ file = NoEntry /\ (box[op].bad \/ TerminalOp(op))
Wears(files) ==
  /\ files \in [Ops -> Files \cup {NoEntry}]
  /\ \A op \in Ops : (files[op].bad => op \in Corruptible) /\ Worn(op, files[op])

LEMMA BoxWears == ASSUME OutboxInv PROVE Wears(box)
  BY FileAt DEF Wears, Worn, FileSound, OutboxInv, FilesSound

LEMMA ReadableWears == ASSUME OutboxInv PROVE Wears(Readable) /\ \A op \in Ops : ~Readable[op].bad
<1>1. \A op \in Ops : Readable[op] = IF box[op].bad THEN NoEntry ELSE box[op]
  BY DEF Readable
<1>2. Readable \in [Ops -> Files \cup {NoEntry}]
  BY FileAt DEF Readable
<1>3. ASSUME NEW op \in Ops PROVE ~Readable[op].bad /\ Worn(op, Readable[op])
  BY <1>1, NoEntryIs DEF Worn
<1>4. QED
  BY <1>2, <1>3 DEF Wears

LEMMA PrunedWears == ASSUME OutboxInv, NEW files, Wears(files) PROVE Wears(Pruned(files))
<1>1. \A op \in Ops : Pruned(files)[op] = IF Prunable(files[op]) THEN NoEntry ELSE files[op]
  BY DEF Pruned
<1>2. Pruned(files) \in [Ops -> Files \cup {NoEntry}]
  BY DEF Pruned, Wears
<1>3. ASSUME NEW op \in Ops PROVE (Pruned(files)[op].bad => op \in Corruptible) /\ Worn(op, Pruned(files)[op])
  <2>1. (files[op].bad => op \in Corruptible) /\ Worn(op, files[op])
    BY DEF Wears
  <2>2. CASE ~Prunable(files[op])
    BY <1>1, <2>1, <2>2
  <2>3. CASE Prunable(files[op])
    <3>1. files[op].status \in TerminalStates
      BY <2>3 DEF Prunable
    <3>2. TerminalOp(op)
      BY <2>1, <3>1, NoEntryIs DEF Worn, TerminalOp
    <3>3. QED
      BY <1>1, <2>3, <3>2, NoEntryIs DEF Worn
  <2>4. QED
    BY <2>2, <2>3
<1>4. QED
  BY <1>2, <1>3 DEF Wears

\* the wear of files adds no operation that waits for an answer
LEMMA WornSays ==
  ASSUME OutboxInv, NEW files, Wears(files), NEW op \in Ops
  PROVE  /\ files[op].status = "pending" => PendingOp(op) /\ files[op].kind = box[op].kind
         /\ files[op].status \in TerminalStates => TerminalOp(op) /\ files[op].status = box[op].status
         /\ files[op].status = "none" => files[op] = NoEntry
         /\ files[op].status # "none" => Here(op) /\ files[op].kind = box[op].kind /\ files[op] \in Files
         /\ PendingOp(op) /\ ~box[op].bad => files[op].status = "pending" /\ files[op].kind = box[op].kind
<1>1. Worn(op, files[op]) /\ files[op] \in Files \cup {NoEntry}
  BY DEF Wears
<1>2. QED
  BY <1>1, NoEntryIs DEF Worn, PendingOp, TerminalOp, Here

LEMMA PendingShrinks ==
  ASSUME OutboxInv, NEW files, Wears(files), NEW kind
  PROVE  PendingOf(kind, files) \subseteq PendingOf(kind, box)
  BY WornSays DEF PendingOf, PendingOp

LEMMA FewerPending ==
  ASSUME OutboxInv, \A kind \in OneShot : PendingOf(kind, box') \subseteq PendingOf(kind, box)
  PROVE  AtMostOne'
  BY DEF OutboxInv, AtMostOne

\* files that may follow: an operation keeps its kind, and none starts to wait
Follows(files) ==
  /\ files \in [Ops -> Files \cup {NoEntry}]
  /\ \A op \in Ops :
       /\ files[op].bad => op \in Corruptible
       /\ files[op].status # "none" => Here(op) /\ files[op].kind = box[op].kind
       /\ op \in Attempts => Worn(op, files[op])
  /\ \A kind \in OneShot : PendingOf(kind, files) \subseteq PendingOf(kind, box)

LEMMA WearsFollows == ASSUME OutboxInv, NEW files, Wears(files) PROVE Follows(files)
<1>1. \A op \in Ops : /\ files[op].bad => op \in Corruptible
                      /\ files[op].status # "none" => Here(op) /\ files[op].kind = box[op].kind
                      /\ Worn(op, files[op])
  BY WornSays DEF Wears
<1>2. QED
  BY <1>1, PendingShrinks DEF Follows, Wears

LEMMA FollowsKept ==
  ASSUME OutboxInv, Follows(box')
  PROVE  FilesSound' /\ AtMostOne' /\ \A a \in Attempts : Worn(a, box'[a])
<1>1. ASSUME NEW op \in Ops PROVE FileSound(op)'
  BY FileAt DEF FileSound, Here, Follows
<1>2. AtMostOne'
  BY FewerPending DEF Follows
<1>3. QED
  BY <1>1, <1>2, Apart DEF FilesSound, Follows

LEMMA FilesKept ==
  ASSUME OutboxInv, Wears(box')
  PROVE  FilesSound' /\ AtMostOne' /\ \A a \in Attempts : Worn(a, box'[a])
  BY WearsFollows, FollowsKept

-----------------------------------------------------------------------------
(* Attempts *)

TailMoves(a) ==
  \/ tail'[a].stage = tail[a].stage /\ tail'[a].outcome = tail[a].outcome
  \/ tail[a].stage = "open" /\ tail'[a].stage = "result"
  \/ tail[a].stage = "result" /\ tail'[a].stage = "outboxed" /\ Here(a)
  \/ tail'[a].stage = "settled" /\ TerminalOp(a) /\ tail'[a].outcome = box[a].status
  \/ tail[a].stage = "settled" /\ tail'[a].stage = "gone"

LEMMA AnswerKept ==
  ASSUME OutboxInv, NEW a \in Attempts, Worn(a, box'[a]), TailMoves(a),
         UNCHANGED <<applied, heard>>
  PROVE  AnswerSound(a)' /\ (tail[a].stage \notin {"open", "result"} => tail'[a].stage \notin {"open", "result"})
<1>1. AnswerSound(a) /\ FileSound(a) /\ a \in Ops
  BY AttemptAt, FileAt
<1>2. PendingOp(a)' => PendingOp(a)
  BY NoEntryIs DEF Worn, PendingOp
<1>3. TerminalOp(a)' => TerminalOp(a) /\ box'[a].status = box[a].status
  BY NoEntryIs DEF Worn, TerminalOp
<1>4. PendingOp(a) /\ a \notin Corruptible => PendingOp(a)'
  BY <1>1, NoEntryIs DEF Worn, PendingOp, TerminalOp, FileSound
<1>5. Here(a) /\ a \notin heard => PendingOp(a)
  BY <1>1, FileAt DEF AnswerSound
<1>6. \A s : AsServed(a, s)' <=> AsServed(a, s)
  BY DEF AsServed
<1>7. AnswerSound(a)'
  BY <1>1, <1>2, <1>3, <1>4, <1>5, <1>6 DEF AnswerSound, TailMoves
<1>8. QED
  BY <1>7 DEF TailMoves

LEMMA AnswersKept ==
  ASSUME OutboxInv, tail' \in [Attempts -> Tails], \A a \in Attempts : Worn(a, box'[a]) /\ TailMoves(a),
         UNCHANGED <<applied, heard>>
  PROVE  AnswersSound'
  BY AnswerKept DEF AnswersSound

LEMMA TailsTyped ==
  /\ \A t \in Tails : t.stage \in Stages
  /\ \A t \in Tails : t.stage \in {"open", "result", "outboxed"} =>
       \A s \in {"result", "outboxed"} : [t EXCEPT !.stage = s] \in Tails /\ [t EXCEPT !.stage = s].stage = s
  /\ \A t \in Tails : t.stage = "settled" =>
       [t EXCEPT !.stage = "gone"] \in Tails /\ [t EXCEPT !.stage = "gone"].stage = "gone"
  /\ \A s \in TerminalStates : [stage |-> "settled", outcome |-> s, age |-> 0] \in Tails
  BY OutboxAssumption DEF Tails, Stages

-----------------------------------------------------------------------------
(* Steps of a command *)

\* a step that is not the cycle's, and leaves what the attempts have
LEMMA LocalStep ==
  ASSUME OutboxInv, UNCHANGED <<tail, applied, heard>>, FilesSound', AtMostOne', \A a \in Attempts : Worn(a, box'[a]),
         command'.name # "cycle", CommandSound', leased' \subseteq LocalOps, command' \in CommandStates, plan' \in Plans
  PROVE  OutboxInv'
<1>1. AnswersSound'
  BY AnswersKept DEF TailMoves, OutboxInv, AnswersSound
<1>2. CycleSound' /\ LocalsTyped'
  BY DEF CycleSound, LocalsTyped, OutboxInv
<1>3. QED
  BY <1>1, <1>2 DEF OutboxInv

LEMMA IdleSound == ASSUME command' = Idle PROVE CommandSound' /\ command'.name # "cycle" /\ command' \in CommandStates
<1>1. Idle \in CommandStates /\ Idle.step = "none" /\ Idle.name = "none"
  BY DEF Idle, CommandStates
<1>2. QED
  BY <1>1 DEF CommandSound, SendSteps

LEMMA NoPlanTyped == NoPlan \in Plans
  BY DEF NoPlan, Plans

LEMMA EnterTyped ==
  ASSUME NEW name \in AllCommands, NEW step \in StepNames, NEW op \in Ops \cup {NoOp}, NEW run \in DiagRuns \cup {NoRun},
         Enter(name, step, op, run)
  PROVE  /\ command' \in CommandStates /\ command'.name = name /\ command'.step = step
         /\ command'.op = op /\ command'.run = run
  BY DEF Enter, CommandStates, StepNames, CycleSteps, SendSteps

LEMMA DeliverEnters ==
  ASSUME NEW name \in {"report", "engines"}, NEW op \in LocalOps, Enter(name, "deliver", op, NoRun), PendingOp(op)'
  PROVE  command' \in CommandStates /\ command'.name # "cycle" /\ CommandSound'
<1>1. op \in Ops \cup {NoOp} /\ name \in AllCommands /\ "deliver" \in StepNames /\ NoRun \in DiagRuns \cup {NoRun}
  BY Apart DEF AllCommands, StepNames, SendSteps
<1>2. command' \in CommandStates /\ command'.name = name /\ command'.step = "deliver" /\ command'.op = op
  BY <1>1, EnterTyped
<1>3. QED
  BY <1>2 DEF CommandSound, SendSteps

\* files only wear, and the command is over
LEMMA WearsAndStops ==
  ASSUME OutboxInv, UNCHANGED <<tail, applied, heard, leased>>, Wears(box'), command' = Idle, plan' \in Plans
  PROVE  OutboxInv'
  BY FilesKept, IdleSound, LocalStep DEF OutboxInv, LocalsTyped

LEMMA InspectKeeps == ASSUME OutboxInv, InspectOutbox PROVE OutboxInv'
<1>1. Wears(box') /\ command' = Idle
  BY ReadableWears, PrunedWears DEF InspectOutbox, Starts
<1>2. QED
  BY <1>1, WearsAndStops DEF InspectOutbox, OutboxInv, LocalsTyped

LEMMA DiesKeeps == ASSUME OutboxInv, Dies PROVE OutboxInv'
<1>1. Wears(box')
  BY BoxWears DEF Dies
<1>2. QED
  BY <1>1, WearsAndStops, NoPlanTyped DEF Dies

\* an operation is drawn, and none of its kind was pending
LEMMA DrawKept ==
  ASSUME OutboxInv, NEW files, Follows(files), NEW op, NEW kind \in OneShot, NEW run \in DiagRuns \cup {NoRun},
         Draw(op, kind, run, files), PendingOf(kind, files) = {}
  PROVE  /\ FilesSound' /\ AtMostOne' /\ (\A a \in Attempts : Worn(a, box'[a])) /\ leased' \subseteq LocalOps
         /\ op \in LocalOps /\ op \in Ops /\ PendingOp(op)' /\ box'[op].kind = kind
         /\ \A k \in OneShot \ {kind} : PendingOf(k, box') \subseteq PendingOf(k, files)
<1> DEFINE file == PendingFile(kind, run)
<1>1. file \in Files /\ file.kind = kind /\ file.status = "pending" /\ file.bad = FALSE /\ kind # "engine.complete"
  BY OutboxAssumption DEF PendingFile, Files, OneShot
<1>2. op \in LocalOps /\ files[op].status = "none" /\ box' = [files EXCEPT ![op] = file] /\ leased' = leased \ {op}
  BY DEF Draw
<1> HIDE DEF file
<1>3. op \in Ops /\ op \notin Attempts /\ files \in [Ops -> Files \cup {NoEntry}]
  BY <1>2, Apart DEF Follows
<1>4. box' \in [Ops -> Files \cup {NoEntry}] /\ box'[op] = file /\ \A x \in Ops \ {op} : box'[x] = files[x]
  BY <1>1, <1>2, <1>3
<1>5. \A x \in Ops : FileSound(x)'
  <2>1. ASSUME NEW x \in Ops \ {op} PROVE FileSound(x)'
    BY <1>4, FileAt DEF FileSound, Here, Follows
  <2>2. FileSound(op)'
    BY <1>1, <1>3, <1>4 DEF FileSound
  <2>3. QED
    BY <2>1, <2>2
<1>6. \A k \in OneShot \ {kind} : PendingOf(k, box') \subseteq PendingOf(k, files)
  BY <1>1, <1>3, <1>4 DEF PendingOf
<1>7. PendingOf(kind, box') \subseteq {op}
  BY <1>4 DEF PendingOf
<1>8. AtMostOne'
  <2>1. \A k \in OneShot \ {kind} : PendingOf(k, box') \subseteq PendingOf(k, box)
    BY <1>6 DEF Follows
  <2>2. QED
    BY <1>7, <2>1 DEF AtMostOne, OutboxInv
<1>9. \A a \in Attempts : Worn(a, box'[a])
  <2>1. \A a \in Attempts : a \in Ops \ {op} /\ box'[a] = files[a]
    BY <1>3, <1>4, Apart
  <2>2. QED
    BY <2>1 DEF Follows
<1>10. leased' \subseteq LocalOps
  BY <1>2 DEF OutboxInv, LocalsTyped
<1>11. QED
  BY <1>1, <1>2, <1>3, <1>4, <1>5, <1>6, <1>8, <1>9, <1>10 DEF FilesSound, PendingOp

LEMMA StartReportKeeps == ASSUME OutboxInv, StartReport PROVE OutboxInv'
<1> DEFINE files == Pruned(Readable)
<1>1. Wears(files)
  BY ReadableWears, PrunedWears
<1>2. UNCHANGED <<tail, applied, heard, plan>>
  BY DEF StartReport
<1> HIDE DEF files
<1>3. CASE PendingOf("capability.report", files) # {}
  <2>1. PICK op \in PendingOf("capability.report", files) : Enter("report", "deliver", op, NoRun)
    BY <1>3 DEF StartReport, files
  <2>2. box' = files /\ leased' = leased
    BY <1>3 DEF StartReport, files
  <2>3. op \in Ops /\ files[op].kind = "capability.report" /\ files[op].status = "pending"
    BY DEF PendingOf
  <2>4. op \in LocalOps /\ PendingOp(op)'
    BY <1>1, <2>2, <2>3, WornSays, FileAt, Apart DEF FileSound, PendingOp
  <2>5. command' \in CommandStates /\ command'.name # "cycle" /\ CommandSound'
    BY <2>1, <2>4, DeliverEnters
  <2>6. QED
    BY <1>1, <1>2, <2>2, <2>5, FilesKept, LocalStep DEF OutboxInv, LocalsTyped
<1>4. CASE PendingOf("capability.report", files) = {}
  <2>1. PICK op \in LocalOps : Draw(op, "capability.report", NoRun, files) /\ Enter("report", "deliver", op, NoRun)
    BY <1>4 DEF StartReport, files
  <2>2. "capability.report" \in OneShot
    BY DEF OneShot, Kinds
  <2>3. /\ FilesSound' /\ AtMostOne' /\ (\A a \in Attempts : Worn(a, box'[a])) /\ leased' \subseteq LocalOps
        /\ op \in Ops /\ PendingOp(op)'
    BY <1>1, <1>4, <2>1, <2>2, WearsFollows, DrawKept
  <2>4. command' \in CommandStates /\ command'.name # "cycle" /\ CommandSound'
    BY <2>1, <2>3, DeliverEnters
  <2>5. QED
    BY <1>2, <2>3, <2>4, LocalStep DEF OutboxInv, LocalsTyped
<1>5. QED
  BY <1>3, <1>4

\* the file of an operation is written again, as answered
LEMMA TransitionFollows ==
  ASSUME OutboxInv, NEW files, Wears(files), NEW op \in LocalOps, files[op].status # "none",
         NEW status \in TerminalStates, NEW new, new = Transitioned(files, op, status)
  PROVE  /\ Follows(new) /\ new[op].status # "none" /\ new[op].kind = box[op].kind
         /\ \A k : PendingOf(k, new) = PendingOf(k, files) \ {op}
<1> DEFINE f == files[op]
           file == [[[f EXCEPT !.status = status] EXCEPT !.age = 0] EXCEPT !.bad = FALSE]
<1>1. op \in Ops /\ op \notin Attempts /\ files \in [Ops -> Files \cup {NoEntry}] /\ f \in Files
      /\ Here(op) /\ f.kind = box[op].kind
  BY Apart, WornSays DEF Wears
<1>2. 0 \in 0..OutboxDays
  BY OutboxAssumption
<1>3. file \in Files /\ file.kind = f.kind /\ file.status = status /\ file.bad = FALSE
  BY <1>1, <1>2 DEF Files
<1>4. new = [files EXCEPT ![op] = file]
  BY <1>1 DEF Transitioned
<1> HIDE DEF file
<1>5. new \in [Ops -> Files \cup {NoEntry}] /\ new[op] = file /\ \A x \in Ops \ {op} : new[x] = files[x]
  BY <1>1, <1>3, <1>4
<1>6. status # "none" /\ status # "pending"
  BY NoEntryIs
<1>7. \A k : PendingOf(k, new) = PendingOf(k, files) \ {op}
  BY <1>1, <1>3, <1>5, <1>6 DEF PendingOf
<1>8. \A k \in OneShot : PendingOf(k, new) \subseteq PendingOf(k, box)
  BY <1>7, PendingShrinks
<1>9. \A x \in Ops : /\ new[x].bad => x \in Corruptible
                     /\ new[x].status # "none" => Here(x) /\ new[x].kind = box[x].kind
                     /\ x \in Attempts => Worn(x, new[x])
  <2>1. ASSUME NEW x \in Ops \ {op}
        PROVE  /\ new[x].bad => x \in Corruptible
               /\ new[x].status # "none" => Here(x) /\ new[x].kind = box[x].kind
               /\ Worn(x, new[x])
    BY <1>5, WornSays DEF Wears
  <2>2. QED
    BY <1>1, <1>3, <1>5, <2>1
<1>10. QED
  BY <1>1, <1>3, <1>5, <1>6, <1>7, <1>8, <1>9 DEF Follows

LEMMA TransitionKept ==
  ASSUME OutboxInv, NEW files, Wears(files), NEW op \in LocalOps, files[op].status # "none",
         NEW status \in TerminalStates, box' = Transitioned(files, op, status)
  PROVE  /\ FilesSound' /\ AtMostOne' /\ (\A a \in Attempts : Worn(a, box'[a]))
         /\ Here(op)' /\ box'[op].kind = box[op].kind
         /\ \A k : PendingOf(k, box') = PendingOf(k, files) \ {op}
  BY TransitionFollows, FollowsKept DEF Here

LEMMA StartEnginesKeeps == ASSUME OutboxInv, StartEngines PROVE OutboxInv'
<1> DEFINE files == Pruned(Readable)
           pending == PendingOf("engine.report", files)
<1>1. Wears(files) /\ "engine.report" \in OneShot
  BY ReadableWears, PrunedWears DEF OneShot, Kinds
<1>2. UNCHANGED <<tail, applied, heard, plan>>
  BY DEF StartEngines
<1>3. /\ pending \subseteq Ops
      /\ \A op \in pending : files[op].kind = "engine.report" /\ files[op].status = "pending"
      /\ \A x, y \in pending : x = y
  <2>1. pending \subseteq PendingOf("engine.report", box)
    BY <1>1, PendingShrinks
  <2>2. QED
    BY <1>1, <2>1 DEF PendingOf, OutboxInv, AtMostOne
<1>4. \A op \in pending : op \in LocalOps
  <2> HIDE DEF files
  <2>1. QED
    BY <1>1, <1>3, WornSays, FileAt, Apart DEF FileSound
<1>5. \/ /\ box' = files /\ UNCHANGED leased
         /\ \E op \in pending : Enter("engines", "deliver", op, NoRun)
      \/ \E old \in pending :
           /\ box' = Transitioned(files, old, "abandoned") /\ Enter("engines", "write", NoOp, NoRun)
           /\ UNCHANGED leased
      \/ box' = files /\ Stop /\ UNCHANGED leased
      \/ pending = {} /\ \E op \in LocalOps :
              Draw(op, "engine.report", NoRun, files) /\ Enter("engines", "deliver", op, NoRun)
  BY DEF StartEngines, AbandonStale
<1> HIDE DEF files
<1>6. ASSUME box' = files, UNCHANGED leased, NEW op \in pending, Enter("engines", "deliver", op, NoRun) PROVE OutboxInv'
  <2>1. op \in LocalOps /\ PendingOp(op)' /\ op \in Ops
    BY <1>3, <1>4, <1>6 DEF PendingOp
  <2>2. command' \in CommandStates /\ command'.name # "cycle"
    BY <1>6, <2>1, DeliverEnters
  <2>3. CommandSound'
    BY <1>6, <2>1, DeliverEnters
  <2>4. QED
    BY <1>1, <1>2, <1>6, <2>2, <2>3, FilesKept, LocalStep DEF OutboxInv, LocalsTyped
<1>7. ASSUME NEW old \in pending, box' = Transitioned(files, old, "abandoned"), Enter("engines", "write", NoOp, NoRun),
             UNCHANGED leased
      PROVE  OutboxInv'
  <2>1. old \in LocalOps /\ files[old].status # "none" /\ "abandoned" \in TerminalStates
    BY <1>3, <1>4 DEF TerminalStates
  <2>2. /\ FilesSound' /\ AtMostOne' /\ (\A a \in Attempts : Worn(a, box'[a]))
        /\ PendingOf("engine.report", box') = pending \ {old}
    BY <1>1, <1>7, <2>1, TransitionKept
  <2>3. PendingOf("engine.report", box') = {}
    BY <1>3, <2>2
  <2>4. command' \in CommandStates /\ command'.name = "engines" /\ command'.step = "write"
    BY <1>7, EnterTyped DEF AllCommands, StepNames, SendSteps
  <2>5. CommandSound'
    BY <2>3, <2>4 DEF CommandSound, SendSteps
  <2>6. QED
    BY <1>2, <1>7, <2>2, <2>4, <2>5, LocalStep DEF OutboxInv, LocalsTyped
<1>8. ASSUME box' = files, Stop, UNCHANGED leased PROVE OutboxInv'
  BY <1>1, <1>2, <1>8, WearsAndStops DEF Stop, OutboxInv, LocalsTyped
<1>9. ASSUME pending = {}, NEW op \in LocalOps, Draw(op, "engine.report", NoRun, files),
             Enter("engines", "deliver", op, NoRun)
      PROVE  OutboxInv'
  <2>1. /\ FilesSound' /\ AtMostOne' /\ (\A a \in Attempts : Worn(a, box'[a])) /\ leased' \subseteq LocalOps
        /\ op \in Ops /\ PendingOp(op)'
    BY <1>1, <1>9, WearsFollows, DrawKept
  <2>2. command' \in CommandStates /\ command'.name # "cycle"
    BY <1>9, <2>1, DeliverEnters
  <2>3. CommandSound'
    BY <1>9, <2>1, DeliverEnters
  <2>4. QED
    BY <1>2, <2>1, <2>2, <2>3, LocalStep DEF OutboxInv, LocalsTyped
<1>10. QED
  BY <1>5, <1>6, <1>7, <1>8, <1>9

LEMMA WriteEngineReportKeeps == ASSUME OutboxInv, WriteEngineReport PROVE OutboxInv'
<1>1. PICK op \in LocalOps : Draw(op, "engine.report", NoRun, box) /\ Enter("engines", "deliver", op, NoRun)
  BY DEF WriteEngineReport
<1>2. PendingOf("engine.report", box) = {} /\ "engine.report" \in OneShot /\ Wears(box)
  BY BoxWears DEF WriteEngineReport, Step, OutboxInv, CommandSound, OneShot, Kinds
<1>3. /\ FilesSound' /\ AtMostOne' /\ (\A a \in Attempts : Worn(a, box'[a])) /\ leased' \subseteq LocalOps
      /\ op \in Ops /\ PendingOp(op)'
  BY <1>1, <1>2, WearsFollows, DrawKept
<1>4. command' \in CommandStates /\ command'.name # "cycle" /\ CommandSound'
  BY <1>1, <1>3, DeliverEnters
<1>5. QED
  BY <1>3, <1>4, LocalStep DEF WriteEngineReport, OutboxInv, LocalsTyped

\* what a command relies on stays while no file is lost or gets an answer
LEMMA CommandStays ==
  ASSUME OutboxInv, command'.step = command.step, command'.op = command.op,
         \A op \in Ops : box'[op].kind = box[op].kind /\ box'[op].status = box[op].status
  PROVE  CommandSound'
<1>1. \A k : PendingOf(k, box') = PendingOf(k, box)
  BY DEF PendingOf
<1>2. \A op \in Ops : (PendingOp(op)' <=> PendingOp(op)) /\ (Here(op)' <=> Here(op))
  BY DEF PendingOp, Here
<1>3. command.step \in SendSteps \cup {"expired"} => command.op \in Ops
  BY Apart DEF OutboxInv, CommandSound
<1>4. command.step = "claim" => box'[command.op].kind = "lease.claim"
  BY <1>3 DEF OutboxInv, CommandSound, SendSteps
<1>5. QED
  BY <1>1, <1>2, <1>3, <1>4 DEF OutboxInv, CommandSound

LEMMA SendKeeps == ASSUME OutboxInv, Send PROVE OutboxInv'
<1>1. PICK answer \in Answers :
        /\ plan' = [plan EXCEPT !.answer = answer]
        /\ leased' = IF command.step = "claim" /\ answer = "ok" THEN leased \cup {command.op} ELSE leased
  BY DEF Send
<1>2. /\ UNCHANGED <<tail, box, applied, heard>> /\ command' = [command EXCEPT !.flag = TRUE]
      /\ command \in CommandStates /\ command.name # "cycle" /\ plan \in Plans
  BY DEF Send, OutboxInv, LocalsTyped
<1>3. /\ command' \in CommandStates /\ command'.name = command.name /\ command'.step = command.step
      /\ command'.op = command.op
  BY <1>2 DEF CommandStates
<1>4. plan' \in Plans
  BY <1>1, <1>2 DEF Plans
<1>5. leased' \subseteq LocalOps
  BY <1>1 DEF OutboxInv, LocalsTyped, CommandSound, SendSteps
<1>6. Wears(box')
  BY <1>2, BoxWears
<1>7. CommandSound'
  BY <1>2, <1>3, CommandStays
<1>8. QED
  BY <1>2, <1>3, <1>4, <1>5, <1>6, <1>7, FilesKept, LocalStep

LEMMA StatusTyped ==
  \A answer : /\ DeclarationStatus(answer) \in {"acked", "rejected", "superseded", "pending"}
              /\ \A op : StatusOf(op, answer) \in TerminalStates \cup {"pending"}
  BY DEF StatusOf, LegacyStatus, DeclarationStatus, TerminalStates

\* an answer is written over the file of the operation that was sent
LEMMA AdoptedKept ==
  ASSUME OutboxInv, NEW op \in LocalOps, PendingOp(op), Adopted(op)
  PROVE  /\ FilesSound' /\ AtMostOne' /\ (\A a \in Attempts : Worn(a, box'[a]))
         /\ Here(op)' /\ box'[op].kind = box[op].kind
         /\ \A k : PendingOf(k, box') \subseteq PendingOf(k, box)
         /\ StatusOf(op, plan.answer) = "pending" => box' = box
         /\ StatusOf(op, plan.answer) # "pending" => \A k : PendingOf(k, box') = PendingOf(k, box) \ {op}
<1>1. Wears(box)
  BY BoxWears
<1>2. CASE StatusOf(op, plan.answer) = "pending"
  <2>1. box' = box
    BY <1>2 DEF Adopted
  <2>2. Here(op)
    BY DEF Here, PendingOp
  <2>3. QED
    BY <1>1, <1>2, <2>1, <2>2, FilesKept DEF Here
<1>3. CASE StatusOf(op, plan.answer) # "pending"
  <2>1. PICK status \in TerminalStates : box' = Transitioned(box, op, status)
    BY <1>3, StatusTyped DEF Adopted
  <2>2. box[op].status # "none"
    BY DEF PendingOp
  <2>3. QED
    BY <1>1, <1>3, <2>1, <2>2, TransitionKept
<1>4. QED
  BY <1>2, <1>3

LEMMA ReportAnsweredKeeps == ASSUME OutboxInv, ReportAnswered PROVE OutboxInv'
<1>1. command.op \in LocalOps /\ PendingOp(command.op)
  BY DEF ReportAnswered, Answering, OutboxInv, CommandSound, SendSteps
<1>2. FilesSound' /\ AtMostOne' /\ \A a \in Attempts : Worn(a, box'[a])
  BY <1>1, AdoptedKept DEF ReportAnswered
<1>3. QED
  BY <1>2, IdleSound, NoPlanTyped, LocalStep DEF ReportAnswered, Stop, OutboxInv, LocalsTyped


-----------------------------------------------------------------------------
(* diagnose *)

LEMMA CommandRun == ASSUME OutboxInv PROVE command.run \in DiagRuns \cup {NoRun} /\ plan \in Plans
  BY DEF OutboxInv, LocalsTyped, CommandStates

LEMMA StartDiagnoseKeeps == ASSUME OutboxInv, NEW run \in DiagRuns, StartDiagnose(run) PROVE OutboxInv'
<1>1. Wears(box')
  BY ReadableWears, PrunedWears DEF StartDiagnose
<1>2. "diagnose" \in AllCommands /\ "recover" \in StepNames
  BY DEF AllCommands, StepNames
<1>3. command' \in CommandStates /\ command'.name = "diagnose" /\ command'.step = "recover"
  BY <1>2, EnterTyped DEF StartDiagnose
<1>4. CommandSound'
  BY <1>3 DEF CommandSound, SendSteps
<1>5. QED
  BY <1>1, <1>3, <1>4, FilesKept, LocalStep DEF StartDiagnose, OutboxInv, LocalsTyped

LEMMA DrainCompletionKeeps == ASSUME OutboxInv, DrainCompletion PROVE OutboxInv'
<1> DEFINE step == IF command.step = "recover" THEN "drain" ELSE "drain_more"
<1>1. PICK op \in OldCompletions(command.run) : Enter("diagnose", step, op, command.run)
  BY DEF DrainCompletion
<1>2. op \in Ops /\ box[op].kind = "run.complete" /\ PendingOp(op)
  BY DEF OldCompletions, PendingOf, PendingOp
<1>3. op \in LocalOps
  BY <1>2, FileAt, Apart DEF FileSound
<1>4. step \in {"drain", "drain_more"} /\ step \in StepNames /\ "diagnose" \in AllCommands
  BY DEF StepNames, SendSteps, AllCommands
<1> HIDE DEF step
<1>5. command' \in CommandStates /\ command'.name = "diagnose" /\ command'.step = step /\ command'.op = op
  BY <1>1, <1>2, <1>4, CommandRun, EnterTyped
<1>6. UNCHANGED <<tail, box, applied, heard, leased, plan>>
  BY DEF DrainCompletion
<1>7. CommandSound'
  BY <1>2, <1>3, <1>4, <1>5, <1>6 DEF CommandSound, PendingOp
<1>8. Wears(box')
  BY <1>6, BoxWears
<1>9. QED
  BY <1>5, <1>6, <1>7, <1>8, FilesKept, LocalStep DEF OutboxInv, LocalsTyped

LEMMA EndRecoveredKeeps == ASSUME OutboxInv, EndRecovered PROVE OutboxInv'
<1>1. Wears(box')
  BY BoxWears DEF EndRecovered
<1>2. QED
  BY <1>1, WearsAndStops DEF EndRecovered, Stop, OutboxInv, LocalsTyped

\* a claim is taken up
LEMMA ClaimEnters ==
  ASSUME OutboxInv, NEW op \in LocalOps, Enter("diagnose", "claim", op, command.run), PendingOp(op)',
         box'[op].kind = "lease.claim", PendingOf("run.complete", box') = {}
  PROVE  command' \in CommandStates /\ command'.name # "cycle" /\ CommandSound'
<1>1. op \in Ops \cup {NoOp} /\ "diagnose" \in AllCommands /\ "claim" \in StepNames
  BY Apart DEF AllCommands, StepNames, SendSteps
<1>2. command' \in CommandStates /\ command'.name = "diagnose" /\ command'.step = "claim" /\ command'.op = op
  BY <1>1, CommandRun, EnterTyped
<1>3. QED
  BY <1>2 DEF CommandSound, SendSteps

LEMMA ResumeDiagnoseKeeps == ASSUME OutboxInv, ResumeDiagnose PROVE OutboxInv'
<1> DEFINE run == command.run
           files == Readable
           claims == PendingOf("lease.claim", files)
<1>1. Wears(files) /\ PendingOf("run.complete", box) = {} /\ UNCHANGED <<tail, applied, heard, plan>>
  BY ReadableWears DEF ResumeDiagnose, OldCompletions
<1>2. PendingOf("run.complete", files) = {}
  BY <1>1, PendingShrinks
<1>3. \/ Stop /\ box' = files /\ UNCHANGED leased
      \/ (\E op \in StoredClaims(run, files) : Enter("diagnose", "hold", op, run)) /\ box' = files /\ UNCHANGED leased
      \/ (\E op \in claims : Enter("diagnose", "claim", op, run)) /\ box' = files /\ UNCHANGED leased
      \/ claims = {} /\ \E op \in LocalOps : Draw(op, "lease.claim", run, files) /\ Enter("diagnose", "claim", op, run)
  BY DEF ResumeDiagnose
<1> HIDE DEF files
<1>4. ASSUME Stop, box' = files, UNCHANGED leased PROVE OutboxInv'
  BY <1>1, <1>4, WearsAndStops DEF Stop, OutboxInv, LocalsTyped
<1>5. ASSUME NEW op \in StoredClaims(run, files), Enter("diagnose", "hold", op, run), box' = files, UNCHANGED leased
      PROVE  OutboxInv'
  <2>1. op \in Ops \cup {NoOp} /\ "diagnose" \in AllCommands /\ "hold" \in StepNames
    BY Apart DEF AllCommands, StepNames, StoredClaims, OutboxInv, LocalsTyped
  <2>2. command' \in CommandStates /\ command'.name = "diagnose" /\ command'.step = "hold"
    BY <1>5, <2>1, CommandRun, EnterTyped
  <2>3. CommandSound'
    BY <1>2, <1>5, <2>2 DEF CommandSound, SendSteps
  <2>4. QED
    BY <1>1, <1>5, <2>2, <2>3, FilesKept, LocalStep DEF OutboxInv, LocalsTyped
<1>6. ASSUME NEW op \in claims, Enter("diagnose", "claim", op, run), box' = files, UNCHANGED leased
      PROVE  OutboxInv'
  <2>1. op \in Ops /\ files[op].kind = "lease.claim" /\ files[op].status = "pending"
    BY DEF PendingOf
  <2>2. op \in LocalOps /\ PendingOp(op)'
    BY <1>1, <1>6, <2>1, WornSays, FileAt, Apart DEF FileSound, PendingOp
  <2>3. command' \in CommandStates /\ command'.name # "cycle" /\ CommandSound'
    BY <1>2, <1>6, <2>1, <2>2, ClaimEnters
  <2>4. QED
    BY <1>1, <1>6, <2>3, FilesKept, LocalStep DEF OutboxInv, LocalsTyped
<1>7. ASSUME claims = {}, NEW op \in LocalOps, Draw(op, "lease.claim", run, files), Enter("diagnose", "claim", op, run)
      PROVE  OutboxInv'
  <2>1. "lease.claim" \in OneShot /\ "run.complete" \in OneShot \ {"lease.claim"} /\ run \in DiagRuns \cup {NoRun}
    BY CommandRun DEF OneShot, Kinds
  <2>2. /\ FilesSound' /\ AtMostOne' /\ (\A a \in Attempts : Worn(a, box'[a])) /\ leased' \subseteq LocalOps
        /\ op \in Ops /\ PendingOp(op)' /\ box'[op].kind = "lease.claim"
        /\ PendingOf("run.complete", box') \subseteq PendingOf("run.complete", files)
    BY <1>1, <1>7, <2>1, WearsFollows, DrawKept
  <2>3. command' \in CommandStates /\ command'.name # "cycle" /\ CommandSound'
    BY <1>2, <1>7, <2>2, ClaimEnters
  <2>4. QED
    BY <1>1, <2>2, <2>3, LocalStep DEF OutboxInv, LocalsTyped
<1>8. QED
  BY <1>3, <1>4, <1>5, <1>6, <1>7

LEMMA ClaimAnsweredKeeps == ASSUME OutboxInv, ClaimAnswered PROVE OutboxInv'
<1>1. PICK op \in LocalOps : op = command.op
  BY DEF ClaimAnswered, Answering, OutboxInv, CommandSound, SendSteps
<1>2. /\ PendingOp(op) /\ box[op].kind = "lease.claim" /\ PendingOf("run.complete", box) = {}
      /\ op \in Ops /\ Adopted(op)
  BY <1>1, Apart DEF ClaimAnswered, Answering, OutboxInv, CommandSound, SendSteps
<1>0. /\ FilesSound' /\ AtMostOne' /\ (\A a \in Attempts : Worn(a, box'[a]))
      /\ Here(op)' /\ \A k : PendingOf(k, box') \subseteq PendingOf(k, box)
      /\ StatusOf(op, plan.answer) # "pending" => \A k : PendingOf(k, box') = PendingOf(k, box) \ {op}
  BY <1>2, AdoptedKept
<1>3. CASE plan.answer # "ok"
  BY <1>0, <1>3, IdleSound, NoPlanTyped, LocalStep DEF ClaimAnswered, Stop, OutboxInv, LocalsTyped
<1>4. CASE plan.answer = "ok"
  <2> DEFINE step == IF op \in leased THEN "hold" ELSE "expired"
  <2>1. StatusOf(op, plan.answer) = "acked"
    BY <1>1, <1>2, <1>4 DEF StatusOf, LegacyStatus, DeclarationStatus
  <2>2. "lease.claim" \in OneShot /\ op \in PendingOf("lease.claim", box)
    BY <1>1, <1>2 DEF OneShot, Kinds, PendingOf, PendingOp
  <2>3. PendingOf("lease.claim", box') = {} /\ PendingOf("run.complete", box') = {}
    BY <1>1, <1>2, <1>0, <2>1, <2>2 DEF OutboxInv, AtMostOne
  <2>4. Enter("diagnose", step, op, command.run)
    BY <1>1, <1>4 DEF ClaimAnswered
  <2>5. step \in {"hold", "expired"} /\ step \in StepNames /\ "diagnose" \in AllCommands
    BY DEF StepNames, AllCommands
  <2> HIDE DEF step
  <2>6. command' \in CommandStates /\ command'.name = "diagnose" /\ command'.step = step /\ command'.op = op
    BY <1>1, <1>2, <2>4, <2>5, CommandRun, EnterTyped
  <2>7. CommandSound'
    BY <1>1, <1>2, <1>0, <2>3, <2>5, <2>6 DEF CommandSound, SendSteps, Here
  <2>8. QED
    BY <1>0, <2>6, <2>7, NoPlanTyped, LocalStep DEF ClaimAnswered, OutboxInv, LocalsTyped
<1>5. QED
  BY <1>3, <1>4

LEMMA SupersedeClaimKeeps == ASSUME OutboxInv, SupersedeClaim PROVE OutboxInv'
<1>1. /\ command.op \in LocalOps /\ Here(command.op) /\ PendingOf("lease.claim", box) = {}
      /\ PendingOf("run.complete", box) = {}
  BY DEF SupersedeClaim, Step, OutboxInv, CommandSound
<1> DEFINE files == Transitioned(box, command.op, "superseded")
<1>2. Follows(files) /\ \A k : PendingOf(k, files) = PendingOf(k, box) \ {command.op}
  BY <1>1, BoxWears, TransitionFollows DEF TerminalStates, Here
<1>3. PICK op \in LocalOps : Draw(op, "lease.claim", command.run, files) /\ Enter("diagnose", "claim", op, command.run)
  BY DEF SupersedeClaim
<1> HIDE DEF files
<1>4. "lease.claim" \in OneShot /\ "run.complete" \in OneShot \ {"lease.claim"} /\ command.run \in DiagRuns \cup {NoRun}
  BY CommandRun DEF OneShot, Kinds
<1>5. PendingOf("lease.claim", files) = {} /\ PendingOf("run.complete", files) = {}
  BY <1>1, <1>2
<1>6. /\ FilesSound' /\ AtMostOne' /\ (\A a \in Attempts : Worn(a, box'[a])) /\ leased' \subseteq LocalOps
      /\ op \in Ops /\ PendingOp(op)' /\ box'[op].kind = "lease.claim"
      /\ PendingOf("run.complete", box') \subseteq PendingOf("run.complete", files)
  BY <1>2, <1>3, <1>4, <1>5, DrawKept
<1>7. command' \in CommandStates /\ command'.name # "cycle" /\ CommandSound'
  BY <1>3, <1>5, <1>6, ClaimEnters
<1>8. QED
  BY <1>6, <1>7, LocalStep DEF SupersedeClaim, OutboxInv, LocalsTyped

LEMMA HoldLeaseKeeps == ASSUME OutboxInv, HoldLease PROVE OutboxInv'
<1>1. PendingOf("run.complete", box) = {} /\ UNCHANGED <<tail, applied, heard, plan>>
  BY DEF HoldLease, Step, OutboxInv, CommandSound
<1>2. CASE Stop /\ UNCHANGED <<box, leased>>
  <2>1. Wears(box')
    BY <1>2, BoxWears
  <2>2. QED
    BY <1>1, <1>2, <2>1, WearsAndStops DEF Stop, OutboxInv, LocalsTyped
<1>3. ASSUME NEW op \in LocalOps, Draw(op, "run.complete", command.run, box),
             Enter("diagnose", "complete", op, command.run)
      PROVE  OutboxInv'
  <2>1. "run.complete" \in OneShot /\ command.run \in DiagRuns \cup {NoRun}
    BY CommandRun DEF OneShot, Kinds
  <2>2. /\ FilesSound' /\ AtMostOne' /\ (\A a \in Attempts : Worn(a, box'[a])) /\ leased' \subseteq LocalOps
        /\ op \in Ops /\ PendingOp(op)'
    BY <1>1, <1>3, <2>1, BoxWears, WearsFollows, DrawKept
  <2>3. "diagnose" \in AllCommands /\ "complete" \in StepNames
    BY DEF AllCommands, StepNames, SendSteps
  <2>4. command' \in CommandStates /\ command'.name = "diagnose" /\ command'.step = "complete" /\ command'.op = op
    BY <1>3, <2>1, <2>2, <2>3, EnterTyped
  <2>5. CommandSound'
    BY <1>3, <2>2, <2>4 DEF CommandSound, SendSteps
  <2>6. QED
    BY <1>1, <2>2, <2>4, <2>5, LocalStep DEF OutboxInv, LocalsTyped
<1>4. QED
  BY <1>2, <1>3 DEF HoldLease

LEMMA CompletionAnsweredKeeps == ASSUME OutboxInv, CompletionAnswered PROVE OutboxInv'
<1> DEFINE op == command.op
           step == IF box[op].run = command.run \/ command.step = "drain_more" THEN "recovered" ELSE "recover"
<1>1. op \in LocalOps /\ PendingOp(op) /\ op \in Ops /\ command.step \in {"drain", "drain_more", "complete"}
  BY Apart DEF CompletionAnswered, Answering, OutboxInv, CommandSound, SendSteps
<1>2. /\ FilesSound' /\ AtMostOne' /\ (\A a \in Attempts : Worn(a, box'[a]))
      /\ StatusOf(op, plan.answer) = "pending" => box' = box
  BY <1>1, AdoptedKept DEF CompletionAnswered
<1>3. \/ plan.answer \in {"retry", "protocol"} /\ command' = [command EXCEPT !.flag = FALSE]
      \/ Stop
      \/ Enter("diagnose", step, NoOp, command.run)
  BY DEF CompletionAnswered
<1>4. UNCHANGED <<tail, applied, heard, leased>> /\ plan' = NoPlan /\ leased' \subseteq LocalOps
  BY DEF CompletionAnswered, OutboxInv, LocalsTyped
<1>5. CASE plan.answer \in {"retry", "protocol"} /\ command' = [command EXCEPT !.flag = FALSE]
  <2>1. StatusOf(op, plan.answer) = "pending"
    BY <1>5 DEF StatusOf, LegacyStatus, DeclarationStatus
  <2>2. box' = box
    BY <1>2, <2>1
  <2>3. command \in CommandStates /\ command.name # "cycle"
    BY <1>1 DEF OutboxInv, LocalsTyped, CycleSound, CycleSteps
  <2>4. /\ command' \in CommandStates /\ command'.name = command.name /\ command'.step = command.step
        /\ command'.op = command.op
    BY <1>5, <2>3 DEF CommandStates
  <2>5. CommandSound'
    BY <2>2, <2>4, CommandStays
  <2>6. QED
    BY <1>2, <1>4, <2>3, <2>4, <2>5, NoPlanTyped, LocalStep
<1>6. CASE Stop
  BY <1>2, <1>4, <1>6, IdleSound, NoPlanTyped, LocalStep DEF Stop
<1>7. CASE Enter("diagnose", step, NoOp, command.run)
  <2>1. step \in {"recover", "recovered"} /\ step \in StepNames /\ "diagnose" \in AllCommands
    BY DEF StepNames, AllCommands
  <2> HIDE DEF step
  <2>2. command' \in CommandStates /\ command'.name = "diagnose" /\ command'.step = step
    BY <1>7, <2>1, CommandRun, EnterTyped
  <2>3. CommandSound'
    BY <2>1, <2>2 DEF CommandSound, SendSteps
  <2>4. QED
    BY <1>2, <1>4, <2>2, <2>3, NoPlanTyped, LocalStep
<1>8. QED
  BY <1>3, <1>5, <1>6, <1>7


-----------------------------------------------------------------------------
(* What happens to files, attempts and leases *)

LEMMA SmallerTyped == \A x, y \in Nat : \A z \in 0..y : Smaller(z + 1, y) \in 0..y
  BY DEF Smaller

\* a step beside the commands
LEMMA BesideStep ==
  ASSUME OutboxInv, UNCHANGED <<applied, heard, command, plan>>, tail' \in [Attempts -> Tails],
         \A a \in Attempts : TailMoves(a), leased' \subseteq LocalOps, Wears(box'),
         \A op \in Ops : box'[op].kind = box[op].kind /\ box'[op].status = box[op].status
  PROVE  OutboxInv'
<1>1. FilesSound' /\ AtMostOne' /\ \A a \in Attempts : Worn(a, box'[a])
  BY FilesKept
<1>2. AnswersSound' /\ \A a \in Attempts : tail[a].stage \notin {"open", "result"} => tail'[a].stage \notin {"open", "result"}
  BY <1>1, AnswersKept, AnswerKept
<1>3. CommandSound'
  BY CommandStays
<1>4. CycleSound'
  <2>1. plan.deliver \subseteq Attempts
    BY DEF OutboxInv, LocalsTyped, Plans
  <2>2. \A a \in Attempts : TerminalOp(a)' <=> TerminalOp(a)
    BY Apart DEF TerminalOp
  <2>3. QED
    BY <1>2, <2>1, <2>2 DEF CycleSound, OutboxInv
<1>5. LocalsTyped'
  BY DEF OutboxInv, LocalsTyped
<1>6. QED
  BY <1>1, <1>2, <1>3, <1>4, <1>5 DEF OutboxInv

LEMMA JournalResultKeeps == ASSUME OutboxInv, NEW a \in Attempts, JournalResult(a) PROVE OutboxInv'
<1>1. tail[a] \in Tails /\ tail[a].stage = "open" /\ tail \in [Attempts -> Tails]
  BY AttemptAt DEF JournalResult, OutboxInv, AnswersSound
<1> DEFINE new == [tail[a] EXCEPT !.stage = "result"]
<1>2. new \in Tails /\ new.stage = "result"
  BY <1>1, TailsTyped
<1>3. tail' = [tail EXCEPT ![a] = new]
  BY DEF JournalResult
<1> HIDE DEF new
<1>4. tail' \in [Attempts -> Tails] /\ \A b \in Attempts : TailMoves(b)
  BY <1>1, <1>2, <1>3 DEF TailMoves
<1>5. UNCHANGED <<box, applied, heard, leased, command, plan>>
  BY DEF JournalResult
<1>6. Wears(box')
  BY <1>5, BoxWears
<1>7. QED
  BY <1>4, <1>5, <1>6, BesideStep DEF OutboxInv, LocalsTyped

LEMMA SpoilKeeps == ASSUME OutboxInv, NEW op \in Ops, Spoil(op) PROVE OutboxInv'
<1> DEFINE new == [box[op] EXCEPT !.bad = TRUE]
<1>1. box[op] \in Files /\ op \in Corruptible /\ box' = [box EXCEPT ![op] = new] /\ box \in [Ops -> Files \cup {NoEntry}]
  BY FileAt DEF Spoil, OutboxInv, FilesSound
<1>2. new \in Files /\ new.kind = box[op].kind /\ new.status = box[op].status
  BY <1>1 DEF Files
<1> HIDE DEF new
<1>3. box' \in [Ops -> Files \cup {NoEntry}] /\ box'[op] = new /\ \A x \in Ops \ {op} : box'[x] = box[x]
  BY <1>1, <1>2
<1>4. Wears(box') /\ \A x \in Ops : box'[x].kind = box[x].kind /\ box'[x].status = box[x].status
  BY <1>1, <1>2, <1>3, FileAt DEF Wears, Worn, FileSound
<1>5. tail' \in [Attempts -> Tails] /\ \A a \in Attempts : TailMoves(a)
  BY DEF Spoil, OutboxInv, AnswersSound, TailMoves
<1>6. QED
  BY <1>4, <1>5, BesideStep DEF Spoil, OutboxInv, LocalsTyped

LEMMA LeaseEndsKeeps == ASSUME OutboxInv, NEW op \in Ops, LeaseEnds(op) PROVE OutboxInv'
<1>1. UNCHANGED <<tail, box, applied, heard, command, plan>> /\ leased' \subseteq LocalOps
  BY DEF LeaseEnds, OutboxInv, LocalsTyped
<1>2. Wears(box') /\ tail' \in [Attempts -> Tails] /\ \A a \in Attempts : TailMoves(a)
  BY <1>1, BoxWears DEF OutboxInv, AnswersSound, TailMoves
<1>3. QED
  BY <1>1, <1>2, BesideStep

LEMMA DayKeeps == ASSUME OutboxInv, Day PROVE OutboxInv'
<1>1. /\ \A op \in Ops : box'[op] = IF Here(op) THEN [box[op] EXCEPT !.age = Older(box[op].age, OutboxDays)] ELSE box[op]
      /\ \A a \in Attempts : tail'[a] = IF tail[a].stage = "settled"
           THEN [tail[a] EXCEPT !.age = Older(tail[a].age, JournalDays)] ELSE tail[a]
      /\ leased' = {} /\ UNCHANGED <<applied, heard, command, plan>>
      /\ box' = [op \in Ops |-> box'[op]] /\ tail' = [a \in Attempts |-> tail'[a]]
  BY DEF Day
<1>2. ASSUME NEW op \in Ops
      PROVE  /\ box'[op] \in Files \cup {NoEntry} /\ box'[op].kind = box[op].kind /\ box'[op].status = box[op].status
             /\ box'[op].bad => op \in Corruptible
  <2>1. CASE ~Here(op)
    BY <1>1, <2>1, FileAt DEF FileSound
  <2>2. CASE Here(op)
    <3> DEFINE age == Older(box[op].age, OutboxDays)
    <3>1. box[op] \in Files /\ (box[op].bad => op \in Corruptible)
      BY <2>2, FileAt DEF FileSound
    <3>2. box[op].age \in 0..OutboxDays /\ OutboxDays \in Nat
      BY <3>1, OutboxAssumption DEF Files
    <3>3. age \in 0..OutboxDays
      BY <3>2, SmallerTyped DEF Older
    <3> HIDE DEF age
    <3>4. box'[op] = [box[op] EXCEPT !.age = age]
      BY <1>1, <2>2 DEF age
    <3>5. QED
      BY <3>1, <3>3, <3>4 DEF Files
  <2>3. QED
    BY <2>1, <2>2
<1>3. ASSUME NEW a \in Attempts PROVE tail'[a] \in Tails /\ TailMoves(a)
  <2>1. CASE tail[a].stage # "settled"
    BY <1>1, <2>1, AttemptAt DEF TailMoves
  <2>2. CASE tail[a].stage = "settled"
    <3> DEFINE age == Older(tail[a].age, JournalDays)
    <3>1. /\ tail[a] \in [stage : {"settled", "gone"}, outcome : TerminalStates, age : 0..JournalDays]
          /\ JournalDays \in Nat
      BY <2>2, AttemptAt, OutboxAssumption DEF Tails
    <3>2. tail[a].age \in 0..JournalDays
      BY <3>1
    <3>3. age \in 0..JournalDays
      BY <3>1, <3>2, SmallerTyped DEF Older
    <3> HIDE DEF age
    <3>4. tail'[a] = [tail[a] EXCEPT !.age = age]
      BY <1>1, <2>2 DEF age
    <3>5. tail'[a] \in Tails /\ tail'[a].stage = "settled" /\ tail'[a].outcome = tail[a].outcome
      BY <2>2, <3>1, <3>3, <3>4 DEF Tails
    <3>6. QED
      BY <2>2, <3>5 DEF TailMoves
  <2>3. QED
    BY <2>1, <2>2
<1>4. box' \in [Ops -> Files \cup {NoEntry}] /\ tail' \in [Attempts -> Tails]
  BY <1>1, <1>2, <1>3
<1>5. Wears(box')
  BY <1>2, <1>4 DEF Wears, Worn
<1>6. leased' \subseteq LocalOps
  BY <1>1
<1>7. QED
  BY <1>1, <1>2, <1>3, <1>4, <1>5, <1>6, BesideStep

-----------------------------------------------------------------------------
(* The recovery cycle *)

\* a step of the cycle, after which no one-shot command is under way
LEMMA CycleKeeps ==
  ASSUME OutboxInv, FilesSound', AtMostOne', AnswersSound', CycleSound', command' \in CommandStates,
         command'.step \in CycleSteps \cup {"none"}, plan' \in Plans, UNCHANGED leased,
         applied' \subseteq Attempts, heard' \subseteq Attempts
  PROVE  OutboxInv'
<1>1. CommandSound'
  BY DEF CommandSound, SendSteps, CycleSteps
<1>2. QED
  BY <1>1 DEF OutboxInv, LocalsTyped

LEMMA CycleStates ==
  ASSUME OutboxInv, command.name = "cycle"
  PROVE  /\ command \in CommandStates /\ command.step \in CycleSteps /\ plan \in Plans
         /\ plan.deliver \subseteq Attempts /\ plan.intents \subseteq plan.deliver
         /\ plan.intents \cap heard = {}
         /\ \A a \in plan.deliver : tail[a].stage \notin {"open", "result"}
  BY DEF OutboxInv, LocalsTyped, CycleSound, Plans

LEMMA StartCycleKeeps == ASSUME OutboxInv, StartCycle PROVE OutboxInv'
<1>1. PICK selected \in SUBSET Attempts :
        plan' = [NoPlan EXCEPT
          !.todo = {a \in selected : tail[a].stage # "open"},
          !.initial = {a \in Attempts : Readable[a].status # "none"},
          !.corrupt = UnreadableOps,
          !.whole = (selected = Unsettled)]
  BY DEF StartCycle
<1>2. /\ tail' = [a \in Attempts |-> IF tail[a].stage = "settled" /\ tail[a].age = JournalDays
                                     THEN [tail[a] EXCEPT !.stage = "gone"] ELSE tail[a]]
      /\ box' = Readable /\ UNCHANGED <<applied, heard, leased>>
      /\ command' = [Idle EXCEPT !.name = "cycle", !.step = "reconcile"]
  BY DEF StartCycle
<1>3. PICK todo \in SUBSET Attempts, initial \in SUBSET Attempts, corrupt \in SUBSET Ops, whole \in BOOLEAN :
        plan' = [NoPlan EXCEPT !.todo = todo, !.initial = initial, !.corrupt = corrupt, !.whole = whole]
  BY <1>1 DEF UnreadableOps
<1>4. plan' \in Plans /\ plan'.intents = {} /\ plan'.deliver = {}
  BY <1>3 DEF NoPlan, Plans
<1>5. command' \in CommandStates /\ command'.name = "cycle" /\ command'.step = "reconcile"
  BY <1>2 DEF Idle, CommandStates, AllCommands
<1>6. ASSUME NEW a \in Attempts PROVE tail'[a] \in Tails /\ TailMoves(a)
  BY <1>2, AttemptAt, TailsTyped DEF TailMoves
<1>7. FilesSound' /\ AtMostOne' /\ \A a \in Attempts : Worn(a, box'[a])
  BY <1>2, ReadableWears, FilesKept
<1>8. tail' \in [Attempts -> Tails]
  BY <1>2, <1>6
<1>9. AnswersSound'
  BY <1>2, <1>6, <1>7, <1>8, AnswersKept
<1>10. CycleSound'
  BY <1>4, <1>5 DEF CycleSound, CycleSteps
<1>11. QED
  BY <1>2, <1>4, <1>5, <1>7, <1>9, <1>10, CycleKeeps DEF CycleSteps, OutboxInv, LocalsTyped

\* a step that takes an attempt off the list of what is to be reconciled
LEMMA PlanMoves ==
  ASSUME OutboxInv, command.name = "cycle", command.step = "reconcile", UNCHANGED <<command, heard>>,
         NEW a \in Attempts, tail'[a].stage \notin {"open", "result"} \/ plan' = plan \/ Done(a),
         plan' = plan \/ Done(a) \/ Deliverable(a),
         \A b \in Attempts : tail[b].stage \notin {"open", "result"} => tail'[b].stage \notin {"open", "result"}
  PROVE  CycleSound' /\ plan' \in Plans
<1>1. /\ plan \in Plans /\ plan.deliver \subseteq Attempts /\ plan.intents \subseteq plan.deliver
      /\ plan.intents \cap heard = {} /\ \A b \in plan.deliver : tail[b].stage \notin {"open", "result"}
  BY CycleStates
<1>2. CASE plan' = plan
  BY <1>1, <1>2 DEF CycleSound, CycleSteps
<1>3. CASE Done(a)
  <2>1. plan' \in Plans /\ plan'.intents = plan.intents /\ plan'.deliver = plan.deliver
    BY <1>1, <1>3 DEF Done, Plans
  <2>2. QED
    BY <1>1, <2>1 DEF CycleSound, CycleSteps
<1>4. CASE Deliverable(a) /\ tail'[a].stage \notin {"open", "result"}
  <2>1. plan' \in Plans /\ plan'.intents = plan.intents /\ plan'.deliver = plan.deliver \cup {a}
    BY <1>1, <1>4 DEF Deliverable, Plans
  <2>2. QED
    BY <1>1, <1>4, <2>1 DEF CycleSound, CycleSteps
<1>5. QED
  BY <1>2, <1>3, <1>4

LEMMA WriteCompletionKeeps == ASSUME OutboxInv, NEW a \in Attempts, WriteCompletion(a) PROVE OutboxInv'
<1> DEFINE file == PendingFile("engine.complete", NoRun)
<1>1. file \in Files /\ file.kind = "engine.complete" /\ file.status = "pending" /\ file.bad = FALSE
  BY OutboxAssumption DEF PendingFile, Files, Kinds
<1>2. /\ box' = [box EXCEPT ![a] = file] /\ UNCHANGED <<tail, applied, heard, leased, command, plan>>
      /\ command.name = "cycle" /\ command.step = "reconcile" /\ tail[a].stage = "result" /\ a \in Ops
      /\ box \in [Ops -> Files \cup {NoEntry}]
  BY Apart DEF WriteCompletion, Reconciling, Bridges, OutboxInv, FilesSound
<1> HIDE DEF file
<1>3. box' \in [Ops -> Files \cup {NoEntry}] /\ box'[a] = file /\ \A op \in Ops \ {a} : box'[op] = box[op]
  BY <1>1, <1>2
<1>4. \A op \in Ops : FileSound(op)'
  <2>1. FileSound(a)'
    BY <1>1, <1>2, <1>3 DEF FileSound
  <2>2. ASSUME NEW op \in Ops \ {a} PROVE FileSound(op)'
    BY <1>3, FileAt DEF FileSound, Here
  <2>3. QED
    BY <2>1, <2>2
<1>5. \A kind \in OneShot : PendingOf(kind, box') \subseteq PendingOf(kind, box)
  BY <1>1, <1>3 DEF PendingOf, OneShot
<1>6. AtMostOne'
  BY <1>5, FewerPending
<1>7. AnswerSound(a)'
  <2>1. a \notin heard /\ tail'[a].stage = "result"
    BY <1>2, AttemptAt DEF AnswerSound
  <2>2. PendingOp(a)' /\ ~TerminalOp(a)'
    BY <1>1, <1>3, NoEntryIs DEF PendingOp, TerminalOp
  <2>3. QED
    BY <1>2, <2>1, <2>2 DEF AnswerSound
<1>8. ASSUME NEW b \in Attempts, b # a PROVE AnswerSound(b)'
  <2>1. Worn(b, box'[b]) /\ TailMoves(b)
    BY <1>2, <1>3, <1>8, Apart DEF Worn, TailMoves
  <2>2. QED
    BY <1>2, <2>1, AnswerKept
<1>9. AnswersSound'
  BY <1>2, <1>7, <1>8 DEF AnswersSound, OutboxInv
<1>10. CycleSound' /\ plan' \in Plans
  BY <1>2, PlanMoves
<1>11. QED
  BY <1>2, <1>3, <1>4, <1>6, <1>9, <1>10, CycleKeeps DEF FilesSound, CycleSteps, OutboxInv, LocalsTyped

\* what the cycle does with one attempt, the outbox left alone
LEMMA ReconcileStep ==
  ASSUME OutboxInv, NEW a \in Attempts, Reconciling(a), UNCHANGED <<box, applied, heard, leased, command>>,
         tail' \in [Attempts -> Tails], \A b \in Attempts : TailMoves(b),
         tail'[a].stage \notin {"open", "result"} \/ plan' = plan \/ Done(a),
         plan' = plan \/ Done(a) \/ Deliverable(a)
  PROVE  OutboxInv'
<1>1. FilesSound' /\ AtMostOne' /\ \A b \in Attempts : Worn(b, box'[b])
  BY BoxWears, FilesKept
<1>2. AnswersSound' /\ \A b \in Attempts : tail[b].stage \notin {"open", "result"} => tail'[b].stage \notin {"open", "result"}
  BY <1>1, AnswersKept, AnswerKept
<1>3. CycleSound' /\ plan' \in Plans
  BY <1>2, PlanMoves DEF Reconciling
<1>4. QED
  BY <1>1, <1>2, <1>3, CycleKeeps DEF Reconciling, CycleSteps, OutboxInv, LocalsTyped

LEMMA RecordOutboxedKeeps == ASSUME OutboxInv, NEW a \in Attempts, RecordOutboxed(a) PROVE OutboxInv'
<1> DEFINE new == [tail[a] EXCEPT !.stage = "outboxed"]
<1>1. new \in Tails /\ new.stage = "outboxed" /\ tail \in [Attempts -> Tails]
  BY AttemptAt, TailsTyped DEF RecordOutboxed, OutboxInv, AnswersSound
<1>2. /\ tail' = [tail EXCEPT ![a] = new] /\ tail[a].stage = "result" /\ Here(a)
      /\ plan' = plan \/ Deliverable(a)
  BY DEF RecordOutboxed
<1> HIDE DEF new
<1>3. tail' \in [Attempts -> Tails] /\ (\A b \in Attempts : TailMoves(b)) /\ tail'[a].stage = "outboxed"
  BY <1>1, <1>2 DEF TailMoves
<1>4. QED
  BY <1>2, <1>3, ReconcileStep DEF RecordOutboxed

\* an attempt is settled as the tombstone of its operation says
LEMMA SettleMoves ==
  ASSUME OutboxInv, NEW a \in Attempts, TerminalOp(a), Settle(a)
  PROVE  tail' \in [Attempts -> Tails] /\ (\A b \in Attempts : TailMoves(b)) /\ tail'[a].stage = "settled"
<1> DEFINE new == [stage |-> "settled", outcome |-> box[a].status, age |-> 0]
<1>1. new \in Tails /\ new.stage = "settled" /\ new.outcome = box[a].status /\ tail \in [Attempts -> Tails]
  BY TailsTyped DEF TerminalOp, OutboxInv, AnswersSound
<1>2. tail' = [tail EXCEPT ![a] = new]
  BY DEF Settle
<1> HIDE DEF new
<1>3. QED
  BY <1>1, <1>2 DEF TailMoves

LEMMA ReconcileKeeps == ASSUME OutboxInv, NEW a \in Attempts, Reconcile(a) PROVE OutboxInv'
<1>1. Reconciling(a) /\ tail[a].stage = "outboxed" /\ UNCHANGED <<box, applied, heard, leased, command>>
  BY DEF Reconcile
<1>2. CASE TerminalOp(a)
  <2>1. tail' \in [Attempts -> Tails] /\ (\A b \in Attempts : TailMoves(b)) /\ tail'[a].stage = "settled"
    BY <1>2, SettleMoves DEF Reconcile
  <2>2. QED
    BY <1>1, <1>2, <2>1, ReconcileStep DEF Reconcile
<1>3. CASE ~TerminalOp(a)
  <2>1. tail' = tail /\ Deliverable(a)
    BY <1>3 DEF Reconcile
  <2>2. tail' \in [Attempts -> Tails] /\ \A b \in Attempts : TailMoves(b)
    BY <2>1 DEF TailMoves, OutboxInv, AnswersSound
  <2>3. QED
    BY <1>1, <2>1, <2>2, ReconcileStep
<1>4. QED
  BY <1>2, <1>3

LEMMA AttentionKeeps == ASSUME OutboxInv, NEW a \in Attempts, Attention(a) PROVE OutboxInv'
<1>1. tail' \in [Attempts -> Tails] /\ \A b \in Attempts : TailMoves(b)
  BY DEF Attention, TailMoves, OutboxInv, AnswersSound
<1>2. QED
  BY <1>1, ReconcileStep DEF Attention

\* the attempts whose tombstone the outbox holds are settled
LEMMA CorrelatedMoves ==
  ASSUME OutboxInv, NEW files, Wears(files), tail' = Correlated(files)
  PROVE  tail' \in [Attempts -> Tails] /\ \A a \in Attempts : TailMoves(a)
<1>1. ASSUME NEW a \in Attempts PROVE tail'[a] \in Tails /\ TailMoves(a)
  <2>1. CASE a \in plan.deliver /\ tail[a].stage = "outboxed" /\ files[a].status \in TerminalStates
    <3>1. TerminalOp(a) /\ files[a].status = box[a].status
      BY <2>1, WornSays, Apart
    <3>2. tail'[a] = [stage |-> "settled", outcome |-> box[a].status, age |-> 0]
      BY <2>1, <3>1 DEF Correlated
    <3>3. QED
      BY <3>1, <3>2, TailsTyped DEF TailMoves, TerminalOp
  <2>2. CASE ~(a \in plan.deliver /\ tail[a].stage = "outboxed" /\ files[a].status \in TerminalStates)
    BY <2>2, AttemptAt DEF Correlated, TailMoves
  <2>3. QED
    BY <2>1, <2>2
<1>2. QED
  BY <1>1 DEF Correlated

LEMMA CorrelateKeeps == ASSUME OutboxInv, Correlate PROVE OutboxInv'
<1>1. /\ box' = Readable /\ tail' = Correlated(Readable) /\ UNCHANGED <<applied, heard, leased>>
      /\ command' = [command EXCEPT !.step = "send"] /\ command.name = "cycle"
  BY DEF Correlate
<1>2. PICK intents \in SUBSET StillPending(Readable) :
        plan' = [plan EXCEPT !.intents = intents, !.deliver = StillPending(Readable), !.corrupt = {}, !.initial = {}]
  BY DEF Correlate
<1>3. /\ command \in CommandStates /\ plan \in Plans /\ plan.deliver \subseteq Attempts
      /\ \A a \in plan.deliver : tail[a].stage \notin {"open", "result"}
  BY <1>1, CycleStates
<1>4. Wears(Readable)
  BY ReadableWears
<1>5. FilesSound' /\ AtMostOne' /\ \A a \in Attempts : Worn(a, box'[a])
  BY <1>1, <1>4, FilesKept
<1>6. tail' \in [Attempts -> Tails] /\ \A a \in Attempts : TailMoves(a)
  BY <1>1, <1>4, CorrelatedMoves
<1>7. AnswersSound' /\ \A a \in Attempts : tail[a].stage \notin {"open", "result"} => tail'[a].stage \notin {"open", "result"}
  BY <1>1, <1>5, <1>6, AnswersKept, AnswerKept
<1>8. StillPending(Readable) \subseteq plan.deliver /\ \A a \in StillPending(Readable) : a \notin heard
  <2>1. \A a \in Attempts : Readable[a].status = "pending" => a \notin heard
    BY <1>4, WornSays, Apart, AttemptAt DEF AnswerSound
  <2>2. QED
    BY <1>3, <2>1 DEF StillPending
<1>9. plan' \in Plans /\ plan'.intents = intents /\ plan'.deliver = StillPending(Readable)
  BY <1>2, <1>3, <1>8 DEF Plans
<1>10. command' \in CommandStates /\ command'.name = "cycle" /\ command'.step = "send"
  BY <1>1, <1>3 DEF CommandStates
<1>11. CycleSound'
  BY <1>1, <1>2, <1>3, <1>7, <1>8, <1>9, <1>10 DEF CycleSound, CycleSteps
<1>12. QED
  BY <1>1, <1>5, <1>7, <1>9, <1>10, <1>11, CycleKeeps DEF CycleSteps, OutboxInv, LocalsTyped

LEMMA SendCompletionKeeps == ASSUME OutboxInv, NEW a \in Attempts, SendCompletion(a) PROVE OutboxInv'
<1>1. PICK answer \in Answers : Answered(a, answer) /\ plan' = [plan EXCEPT !.intents = @ \ {a}, !.answer = answer]
  BY DEF SendCompletion
<1>2. /\ command.name = "cycle" /\ a \in plan.intents /\ UNCHANGED <<tail, box, heard, leased>>
      /\ command' = [command EXCEPT !.step = "adopt", !.op = a]
  BY DEF SendCompletion
<1>3. /\ command \in CommandStates /\ plan \in Plans /\ plan.deliver \subseteq Attempts
      /\ plan.intents \subseteq plan.deliver /\ plan.intents \cap heard = {}
      /\ \A b \in plan.deliver : tail[b].stage \notin {"open", "result"}
  BY <1>2, CycleStates
<1>4. a \notin heard /\ a \in plan.deliver /\ a \in Ops
  BY <1>2, <1>3, Apart
<1>5. plan' \in Plans /\ plan'.intents = plan.intents \ {a} /\ plan'.deliver = plan.deliver /\ plan'.answer = answer
  BY <1>1, <1>3 DEF Plans
<1>6. /\ command' \in CommandStates /\ command'.name = "cycle" /\ command'.step = "adopt"
      /\ command'.op = a
  BY <1>2, <1>3, <1>4 DEF CommandStates
<1>7. /\ applied' \subseteq Attempts /\ (\A b \in Attempts \ {a} : b \in applied' <=> b \in applied)
      /\ answer = "ok" => a \in applied'
      /\ answer = "superseded" => a \notin applied'
  BY <1>1 DEF Answered, OutboxInv, LocalsTyped
<1>8. FilesSound' /\ AtMostOne'
  BY <1>2, BoxWears, FilesKept
<1>9. ASSUME NEW b \in Attempts PROVE AnswerSound(b)'
  <2>1. AnswerSound(b)
    BY AttemptAt
  <2>2. b \in heard => (b \in applied' <=> b \in applied)
    BY <1>4, <1>7
  <2>3. \A s : b \in heard => (AsServed(b, s)' <=> AsServed(b, s))
    BY <2>2 DEF AsServed
  <2>4. QED
    BY <1>2, <2>1, <2>3 DEF AnswerSound, PendingOp, TerminalOp
<1>10. AnswersSound'
  BY <1>2, <1>9 DEF AnswersSound, OutboxInv
<1>11. CycleSound'
  BY <1>2, <1>3, <1>4, <1>5, <1>6, <1>7 DEF CycleSound, CycleSteps
<1>12. heard' \subseteq Attempts
  BY <1>2 DEF OutboxInv, LocalsTyped
<1>13. QED
  BY <1>2, <1>5, <1>6, <1>7, <1>8, <1>10, <1>11, <1>12, CycleKeeps DEF CycleSteps

\* the delivery is over, with or without an answer that stays
LEMMA AfterDeliveryTyped ==
  ASSUME OutboxInv, command.name = "cycle", NEW halt \in BOOLEAN, AfterDelivery(halt)
  PROVE  command' \in CommandStates /\ command'.name = "cycle" /\ command'.step \in {"finalize", "send"}
<1>1. command \in CommandStates
  BY CycleStates
<1>2. PICK step \in {"finalize", "send"} : command' = [command EXCEPT !.step = step, !.op = NoOp, !.flag = FALSE]
  BY DEF AfterDelivery
<1>3. QED
  BY <1>1, <1>2 DEF CommandStates

LEMMA AdoptAnswerKeeps == ASSUME OutboxInv, AdoptAnswer PROVE OutboxInv'
<1>1. /\ command.name = "cycle" /\ command.step = "adopt" /\ UNCHANGED <<tail, applied, leased>>
      /\ plan' = [plan EXCEPT !.answer = "none"]
  BY DEF AdoptAnswer
<1>2. /\ command \in CommandStates /\ plan \in Plans /\ plan.deliver \subseteq Attempts
      /\ plan.intents \subseteq plan.deliver /\ plan.intents \cap heard = {}
      /\ \A b \in plan.deliver : tail[b].stage \notin {"open", "result"}
  BY <1>1, CycleStates
<1>3. PICK a \in Attempts : a = command.op
  BY <1>1, <1>2 DEF OutboxInv, CycleSound
<1>4. /\ a \in plan.deliver /\ a \notin plan.intents /\ a \in Ops
      /\ plan.answer = "ok" => a \in applied
      /\ plan.answer = "superseded" => a \notin applied
  BY <1>1, <1>3, Apart DEF OutboxInv, CycleSound
<1>5. plan' \in Plans /\ plan'.intents = plan.intents /\ plan'.deliver = plan.deliver
  BY <1>1, <1>2 DEF Plans
<1>6. Wears(Readable)
  BY ReadableWears
<1>7. heard \subseteq Attempts /\ applied' \subseteq Attempts
  BY <1>1 DEF OutboxInv, LocalsTyped
<1>0. PICK status \in {"acked", "rejected", "superseded", "pending"} : status = DeclarationStatus(plan.answer)
  BY StatusTyped
<1>8. CASE ~(Readable[a].status = "pending" /\ status # "pending")
  <2>1. box' = Readable /\ AfterDelivery(TRUE) /\ UNCHANGED heard
    BY <1>0, <1>3, <1>8 DEF AdoptAnswer
  <2>2. FilesSound' /\ AtMostOne' /\ \A b \in Attempts : Worn(b, box'[b])
    BY <1>6, <2>1, FilesKept
  <2>3. tail' \in [Attempts -> Tails] /\ \A b \in Attempts : TailMoves(b)
    BY <1>1 DEF TailMoves, OutboxInv, AnswersSound
  <2>4. AnswersSound'
    BY <1>1, <2>1, <2>2, <2>3, AnswersKept
  <2>5. command' \in CommandStates /\ command'.name = "cycle" /\ command'.step \in {"finalize", "send"}
    BY <1>1, <2>1, AfterDeliveryTyped
  <2>6. CycleSound'
    BY <1>1, <1>2, <1>5, <2>1, <2>5 DEF CycleSound, CycleSteps
  <2>7. QED
    BY <1>1, <1>5, <1>7, <2>1, <2>2, <2>4, <2>5, <2>6, CycleKeeps DEF CycleSteps
<1>9. CASE Readable[a].status = "pending" /\ status # "pending"
  <2>1. /\ box' = Transitioned(Readable, a, status) /\ heard' = heard \cup {a}
        /\ command' = [command EXCEPT !.step = "settle", !.flag = (plan.answer = "auth")]
    BY <1>0, <1>3, <1>9 DEF AdoptAnswer
  <2>2. AsServed(a, status) /\ status \in TerminalStates /\ status \notin {"none", "pending"}
    BY <1>0, <1>4, <1>9 DEF AsServed, DeclarationStatus, TerminalStates
  <2>3. Readable[a] \in Files /\ Readable[a].kind = "engine.complete" /\ Readable \in [Ops -> Files \cup {NoEntry}]
    BY <1>4, <1>6, <1>9, WornSays, FileAt DEF FileSound, Wears
  <2> DEFINE f == Readable[a]
             file == [[[f EXCEPT !.status = status] EXCEPT !.age = 0] EXCEPT !.bad = FALSE]
  <2>4. 0 \in 0..OutboxDays
    BY OutboxAssumption
  <2>5. file \in Files /\ file.kind = "engine.complete" /\ file.status = status /\ file.bad = FALSE
    BY <2>2, <2>3, <2>4 DEF Files
  <2>6. box' = [Readable EXCEPT ![a] = file]
    BY <1>4, <2>1, <2>3 DEF Transitioned
  <2> HIDE DEF file
  <2>7. box' \in [Ops -> Files \cup {NoEntry}] /\ box'[a] = file /\ \A op \in Ops \ {a} : box'[op] = Readable[op]
    BY <1>4, <2>3, <2>5, <2>6
  <2>8. \A op \in Ops : FileSound(op)'
    <3>1. FileSound(a)'
      BY <2>5, <2>7 DEF FileSound
    <3>2. ASSUME NEW op \in Ops \ {a} PROVE FileSound(op)'
      <4>1. /\ Readable[op].bad => op \in Corruptible
            /\ Readable[op].status # "none" => Here(op) /\ Readable[op].kind = box[op].kind
        BY <1>6, WornSays DEF Wears
      <4>2. QED
        BY <2>7, <4>1, FileAt DEF FileSound, Here
    <3>3. QED
      BY <3>1, <3>2
  <2>9. \A kind \in OneShot : PendingOf(kind, box') \subseteq PendingOf(kind, Readable)
    BY <2>5, <2>7 DEF PendingOf, OneShot
  <2>10. AtMostOne'
    BY <1>6, <2>9, PendingShrinks, FewerPending
  <2>11. AnswerSound(a)'
    <3>1. TerminalOp(a)' /\ ~PendingOp(a)' /\ box'[a].status = status
      BY <2>2, <2>5, <2>7 DEF TerminalOp, PendingOp
    <3>2. a \in heard' /\ tail'[a].stage \notin {"open", "result"}
      BY <1>1, <1>2, <1>4, <2>1
    <3>3. AsServed(a, status)'
      BY <1>1, <2>2 DEF AsServed
    <3>4. tail[a].stage = "settled" => AsServed(a, tail[a].outcome)
      BY AttemptAt DEF AnswerSound
    <3>5. tail'[a].stage = "settled" => AsServed(a, tail[a].outcome)'
      BY <1>1, <3>4 DEF AsServed
    <3>6. AsServed(a, box[a].status)'
      BY <3>1, <3>3 DEF AsServed
    <3>7. QED
      BY <1>1, <3>1, <3>2, <3>5, <3>6 DEF AnswerSound
  <2>12. ASSUME NEW b \in Attempts, b # a PROVE AnswerSound(b)'
    <3>1. AnswerSound(b) /\ b \in Ops /\ FileSound(b)
      BY AttemptAt, FileAt
    <3>2. box'[b] = Readable[b] /\ Worn(b, Readable[b]) /\ (b \in heard' <=> b \in heard)
      BY <1>6, <2>1, <2>7, <2>12, <3>1 DEF Wears
    <3>3. PendingOp(b)' => PendingOp(b)
      BY <3>2, NoEntryIs DEF Worn, PendingOp
    <3>4. TerminalOp(b)' => TerminalOp(b) /\ box'[b].status = box[b].status
      BY <3>2, NoEntryIs DEF Worn, TerminalOp
    <3>5. PendingOp(b) /\ b \notin Corruptible => PendingOp(b)'
      BY <3>1, <3>2, NoEntryIs DEF Worn, PendingOp, TerminalOp, FileSound
    <3>6. \A s : AsServed(b, s)' <=> AsServed(b, s)
      BY <1>1 DEF AsServed
    <3>7. QED
      BY <1>1, <3>1, <3>2, <3>3, <3>4, <3>5, <3>6 DEF AnswerSound
  <2>13. AnswersSound'
    BY <1>1, <2>11, <2>12 DEF AnswersSound, OutboxInv
  <2>14. /\ command' \in CommandStates /\ command'.name = "cycle" /\ command'.step = "settle"
         /\ command'.op = a
    BY <1>1, <1>2, <1>3, <2>1 DEF CommandStates
  <2>15. TerminalOp(a)'
    BY <2>2, <2>5, <2>7 DEF TerminalOp
  <2>16. plan'.intents \cap heard' = {}
    BY <1>2, <1>4, <1>5, <2>1
  <2>17. CycleSound'
    BY <1>1, <1>2, <1>4, <1>5, <2>14, <2>15, <2>16 DEF CycleSound, CycleSteps, TerminalOp
  <2>18. heard' \subseteq Attempts
    BY <1>7, <2>1
  <2>19. QED
    BY <1>1, <1>5, <1>7, <2>7, <2>8, <2>10, <2>13, <2>14, <2>17, <2>18, CycleKeeps DEF CycleSteps, FilesSound
<1>10. QED
  BY <1>8, <1>9

\* files only wear, the attempts move on, and nothing is said or heard
LEMMA CycleMovesOn ==
  ASSUME OutboxInv, command.name = "cycle", UNCHANGED <<applied, heard, leased, plan>>, Wears(box'),
         tail' \in [Attempts -> Tails], \A a \in Attempts : TailMoves(a),
         command' \in CommandStates, command'.name = "cycle", command'.step \in {"finalize", "send"}
  PROVE  OutboxInv'
<1>1. /\ plan \in Plans /\ plan.deliver \subseteq Attempts
      /\ plan.intents \subseteq plan.deliver /\ plan.intents \cap heard = {}
      /\ \A b \in plan.deliver : tail[b].stage \notin {"open", "result"}
  BY CycleStates
<1>2. FilesSound' /\ AtMostOne' /\ \A a \in Attempts : Worn(a, box'[a])
  BY FilesKept
<1>3. AnswersSound' /\ \A a \in Attempts : tail[a].stage \notin {"open", "result"} => tail'[a].stage \notin {"open", "result"}
  BY <1>2, AnswersKept, AnswerKept
<1>4. CycleSound'
  BY <1>1, <1>3 DEF CycleSound, CycleSteps
<1>5. QED
  BY <1>1, <1>2, <1>3, <1>4, CycleKeeps DEF CycleSteps, OutboxInv, LocalsTyped

LEMMA SettleDeliveredKeeps == ASSUME OutboxInv, SettleDelivered PROVE OutboxInv'
<1>1. /\ command.name = "cycle" /\ command.step = "settle" /\ box' = Readable
      /\ UNCHANGED <<applied, heard, leased, plan>>
  BY DEF SettleDelivered
<1>2. PICK a \in Attempts : a = command.op
  BY <1>1, CycleStates DEF OutboxInv, CycleSound
<1>3. TerminalOp(a)
  BY <1>1, <1>2 DEF OutboxInv, CycleSound
<1>4. command \in CommandStates
  BY <1>1, CycleStates
<1>5. \/ UNCHANGED tail /\ AfterDelivery(TRUE)
      \/ Settle(a) /\ AfterDelivery(command.flag)
  BY <1>2 DEF SettleDelivered
<1>6. command.flag \in BOOLEAN
  BY <1>4 DEF CommandStates
<1>7. command' \in CommandStates /\ command'.name = "cycle" /\ command'.step \in {"finalize", "send"}
  BY <1>1, <1>5, <1>6, AfterDeliveryTyped
<1>8. tail' \in [Attempts -> Tails] /\ \A b \in Attempts : TailMoves(b)
  <2>1. CASE UNCHANGED tail
    BY <2>1 DEF TailMoves, OutboxInv, AnswersSound
  <2>2. CASE Settle(a)
    BY <1>3, <2>2, SettleMoves
  <2>3. QED
    BY <1>5, <2>1, <2>2
<1>9. QED
  BY <1>1, <1>7, <1>8, ReadableWears, CycleMovesOn

LEMMA FinishCycleKeeps == ASSUME OutboxInv, FinishCycle PROVE OutboxInv'
<1>1. /\ tail' = Correlated(Readable) /\ command' = Idle /\ plan' = NoPlan
      /\ box' = Readable \/ box' = Pruned(Readable)
      /\ UNCHANGED <<applied, heard, leased>>
  BY DEF FinishCycle
<1>2. Wears(Readable) /\ Wears(box')
  BY <1>1, ReadableWears, PrunedWears
<1>3. FilesSound' /\ AtMostOne' /\ \A a \in Attempts : Worn(a, box'[a])
  BY <1>2, FilesKept
<1>4. tail' \in [Attempts -> Tails] /\ \A a \in Attempts : TailMoves(a)
  BY <1>1, <1>2, CorrelatedMoves
<1>5. AnswersSound'
  BY <1>1, <1>3, <1>4, AnswersKept
<1>6. CycleSound' /\ plan' \in Plans /\ command' \in CommandStates /\ command'.step = "none"
  BY <1>1, IdleSound, NoPlanTyped DEF CycleSound, Idle
<1>7. QED
  BY <1>1, <1>3, <1>5, <1>6, CycleKeeps DEF OutboxInv, LocalsTyped

-----------------------------------------------------------------------------
(* The specification *)

LEMMA StartsSound == ASSUME OutboxInit PROVE OutboxInv
<1>1. box = [op \in Ops |-> NoEntry] /\ tail = [a \in Attempts |-> [stage |-> "open", outcome |-> "none", age |-> 0]]
      /\ applied = {} /\ heard = {} /\ leased = {} /\ command = Idle /\ plan = NoPlan
  BY DEF OutboxInit
<1>2. FilesSound
  BY <1>1, NoEntryIs DEF FilesSound, FileSound, Here
<1>3. \A a \in Attempts : a \in Ops /\ box[a] = NoEntry /\ tail[a].stage = "open"
  BY <1>1, Apart
<1>4. tail \in [Attempts -> Tails]
  BY <1>1 DEF Tails, Stages
<1>5. AnswersSound
  BY <1>1, <1>3, <1>4, NoEntryIs DEF AnswersSound, AnswerSound, PendingOp, TerminalOp
<1>6. Idle \in CommandStates /\ Idle.step = "none" /\ Idle.name = "none"
  BY DEF Idle, CommandStates
<1>7. CycleSound /\ CommandSound
  BY <1>1, <1>6 DEF CycleSound, CommandSound, SendSteps
<1>8. AtMostOne
  BY <1>1, NoEntryIs DEF AtMostOne, PendingOf
<1>9. LocalsTyped
  BY <1>1, <1>6, NoPlanTyped DEF LocalsTyped
<1>10. QED
  BY <1>2, <1>5, <1>7, <1>8, <1>9 DEF OutboxInv

LEMMA StepKeeps == ASSUME OutboxInv, [OutboxNext]_ovars PROVE OutboxInv'
<1>1. CASE StartCycle
  BY <1>1, StartCycleKeeps
<1>2. CASE CycleStep
  BY <1>2, CorrelateKeeps, AdoptAnswerKeeps, SettleDeliveredKeeps, FinishCycleKeeps, WriteCompletionKeeps,
     RecordOutboxedKeeps, ReconcileKeeps, AttentionKeeps, SendCompletionKeeps DEF CycleStep
<1>3. CASE CommandStep
  BY <1>3, InspectKeeps, StartReportKeeps, StartEnginesKeeps, WriteEngineReportKeeps, SendKeeps, ReportAnsweredKeeps,
     DrainCompletionKeeps, ResumeDiagnoseKeeps, EndRecoveredKeeps, ClaimAnsweredKeeps, SupersedeClaimKeeps,
     HoldLeaseKeeps, CompletionAnsweredKeeps, StartDiagnoseKeeps DEF CommandStep
<1>4. CASE Dies \/ Day
  BY <1>4, DiesKeeps, DayKeeps
<1>5. CASE \E a \in Attempts : JournalResult(a)
  BY <1>5, JournalResultKeeps
<1>6. CASE \E op \in Ops : Spoil(op) \/ LeaseEnds(op)
  BY <1>6, SpoilKeeps, LeaseEndsKeeps
<1>7. CASE UNCHANGED ovars
  BY <1>7 DEF ovars, OutboxInv, FilesSound, FileSound, AnswersSound, AnswerSound, AsServed, CycleSound, CommandSound,
     AtMostOne, LocalsTyped, PendingOf, PendingOp, TerminalOp, Here
<1>8. QED
  BY <1>1, <1>2, <1>3, <1>4, <1>5, <1>6, <1>7 DEF OutboxNext

(* What the files, the journals, the answers and the command in hand have   *)
(* to do with each other holds in every state of the outbox.                *)
THEOREM OutboxInvariant == OutboxSpec => []OutboxInv
<1>1. OutboxInit => OutboxInv
  BY StartsSound
<1>2. OutboxInv /\ [OutboxNext]_ovars => OutboxInv'
  BY StepKeeps
<1>3. QED
  BY <1>1, <1>2, PTL DEF OutboxSpec

(* The state of the outbox has its type.                                    *)
THEOREM OutboxTypes == OutboxSpec => []OutboxTypeOK
<1>1. OutboxInv => OutboxTypeOK
  BY DEF OutboxInv, FilesSound, AnswersSound, LocalsTyped, OutboxTypeOK
<1>2. QED
  BY <1>1, OutboxInvariant, PTL

(* No crash of a command, no other command, no pruning and no day that      *)
(* passes loses a result whose answer is not known, and none sends one      *)
(* again whose answer is (applyCompletionEffect, pruneOutbox); and an       *)
(* attempt is settled as it was answered, wherever the runner died between  *)
(* the tombstone and the journal (reconcileAttempt).                        *)
THEOREM DeliveredOnceHolds == OutboxSpec => []DeliveredOnce
<1>1. OutboxInv => UndeliveredKept /\ NoRedelivery
  BY DEF OutboxInv, AnswersSound, AnswerSound, CycleSound, UndeliveredKept, NoRedelivery
<1>2. OutboxInv => SettledAsServed
  BY DEF OutboxInv, AnswersSound, AnswerSound, AsServed, SettledAsServed
<1>3. QED
  BY <1>1, <1>2, OutboxInvariant, PTL DEF DeliveredOnce

(* The one-shot commands leave at most one operation of a kind pending      *)
(* (reportCapabilities, reportEngines, recoverDiagnosticOutbox).            *)
THEOREM OnePendingPerKindHolds == OutboxSpec => []OnePendingPerKind
<1>1. ASSUME NEW S, \A x, y \in S : x = y PROVE Cardinality(S) <= 1
  <2>1. CASE S = {}
    BY <2>1, FS_EmptySet
  <2>2. CASE S # {}
    <3>1. PICK x \in S : S = {x}
      BY <1>1, <2>2
    <3>2. Cardinality({x}) = 1
      BY FS_Singleton
    <3>3. QED
      BY <3>1, <3>2
  <2>3. QED
    BY <2>1, <2>2
<1>2. OutboxInv => OnePendingPerKind
  BY <1>1 DEF OutboxInv, AtMostOne, OneShot, OnePendingPerKind
<1>3. QED
  BY <1>2, OutboxInvariant, PTL

-----------------------------------------------------------------------------
(* LeaseHorizon *)

(* Every expiry the runner or a frame carries, the server granted.          *)
ExpiriesGranted ==
  /\ journal.claimExpiry <= lease.expiresAt
  /\ runner.pc # "off" => runner.expiresAt <= lease.expiresAt
  /\ runner.pc \in {"propagate", "await_ack"} => runner.next <= lease.expiresAt
  /\ call.answer.kind = "renewal" => call.answer.expiresAt <= lease.expiresAt
  /\ \A i \in 1..Len(session.frames) :
       session.frames[i].kind # "terminate" => session.frames[i].expiresAt <= lease.expiresAt

(* The timer of a supervisor that was not told to stop is its expiry's, and *)
(* it acknowledged nothing beyond it.                                       *)
WatchSound ==
  /\ supervisor.phase \in {"none", "waiting_spawn"} =>
       ~supervisor.expired /\ ~supervisor.aborted /\ supervisor.expiresAt = 0
  /\ supervisor.phase = "live" => supervisor.expiresAt <= lease.expiresAt
  /\ supervisor.phase = "live" /\ ~supervisor.aborted =>
       ~supervisor.expired /\ clock <= supervisor.timer /\ supervisor.timer = supervisor.expiresAt
  /\ \A i \in 1..Len(session.acks) : session.acks[i] <= supervisor.expiresAt

HorizonInv == HorizonTypeOK /\ ExpiriesGranted /\ WatchSound /\ AdoptedWhenAcked

USE TimeAssumption

LEMMA GrantTyped == ASSUME clock \in Nat PROVE Grant \in Int /\ ServerNow \in Int
BY DEF Grant, ServerNow, Lesser

LEMMA HorizonStarts == HorizonInit => HorizonInv
<1> SUFFICES ASSUME HorizonInit PROVE HorizonInv
  OBVIOUS
<1> Grant \in Int
  BY GrantTyped DEF HorizonInit
<1>1. HorizonTypeOK
  <2>1. call \in Calls
    BY DEF HorizonInit, NoCall, Calls, RenewalAnswers, NoAnswer, RenewalAnswer
  <2>2. runner \in Runners
    BY DEF HorizonInit, RunnerOff, Comes, Runners, Rounds
  <2>3. session \in Links
    BY EmptySeq DEF HorizonInit, NoSession, Link, Links
  <2>4. supervisor \in Supervisors
    BY DEF HorizonInit, NoSupervisor, Unarmed, Supervisors
  <2> QED BY <2>1, <2>2, <2>3, <2>4 DEF HorizonInit, HorizonTypeOK, Journals
<1>2. ExpiriesGranted
  BY DEF HorizonInit, ExpiriesGranted, RunnerOff, Comes, NoCall, NoAnswer, NoSession, Link, RenewalAnswer
<1>3. WatchSound /\ AdoptedWhenAcked
  BY DEF HorizonInit, WatchSound, AdoptedWhenAcked, RunnerOff, Comes, NoSupervisor, Unarmed, NoSession, Link
<1> QED BY <1>1, <1>2, <1>3 DEF HorizonInv

LEMMA AnswersTyped ==
  /\ NoAnswer \in RenewalAnswers /\ NoAnswer.kind = "none" /\ NoCall.answer = NoAnswer
  /\ \A e \in Int, c \in BOOLEAN :
       Renewal(e, c) \in RenewalAnswers /\ Renewal(e, c).kind = "renewal" /\ Renewal(e, c).expiresAt = e
  /\ \A r \in Reasons : Denial(r) \in RenewalAnswers /\ Denial(r).kind = "denied"
BY DEF NoAnswer, NoCall, RenewalAnswers, Renewal, Denial, RenewalAnswer

LEMMA TimesTyped ==
  ASSUME HorizonTypeOK
  PROVE  /\ Grant \in Int
         /\ \A e \in Int : NextRenewAt(e) \in Int
         /\ Merged \in Int
         /\ Merged = runner.expiresAt \/ Merged = call.answer.expiresAt
         /\ runner.expiresAt \in Int /\ runner.next \in Int /\ call.answer.expiresAt \in Int
         /\ lease.expiresAt \in Int /\ journal.claimExpiry \in Int /\ supervisor.expiresAt \in Int
<1>1. Interval \div 2 \in Int
  OBVIOUS
<1>2. \A e \in Int : NextRenewAt(e) \in Int
  BY <1>1 DEF NextRenewAt, Greater, Lesser, HorizonTypeOK
<1>3. runner.expiresAt \in Int /\ runner.next \in Int /\ call.answer.expiresAt \in Int
      /\ lease.expiresAt \in Int /\ journal.claimExpiry \in Int /\ supervisor.expiresAt \in Int
  BY DEF HorizonTypeOK, Runners, Calls, Journals, RenewalAnswers, Supervisors
<1> QED BY <1>2, <1>3, GrantTyped DEF HorizonTypeOK, Merged, Greater

LEMMA RecordsTyped ==
  ASSUME HorizonTypeOK
  PROVE  /\ RunnerOff \in Runners
         /\ \A e \in Int : Waits(e) \in Runners
         /\ \A e \in Int, c \in BOOLEAN : Propagates(e, c) \in Runners
         /\ \A r \in Reasons \cup {"none"} : Stopping(r) \in Runners
         /\ \A p : Opened(p) \in Links
                  /\ Opened(p).frames = <<>> /\ Opened(p).acks = <<>>
         /\ NoSession \in Links
         /\ NoSession.frames = <<>> /\ NoSession.acks = <<>>
         /\ NoCall \in Calls
         /\ NoCall.answer.kind = "none"
<1> USE DEF HorizonTypeOK
<1>1. \A e \in Int : Waits(e) \in Runners
  BY TimesTyped DEF Waits, Runners, Rounds
<1>2. <<>> \in Seq(Frames) /\ <<>> \in Seq(Int)
  BY EmptySeq
<1>3. RunnerOff \in Runners
  BY DEF RunnerOff, Comes, Runners, Rounds
<1>4. \A e \in Int, c \in BOOLEAN : Propagates(e, c) \in Runners
  BY DEF Propagates, Runners, Rounds
<1>5. \A r \in Reasons \cup {"none"} : Stopping(r) \in Runners
  BY DEF Stopping, Runners, Rounds
<1>6. \A p : Opened(p) \in Links
                  /\ Opened(p).frames = <<>> /\ Opened(p).acks = <<>>
  BY <1>2 DEF Opened, Link, Links
<1>7. NoSession \in Links
         /\ NoSession.frames = <<>> /\ NoSession.acks = <<>>
  BY <1>2 DEF NoSession, Link, Links
<1>8. NoCall \in Calls
         /\ NoCall.answer.kind = "none"
  BY AnswersTyped DEF NoCall, Calls
<1> QED BY <1>1, <1>3, <1>4, <1>5, <1>6, <1>7, <1>8

LEMMA FramesTyped ==
  ASSUME HorizonTypeOK
  PROVE  /\ \A i \in 1..Len(session.frames) : session.frames[i] \in Frames /\ session.frames[i].expiresAt \in Int
         /\ \A i \in 1..Len(session.acks) : session.acks[i] \in Int
<1>1. session.frames \in Seq(Frames) /\ session.acks \in Seq(Int)
  BY DEF HorizonTypeOK, Links
<1>2. \A i \in 1..Len(session.frames) : session.frames[i] \in Frames
  BY <1>1
<1> QED BY <1>1, <1>2 DEF Frames

(* The server's steps *)
LEMMA ServerTypes ==
  ASSUME HorizonTypeOK, ServerNext
  PROVE  /\ HorizonTypeOK'
         /\ lease'.expiresAt >= lease.expiresAt
         /\ call' = call \/ call'.answer.kind = "denied" \/ call'.answer.expiresAt = lease'.expiresAt
<1>0. Grant \in Int
  BY GrantTyped DEF HorizonTypeOK
<1>1. CASE RenewRunLease
  <2>1. CASE Renewable /\ Grant > lease.expiresAt
    <3>1. lease' = [lease EXCEPT !.expiresAt = Grant]
          /\ call' = [state |-> "answered", answer |-> Renewal(Grant, lease.cancel)]
      BY <1>1, <2>1 DEF RenewRunLease
    <3>2. Renewal(Grant, lease.cancel) \in RenewalAnswers /\ Renewal(Grant, lease.cancel).expiresAt = Grant
      BY <1>0, AnswersTyped DEF HorizonTypeOK
    <3>3. HorizonTypeOK'
      BY <1>0, <1>1, <3>1, <3>2 DEF RenewRunLease, HorizonTypeOK, Calls
    <3> QED BY <1>0, <2>1, <3>1, <3>2, <3>3 DEF HorizonTypeOK
  <2>2. CASE ~(Renewable /\ Grant > lease.expiresAt)
    <3>1. PICK r \in Reasons : call' = [state |-> "answered", answer |-> Denial(r)]
      BY <1>1, <2>2 DEF RenewRunLease, Reasons
    <3>2. Denial(r) \in RenewalAnswers /\ Denial(r).kind = "denied"
      BY AnswersTyped
    <3>3. lease' = lease
      BY <1>1, <2>2 DEF RenewRunLease
    <3>4. HorizonTypeOK'
      BY <1>1, <3>1, <3>2, <3>3 DEF RenewRunLease, HorizonTypeOK, Calls
    <3> QED BY <3>1, <3>2, <3>3, <3>4 DEF HorizonTypeOK
  <2> QED BY <2>1, <2>2
<1>2. CASE RenewForNobody
  <2>1. HorizonTypeOK'
    BY <1>0, <1>2 DEF RenewForNobody, HorizonTypeOK
  <2> QED BY <1>0, <1>2, <2>1 DEF RenewForNobody, HorizonTypeOK
<1>3. CASE CancelRequested
  <2>1. HorizonTypeOK'
    BY <1>3 DEF CancelRequested, HorizonTypeOK
  <2> QED BY <1>3, <2>1 DEF CancelRequested, HorizonTypeOK
<1>4. CASE LeaseClosed
  <2>1. HorizonTypeOK'
    BY <1>4 DEF LeaseClosed, HorizonTypeOK
  <2> QED BY <1>4, <2>1 DEF LeaseClosed, HorizonTypeOK
<1> QED BY <1>1, <1>2, <1>3, <1>4 DEF ServerNext

LEMMA ServerKeeps == ASSUME HorizonInv, ServerNext PROVE HorizonInv'
<1> USE DEF HorizonInv
<1>0. UNCHANGED <<clock, journal, runner, session, supervisor>>
  BY DEF ServerNext, RenewRunLease, RenewForNobody, CancelRequested, LeaseClosed
<1>1. /\ HorizonTypeOK'
      /\ lease'.expiresAt >= lease.expiresAt
      /\ call' = call \/ call'.answer.kind = "denied" \/ call'.answer.expiresAt = lease'.expiresAt
  BY ServerTypes
<1>2. lease.expiresAt \in Int /\ lease'.expiresAt \in Int /\ call.answer.expiresAt \in Int
      /\ journal.claimExpiry \in Int /\ runner.expiresAt \in Int /\ runner.next \in Int
      /\ supervisor.expiresAt \in Int
  BY <1>1, TimesTyped DEF HorizonTypeOK
<1>3. \A i \in 1..Len(session.frames) : session.frames[i].expiresAt \in Int
  BY FramesTyped
<1>4. ExpiriesGranted'
  BY <1>0, <1>1, <1>2, <1>3 DEF ExpiriesGranted
<1>5. WatchSound' /\ AdoptedWhenAcked'
  BY <1>0, <1>1, <1>2 DEF WatchSound, AdoptedWhenAcked
<1> QED BY <1>1, <1>4, <1>5

LEMMA TickKeeps == ASSUME HorizonInv, Tick PROVE HorizonInv'
<1> USE DEF HorizonInv
<1>1. HorizonTypeOK'
  BY DEF HorizonTypeOK, Tick
<1>2. ExpiriesGranted' /\ AdoptedWhenAcked'
  BY DEF ExpiriesGranted, AdoptedWhenAcked, Tick
<1>3. WatchSound'
  BY DEF WatchSound, Tick, Due, HorizonTypeOK, Supervisors
<1> QED BY <1>1, <1>2, <1>3

(* A runner that leaves takes nothing of the supervisor's with it. *)
LEMMA LeavesKeeps ==
  ASSUME HorizonInv, RunnerLeaves, UNCHANGED <<clock, lease>>,
         journal' = journal \/ journal' = [journal EXCEPT !.over = TRUE],
         supervisor' = supervisor \/ supervisor' = [supervisor EXCEPT !.phase = "gone"]
  PROVE  HorizonInv'
<1> USE DEF HorizonInv
<1>1. runner' = RunnerOff /\ session' = NoSession /\ call' = NoCall /\ stray' \in BOOLEAN
  BY DEF RunnerLeaves, GivenUp, HorizonTypeOK
<1>2. supervisor' \in Supervisors
  BY DEF HorizonTypeOK, Supervisors
<1>3. HorizonTypeOK'
  <2>1. journal' \in Journals
    BY DEF HorizonTypeOK, Journals
  <2> QED BY <1>1, <1>2, <2>1, RecordsTyped DEF HorizonTypeOK
<1>4. ExpiriesGranted'
  <2>1. session'.frames = <<>> /\ call'.answer.kind = "none"
    BY <1>1, RecordsTyped
  <2>2. journal'.claimExpiry = journal.claimExpiry
    BY DEF HorizonTypeOK, Journals
  <2>3. runner'.pc = "off"
    BY <1>1 DEF RunnerOff, Comes
  <2> QED BY <2>1, <2>2, <2>3 DEF ExpiriesGranted
<1>5. WatchSound'
  <2>1. session'.acks = <<>>
    BY <1>1, RecordsTyped
  <2>2. CASE supervisor' = supervisor
    BY <2>1, <2>2 DEF WatchSound
  <2>3. CASE supervisor' = [supervisor EXCEPT !.phase = "gone"]
    BY <2>1, <2>3 DEF WatchSound, HorizonTypeOK, Supervisors
  <2> QED BY <2>2, <2>3
<1>6. AdoptedWhenAcked'
  BY <1>1 DEF AdoptedWhenAcked, RunnerOff, Comes
<1> QED BY <1>3, <1>4, <1>5, <1>6

(* A step of the runner alone is sound when what it comes to hold is. *)
LEMMA RunnerMoves ==
  ASSUME HorizonInv, HorizonTypeOK', UNCHANGED <<clock, lease, supervisor>>,
         journal'.claimExpiry = journal.claimExpiry,
         session' = session \/ (session'.frames = <<>> /\ session'.acks = <<>>),
         call' = call \/ call'.answer.kind # "renewal",
         runner'.pc # "off" => runner'.expiresAt <= lease.expiresAt,
         runner'.pc \in {"propagate", "await_ack"} => runner'.next <= lease.expiresAt,
         AdoptedWhenAcked'
  PROVE  HorizonInv'
<1> USE DEF HorizonInv
<1>1. ExpiriesGranted'
  <2>1. CASE session' = session
    BY <2>1 DEF ExpiriesGranted
  <2>2. CASE session'.frames = <<>>
    BY <2>2 DEF ExpiriesGranted
  <2> QED BY <2>1, <2>2
<1>2. WatchSound'
  <2>1. CASE session' = session
    BY <2>1 DEF WatchSound
  <2>2. CASE session'.acks = <<>>
    BY <2>2 DEF WatchSound
  <2> QED BY <2>1, <2>2
<1> QED BY <1>1, <1>2

LEMMA PrepareKeeps == ASSUME HorizonInv, Prepare \/ Resume PROVE HorizonInv'
<1> USE DEF HorizonInv
<1>1. CASE Prepare
  <2>1. runner' \in Runners /\ runner'.pc = "renewing" /\ runner'.round = "first"
        /\ runner'.expiresAt = journal.claimExpiry
    <3>1. runner' = Comes("renewing", journal.claimExpiry, 0)
      BY <1>1 DEF Prepare
    <3> QED BY <3>1, TimesTyped DEF Comes, Runners, Rounds
  <2>2. HorizonTypeOK'
    BY <1>1, <2>1 DEF Prepare, OnlyCaller, HorizonTypeOK
  <2> QED BY <1>1, <2>1, <2>2, RunnerMoves DEF Prepare, OnlyCaller, AdoptedWhenAcked, ExpiriesGranted
<1>2. CASE Resume
  <2>1. runner' \in Runners /\ runner'.pc = "propagate" /\ runner'.expiresAt = journal.claimExpiry
        /\ runner'.next = journal.claimExpiry
    <3>1. runner' = Comes("propagate", journal.claimExpiry, journal.claimExpiry)
      BY <1>2 DEF Resume
    <3> QED BY <3>1, TimesTyped DEF Comes, Runners, Rounds
  <2>2. session' = Opened(supervisor.phase)
    BY <1>2 DEF Resume
  <2>3. HorizonTypeOK'
    BY <1>2, <2>1, <2>2, RecordsTyped DEF Resume, HorizonTypeOK
  <2>4. session'.frames = <<>> /\ session'.acks = <<>>
    BY <2>2, RecordsTyped
  <2> QED BY <1>2, <2>1, <2>3, <2>4, RunnerMoves DEF Resume, AdoptedWhenAcked, ExpiriesGranted
<1> QED BY <1>1, <1>2

LEMMA RenewingKeeps ==
  ASSUME HorizonInv, SendRenewal \/ RenewalFails \/ RenewLater \/ RenewalOutlasted PROVE HorizonInv'
<1> USE DEF HorizonInv
<1>1. CASE SendRenewal
  <2>1. HorizonTypeOK' /\ call'.answer = call.answer
    BY <1>1 DEF SendRenewal, OnlyCaller, HorizonTypeOK, Calls
  <2>2. WatchSound' /\ AdoptedWhenAcked'
    BY <1>1 DEF SendRenewal, OnlyCaller, WatchSound, AdoptedWhenAcked
  <2>3. ExpiriesGranted'
    BY <1>1, <2>1 DEF SendRenewal, OnlyCaller, ExpiriesGranted
  <2> QED BY <2>1, <2>2, <2>3
<1>2. CASE RenewalFails
  <2>1. call' = NoCall /\ stray' \in BOOLEAN
    BY <1>2 DEF RenewalFails, GivenUp, HorizonTypeOK
  <2>2. HorizonTypeOK' /\ call'.answer.kind = "none"
    BY <1>2, <2>1, RecordsTyped DEF RenewalFails, OnlyCaller, HorizonTypeOK
  <2> QED BY <1>2, <2>2, RunnerMoves DEF RenewalFails, OnlyCaller, AdoptedWhenAcked, ExpiriesGranted
<1>3. CASE RenewLater
  <2>1. runner' = RunnerOff \/ (runner.round = "running" /\ runner' = Waits(runner.expiresAt))
    BY <1>3 DEF RenewLater
  <2>2. runner' \in Runners
    BY <2>1, RecordsTyped, TimesTyped
  <2>3. HorizonTypeOK'
    BY <1>3, <2>2 DEF RenewLater, OnlyCaller, HorizonTypeOK
  <2>4. CASE runner' = RunnerOff
    BY <1>3, <2>3, <2>4, RunnerMoves DEF RenewLater, OnlyCaller, AdoptedWhenAcked, RunnerOff, Comes
  <2>5. CASE runner.round = "running" /\ runner' = Waits(runner.expiresAt)
    <3>1. runner'.pc = "wait" /\ runner'.expiresAt = runner.expiresAt
      BY <2>5 DEF Waits, HorizonTypeOK, Runners
    <3>2. runner.expiresAt <= supervisor.expiresAt /\ runner.expiresAt <= lease.expiresAt
      BY <1>3, <2>5 DEF RenewLater, AdoptedWhenAcked, ExpiriesGranted
    <3> QED BY <1>3, <2>3, <3>1, <3>2, RunnerMoves DEF RenewLater, OnlyCaller, AdoptedWhenAcked
  <2> QED BY <2>1, <2>4, <2>5
<1>4. CASE RenewalOutlasted
  <2>1. call' = NoCall /\ stray' \in BOOLEAN /\ runner' = Stopping("lease_lost")
    BY <1>4 DEF RenewalOutlasted, GivenUp, HorizonTypeOK
  <2>2. runner' \in Runners /\ runner'.pc = "stopping" /\ runner'.expiresAt = runner.expiresAt
    BY <2>1, RecordsTyped DEF Stopping, HorizonTypeOK, Runners, Reasons
  <2>3. HorizonTypeOK' /\ call'.answer.kind = "none"
    BY <1>4, <2>1, <2>2, RecordsTyped DEF RenewalOutlasted, OnlyCaller, HorizonTypeOK
  <2> QED BY <1>4, <2>2, <2>3, RunnerMoves DEF RenewalOutlasted, OnlyCaller, AdoptedWhenAcked, ExpiriesGranted
<1> QED BY <1>1, <1>2, <1>3, <1>4

(* A preparation that stops, or a loop that does. *)
LEMMA PreparationStopsKeeps ==
  ASSUME HorizonInv, NEW e \in Int, e <= lease.expiresAt, NEW r \in Reasons \cup {"none"},
         PreparationStops(e, r), call' = call \/ call' = NoCall,
         UNCHANGED <<clock, lease, stray, supervisor>>
  PROVE  HorizonInv'
<1> USE DEF HorizonInv
<1>0. call' \in Calls
      /\ (call' = call \/ call'.answer.kind # "renewal")
  BY RecordsTyped DEF HorizonTypeOK
<1>1. CASE journal.supervisor
  <2>1. /\ runner' = [Stopping(r) EXCEPT !.expiresAt = e]
        /\ session' = Opened(supervisor.phase) /\ journal' = journal
    BY <1>1 DEF PreparationStops
  <2>2. runner' \in Runners /\ runner'.pc = "stopping" /\ runner'.expiresAt = e
    BY <2>1, RecordsTyped DEF Stopping, HorizonTypeOK, Runners
  <2>3. session' \in Links
        /\ session'.frames = <<>> /\ session'.acks = <<>>
    BY <2>1, RecordsTyped
  <2>4. HorizonTypeOK'
    BY <1>0, <2>1, <2>2, <2>3 DEF HorizonTypeOK
  <2> QED BY <1>0, <2>1, <2>2, <2>3, <2>4, RunnerMoves DEF AdoptedWhenAcked
<1>2. CASE ~journal.supervisor
  <2>1. runner' = RunnerOff /\ journal' = [journal EXCEPT !.over = TRUE] /\ session' = session
    BY <1>2 DEF PreparationStops
  <2>2. HorizonTypeOK'
    BY <1>0, <2>1, RecordsTyped DEF HorizonTypeOK, Journals
  <2>3. runner'.pc = "off" /\ journal'.claimExpiry = journal.claimExpiry
    BY <2>1 DEF RunnerOff, Comes, HorizonTypeOK, Journals
  <2> QED BY <1>0, <2>1, <2>2, <2>3, RunnerMoves DEF AdoptedWhenAcked
<1> QED BY <1>1, <1>2

LEMMA StopsKeeps ==
  ASSUME HorizonInv, runner.pc = "renewing", NEW r \in Reasons \cup {"none"}, Stops(r), call' = call \/ call' = NoCall,
         UNCHANGED <<clock, lease, stray, supervisor>>
  PROVE  HorizonInv'
<1> USE DEF HorizonInv
<1>1. CASE runner.round # "running"
  <2>1. PreparationStops(runner.expiresAt, r)
    BY <1>1 DEF Stops
  <2>2. runner.expiresAt \in Int /\ runner.expiresAt <= lease.expiresAt
    BY TimesTyped DEF ExpiriesGranted
  <2> QED BY <2>1, <2>2, PreparationStopsKeeps
<1>2. CASE runner.round = "running"
  <2>0. call' \in Calls
        /\ (call' = call \/ call'.answer.kind # "renewal")
    BY RecordsTyped DEF HorizonTypeOK
  <2>1. runner' = Stopping(r) /\ journal' = journal /\ session' = session
    BY <1>2 DEF Stops
  <2>2. runner' \in Runners /\ runner'.pc = "stopping" /\ runner'.expiresAt = runner.expiresAt
    BY <2>1, RecordsTyped DEF Stopping, HorizonTypeOK, Runners
  <2>3. HorizonTypeOK'
    BY <2>0, <2>1, <2>2 DEF HorizonTypeOK
  <2> QED BY <2>0, <2>1, <2>2, <2>3, RunnerMoves DEF AdoptedWhenAcked, ExpiriesGranted
<1> QED BY <1>1, <1>2

LEMMA AnsweredKeeps ==
  ASSUME HorizonInv, TakeDenial \/ TakeRenewal \/ TakePreparedRenewal PROVE HorizonInv'
<1> USE DEF HorizonInv
<1>0. Heard("denied") \/ Heard("renewal")
  BY DEF TakeDenial, TakeRenewal, TakePreparedRenewal
<1>1. call.answer \in RenewalAnswers /\ runner.pc = "renewing"
  BY <1>0 DEF Heard, HorizonTypeOK, Calls
<1>2. NoCall \in Calls /\ NoCall.answer.kind # "renewal"
  BY RecordsTyped
<1>3. runner.expiresAt <= lease.expiresAt
  BY <1>1 DEF ExpiriesGranted
<1>4. ASSUME call.answer.kind = "renewal" PROVE Merged \in Int /\ Merged <= lease.expiresAt
  BY <1>3, <1>4, TimesTyped DEF ExpiriesGranted
<1>5. CASE TakeDenial
  <2>1. call.answer.reason \in Reasons \cup {"none"}
    BY <1>1 DEF RenewalAnswers
  <2>2. Stops(call.answer.reason) /\ call' = NoCall /\ UNCHANGED <<clock, lease, stray, supervisor>>
    BY <1>5 DEF TakeDenial
  <2> QED BY <1>1, <2>1, <2>2, StopsKeeps
<1>6. CASE TakeRenewal
  <2>1. /\ call' = NoCall /\ runner' = Propagates(Merged, call.answer.cancel)
        /\ UNCHANGED <<clock, lease, stray, journal, session, supervisor>>
        /\ call.answer.kind = "renewal"
    BY <1>6 DEF TakeRenewal, OnlyCaller, Heard
  <2>2. runner' \in Runners
    BY <1>1, <1>4, <2>1, RecordsTyped DEF RenewalAnswers
  <2>3. runner'.pc = "propagate" /\ runner'.expiresAt = runner.expiresAt /\ runner'.next = Merged
    BY <2>1 DEF Propagates, HorizonTypeOK, Runners
  <2>4. HorizonTypeOK'
    BY <1>2, <2>1, <2>2 DEF HorizonTypeOK
  <2> QED BY <1>2, <1>3, <1>4, <2>1, <2>3, <2>4, RunnerMoves DEF AdoptedWhenAcked
<1>7. CASE TakePreparedRenewal
  <2>1. /\ call' = NoCall /\ UNCHANGED <<clock, lease, stray, supervisor>>
        /\ call.answer.kind = "renewal" /\ runner.round # "running"
    BY <1>7 DEF TakePreparedRenewal, Heard
  <2>2. CASE PreparationStops(Merged, "cancel_requested")
    <3>1. "cancel_requested" \in Reasons \cup {"none"}
      BY DEF Reasons
    <3> QED BY <1>4, <2>1, <2>2, <3>1, PreparationStopsKeeps
  <2>3. CASE UNCHANGED <<journal, session>>
               /\ (runner' = [runner EXCEPT !.round = "final", !.expiresAt = Merged]
                   \/ runner' = [runner EXCEPT !.pc = "commit", !.expiresAt = Merged])
    <3>1. runner' \in Runners
      BY <1>4, <2>1, <2>3 DEF HorizonTypeOK, Runners, Rounds
    <3>2. /\ runner'.expiresAt = Merged
          /\ runner'.pc = "commit" \/ (runner'.pc = "renewing" /\ runner'.round = "final")
      BY <1>1, <2>3 DEF HorizonTypeOK, Runners
    <3>3. HorizonTypeOK'
      BY <1>2, <2>1, <2>3, <3>1 DEF HorizonTypeOK
    <3> QED BY <1>2, <1>4, <2>1, <2>3, <3>2, <3>3, RunnerMoves DEF AdoptedWhenAcked
  <2>4. CASE /\ runner' = [Propagates(Merged, FALSE) EXCEPT !.expiresAt = Merged]
             /\ session' = Opened(supervisor.phase) /\ journal' = journal
    <3>1. Propagates(Merged, FALSE) \in Runners
      BY <1>4, <2>1, RecordsTyped
    <3>2. runner' \in Runners
      BY <1>4, <2>1, <2>4, <3>1 DEF Runners
    <3>3. runner'.pc = "propagate" /\ runner'.next = Merged
      BY <2>4 DEF Propagates, HorizonTypeOK, Runners
    <3>4. runner'.expiresAt = Merged
      BY <2>4, <3>1 DEF Runners
    <3>5. session' \in Links /\ session'.frames = <<>> /\ session'.acks = <<>>
      BY <2>4, RecordsTyped
    <3>6. HorizonTypeOK'
      BY <1>2, <2>1, <2>4, <3>2, <3>5 DEF HorizonTypeOK
    <3> QED BY <1>2, <1>4, <2>1, <2>4, <3>3, <3>4, <3>5, <3>6, RunnerMoves DEF AdoptedWhenAcked
  <2> QED BY <1>7, <2>2, <2>3, <2>4 DEF TakePreparedRenewal
<1> QED BY <1>5, <1>6, <1>7

LEMMA UnrenewableKeeps == ASSUME HorizonInv, Unrenewable PROVE HorizonInv'
<1>1. "lease_lost" \in Reasons \cup {"none"}
  BY DEF Reasons
<1> QED BY <1>1, StopsKeeps DEF Unrenewable

LEMMA CommitKeeps == ASSUME HorizonInv, CommitTooLate \/ CommitSpawning PROVE HorizonInv'
<1> USE DEF HorizonInv
<1>1. CASE CommitTooLate
  <2>1. /\ runner' = RunnerOff /\ journal' = [journal EXCEPT !.over = TRUE]
        /\ UNCHANGED <<clock, lease, call, stray, session, supervisor>>
    BY <1>1 DEF CommitTooLate, OnlyCaller
  <2>2. runner' \in Runners /\ runner'.pc = "off"
    BY <2>1, RecordsTyped DEF RunnerOff, Comes
  <2>3. journal' \in Journals /\ journal'.claimExpiry = journal.claimExpiry
    BY <2>1 DEF HorizonTypeOK, Journals
  <2>4. HorizonTypeOK'
    BY <2>1, <2>2, <2>3 DEF HorizonTypeOK
  <2> QED BY <2>1, <2>2, <2>3, <2>4, RunnerMoves DEF AdoptedWhenAcked
<1>2. CASE CommitSpawning
  <2>1. /\ journal' = [journal EXCEPT !.supervisor = TRUE]
        /\ supervisor' = Unarmed("waiting_spawn")
        /\ session' = Opened("waiting_spawn")
        /\ runner' = Propagates(runner.expiresAt, FALSE)
        /\ UNCHANGED <<clock, lease, call, stray>> /\ runner.pc = "commit"
    BY <1>2 DEF CommitSpawning
  <2>2. runner' \in Runners
    BY <2>1, RecordsTyped, TimesTyped
  <2>3. /\ runner'.pc = "propagate" /\ runner'.next = runner.expiresAt
        /\ runner'.expiresAt = runner.expiresAt
    BY <2>1 DEF Propagates, HorizonTypeOK, Runners
  <2>4. journal' \in Journals /\ journal'.claimExpiry = journal.claimExpiry
    BY <2>1 DEF HorizonTypeOK, Journals
  <2>5. session' \in Links /\ session'.frames = <<>> /\ session'.acks = <<>>
    BY <2>1, RecordsTyped
  <2>6. /\ supervisor' \in Supervisors /\ supervisor'.phase = "waiting_spawn"
        /\ ~supervisor'.expired /\ ~supervisor'.aborted /\ supervisor'.expiresAt = 0
    BY <2>1 DEF Unarmed, Supervisors
  <2>7. HorizonTypeOK'
    BY <2>1, <2>2, <2>4, <2>5, <2>6 DEF HorizonTypeOK
  <2>8. ExpiriesGranted'
    <3>1. runner.expiresAt <= lease.expiresAt /\ journal.claimExpiry <= lease.expiresAt
          /\ (call.answer.kind = "renewal" => call.answer.expiresAt <= lease.expiresAt)
      BY <2>1 DEF ExpiriesGranted
    <3>2. Len(session'.frames) = 0
      BY <2>5
    <3>3. \A i \in 1..Len(session'.frames) :
            session'.frames[i].kind # "terminate" => session'.frames[i].expiresAt <= lease'.expiresAt
      BY <3>2
    <3>4. UNCHANGED <<call, lease>>
      BY <2>1
    <3> QED BY <2>3, <2>4, <3>1, <3>3, <3>4 DEF ExpiriesGranted
  <2>9. WatchSound'
    BY <2>5, <2>6 DEF WatchSound
  <2>10. AdoptedWhenAcked'
    BY <2>3 DEF AdoptedWhenAcked
  <2> QED BY <2>7, <2>8, <2>9, <2>10
<1> QED BY <1>1, <1>2

(* A frame that is sent carries an expiry the server granted. *)
LEMMA SendsKeeps ==
  ASSUME HorizonInv, NEW f \in Frames,
         f.kind # "terminate" => f.expiresAt <= lease.expiresAt,
         Sends(f), UNCHANGED <<clock, lease, call, stray, journal, supervisor>>,
         runner' \in Runners,
         runner'.pc # "off" => runner'.expiresAt <= lease.expiresAt,
         runner'.pc \in {"propagate", "await_ack"} => runner'.next <= lease.expiresAt,
         AdoptedWhenAcked'
  PROVE  HorizonInv'
<1> USE DEF HorizonInv
<1>1. session.frames \in Seq(Frames) /\ session.acks \in Seq(Int)
  BY DEF HorizonTypeOK, Links
<1>2. session' \in Links /\ session'.frames = Append(session.frames, f) /\ session'.acks = session.acks
  BY <1>1, AppendProperties DEF Sends, HorizonTypeOK, Links
<1>3. HorizonTypeOK'
  BY <1>2 DEF HorizonTypeOK
<1>4. \A i \in 1..Len(session'.frames) :
        session'.frames[i].kind # "terminate" => session'.frames[i].expiresAt <= lease.expiresAt
  <2> SUFFICES ASSUME NEW i \in 1..Len(session'.frames)
               PROVE  session'.frames[i].kind # "terminate" => session'.frames[i].expiresAt <= lease.expiresAt
    OBVIOUS
  <2>1. session'.frames[i] = f \/ (i \in 1..Len(session.frames) /\ session'.frames[i] = session.frames[i])
    BY <1>1, <1>2, AppendProperties
  <2>2. CASE session'.frames[i] = f
    BY <2>2
  <2>3. CASE i \in 1..Len(session.frames) /\ session'.frames[i] = session.frames[i]
    BY <2>3 DEF ExpiriesGranted
  <2> QED BY <2>1, <2>2, <2>3
<1>5. ExpiriesGranted'
  BY <1>4 DEF ExpiriesGranted
<1>6. WatchSound'
  BY <1>2 DEF WatchSound
<1> QED BY <1>3, <1>5, <1>6

LEMMA SendingKeeps ==
  ASSUME HorizonInv, AuthorizeSpawn \/ ExtendLease \/ SendTerminate PROVE HorizonInv'
<1> USE DEF HorizonInv
<1>1. CASE AuthorizeSpawn
  <2> DEFINE f == Frame("authorize_spawn", runner.expiresAt, "none")
  <2>1. /\ Sends(f) /\ runner.pc # "off"
        /\ UNCHANGED <<clock, lease, call, stray, journal, runner, supervisor>>
    BY <1>1 DEF AuthorizeSpawn, Driving
  <2>2. f \in Frames /\ f.expiresAt = runner.expiresAt
    BY TimesTyped DEF Frame, Frames
  <2>3. runner \in Runners
    BY DEF HorizonTypeOK
  <2> HIDE DEF f
  <2> QED BY <2>1, <2>2, <2>3, SendsKeeps DEF ExpiriesGranted, AdoptedWhenAcked
<1>2. CASE ExtendLease
  <2> DEFINE f == Frame("extend_lease", runner.next, "none")
  <2>1. /\ Sends(f) /\ runner.pc = "propagate" /\ runner' = [runner EXCEPT !.pc = "await_ack"]
        /\ UNCHANGED <<clock, lease, call, stray, journal, supervisor>>
    BY <1>2 DEF ExtendLease
  <2>2. f \in Frames /\ f.expiresAt = runner.next
    BY TimesTyped DEF Frame, Frames
  <2>3. /\ runner' \in Runners /\ runner'.pc = "await_ack"
        /\ runner'.expiresAt = runner.expiresAt /\ runner'.next = runner.next
    BY <2>1 DEF HorizonTypeOK, Runners
  <2> HIDE DEF f
  <2> QED BY <2>1, <2>2, <2>3, SendsKeeps DEF ExpiriesGranted, AdoptedWhenAcked
<1>3. CASE SendTerminate
  <2> DEFINE f == Frame("terminate", 0, runner.stop)
  <2>1. /\ Sends(f) /\ runner.pc = "stopping" /\ runner' = [runner EXCEPT !.pc = "stopped"]
        /\ UNCHANGED <<clock, lease, call, stray, journal, supervisor>>
    BY <1>3 DEF SendTerminate
  <2>2. f \in Frames /\ f.kind = "terminate"
    BY DEF Frame, Frames, HorizonTypeOK, Runners
  <2>3. runner' \in Runners /\ runner'.pc = "stopped" /\ runner'.expiresAt = runner.expiresAt
    BY <2>1 DEF HorizonTypeOK, Runners
  <2> HIDE DEF f
  <2> QED BY <2>1, <2>2, <2>3, SendsKeeps DEF ExpiriesGranted, AdoptedWhenAcked
<1> QED BY <1>1, <1>2, <1>3

LEMMA DrivingKeeps ==
  ASSUME HorizonInv, RecordStarted \/ PropagationOutlasted \/ Wake PROVE HorizonInv'
<1> USE DEF HorizonInv
<1>1. CASE RecordStarted
  <2>1. journal' \in Journals /\ journal'.claimExpiry = journal.claimExpiry
    BY <1>1 DEF RecordStarted, HorizonTypeOK, Journals
  <2>2. HorizonTypeOK'
    BY <1>1, <2>1 DEF RecordStarted, HorizonTypeOK
  <2> QED BY <1>1, <2>1, <2>2, RunnerMoves DEF RecordStarted, AdoptedWhenAcked, ExpiriesGranted
<1>2. CASE PropagationOutlasted
  <2>1. /\ runner' = Stopping("lease_lost") /\ runner.pc # "off"
        /\ UNCHANGED <<clock, lease, call, stray, journal, session, supervisor>>
    BY <1>2 DEF PropagationOutlasted
  <2>2. runner' \in Runners /\ runner'.pc = "stopping" /\ runner'.expiresAt = runner.expiresAt
    BY <2>1, RecordsTyped DEF Stopping, HorizonTypeOK, Runners, Reasons
  <2>3. HorizonTypeOK'
    BY <2>1, <2>2 DEF HorizonTypeOK
  <2> QED BY <2>1, <2>2, <2>3, RunnerMoves DEF AdoptedWhenAcked, ExpiriesGranted
<1>3. CASE Wake
  <2>1. /\ runner' = [runner EXCEPT !.pc = "renewing", !.round = "running"] /\ runner.pc = "wait"
        /\ UNCHANGED <<clock, lease, call, stray, journal, session, supervisor>>
    BY <1>3 DEF Wake
  <2>2. runner' \in Runners /\ runner'.pc = "renewing" /\ runner'.expiresAt = runner.expiresAt
    BY <2>1 DEF HorizonTypeOK, Runners, Rounds
  <2>3. HorizonTypeOK'
    BY <2>1, <2>2 DEF HorizonTypeOK
  <2> QED BY <2>1, <2>2, <2>3, RunnerMoves DEF AdoptedWhenAcked, ExpiriesGranted
<1> QED BY <1>1, <1>2, <1>3

LEMMA AcknowledgedKeeps == ASSUME HorizonInv, LeaseAcknowledged PROVE HorizonInv'
<1> USE DEF HorizonInv
<1>1. /\ runner.pc = "await_ack" /\ session.acks # <<>> /\ Head(session.acks) = runner.next
      /\ session' = [session EXCEPT !.acks = Tail(@)]
      /\ UNCHANGED <<clock, lease, call, stray, journal, supervisor>>
  BY DEF LeaseAcknowledged
<1>2. session.acks \in Seq(Int) /\ Tail(session.acks) \in Seq(Int)
      /\ Len(session.acks) >= 1 /\ Head(session.acks) = session.acks[1]
      /\ Len(Tail(session.acks)) = Len(session.acks) - 1
      /\ \A i \in 1..Len(Tail(session.acks)) : Tail(session.acks)[i] = session.acks[i + 1]
  BY <1>1, HeadTailProperties DEF HorizonTypeOK, Links
<1>3. session' \in Links /\ session'.frames = session.frames /\ session'.acks = Tail(session.acks)
  BY <1>1, <1>2 DEF HorizonTypeOK, Links
<1>4. /\ runner.next <= supervisor.expiresAt
      /\ \A i \in 1..Len(session'.acks) : session'.acks[i] <= supervisor.expiresAt
  <2>1. \A i \in 1..Len(session.acks) : session.acks[i] <= supervisor.expiresAt
    BY DEF WatchSound
  <2>2. 1 \in 1..Len(session.acks)
        /\ \A i \in 1..Len(Tail(session.acks)) : i + 1 \in 1..Len(session.acks)
    BY <1>2
  <2> QED BY <1>1, <1>2, <1>3, <2>1, <2>2
<1>5. runner.next <= lease.expiresAt /\ runner.next \in Int
  BY <1>1, TimesTyped DEF ExpiriesGranted
<1>6. runner' \in Runners /\ runner'.pc \in {"stopping", "wait"} /\ runner'.expiresAt = runner.next
  <2>1. CASE runner.cancel
    <3>1. runner' = [Stopping("cancel_requested") EXCEPT !.expiresAt = runner.next]
      BY <2>1 DEF LeaseAcknowledged
    <3>2. Stopping("cancel_requested") \in Runners /\ Stopping("cancel_requested").pc = "stopping"
      BY RecordsTyped DEF Reasons, Stopping, HorizonTypeOK, Runners
    <3> QED BY <1>5, <3>1, <3>2 DEF Runners
  <2>2. CASE ~runner.cancel
    <3>1. runner' = Waits(runner.next)
      BY <2>2 DEF LeaseAcknowledged
    <3>2. Waits(runner.next).pc = "wait" /\ Waits(runner.next).expiresAt = runner.next
      BY DEF Waits, HorizonTypeOK, Runners
    <3> QED BY <1>5, <3>1, <3>2, RecordsTyped
  <2> QED BY <2>1, <2>2
<1>7. HorizonTypeOK'
  BY <1>1, <1>3, <1>6 DEF HorizonTypeOK
<1>8. ExpiriesGranted'
  BY <1>1, <1>3, <1>5, <1>6 DEF ExpiriesGranted
<1>9. WatchSound' /\ AdoptedWhenAcked'
  BY <1>1, <1>4, <1>6 DEF WatchSound, AdoptedWhenAcked
<1> QED BY <1>7, <1>8, <1>9

LEMMA LeavingKeeps ==
  ASSUME HorizonInv, RunnerEnds \/ RecordResult \/ SessionLost \/ RefuseExtension
  PROVE  HorizonInv'
BY LeavesKeeps DEF RunnerEnds, RecordResult, SessionLost, RefuseExtension

(* A step of the supervisor: it takes a frame or none, answers none, and    *)
(* its expiry never goes back.                                              *)
LEMMA SupervisorMoves ==
  ASSUME HorizonInv, supervisor' \in Supervisors, UNCHANGED <<clock, lease, call, stray, journal, runner>>,
         session' = session \/ (session.frames # <<>> /\ Handled),
         supervisor'.expiresAt >= supervisor.expiresAt,
         supervisor'.phase \in {"none", "waiting_spawn"} =>
           ~supervisor'.expired /\ ~supervisor'.aborted /\ supervisor'.expiresAt = 0,
         supervisor'.phase = "live" => supervisor'.expiresAt <= lease.expiresAt,
         supervisor'.phase = "live" /\ ~supervisor'.aborted =>
           ~supervisor'.expired /\ clock <= supervisor'.timer /\ supervisor'.timer = supervisor'.expiresAt
  PROVE  HorizonInv'
<1> USE DEF HorizonInv
<1>1. session.frames \in Seq(Frames) /\ session.acks \in Seq(Int)
  BY DEF HorizonTypeOK, Links
<1>2. /\ session' \in Links /\ session'.acks = session.acks
      /\ \A i \in 1..Len(session'.frames) :
           \E j \in 1..Len(session.frames) : session'.frames[i] = session.frames[j]
  <2>1. CASE session' = session
    BY <2>1 DEF HorizonTypeOK
  <2>2. CASE session.frames # <<>> /\ Handled
    <3>1. /\ Tail(session.frames) \in Seq(Frames) /\ Len(Tail(session.frames)) = Len(session.frames) - 1
          /\ \A i \in 1..Len(Tail(session.frames)) : Tail(session.frames)[i] = session.frames[i + 1]
      BY <1>1, <2>2, HeadTailProperties
    <3>2. session' = [session EXCEPT !.frames = Tail(@)]
      BY <2>2 DEF Handled
    <3>3. session' \in Links /\ session'.acks = session.acks /\ session'.frames = Tail(session.frames)
      BY <3>1, <3>2 DEF HorizonTypeOK, Links
    <3>4. \A i \in 1..Len(Tail(session.frames)) : i + 1 \in 1..Len(session.frames)
      BY <1>1, <3>1
    <3> QED BY <3>1, <3>3, <3>4
  <2> QED BY <2>1, <2>2
<1>3. HorizonTypeOK'
  BY <1>2 DEF HorizonTypeOK
<1>4. ExpiriesGranted'
  <2>1. \A i \in 1..Len(session'.frames) :
          session'.frames[i].kind # "terminate" => session'.frames[i].expiresAt <= lease.expiresAt
    BY <1>2 DEF ExpiriesGranted
  <2> QED BY <2>1 DEF ExpiriesGranted
<1>5. supervisor.expiresAt \in Int /\ supervisor'.expiresAt \in Int /\ runner.expiresAt \in Int
  BY TimesTyped DEF Supervisors
<1>6. WatchSound'
  <2>1. \A i \in 1..Len(session'.acks) : session'.acks[i] <= supervisor'.expiresAt
    BY <1>1, <1>2, <1>5 DEF WatchSound
  <2> QED BY <2>1 DEF WatchSound
<1>7. AdoptedWhenAcked'
  BY <1>5 DEF AdoptedWhenAcked
<1> QED BY <1>3, <1>4, <1>6, <1>7

(* What is at the head of the frames, unless it tells to stop, carries an   *)
(* expiry the server granted.                                               *)
LEMMA AskedGranted ==
  ASSUME HorizonInv, session.frames # <<>>
  PROVE  Asked \in Frames /\ (Asked.kind # "terminate" => Asked.expiresAt <= lease.expiresAt)
<1>1. session.frames \in Seq(Frames)
  BY DEF HorizonInv, HorizonTypeOK, Links
<1>2. 1 \in 1..Len(session.frames) /\ Asked = session.frames[1] /\ Asked \in Frames
  BY <1>1, HeadTailProperties DEF Asked
<1> QED BY <1>2 DEF HorizonInv, ExpiriesGranted

LEMMA FirstReasonTyped ==
  ASSUME supervisor \in Supervisors, NEW r \in Reasons \cup {"none"}
  PROVE  LET s == FirstReason(supervisor, r) IN
         /\ s \in Supervisors /\ s.phase = supervisor.phase /\ s.expiresAt = supervisor.expiresAt
         /\ s.timer = supervisor.timer /\ s.expired = supervisor.expired
         /\ s.aborted = supervisor.aborted
BY DEF FirstReason, Supervisors

LEMMA TakeSpawnKeeps == ASSUME HorizonInv, TakeSpawn PROVE HorizonInv'
<1> USE DEF HorizonInv
<1>1. /\ session.frames # <<>> /\ Asked.kind = "authorize_spawn" /\ supervisor.phase = "waiting_spawn"
      /\ Handled /\ UNCHANGED <<clock, lease, call, stray, journal, runner>>
  BY DEF TakeSpawn, Receives, Asked, OnlySupervisor
<1>2. Asked \in Frames /\ Asked.expiresAt <= lease.expiresAt
  BY <1>1, AskedGranted
<1>3. Asked.expiresAt \in Int
  BY <1>2 DEF Frames
<1>4. supervisor \in Supervisors /\ clock \in Nat
  BY DEF HorizonTypeOK
<1>5. ~supervisor.expired /\ ~supervisor.aborted /\ supervisor.expiresAt = 0
  BY <1>1 DEF WatchSound
<1>6. CASE Asked.expiresAt <= clock
  <2> DEFINE s == FirstReason(supervisor, "lease_lost")
  <2>1. supervisor' = [s EXCEPT !.phase = "terminal"]
    BY <1>6 DEF TakeSpawn
  <2>2. s \in Supervisors /\ s.expiresAt = supervisor.expiresAt
    BY <1>4, FirstReasonTyped DEF Reasons
  <2> HIDE DEF s
  <2>3. supervisor' \in Supervisors /\ supervisor'.phase = "terminal"
        /\ supervisor'.expiresAt = supervisor.expiresAt
    BY <2>1, <2>2 DEF Supervisors
  <2> QED BY <1>1, <1>5, <2>3, SupervisorMoves
<1>7. CASE Asked.expiresAt > clock
  <2> DEFINE s == Armed(supervisor, Asked.expiresAt)
  <2>1. supervisor' = [s EXCEPT !.phase = "live", !.endsAt = clock + Timeout]
    BY <1>3, <1>4, <1>7 DEF TakeSpawn
  <2>2. /\ s \in Supervisors /\ s.expiresAt = Asked.expiresAt /\ s.timer = Asked.expiresAt
        /\ s.expired = supervisor.expired
    BY <1>3, <1>4 DEF Armed, Supervisors
  <2> HIDE DEF s
  <2>3. clock + Timeout \in Int
    BY <1>4
  <2>4. /\ supervisor' \in Supervisors /\ supervisor'.phase = "live"
        /\ supervisor'.expiresAt = Asked.expiresAt /\ supervisor'.timer = Asked.expiresAt
        /\ supervisor'.expired = supervisor.expired
    BY <2>1, <2>2, <2>3 DEF Supervisors
  <2> QED BY <1>1, <1>2, <1>3, <1>4, <1>5, <1>7, <2>4, SupervisorMoves
<1> QED BY <1>3, <1>4, <1>6, <1>7

LEMMA TakeTerminateKeeps == ASSUME HorizonInv, TakeTerminate PROVE HorizonInv'
<1> USE DEF HorizonInv
<1> DEFINE s == FirstReason(supervisor, Asked.reason)
<1>1. /\ session.frames # <<>> /\ Handled /\ UNCHANGED <<clock, lease, call, stray, journal, runner>>
  BY DEF TakeTerminate, Receives, OnlySupervisor
<1>2. Asked.reason \in Reasons \cup {"none"}
  BY <1>1, AskedGranted DEF Frames
<1>3. supervisor \in Supervisors
  BY DEF HorizonTypeOK
<1>4. /\ s \in Supervisors /\ s.phase = supervisor.phase /\ s.expiresAt = supervisor.expiresAt
      /\ s.timer = supervisor.timer /\ s.expired = supervisor.expired /\ s.aborted = supervisor.aborted
  BY <1>2, <1>3, FirstReasonTyped
<1>5. \/ supervisor.phase = "waiting_spawn" /\ supervisor' = [s EXCEPT !.phase = "terminal"]
      \/ supervisor.phase = "live" /\ supervisor' = [s EXCEPT !.aborted = TRUE]
      \/ supervisor' = s
  BY <1>4 DEF TakeTerminate
<1> HIDE DEF s
<1>6. s.expiresAt \in Int
  BY <1>4 DEF Supervisors
<1>7. CASE supervisor.phase = "waiting_spawn" /\ supervisor' = [s EXCEPT !.phase = "terminal"]
  <2>1. supervisor' \in Supervisors /\ supervisor'.phase = "terminal"
        /\ supervisor'.expiresAt = supervisor.expiresAt
    BY <1>4, <1>7 DEF Supervisors
  <2> QED BY <1>1, <1>4, <1>6, <2>1, SupervisorMoves
<1>8. CASE supervisor.phase = "live" /\ supervisor' = [s EXCEPT !.aborted = TRUE]
  <2>1. /\ supervisor' \in Supervisors /\ supervisor'.phase = "live" /\ supervisor'.aborted
        /\ supervisor'.expiresAt = supervisor.expiresAt
    BY <1>4, <1>8 DEF Supervisors
  <2>2. supervisor.expiresAt <= lease.expiresAt
    BY <1>8 DEF WatchSound
  <2> QED BY <1>1, <1>4, <1>6, <2>1, <2>2, SupervisorMoves
<1>9. CASE supervisor' = s
  BY <1>1, <1>4, <1>6, <1>9, SupervisorMoves DEF WatchSound
<1> QED BY <1>5, <1>7, <1>8, <1>9

LEMMA EngineStops == ASSUME HorizonInv, EnforceLeaseHorizon \/ EngineEnds PROVE HorizonInv'
<1> USE DEF HorizonInv
<1>1. /\ session' = session /\ UNCHANGED <<clock, lease, call, stray, journal, runner>>
      /\ supervisor.phase = "live"
  BY DEF EnforceLeaseHorizon, EngineEnds, OnlySupervisor
<1>2. supervisor \in Supervisors /\ supervisor.expiresAt \in Int
  BY DEF HorizonTypeOK, Supervisors
<1>3. CASE EnforceLeaseHorizon
  <2> DEFINE s == FirstReason(supervisor, "lease_lost")
  <2>1. supervisor' = [s EXCEPT !.expired = TRUE, !.aborted = TRUE]
    BY <1>3 DEF EnforceLeaseHorizon
  <2>2. s \in Supervisors /\ s.phase = "live" /\ s.expiresAt = supervisor.expiresAt
    BY <1>1, <1>2, FirstReasonTyped DEF Reasons
  <2> HIDE DEF s
  <2>3. /\ supervisor' \in Supervisors /\ supervisor'.phase = "live" /\ supervisor'.aborted
        /\ supervisor'.expiresAt = supervisor.expiresAt
    BY <2>1, <2>2 DEF Supervisors
  <2>4. supervisor.expiresAt <= lease.expiresAt
    BY <1>1 DEF WatchSound
  <2> QED BY <1>1, <1>2, <2>3, <2>4, SupervisorMoves
<1>4. CASE EngineEnds
  <2>1. supervisor' \in Supervisors /\ supervisor'.phase = "terminal"
        /\ supervisor'.expiresAt = supervisor.expiresAt
    BY <1>2, <1>4 DEF EngineEnds, Supervisors
  <2> QED BY <1>1, <1>2, <2>1, SupervisorMoves
<1> QED BY <1>3, <1>4

LEMMA SupervisorGoneKeeps == ASSUME HorizonInv, SupervisorGone PROVE HorizonInv'
<1> USE DEF HorizonInv
<1>1. supervisor' = [supervisor EXCEPT !.phase = "gone"] /\ UNCHANGED <<clock, lease, journal>>
  BY DEF SupervisorGone
<1>2. CASE session.open
  BY <1>1, <1>2, LeavesKeeps DEF SupervisorGone
<1>3. CASE ~session.open
  <2>1. supervisor' \in Supervisors /\ supervisor'.phase = "gone"
        /\ supervisor'.expiresAt = supervisor.expiresAt /\ supervisor.expiresAt \in Int
    BY <1>1 DEF HorizonTypeOK, Supervisors
  <2>2. UNCHANGED <<call, stray, runner, session>>
    BY <1>3 DEF SupervisorGone
  <2> QED BY <1>1, <2>1, <2>2, SupervisorMoves
<1> QED BY <1>2, <1>3

LEMMA TakeExtensionKeeps == ASSUME HorizonInv, TakeExtension PROVE HorizonInv'
<1> USE DEF HorizonInv
<1> DEFINE e == Asked.expiresAt
<1>1. /\ session.frames # <<>> /\ Asked.kind = "extend_lease" /\ supervisor.phase = "live"
      /\ ~supervisor.expired /\ e > clock /\ e >= supervisor.expiresAt
      /\ supervisor' = Armed(supervisor, e)
      /\ session' = [session EXCEPT !.frames = Tail(@), !.acks = Append(@, e)]
      /\ UNCHANGED <<clock, lease, call, stray, journal, runner>>
  BY DEF TakeExtension, Receives, Asked, Extends, OnlySupervisor
<1>2. Asked \in Frames /\ e <= lease.expiresAt
  BY <1>1, AskedGranted
<1>3. e \in Int
  BY <1>2 DEF Frames
<1> HIDE DEF e
<1>4. session.frames \in Seq(Frames) /\ session.acks \in Seq(Int) /\ clock \in Nat
      /\ supervisor \in Supervisors
  BY DEF HorizonTypeOK, Links
<1>5. /\ supervisor' \in Supervisors /\ supervisor'.phase = "live" /\ supervisor'.expiresAt = e
      /\ supervisor'.timer = e /\ supervisor'.expired = supervisor.expired
  BY <1>1, <1>3, <1>4 DEF Armed, Supervisors
<1>6. /\ Tail(session.frames) \in Seq(Frames) /\ Len(Tail(session.frames)) = Len(session.frames) - 1
      /\ \A i \in 1..Len(Tail(session.frames)) :
           i + 1 \in 1..Len(session.frames) /\ Tail(session.frames)[i] = session.frames[i + 1]
  BY <1>1, <1>4, HeadTailProperties
<1>7. Append(session.acks, e) \in Seq(Int)
      /\ \A i \in 1..Len(Append(session.acks, e)) :
           Append(session.acks, e)[i] = e
             \/ (i \in 1..Len(session.acks) /\ Append(session.acks, e)[i] = session.acks[i])
  BY <1>3, <1>4, AppendProperties
<1>8. /\ session' \in Links /\ session'.frames = Tail(session.frames)
      /\ session'.acks = Append(session.acks, e)
  BY <1>1, <1>6, <1>7 DEF HorizonTypeOK, Links
<1>9. HorizonTypeOK'
  BY <1>1, <1>5, <1>8 DEF HorizonTypeOK
<1>10. ExpiriesGranted'
  <2>1. \A i \in 1..Len(session'.frames) :
          session'.frames[i].kind # "terminate" => session'.frames[i].expiresAt <= lease.expiresAt
    BY <1>6, <1>8 DEF ExpiriesGranted
  <2> QED BY <1>1, <2>1 DEF ExpiriesGranted
<1>11. supervisor.expiresAt \in Int /\ runner.expiresAt \in Int
  BY TimesTyped
<1>12. WatchSound'
  <2>1. \A i \in 1..Len(session.acks) : session.acks[i] <= supervisor.expiresAt /\ session.acks[i] \in Int
    BY <1>4 DEF WatchSound
  <2>2. \A i \in 1..Len(session'.acks) : session'.acks[i] <= e
    <3> SUFFICES ASSUME NEW i \in 1..Len(session'.acks) PROVE session'.acks[i] <= e
      OBVIOUS
    <3>1. CASE session'.acks[i] = e
      BY <1>3, <3>1
    <3>2. CASE i \in 1..Len(session.acks) /\ session'.acks[i] = session.acks[i]
      <4>1. session.acks[i] <= supervisor.expiresAt /\ session.acks[i] \in Int
        BY <2>1, <3>2
      <4>2. supervisor.expiresAt <= e
        BY <1>1, <1>3, <1>11
      <4> QED BY <1>3, <1>11, <3>2, <4>1, <4>2
    <3> QED BY <1>7, <1>8, <3>1, <3>2
  <2>3. supervisor'.phase = "live" /\ supervisor'.expiresAt = e /\ e <= lease'.expiresAt
    BY <1>1, <1>2, <1>5
  <2>4. ~supervisor'.expired /\ clock' <= supervisor'.timer /\ supervisor'.timer = supervisor'.expiresAt
    BY <1>1, <1>3, <1>4, <1>5
  <2>5. \A i \in 1..Len(session'.acks) : session'.acks[i] <= supervisor'.expiresAt
    BY <2>2, <2>3
  <2> QED BY <2>3, <2>4, <2>5 DEF WatchSound
<1>13. AdoptedWhenAcked'
  BY <1>1, <1>3, <1>5, <1>11 DEF AdoptedWhenAcked
<1> QED BY <1>9, <1>10, <1>12, <1>13

LEMMA HorizonSteps == HorizonInv /\ [HorizonNext]_hvars => HorizonInv'
<1> SUFFICES ASSUME HorizonInv, [HorizonNext]_hvars PROVE HorizonInv'
  OBVIOUS
<1>1. CASE ServerNext
  BY <1>1, ServerKeeps
<1>2. CASE LoopNext
  BY <1>2, LeavingKeeps, PrepareKeeps, RenewingKeeps, UnrenewableKeeps, AnsweredKeeps, CommitKeeps
     DEF LoopNext
<1>3. CASE DriveNext
  BY <1>3, SendingKeeps, DrivingKeeps, AcknowledgedKeeps, LeavingKeeps DEF DriveNext
<1>4. CASE SupervisorNext
  BY <1>4, TakeSpawnKeeps, TakeExtensionKeeps, LeavingKeeps, TakeTerminateKeeps, EngineStops,
     SupervisorGoneKeeps DEF SupervisorNext
<1>5. CASE Tick
  BY <1>5, TickKeeps
<1>6. CASE UNCHANGED hvars
  BY <1>6 DEF hvars, HorizonInv, HorizonTypeOK, ExpiriesGranted, WatchSound, AdoptedWhenAcked
<1> QED BY <1>1, <1>2, <1>3, <1>4, <1>5, <1>6 DEF HorizonNext

(* What carries the authority of a lease down to the timer of the engine.   *)
THEOREM HorizonInvariant == HorizonSpec => []HorizonInv
BY HorizonStarts, HorizonSteps, PTL DEF HorizonSpec

(* Type correctness, for every choice of times.                             *)
THEOREM HorizonTyped == HorizonSpec => []HorizonTypeOK
<1>1. HorizonInv => HorizonTypeOK
  BY DEF HorizonInv
<1> QED BY <1>1, HorizonInvariant, PTL

(* An engine that was not told to stop has a timer ahead of it that the     *)
(* server's grants cover, and the runner holds no expiry its supervisor has *)
(* not acknowledged: for every lifetime of a lease, interval, window,       *)
(* reserve, timeout and deadline, and every skew of the server's clock.     *)
THEOREM AuthorityHeld == HorizonSpec => []LeaseAuthority
<1>1. HorizonInv => LeaseAuthority
  BY DEF HorizonInv, WatchSound, LeaseAuthority, HorizonKept
<1> QED BY <1>1, HorizonInvariant, PTL

=============================================================================
