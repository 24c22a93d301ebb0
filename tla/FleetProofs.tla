--------------------------- MODULE FleetProofs ----------------------------
(***************************************************************************)
(* How runners come to be known, stay known and are admitted: for every    *)
(* set of directories, tokens and requests, of reports, and of editors.    *)
(***************************************************************************)
EXTENDS Enrollment, RunnerReports, AdmissionPolicy, FiniteSetTheorems, TLAPS

(* Enrollment. The keys the control plane knows or may come to know by a    *)
(* request under way are in the directory they were made in, or in the      *)
(* hands of a command there (KeyKnown, CliSound). A beat's nonce is there,  *)
(* or has been cleaned up when the beat is too old to be let in (SeenSound).*)

CallKinds == {"none", "enroll", "withdraw", "revoke", "beat"}
CallSteps == {"none", "sent", "read", "head", "commit", "after", "again"}
CallRecords == [kind : CallKinds, step : CallSteps,
                token : Tokens \cup {Nobody}, key : KeyPairs \cup {Nobody}, beat : Beats \cup {Nobody},
                from : Enrollers \cup Dirs \cup {Nobody}, now : Nat, head : Nat, tries : 0..EnrollRetries]

(* A request is of the kind its step belongs to, and names what it is about.*)
CallSound(x) ==
  /\ x.step = "none" <=> x.kind = "none"
  /\ x.step = "none" => x = IdleCall
  /\ x.kind = "enroll" => x.token \in Tokens /\ x.key \in KeyPairs /\ x.from \notin Dirs /\ x.step # "again"
  /\ x.kind = "withdraw" => x.token \in Tokens /\ x.from = Nobody
  /\ x.kind = "revoke" => x.token \in Tokens /\ x.key \in KeyPairs /\ x.from = Nobody
  /\ x.kind = "beat" => x.beat \in Beats /\ x.from \notin Enrollers
CallsSound == \A c \in Calls : CallSound(calls[c])

(* The key in the directory of a command.                                   *)
KeyOf(e) == dirs[cli[e].dir].key
Past(e) == cli[e].at \notin {"idle", "start"}
CliSound(e) ==
  /\ cli[e].at = "idle" => cli[e] = IdleCli
  /\ cli[e].at # "idle" => cli[e].dir \in Dirs /\ cli[e].token \in Tokens
  /\ Past(e) => /\ dirs[cli[e].dir].lock
                /\ \A x \in Enrollers : Past(x) /\ cli[x].dir = cli[e].dir => x = e
  /\ cli[e].at \in {"keyed", "waiting", "open", "accepted", "rejected"} =>
       KeyOf(e) # Nobody /\ dirs[cli[e].dir].whole
  /\ cli[e].at = "writing" => KeyOf(e) # Nobody /\ ~dirs[cli[e].dir].whole
  /\ cli[e].created => cli[e].at \in {"keyed", "waiting", "open", "accepted", "rejected", "leaving"}
  /\ \A c \in Calls : calls[c].from = e =>
       /\ calls[c].kind = "enroll" /\ cli[e].at = "waiting"
       /\ calls[c].token = cli[e].token /\ calls[c].key = KeyOf(e)
       /\ \A b \in Calls : calls[b].from = e => b = c
ClisSound == \A e \in Enrollers : CliSound(e)

DirSound(d) == /\ dirs[d].key # Nobody => dirs[d].key[1] = d
               /\ dirs[d].whole => dirs[d].key # Nobody
DirsSound == \A d \in Dirs : DirSound(d)

(* The keys that the control plane knows, or a request may make known.      *)
Enrolling(c, key) == calls[c].kind = "enroll" /\ calls[c].key = key
Enrolled(key) == \E r \in RunnerIds : r[2] = key /\ fleet[r].status # "none"
KeyKnown(key) == Enrolled(key) \/ \E c \in Calls : Enrolling(c, key)
KeySafe(key) == dirs[key[1]].key = key /\ dirs[key[1]].whole
KeysSafe == \A key \in KeyPairs : KeyKnown(key) => KeySafe(key)

(* A key that a command has made itself is enrolled by its request alone.   *)
MadeSound(e) ==
  cli[e].created =>
    /\ cli[e].at \in {"keyed", "rejected"} => ~KeyKnown(KeyOf(e))
    /\ cli[e].at = "waiting" =>
         \A c \in Calls : Enrolling(c, KeyOf(e)) =>
           /\ calls[c].from = e
           /\ calls[c].step # "after" => ~Enrolled(KeyOf(e))
           /\ \A r \in RunnerIds : r[2] = KeyOf(e) /\ fleet[r].status # "none" => r = RunnerOf(c)
MadesSound == \A e \in Enrollers : MadeSound(e)

BeatSound(n) ==
  /\ beats[n].runner = Nobody => beats[n].counted = 0
  /\ beats[n].counted <= 1
  /\ beats[n].counted = 0 => beats[n].until = 0
  /\ beats[n].counted = 1 =>
       /\ beats[n].at <= tick /\ beats[n].signed <= beats[n].at + SkewFuture
       /\ fleet[beats[n].runner].status # "none"
       /\ beats[n].until = beats[n].at + BeatTtl \/ (beats[n].until = 0 /\ beats[n].at + BeatTtl <= tick)
BeatsSound == \A n \in Beats : BeatSound(n)

(* What a request was admitted by is not older than it may last.            *)
CallTimely(x) ==
  /\ x.step \notin {"none", "sent"} => x.now <= tick /\ tick <= x.now + LongestCall
  /\ x.kind = "beat" => beats[x.beat].runner # Nobody
  /\ x.kind = "beat" /\ x.step # "sent" => InSkew(beats[x.beat].signed, x.now)
CallsTimely == \A c \in Calls : CallTimely(calls[c])

Times(r) == {beats[n].at : n \in {x \in Beats : beats[x].runner = r /\ beats[x].counted > 0}}
SeenSound ==
  \A r \in RunnerIds :
    IF Times(r) = {} THEN fleet[r].seen = 0
    ELSE fleet[r].seen \in Times(r) /\ \A moment \in Times(r) : moment <= fleet[r].seen

EnrollInv ==
  /\ EnrollmentTypeOK /\ CallsSound /\ ClisSound /\ DirsSound /\ KeysSafe /\ MadesSound
  /\ EnteredOnce /\ BeatsSound /\ CallsTimely /\ SeenSound

-----------------------------------------------------------------------------
(* What a handler does to its request, to the rows and to whoever waits.    *)

Carries(p, x) == x.kind = p.kind /\ x.token = p.token /\ x.key = p.key /\ x.beat = p.beat /\ x.from = p.from
CallMoves(c) ==
  \E x \in CallRecords :
    LET p == calls[c] IN
    /\ calls' = [calls EXCEPT ![c] = x]
    /\ CallSound(x) /\ Carries(p, x) /\ x.step \notin {"none", "sent"}
    /\ x.kind = "enroll" => p.step # "after" /\ (x.step = "after" => p.step = "commit")
    /\ IF p.step = "sent" THEN x.now = tick /\ (p.kind = "beat" => InSkew(BeatOf(c).signed, tick)) ELSE x.now = p.now
    /\ UNCHANGED machine
Replies == {"open", "accepted", "rejected"}
Admits(c) ==
  /\ calls[c].kind = "enroll" /\ calls[c].step = "commit" /\ OpenTo(c) /\ ~Collides(c) /\ Numbered(c) /\ Enroll(c)
  /\ calls'[c].step \in {"after", "none"}
CallEnds(c) ==
  \E reply \in Replies :
    /\ Answer(c, reply)
    /\ reply = "rejected" /\ calls[c].kind = "enroll" =>
         /\ UNCHANGED registryRows
         /\ calls[c].step = "after" => tokens[calls[c].token].runner # RunnerOf(c)
Withdraws(c) ==
  LET t == calls[c].token IN
  /\ calls[c].kind = "withdraw" /\ ~tokens[t].revoked /\ tokens[t].runner = Nobody /\ HeadCurrent(c)
  /\ tokens' = [tokens EXCEPT ![t].revoked = TRUE] /\ Entered(calls[c].head, <<"withdrawn", t>>)
  /\ UNCHANGED fleet
Expels(c) ==
  LET r == RunnerOf(c) IN
  /\ calls[c].kind = "revoke" /\ Active(r) /\ HeadCurrent(c)
  /\ fleet' = [fleet EXCEPT ![r].status = "revoked"] /\ Entered(calls[c].head, <<"revoked", r>>)
  /\ UNCHANGED tokens
Counts(c) ==
  LET n == calls[c].beat
      r == beats[n].runner
      now == calls[c].now
      rows == [beats EXCEPT ![n].until = now + BeatTtl, ![n].counted = @ + 1, ![n].at = now] IN
  /\ At(c, "beat", "commit") /\ Active(r) /\ beats[n].until = 0
  /\ fleet' = IF fleet[r].seen < now THEN [fleet EXCEPT ![r].seen = now] ELSE fleet
  /\ beats' \in {rows, Cleaned(rows, now)}
  /\ UNCHANGED <<tokens, chain>>
RowsMove(c) ==
  \/ UNCHANGED <<registryRows, beats>>
  \/ (Admits(c) \/ Withdraws(c) \/ Expels(c)) /\ UNCHANGED beats
  \/ Counts(c)
Handled(c) == calls[c].step # "none" /\ (CallMoves(c) \/ CallEnds(c)) /\ RowsMove(c)

-----------------------------------------------------------------------------

LEMMA NobodyIsNobody ==
  /\ Nobody \notin Tokens /\ Nobody \notin Dirs /\ Nobody \notin Enrollers /\ Nobody \notin Beats
  /\ Nobody \notin KeyPairs /\ Nobody \notin RunnerIds /\ Enrollers \cap Dirs = {}
  BY EnrollmentAssumption

LEMMA EnrollNumbers ==
  /\ MaxKeys \in Nat \ {0} /\ TokenTtl \in Nat /\ EnrollRetries \in Nat \ {0} /\ SkewPast \in Nat /\ SkewFuture \in Nat
  /\ LongestCall \in Nat /\ LastTick \in Nat /\ BeatTtl \in Nat /\ BeatTtl > SkewPast + SkewFuture + LongestCall
  BY EnrollmentAssumption

LEMMA EnrollFacts ==
  ASSUME EnrollInv
  PROVE  /\ tokens \in [Tokens -> [issued : BOOLEAN, expires : Nat, revoked : BOOLEAN, runner : RunnerIds \cup {Nobody}]]
         /\ fleet \in [RunnerIds -> [status : {"none", "active", "revoked"}, seen : Nat]]
         /\ chain \in [head : Nat, entries : [EntriesOfTokens \cup EntriesOfRunners -> Nat]]
         /\ calls \in [Calls -> CallRecords]
         /\ beats \in [Beats -> [runner : RunnerIds \cup {Nobody}, signed : Nat, until : Nat, counted : Nat, at : Nat]]
         /\ dirs \in [Dirs -> [key : KeyPairs \cup {Nobody}, whole : BOOLEAN, made : 0..MaxKeys,
                                config : RunnerIds \cup {Nobody}, lock : BOOLEAN, loop : {"on", "waiting", "off"}]]
         /\ cli \in [Enrollers -> [at : {"idle", "start", "locked", "writing", "keyed", "waiting", "open", "accepted",
                                          "rejected", "leaving"},
                                    dir : Dirs \cup {Nobody}, token : Tokens \cup {Nobody}, created : BOOLEAN]]
         /\ \A c \in Calls : CallSound(calls[c]) /\ CallTimely(calls[c])
         /\ \A e \in Enrollers : CliSound(e)
  BY DEF EnrollInv, EnrollmentTypeOK, CallRecords, CallKinds, CallSteps, CallsSound, CallsTimely, ClisSound

(* The parts of the invariant that only read the clock and the rows.        *)
LEMMA RunnerOfCall ==
  ASSUME EnrollInv, NEW c \in Calls, calls[c].kind \in {"enroll", "revoke"}
  PROVE  /\ RunnerOf(c) \in RunnerIds /\ RunnerOf(c) = <<calls[c].token, calls[c].key>>
         /\ RunnerOf(c)[1] = calls[c].token /\ RunnerOf(c)[2] = calls[c].key
         /\ calls[c].token \in Tokens /\ calls[c].key \in KeyPairs
  BY EnrollFacts DEF RunnerOf, CallSound, RunnerIds

-----------------------------------------------------------------------------
(* Every handler has such an effect.                                        *)

(* A request that goes on with its clock and everything it carries.         *)
LEMMA CallGoesOn ==
  ASSUME EnrollInv, NEW c \in Calls, calls[c].step \notin {"none", "sent"}, NEW x \in CallRecords,
         calls' = [calls EXCEPT ![c] = x], Carries(calls[c], x), x.now = calls[c].now, x.step \notin {"none", "sent"},
         x.kind = "enroll" => calls[c].step # "after" /\ x.step # "again" /\ (x.step = "after" => calls[c].step = "commit"),
         UNCHANGED machine
  PROVE  CallMoves(c)
<1>1. CallSound(calls[c]) /\ calls[c].kind # "none"
  BY EnrollFacts DEF CallSound
<1>2. CallSound(x)
  BY <1>1 DEF CallSound, Carries
<1> QED
  BY <1>2 DEF CallMoves

LEMMA MovesOn ==
  ASSUME EnrollInv, NEW c \in Calls, calls[c].step \notin {"none", "sent"}, NEW step \in CallSteps \ {"none", "sent"},
         Moves(c, step) \/ (\E n \in Nat : calls' = [calls EXCEPT ![c].step = step, ![c].head = n])
           \/ (\E n \in 0..EnrollRetries : calls' = [calls EXCEPT ![c].step = step, ![c].tries = n]),
         calls[c].kind = "enroll" => calls[c].step # "after" /\ step # "again" /\ (step = "after" => calls[c].step = "commit"),
         UNCHANGED machine
  PROVE  CallMoves(c)
<1>1. calls \in [Calls -> CallRecords] /\ calls[c] \in CallRecords
  BY EnrollFacts
<1> DEFINE p == calls[c]
<1>2. CASE Moves(c, step)
  <2> DEFINE x == [p EXCEPT !.step = step]
  <2>1. x \in CallRecords /\ Carries(p, x) /\ x.now = p.now /\ x.step = step
    BY <1>1 DEF CallRecords, Carries
  <2>2. calls' = [calls EXCEPT ![c] = x]
    BY <1>2 DEF Moves
  <2> HIDE DEF x
  <2> QED
    BY <2>1, <2>2, CallGoesOn DEF Carries
<1>3. ASSUME NEW n \in Nat, calls' = [calls EXCEPT ![c].step = step, ![c].head = n] PROVE CallMoves(c)
  <2> DEFINE x == [p EXCEPT !.step = step, !.head = n]
  <2>1. x \in CallRecords /\ Carries(p, x) /\ x.now = p.now /\ x.step = step
    BY <1>1 DEF CallRecords, Carries
  <2>2. calls' = [calls EXCEPT ![c] = x]
    BY <1>1, <1>3
  <2> HIDE DEF x
  <2> QED
    BY <2>1, <2>2, CallGoesOn DEF Carries
<1>4. ASSUME NEW n \in 0..EnrollRetries, calls' = [calls EXCEPT ![c].step = step, ![c].tries = n] PROVE CallMoves(c)
  <2> DEFINE x == [p EXCEPT !.step = step, !.tries = n]
  <2>1. x \in CallRecords /\ Carries(p, x) /\ x.now = p.now /\ x.step = step
    BY <1>1 DEF CallRecords, Carries
  <2>2. calls' = [calls EXCEPT ![c] = x]
    BY <1>1, <1>4
  <2> HIDE DEF x
  <2> QED
    BY <2>1, <2>2, CallGoesOn DEF Carries
<1> QED
  BY <1>2, <1>3, <1>4

LEMMA AgainMoves ==
  ASSUME EnrollInv, NEW c \in Calls, calls[c].step = "commit", NEW step \in {"read", "head"}, AgainAt(c, step)
  PROVE  CallMoves(c) \/ Answer(c, "open")
<1>1. CASE calls[c].tries + 1 < EnrollRetries
  <2>1. calls' = [calls EXCEPT ![c].step = step, ![c].tries = @ + 1] /\ UNCHANGED machine
    BY <1>1 DEF AgainAt
  <2>2. calls[c].tries \in 0..EnrollRetries /\ EnrollRetries \in Nat /\ calls \in [Calls -> CallRecords]
    BY EnrollFacts, EnrollNumbers DEF CallRecords
  <2>3. calls[c].tries + 1 \in 0..EnrollRetries
    BY <1>1, <2>2
  <2>4. \E n \in 0..EnrollRetries : calls' = [calls EXCEPT ![c].step = step, ![c].tries = n]
    BY <2>1, <2>2, <2>3
  <2> QED
    BY <2>1, <2>4, MovesOn DEF CallSteps
<1>2. CASE ~(calls[c].tries + 1 < EnrollRetries)
  BY <1>2 DEF AgainAt
<1> QED
  BY <1>1, <1>2

LEMMA ArrivesMove ==
  ASSUME EnrollInv, NEW c \in Calls, calls[c].step = "sent", NEW step \in {"read", "commit"},
         calls' = [calls EXCEPT ![c].step = step, ![c].now = tick], UNCHANGED machine,
         calls[c].kind = "beat" => InSkew(BeatOf(c).signed, tick)
  PROVE  CallMoves(c)
<1> DEFINE x == [calls[c] EXCEPT !.step = step, !.now = tick]
<1>1. calls \in [Calls -> CallRecords] /\ CallSound(calls[c]) /\ tick \in Nat
  BY EnrollFacts, EnrollNumbers DEF EnrollInv, EnrollmentTypeOK
<1>2. x \in CallRecords /\ Carries(calls[c], x) /\ x.now = tick /\ x.step = step
  BY <1>1 DEF CallRecords, CallSteps, Carries
<1>3. CallSound(x)
  BY <1>1, <1>2 DEF CallSound, Carries
<1>4. calls' = [calls EXCEPT ![c] = x]
  BY <1>1
<1> HIDE DEF x
<1> QED
  BY <1>2, <1>3, <1>4 DEF CallMoves

LEMMA EnrollHandled == ASSUME EnrollInv, NEW c \in Calls, HandleEnroll(c) PROVE Handled(c)
<1>1. CASE ArriveEnroll(c)
  BY <1>1, ArrivesMove DEF ArriveEnroll, At, Handled, CallEnds, Replies, RowsMove
<1>2. CASE ReadToken(c)
  BY <1>2, MovesOn DEF ReadToken, At, Handled, CallEnds, Replies, RowsMove, CallSteps
<1>3. CASE CommitEnroll(c)
  <2>1. calls[c].kind = "enroll" /\ calls[c].step = "commit" /\ UNCHANGED beats
    BY <1>3 DEF CommitEnroll, At
  <2>2. CASE ~OpenTo(c) /\ Moves(c, "after") /\ UNCHANGED <<registryRows, machine>>
    <3>1. CallMoves(c)
      BY <2>1, <2>2, MovesOn DEF CallSteps
    <3> QED
      BY <2>1, <2>2, <3>1 DEF Handled, RowsMove
  <2>3. CASE OpenTo(c) /\ Collides(c) /\ Answer(c, "rejected") /\ UNCHANGED registryRows
    BY <2>1, <2>3 DEF Handled, CallEnds, Replies, RowsMove
  <2>4. CASE OpenTo(c) /\ ~Collides(c) /\ ~Numbered(c) /\ AgainAt(c, "read") /\ UNCHANGED registryRows
    BY <2>1, <2>4, AgainMoves DEF Handled, CallEnds, Replies, RowsMove
  <2>5. CASE OpenTo(c) /\ ~Collides(c) /\ Numbered(c) /\ Enroll(c) /\ Moves(c, "after") /\ UNCHANGED machine
    <3>1. CallMoves(c)
      BY <2>1, <2>5, MovesOn DEF CallSteps
    <3>2. calls'[c].step = "after"
      BY <2>5, EnrollFacts DEF Moves, CallRecords
    <3> QED
      BY <2>1, <2>5, <3>1, <3>2 DEF Handled, RowsMove, Admits
  <2> QED
    BY <1>3, <2>2, <2>3, <2>4, <2>5 DEF CommitEnroll
<1>4. CASE FailEnroll(c)
  <2>1. Answer(c, "open") => calls'[c].step = "none"
    BY EnrollFacts DEF Answer, IdleCall
  <2> QED
    BY <1>4, <2>1 DEF FailEnroll, At, Handled, CallEnds, Replies, RowsMove, Admits
<1>5. CASE AfterEnroll(c)
  BY <1>5 DEF AfterEnroll, At, Handled, CallEnds, Replies, RowsMove
<1> QED
  BY <1>1, <1>2, <1>3, <1>4, <1>5 DEF HandleEnroll

LEMMA OwnerHandled == ASSUME EnrollInv, NEW c \in Calls, HandleOwner(c) PROVE Handled(c)
<1>1. CASE CommitWithdraw(c)
  <2>1. calls[c].kind = "withdraw" /\ calls[c].step = "commit"
    BY <1>1 DEF CommitWithdraw, At
  <2>2. \/ Answer(c, "open") /\ UNCHANGED <<registryRows, beats>>
        \/ AgainAt(c, "head") /\ UNCHANGED <<registryRows, beats>>
        \/ Withdraws(c) /\ Answer(c, "accepted") /\ UNCHANGED beats
    BY <1>1, <2>1 DEF CommitWithdraw, Withdraws
  <2> QED
    BY <2>1, <2>2, AgainMoves DEF Handled, CallEnds, Replies, RowsMove
<1>2. CASE ReadRunner(c)
  BY <1>2, MovesOn DEF ReadRunner, At, Handled, CallEnds, Replies, RowsMove, CallSteps
<1>3. CASE CommitRevoke(c)
  <2>1. calls[c].kind = "revoke" /\ calls[c].step = "commit"
    BY <1>3 DEF CommitRevoke, At
  <2>2. \/ AgainAt(c, "read") /\ UNCHANGED <<registryRows, beats>>
        \/ Expels(c) /\ Answer(c, "accepted") /\ UNCHANGED beats
    BY <1>3, <2>1 DEF CommitRevoke, Expels
  <2> QED
    BY <2>1, <2>2, AgainMoves DEF Handled, CallEnds, Replies, RowsMove
<1> QED
  BY <1>1, <1>2, <1>3 DEF HandleOwner

LEMMA BeatHandled == ASSUME EnrollInv, NEW c \in Calls, HandleBeat(c) PROVE Handled(c)
<1>1. CASE ArriveBeat(c)
  BY <1>1, ArrivesMove DEF ArriveBeat, At, Handled, CallEnds, Replies, RowsMove
<1>2. CASE CommitBeat(c)
  <2>1. calls[c].kind = "beat" /\ calls[c].step = "commit"
    BY <1>2 DEF CommitBeat, At
  <2>2. \/ Answer(c, "rejected") /\ UNCHANGED <<registryRows, beats>>
        \/ Moves(c, "again") /\ UNCHANGED <<registryRows, beats, machine>>
        \/ Counts(c) /\ Answer(c, "accepted")
    BY <1>2, <2>1 DEF CommitBeat, Counts, registryRows
  <2> QED
    BY <2>1, <2>2, MovesOn DEF Handled, CallEnds, Replies, RowsMove, CallSteps
<1>3. CASE AgainBeat(c)
  BY <1>3 DEF AgainBeat, At, Handled, CallEnds, Replies, RowsMove
<1> QED
  BY <1>1, <1>2, <1>3 DEF HandleBeat

LEMMA HeadHandled == ASSUME EnrollInv, NEW c \in Calls, ReadHead(c) PROVE Handled(c)
<1>1. calls[c].step = "head" /\ UNCHANGED <<registryRows, beats, machine>>
  BY DEF ReadHead
<1>2. chain.head \in Nat
  BY EnrollFacts
<1>3. CallMoves(c)
  BY <1>1, <1>2, MovesOn DEF ReadHead, CallSteps
<1> QED
  BY <1>1, <1>3 DEF Handled, RowsMove
-----------------------------------------------------------------------------
(* Such an effect keeps the invariant.                                      *)

LEMMA IdleCallTyped == IdleCall \in CallRecords /\ CallSound(IdleCall)
<1>1. 0 \in 0..EnrollRetries
  BY EnrollNumbers
<1> QED
  BY <1>1 DEF IdleCall, CallRecords, CallKinds, CallSteps, CallSound

CliTypes == [at : {"idle", "start", "locked", "writing", "keyed", "waiting", "open", "accepted", "rejected", "leaving"},
             dir : Dirs \cup {Nobody}, token : Tokens \cup {Nobody}, created : BOOLEAN]
DirTypes == [key : KeyPairs \cup {Nobody}, whole : BOOLEAN, made : 0..MaxKeys,
             config : RunnerIds \cup {Nobody}, lock : BOOLEAN, loop : {"on", "waiting", "off"}]
LEMMA MachineFacts == ASSUME EnrollInv PROVE cli \in [Enrollers -> CliTypes] /\ dirs \in [Dirs -> DirTypes]
  BY EnrollFacts DEF CliTypes, DirTypes

(* What no handler touches in the directories and the commands.             *)
SameDir(x, y) == y.key = x.key /\ y.whole = x.whole /\ y.lock = x.lock
SameCli(x, y) == y.dir = x.dir /\ y.token = x.token /\ y.created = x.created

LEMMA HandledFacts ==
  ASSUME EnrollInv, NEW c \in Calls, Handled(c)
  PROVE  /\ calls' \in [Calls -> CallRecords] /\ CallSound(calls'[c])
         /\ \A b \in Calls : b # c => calls'[b] = calls[b]
         /\ calls'[c] = IdleCall \/ Carries(calls[c], calls'[c])
         /\ tick' = tick
         /\ cli' \in [Enrollers -> CliTypes] /\ dirs' \in [Dirs -> DirTypes]
         /\ \A d \in Dirs : SameDir(dirs[d], dirs'[d])
         /\ \A e \in Enrollers : SameCli(cli[e], cli'[e])
         /\ \A e \in Enrollers : e # calls[c].from \/ calls'[c] # IdleCall => cli'[e] = cli[e]
         /\ calls[c].from \in Enrollers /\ calls'[c] = IdleCall => cli'[calls[c].from].at \in Replies
<1>1. calls \in [Calls -> CallRecords] /\ cli \in [Enrollers -> CliTypes] /\ dirs \in [Dirs -> DirTypes]
  BY EnrollFacts, MachineFacts
<1>2. CASE CallMoves(c)
  <2>1. PICK x \in CallRecords : /\ calls' = [calls EXCEPT ![c] = x] /\ CallSound(x) /\ Carries(calls[c], x)
                                /\ x.step \notin {"none", "sent"} /\ UNCHANGED machine
    BY <1>2 DEF CallMoves
  <2>2. calls' \in [Calls -> CallRecords] /\ calls'[c] = x /\ \A b \in Calls : b # c => calls'[b] = calls[b]
    BY <1>1, <2>1
  <2>3. x # IdleCall
    BY <2>1 DEF IdleCall
  <2>4. cli' = cli /\ dirs' = dirs /\ tick' = tick
    BY <2>1 DEF machine
  <2> QED
    BY <1>1, <2>1, <2>2, <2>3, <2>4 DEF SameDir, SameCli
<1>3. ASSUME NEW reply \in Replies, Answer(c, reply)
      PROVE  /\ calls' \in [Calls -> CallRecords] /\ CallSound(calls'[c]) /\ calls'[c] = IdleCall /\ tick' = tick
             /\ \A b \in Calls : b # c => calls'[b] = calls[b]
             /\ cli' \in [Enrollers -> CliTypes] /\ dirs' \in [Dirs -> DirTypes]
             /\ \A d \in Dirs : SameDir(dirs[d], dirs'[d])
             /\ \A e \in Enrollers : SameCli(cli[e], cli'[e])
             /\ \A e \in Enrollers : e # calls[c].from => cli'[e] = cli[e]
             /\ calls[c].from \in Enrollers => cli'[calls[c].from].at = reply
  <2>1. calls' = [calls EXCEPT ![c] = IdleCall] /\ tick' = tick
    BY <1>3 DEF Answer
  <2>2. calls' \in [Calls -> CallRecords] /\ calls'[c] = IdleCall /\ \A b \in Calls : b # c => calls'[b] = calls[b]
    BY <1>1, <2>1, IdleCallTyped
  <2> DEFINE from == calls[c].from
  <2>3. /\ cli' \in [Enrollers -> CliTypes] /\ \A e \in Enrollers : SameCli(cli[e], cli'[e])
        /\ \A e \in Enrollers : e # from => cli'[e] = cli[e]
        /\ from \in Enrollers => cli'[from].at = reply
    <3>1. CASE from \in Enrollers
      <4>1. cli' = [cli EXCEPT ![from].at = reply]
        BY <1>3, <3>1 DEF Answer
      <4>2. reply \in {"idle", "start", "locked", "writing", "keyed", "waiting", "open", "accepted", "rejected", "leaving"}
        BY DEF Replies
      <4> HIDE DEF from
      <4> QED
        BY <1>1, <3>1, <4>1, <4>2 DEF CliTypes, SameCli
    <3>2. CASE from \notin Enrollers
      BY <1>1, <1>3, <3>2 DEF Answer, SameCli
    <3> QED
      BY <3>1, <3>2
  <2>4. dirs' \in [Dirs -> DirTypes] /\ \A d \in Dirs : SameDir(dirs[d], dirs'[d])
    <3>1. CASE from \in Dirs
      <4>1. PICK loop \in {"on", "off"} : dirs' = [dirs EXCEPT ![from].loop = loop]
        BY <1>3, <3>1 DEF Answer
      <4> HIDE DEF from
      <4> QED
        BY <1>1, <3>1, <4>1 DEF DirTypes, SameDir
    <3>2. CASE from \notin Dirs
      BY <1>1, <1>3, <3>2 DEF Answer, SameDir
    <3> QED
      BY <3>1, <3>2
  <2> QED
    BY <2>1, <2>2, <2>3, <2>4, IdleCallTyped
<1> QED
  BY <1>2, <1>3 DEF Handled, CallEnds

(* The runners that a handler enrolls.                                      *)
LEMMA FleetMoves ==
  ASSUME EnrollInv, NEW c \in Calls, Handled(c)
  PROVE  /\ ~Admits(c) => \A r \in RunnerIds : fleet'[r].status # "none" <=> fleet[r].status # "none"
         /\ Admits(c) => \A r \in RunnerIds :
              fleet'[r].status # "none" <=> (fleet[r].status # "none" \/ r = RunnerOf(c))
<1>1. fleet \in [RunnerIds -> [status : {"none", "active", "revoked"}, seen : Nat]]
  BY EnrollFacts
<1>2. Admits(c) => \A r \in RunnerIds : fleet'[r].status # "none" <=> (fleet[r].status # "none" \/ r = RunnerOf(c))
  <2> SUFFICES ASSUME Admits(c), NEW r \in RunnerIds
               PROVE  fleet'[r].status # "none" <=> (fleet[r].status # "none" \/ r = RunnerOf(c))
    OBVIOUS
  <2>1. fleet' = IF Active(RunnerOf(c)) THEN fleet ELSE [fleet EXCEPT ![RunnerOf(c)] = [NewRunner EXCEPT !.status = "active"]]
    BY DEF Admits, Enroll
  <2> QED
    BY <1>1, <2>1 DEF Active, NewRunner
<1>3. Expels(c) => \A r \in RunnerIds : fleet'[r].status # "none" <=> fleet[r].status # "none"
  <2>1. Expels(c) => fleet[RunnerOf(c)].status = "active" /\ fleet' = [fleet EXCEPT ![RunnerOf(c)].status = "revoked"]
    BY DEF Expels, Active
  <2> QED
    BY <1>1, <2>1
<1>4. Counts(c) => \A r \in RunnerIds : fleet'[r].status = fleet[r].status
  <2>1. Counts(c) => \/ fleet' = fleet
                     \/ fleet' = [fleet EXCEPT ![beats[calls[c].beat].runner].seen = calls[c].now]
    BY DEF Counts
  <2> QED
    BY <1>1, <2>1
<1> QED
  BY <1>2, <1>3, <1>4 DEF Handled, RowsMove, registryRows, Withdraws

LEMMA HandledTyped == ASSUME EnrollInv, NEW c \in Calls, Handled(c) PROVE EnrollmentTypeOK'
<1> USE EnrollNumbers
<1>1. /\ tokens \in [Tokens -> [issued : BOOLEAN, expires : Nat, revoked : BOOLEAN, runner : RunnerIds \cup {Nobody}]]
      /\ fleet \in [RunnerIds -> [status : {"none", "active", "revoked"}, seen : Nat]]
      /\ chain \in [head : Nat, entries : [EntriesOfTokens \cup EntriesOfRunners -> Nat]]
      /\ beats \in [Beats -> [runner : RunnerIds \cup {Nobody}, signed : Nat, until : Nat, counted : Nat, at : Nat]]
      /\ calls[c] \in CallRecords /\ tick \in 0..LastTick
  BY EnrollFacts DEF EnrollInv, EnrollmentTypeOK
<1>2. ASSUME NEW head \in Nat, NEW x \in EntriesOfTokens \cup EntriesOfRunners, Entered(head, x)
      PROVE  chain' \in [head : Nat, entries : [EntriesOfTokens \cup EntriesOfRunners -> Nat]]
  <2>1. chain.entries \in [EntriesOfTokens \cup EntriesOfRunners -> Nat]
    BY <1>1
  <2>2. [chain.entries EXCEPT ![x] = @ + 1] \in [EntriesOfTokens \cup EntriesOfRunners -> Nat]
    BY <2>1
  <2> QED
    BY <1>2, <2>2 DEF Entered
<1>3. calls[c].head \in Nat /\ calls[c].now \in Nat
  BY <1>1 DEF CallRecords
<1>4. CASE Admits(c) /\ UNCHANGED beats
  <2>1. RunnerOf(c) \in RunnerIds /\ calls[c].token \in Tokens
    BY <1>4, RunnerOfCall DEF Admits
  <2>2. tokens' \in [Tokens -> [issued : BOOLEAN, expires : Nat, revoked : BOOLEAN, runner : RunnerIds \cup {Nobody}]]
    <3>1. tokens' = [tokens EXCEPT ![calls[c].token].runner = RunnerOf(c)]
      BY <1>4 DEF Admits, Enroll
    <3> QED
      BY <1>1, <2>1, <3>1
  <2>3. fleet' \in [RunnerIds -> [status : {"none", "active", "revoked"}, seen : Nat]]
    BY <1>1, <1>4 DEF Admits, Enroll, NewRunner
  <2>4. chain' \in [head : Nat, entries : [EntriesOfTokens \cup EntriesOfRunners -> Nat]]
    <3>1. <<"enrolled", RunnerOf(c)>> \in EntriesOfTokens \cup EntriesOfRunners
      BY <2>1 DEF EntriesOfRunners
    <3>2. chain' = chain \/ Entered(calls[c].head, <<"enrolled", RunnerOf(c)>>)
      BY <1>4 DEF Admits, Enroll
    <3> QED
      BY <1>1, <1>2, <1>3, <3>1, <3>2
  <2> QED
    BY <1>1, <1>4, <2>2, <2>3, <2>4, HandledFacts
    DEF EnrollmentTypeOK, CallRecords, CallKinds, CallSteps, CliTypes, DirTypes
<1>5. CASE Withdraws(c) /\ UNCHANGED beats
  <2>1. calls[c].token \in Tokens
    BY <1>5, EnrollFacts DEF Withdraws, CallSound
  <2>2. tokens' \in [Tokens -> [issued : BOOLEAN, expires : Nat, revoked : BOOLEAN, runner : RunnerIds \cup {Nobody}]]
    <3>1. tokens' = [tokens EXCEPT ![calls[c].token].revoked = TRUE]
      BY <1>5 DEF Withdraws
    <3> QED
      BY <1>1, <2>1, <3>1, ZenonT(40)
  <2>3. chain' \in [head : Nat, entries : [EntriesOfTokens \cup EntriesOfRunners -> Nat]]
    <3>1. <<"withdrawn", calls[c].token>> \in EntriesOfTokens \cup EntriesOfRunners
      BY <2>1 DEF EntriesOfTokens
    <3> QED
      BY <1>2, <1>3, <1>5, <3>1 DEF Withdraws
  <2> QED
    BY <1>1, <1>5, <2>2, <2>3, HandledFacts
    DEF EnrollmentTypeOK, CallRecords, CallKinds, CallSteps, CliTypes, DirTypes, Withdraws
<1>6. CASE Expels(c) /\ UNCHANGED beats
  <2>1. RunnerOf(c) \in RunnerIds
    BY <1>6, RunnerOfCall DEF Expels
  <2>2. fleet' \in [RunnerIds -> [status : {"none", "active", "revoked"}, seen : Nat]]
    BY <1>1, <1>6 DEF Expels
  <2>3. chain' \in [head : Nat, entries : [EntriesOfTokens \cup EntriesOfRunners -> Nat]]
    <3>1. <<"revoked", RunnerOf(c)>> \in EntriesOfTokens \cup EntriesOfRunners
      BY <2>1 DEF EntriesOfRunners
    <3> QED
      BY <1>2, <1>3, <1>6, <3>1 DEF Expels
  <2> QED
    BY <1>1, <1>6, <2>2, <2>3, HandledFacts
    DEF EnrollmentTypeOK, CallRecords, CallKinds, CallSteps, CliTypes, DirTypes, Expels
<1>7. CASE Counts(c)
  <2> DEFINE n == calls[c].beat
             rows == [beats EXCEPT ![n].until = calls[c].now + BeatTtl, ![n].counted = @ + 1, ![n].at = calls[c].now]
             Rows == [Beats -> [runner : RunnerIds \cup {Nobody}, signed : Nat, until : Nat, counted : Nat, at : Nat]]
  <2>1. n \in Beats
    BY <1>7, EnrollFacts DEF Counts, At, CallSound
  <2>2. rows \in Rows
    <3>1. calls[c].now + BeatTtl \in Nat /\ beats[n].counted + 1 \in Nat
      BY <1>1, <1>3, <2>1
    <3> HIDE DEF n
    <3> QED
      BY <1>1, <1>3, <2>1, <3>1, ZenonT(40)
  <2>3. \A x \in Rows : Cleaned(x, calls[c].now) \in Rows
    BY DEF Cleaned
  <2>4. beats' \in Rows
    <3>1. beats' \in {rows, Cleaned(rows, calls[c].now)}
      BY <1>7 DEF Counts
    <3> HIDE DEF rows, Rows
    <3> QED
      BY <2>2, <2>3, <3>1
  <2>5. fleet' \in [RunnerIds -> [status : {"none", "active", "revoked"}, seen : Nat]]
    BY <1>1, <1>3, <1>7, ZenonT(40) DEF Counts
  <2> QED
    BY <1>1, <1>7, <2>4, <2>5, HandledFacts
    DEF EnrollmentTypeOK, CallRecords, CallKinds, CallSteps, CliTypes, DirTypes, Counts
<1>8. CASE UNCHANGED <<registryRows, beats>>
  BY <1>1, <1>8, HandledFacts
  DEF EnrollmentTypeOK, CallRecords, CallKinds, CallSteps, CliTypes, DirTypes, registryRows
<1> QED
  BY <1>4, <1>5, <1>6, <1>7, <1>8 DEF Handled, RowsMove

LEMMA HandledCalls == ASSUME EnrollInv, NEW c \in Calls, Handled(c) PROVE CallsSound'
<1>1. ASSUME NEW b \in Calls PROVE CallSound(calls'[b])
  BY HandledFacts, EnrollFacts
<1>2. \A b \in Calls : CallSound(calls[b])' <=> CallSound(calls'[b])
  BY DEF CallSound, IdleCall
<1> QED
  BY <1>1, <1>2 DEF CallsSound

LEMMA HandledDirs == ASSUME EnrollInv, NEW c \in Calls, Handled(c) PROVE DirsSound'
  BY HandledFacts DEF EnrollInv, DirsSound, DirSound, SameDir

LEMMA HandledClis == ASSUME EnrollInv, NEW c \in Calls, Handled(c) PROVE ClisSound'
<1> SUFFICES ASSUME NEW e \in Enrollers PROVE CliSound(e)'
  BY DEF ClisSound
<1>1. CliSound(e) /\ \A x \in Enrollers : CliSound(x)
  BY EnrollFacts
<1>2. /\ \A d \in Dirs : SameDir(dirs[d], dirs'[d]) /\ \A x \in Enrollers : SameCli(cli[x], cli'[x])
      /\ \A b \in Calls : b # c => calls'[b] = calls[b]
      /\ calls'[c] = IdleCall \/ Carries(calls[c], calls'[c])
      /\ \A x \in Enrollers : x # calls[c].from \/ calls'[c] # IdleCall => cli'[x] = cli[x]
      /\ calls[c].from \in Enrollers /\ calls'[c] = IdleCall => cli'[calls[c].from].at \in Replies
  BY HandledFacts
<1>3. IdleCall.from = Nobody /\ e # Nobody /\ IdleCall.kind = "none"
  BY NobodyIsNobody DEF IdleCall
<1>4. \A x \in Enrollers : \/ cli'[x] = cli[x]
                           \/ cli[x].at = "waiting" /\ cli'[x].at \in Replies /\ x = calls[c].from /\ calls'[c] = IdleCall
  BY <1>1, <1>2 DEF CliSound
<1>5. \A x \in Enrollers : Past(x)' <=> Past(x)
  BY <1>4 DEF Past, Replies
<1>6. \A b \in Calls : calls'[b].from = e => calls[b].from = e /\ calls'[b].kind = calls[b].kind
                                             /\ calls'[b].token = calls[b].token /\ calls'[b].key = calls[b].key
                                             /\ (b = c => calls'[c] # IdleCall)
  BY <1>2, <1>3 DEF Carries
<1>7. cli[e].at # "idle" => cli[e].dir \in Dirs
  BY <1>1 DEF CliSound
<1>8. cli[e].dir \in Dirs => KeyOf(e)' = KeyOf(e) /\ dirs'[cli'[e].dir].whole = dirs[cli[e].dir].whole
                              /\ dirs'[cli'[e].dir].lock = dirs[cli[e].dir].lock
  BY <1>2 DEF KeyOf, SameCli, SameDir
<1>9. cli'[e].at = "idle" => cli'[e] = IdleCli
  BY <1>1, <1>4 DEF CliSound, Replies
<1>10. cli'[e].at # "idle" => cli'[e].dir \in Dirs /\ cli'[e].token \in Tokens
  BY <1>1, <1>2, <1>4 DEF CliSound, SameCli
<1>11. Past(e)' => /\ dirs'[cli'[e].dir].lock
                   /\ \A x \in Enrollers : Past(x)' /\ cli'[x].dir = cli'[e].dir => x = e
  BY <1>1, <1>2, <1>5, <1>7, <1>8 DEF CliSound, SameCli, Past
<1>12. cli'[e].at \in {"keyed", "waiting", "open", "accepted", "rejected"} =>
         KeyOf(e)' # Nobody /\ dirs'[cli'[e].dir].whole
  BY <1>1, <1>4, <1>7, <1>8 DEF CliSound
<1>13. cli'[e].at = "writing" => KeyOf(e)' # Nobody /\ ~dirs'[cli'[e].dir].whole
  BY <1>1, <1>4, <1>7, <1>8 DEF CliSound, Replies
<1>14. cli'[e].created => cli'[e].at \in {"keyed", "waiting", "open", "accepted", "rejected", "leaving"}
  BY <1>1, <1>2, <1>4 DEF CliSound, SameCli, Replies
<1>15. ASSUME NEW b \in Calls, calls'[b].from = e
       PROVE  /\ calls'[b].kind = "enroll" /\ cli'[e].at = "waiting"
              /\ calls'[b].token = cli'[e].token /\ calls'[b].key = KeyOf(e)'
              /\ \A a \in Calls : calls'[a].from = e => a = b
  <2>1. /\ calls[b].kind = "enroll" /\ cli[e].at = "waiting" /\ calls[b].token = cli[e].token /\ calls[b].key = KeyOf(e)
        /\ \A a \in Calls : calls[a].from = e => a = b
    BY <1>1, <1>6, <1>15 DEF CliSound
  <2>2. cli'[e] = cli[e]
    BY <1>2, <1>6, <1>15, <2>1
  <2> QED
    BY <1>2, <1>6, <1>7, <1>8, <1>15, <2>1, <2>2 DEF SameCli
<1> QED
  BY <1>9, <1>10, <1>11, <1>12, <1>13, <1>14, <1>15 DEF CliSound

(* What becomes of the keys that are known.                                 *)
LEMMA KeysMove ==
  ASSUME EnrollInv, NEW c \in Calls, Handled(c), NEW key \in KeyPairs
  PROVE  /\ \A b \in Calls : Enrolling(b, key)' => Enrolling(b, key) /\ calls'[b].from = calls[b].from
                                                    /\ calls'[b].token = calls[b].token
         /\ Enrolled(key)' => Enrolled(key) \/ (Admits(c) /\ Enrolling(c, key))
         /\ KeyKnown(key)' => KeyKnown(key)
<1>1. \A b \in Calls : Enrolling(b, key)' => Enrolling(b, key) /\ calls'[b].from = calls[b].from
                                                /\ calls'[b].token = calls[b].token
  BY HandledFacts DEF Enrolling, Carries, IdleCall
<1>2. Admits(c) => RunnerOf(c)[2] = calls[c].key /\ calls[c].kind = "enroll"
  BY RunnerOfCall DEF Admits
<1>3. Enrolled(key)' => Enrolled(key) \/ (Admits(c) /\ Enrolling(c, key))
  BY <1>2, FleetMoves DEF Enrolled, Enrolling
<1> QED
  BY <1>1, <1>3 DEF KeyKnown

LEMMA HandledKeys == ASSUME EnrollInv, NEW c \in Calls, Handled(c) PROVE KeysSafe'
<1> SUFFICES ASSUME NEW key \in KeyPairs, KeyKnown(key)' PROVE KeySafe(key)'
  BY DEF KeysSafe
<1>1. KeySafe(key)
  BY KeysMove DEF EnrollInv, KeysSafe
<1>2. key[1] \in Dirs
  BY DEF KeyPairs
<1> QED
  BY <1>1, <1>2, HandledFacts DEF KeySafe, SameDir

LEMMA HandledMades == ASSUME EnrollInv, NEW c \in Calls, Handled(c) PROVE MadesSound'
<1> SUFFICES ASSUME NEW e \in Enrollers, cli'[e].created, cli'[e].at \in {"keyed", "rejected", "waiting"} PROVE MadeSound(e)'
  BY DEF MadesSound, MadeSound
<1>1. SameCli(cli[e], cli'[e]) /\ cli[e].created /\ CliSound(e) /\ MadeSound(e)
  BY HandledFacts, EnrollFacts DEF EnrollInv, MadesSound, SameCli
<1>2. \/ cli'[e] = cli[e]
      \/ calls[c].from = e /\ calls'[c] = IdleCall
  BY HandledFacts
<1>3. cli[e].at \in {"keyed", "rejected", "waiting"}
  BY <1>1, <1>2 DEF CliSound
<1>4. /\ KeyOf(e) \in KeyPairs /\ KeyOf(e)' = KeyOf(e)
  <2>1. cli[e].dir \in Dirs /\ KeyOf(e) # Nobody
    BY <1>1, <1>3 DEF CliSound
  <2> QED
    BY <1>1, <2>1, HandledFacts, EnrollFacts DEF KeyOf, SameCli, SameDir
<1> DEFINE key == KeyOf(e)
<1>5. /\ \A b \in Calls : Enrolling(b, key)' => Enrolling(b, key)
      /\ \A b \in Calls : Enrolling(b, KeyOf(e))' => calls'[b].from = calls[b].from /\ calls'[b].token = calls[b].token
      /\ Enrolled(KeyOf(e))' => Enrolled(key) \/ (Admits(c) /\ Enrolling(c, key))
      /\ KeyKnown(KeyOf(e))' => KeyKnown(key)
  <2>1. PICK k \in KeyPairs : k = KeyOf(e)
    BY <1>4
  <2>2. KeyOf(e)' = k
    BY <1>4, <2>1
  <2>3. /\ \A b \in Calls : Enrolling(b, k)' => Enrolling(b, k) /\ calls'[b].from = calls[b].from
                                                    /\ calls'[b].token = calls[b].token
        /\ Enrolled(k)' => Enrolled(k) \/ (Admits(c) /\ Enrolling(c, k))
        /\ KeyKnown(k)' => KeyKnown(k)
    BY KeysMove
  <2> QED
    BY <2>1, <2>2, <2>3 DEF Enrolling, Enrolled, KeyKnown
<1>6. CASE cli'[e] = cli[e] /\ cli[e].at \in {"keyed", "rejected"}
  BY <1>1, <1>5, <1>6 DEF MadeSound
<1>7. CASE cli'[e] = cli[e] /\ cli[e].at = "waiting"
  <2> SUFFICES ASSUME NEW b \in Calls, Enrolling(b, KeyOf(e))'
               PROVE  /\ calls'[b].from = e
                      /\ calls'[b].step # "after" => ~Enrolled(KeyOf(e))'
                      /\ \A r \in RunnerIds : r[2] = KeyOf(e)' /\ fleet'[r].status # "none" => r = RunnerOf(b)'
    BY <1>7 DEF MadeSound
  <2>1. /\ calls[b].from = e /\ calls[b].kind = "enroll" /\ Enrolling(b, key)
        /\ calls[b].step # "after" => ~Enrolled(key)
        /\ \A r \in RunnerIds : r[2] = key /\ fleet[r].status # "none" => r = RunnerOf(b)
    BY <1>1, <1>5, <1>7 DEF MadeSound, Enrolling
  <2>2. calls'[b].from = e /\ RunnerOf(b)' = RunnerOf(b)
    BY <1>4, <1>5, <2>1 DEF RunnerOf, Enrolling
  <2>3. CASE Admits(c) /\ Enrolling(c, key)
    <3>1. b = c
      BY <1>1, <1>7, <2>1, <2>3 DEF MadeSound, CliSound
    <3>2. calls'[c].step = "after"
      <4>1. calls'[c].step # "none"
        BY <2>2, <3>1, NobodyIsNobody, HandledFacts DEF CallSound, IdleCall
      <4> QED
        BY <2>3, <4>1 DEF Admits
    <3>3. \A r \in RunnerIds : r[2] = key /\ fleet'[r].status # "none" => r = RunnerOf(b)
      BY <2>1, <2>3, <3>1, FleetMoves
    <3> QED
      BY <1>4, <2>2, <3>1, <3>2, <3>3
  <2>4. CASE ~(Admits(c) /\ Enrolling(c, key))
    <3>1. Enrolled(KeyOf(e))' => Enrolled(key)
      BY <1>5, <2>4
    <3>2. Enrolled(key) => calls'[b].step = "after"
      <4>1. CASE b = c
        <5> SUFFICES ASSUME Enrolled(key) PROVE calls'[c].step = "after"
          BY <4>1
        <5>1. calls[c].step = "after" /\ calls[c].kind = "enroll"
          BY <2>1, <4>1
        <5>2. ~CallMoves(c)
          BY <5>1 DEF CallMoves, Carries
        <5>3. calls'[c] = IdleCall
          BY <5>2, EnrollFacts DEF Handled, CallEnds, Answer
        <5> QED
          BY <2>2, <4>1, <5>3, NobodyIsNobody DEF IdleCall
      <4>2. CASE b # c
        BY <2>1, <4>2, HandledFacts
      <4> QED
        BY <4>1, <4>2
    <3>3. ASSUME NEW r \in RunnerIds, r[2] = key, fleet'[r].status # "none" PROVE r = RunnerOf(b)
      <4>1. fleet[r].status # "none"
        <5>1. Admits(c) => RunnerOf(c)[2] = calls[c].key /\ calls[c].kind = "enroll"
          BY RunnerOfCall DEF Admits
        <5> QED
          BY <2>4, <3>3, <5>1, FleetMoves DEF Enrolling
      <4> QED
        BY <2>1, <3>3, <4>1
    <3> QED
      BY <1>4, <2>2, <3>1, <3>2, <3>3
  <2> QED
    BY <2>3, <2>4
<1>8. CASE cli'[e] # cli[e]
  <2>1. calls[c].from = e /\ calls'[c] = IdleCall /\ cli'[e].at \in Replies
    BY <1>2, <1>8, HandledFacts
  <2>2. /\ calls[c].kind = "enroll" /\ cli[e].at = "waiting" /\ calls[c].key = key
        /\ \A b \in Calls : calls[b].from = e => b = c
    BY <1>1, <2>1 DEF CliSound
  <2>3. cli'[e].at = "rejected"
    BY <2>1 DEF Replies
  <2>4. ~CallMoves(c)
    <3>1. ASSUME NEW x, x.step \notin {"none", "sent"}, calls' = [calls EXCEPT ![c] = x] PROVE FALSE
      BY <2>1, <3>1, EnrollFacts DEF IdleCall
    <3> QED
      BY <3>1 DEF CallMoves
  <2>5. SUFFICES ASSUME NEW reply \in Replies, Answer(c, reply),
                        reply = "rejected" =>
                          /\ UNCHANGED registryRows
                          /\ calls[c].step = "after" => tokens[calls[c].token].runner # RunnerOf(c)
                 PROVE  MadeSound(e)'
    BY <2>2, <2>4 DEF Handled, CallEnds
  <2>6. reply = "rejected"
    <3>1. PICK from \in Enrollers : from = calls[c].from
      BY <2>1
    <3>2. cli' = [cli EXCEPT ![from].at = reply] /\ from = e
      <4>1. Answer(c, reply)
        BY <2>5
      <4> QED
        BY <2>1, <3>1, <4>1 DEF Answer
    <3>3. cli'[from].at = reply
      BY <3>2, MachineFacts DEF CliTypes
    <3> QED
      BY <2>3, <3>2, <3>3
  <2>10. /\ fleet' = fleet
         /\ calls[c].step = "after" => tokens[calls[c].token].runner # RunnerOf(c)
    <3>1. /\ UNCHANGED registryRows
          /\ calls[c].step = "after" => tokens[calls[c].token].runner # RunnerOf(c)
      BY <2>5, <2>6
    <3> QED
      BY <3>1 DEF registryRows
  <2>7. ~Enrolled(key)
    <3>1. Enrolling(c, key)
      BY <2>2 DEF Enrolling
    <3>2. CASE calls[c].step # "after"
      BY <1>1, <2>2, <3>1, <3>2 DEF MadeSound
    <3>3. CASE calls[c].step = "after"
      <4> SUFFICES ASSUME NEW r \in RunnerIds, r[2] = key, fleet[r].status # "none" PROVE FALSE
        BY DEF Enrolled
      <4>1. r = RunnerOf(c) /\ r[1] = calls[c].token
        BY <1>1, <2>2, <3>1, RunnerOfCall DEF MadeSound
      <4>2. tokens[r[1]].runner = r
        BY DEF EnrollInv, EnteredOnce
      <4> QED
        BY <2>10, <3>3, <4>1, <4>2
    <3> QED
      BY <3>2, <3>3
  <2>8. ~Enrolled(KeyOf(e))'
    BY <1>4, <2>7, <2>10 DEF Enrolled
  <2>9. ASSUME NEW b \in Calls, Enrolling(b, KeyOf(e))' PROVE FALSE
    <3>1. Enrolling(b, key)
      BY <1>4, <1>5, <2>9 DEF Enrolling
    <3>2. b = c
      BY <1>1, <2>2, <3>1 DEF MadeSound
    <3> QED
      BY <2>1, <2>9, <3>2 DEF Enrolling, IdleCall
  <2> QED
    BY <2>3, <2>8, <2>9 DEF MadeSound, KeyKnown
<1> QED
  BY <1>3, <1>6, <1>7, <1>8

LEMMA HandledRows == ASSUME EnrollInv, NEW c \in Calls, Handled(c) PROVE EnteredOnce'
<1>1. /\ tokens \in [Tokens -> [issued : BOOLEAN, expires : Nat, revoked : BOOLEAN, runner : RunnerIds \cup {Nobody}]]
      /\ fleet \in [RunnerIds -> [status : {"none", "active", "revoked"}, seen : Nat]]
      /\ chain \in [head : Nat, entries : [EntriesOfTokens \cup EntriesOfRunners -> Nat]]
      /\ chain.entries \in [EntriesOfTokens \cup EntriesOfRunners -> Nat]
      /\ EnteredOnce
  BY EnrollFacts DEF EnrollInv
<1>2. /\ \A r \in RunnerIds : /\ <<"enrolled", r>> \in EntriesOfTokens \cup EntriesOfRunners
                              /\ <<"revoked", r>> \in EntriesOfTokens \cup EntriesOfRunners
      /\ \A t \in Tokens : /\ <<"issued", t>> \in EntriesOfTokens \cup EntriesOfRunners
                           /\ <<"withdrawn", t>> \in EntriesOfTokens \cup EntriesOfRunners
      /\ \A r \in RunnerIds : r[1] \in Tokens
  BY DEF EntriesOfTokens, EntriesOfRunners, RunnerIds
<1>3. CASE UNCHANGED <<registryRows, beats>>
  BY <1>1, <1>3 DEF registryRows, EnteredOnce
<1>4. CASE Withdraws(c) /\ UNCHANGED beats
  <2>1. PICK t \in Tokens : t = calls[c].token
    BY <1>4, EnrollFacts DEF Withdraws, CallSound
  <2>2. /\ ~tokens[t].revoked /\ tokens[t].runner = Nobody /\ tokens' = [tokens EXCEPT ![t].revoked = TRUE]
        /\ chain'.entries = [chain.entries EXCEPT ![<<"withdrawn", t>>] = @ + 1] /\ fleet' = fleet
    BY <1>4, <2>1 DEF Withdraws, Entered
  <2>3. chain.entries[<<"withdrawn", t>>] = 0
    BY <1>1, <2>2 DEF EnteredOnce
  <2>4. \A x \in EntriesOfTokens \cup EntriesOfRunners :
          chain'.entries[x] = IF x = <<"withdrawn", t>> THEN 1 ELSE chain.entries[x]
    BY <1>1, <2>2, <2>3
  <2>5. \A u \in Tokens : /\ tokens'[u].issued = tokens[u].issued /\ tokens'[u].runner = tokens[u].runner
                          /\ tokens'[u].revoked = (IF u = t THEN TRUE ELSE tokens[u].revoked)
    BY <1>1, <2>2
  <2>6. ASSUME NEW r \in RunnerIds
        PROVE  /\ fleet'[r].status # "none" => tokens'[r[1]].runner = r
               /\ chain'.entries[<<"enrolled", r>>] = (IF fleet'[r].status # "none" THEN 1 ELSE 0)
               /\ chain'.entries[<<"revoked", r>>] = (IF fleet'[r].status = "revoked" THEN 1 ELSE 0)
    BY <1>1, <1>2, <2>2, <2>4, <2>5 DEF EnteredOnce
  <2>7. ASSUME NEW u \in Tokens
        PROVE  /\ tokens'[u].runner # Nobody => ~tokens'[u].revoked /\ fleet'[tokens'[u].runner].status # "none"
               /\ chain'.entries[<<"issued", u>>] = (IF tokens'[u].issued THEN 1 ELSE 0)
               /\ chain'.entries[<<"withdrawn", u>>] = (IF tokens'[u].revoked THEN 1 ELSE 0)
    BY <1>1, <1>2, <2>2, <2>4, <2>5 DEF EnteredOnce
  <2> QED
    BY <2>6, <2>7 DEF EnteredOnce
<1>5. CASE Expels(c) /\ UNCHANGED beats
  <2>1. PICK q \in RunnerIds : q = RunnerOf(c)
    BY <1>5, RunnerOfCall DEF Expels
  <2>2. /\ fleet[q].status = "active" /\ fleet' = [fleet EXCEPT ![q].status = "revoked"]
        /\ chain'.entries = [chain.entries EXCEPT ![<<"revoked", q>>] = @ + 1] /\ tokens' = tokens
    BY <1>5, <2>1 DEF Expels, Entered, Active
  <2>3. chain.entries[<<"revoked", q>>] = 0
    BY <1>1, <2>2 DEF EnteredOnce
  <2>4. \A x \in EntriesOfTokens \cup EntriesOfRunners :
          chain'.entries[x] = IF x = <<"revoked", q>> THEN 1 ELSE chain.entries[x]
    BY <1>1, <2>2, <2>3
  <2>5. \A r \in RunnerIds : fleet'[r].status = (IF r = q THEN "revoked" ELSE fleet[r].status)
    BY <1>1, <2>2
  <2>6. ASSUME NEW r \in RunnerIds
        PROVE  /\ fleet'[r].status # "none" => tokens'[r[1]].runner = r
               /\ chain'.entries[<<"enrolled", r>>] = (IF fleet'[r].status # "none" THEN 1 ELSE 0)
               /\ chain'.entries[<<"revoked", r>>] = (IF fleet'[r].status = "revoked" THEN 1 ELSE 0)
    BY <1>1, <1>2, <2>2, <2>4, <2>5 DEF EnteredOnce
  <2>7. ASSUME NEW u \in Tokens
        PROVE  /\ tokens'[u].runner # Nobody => ~tokens'[u].revoked /\ fleet'[tokens'[u].runner].status # "none"
               /\ chain'.entries[<<"issued", u>>] = (IF tokens'[u].issued THEN 1 ELSE 0)
               /\ chain'.entries[<<"withdrawn", u>>] = (IF tokens'[u].revoked THEN 1 ELSE 0)
    BY <1>1, <1>2, <2>2, <2>4, <2>5 DEF EnteredOnce
  <2> QED
    BY <2>6, <2>7 DEF EnteredOnce
<1>6. CASE Counts(c)
  <2>1. \A r \in RunnerIds : fleet'[r].status = fleet[r].status
    <3>1. \/ fleet' = fleet
          \/ fleet' = [fleet EXCEPT ![beats[calls[c].beat].runner].seen = calls[c].now]
      BY <1>6 DEF Counts
    <3> QED
      BY <1>1, <3>1
  <2>2. tokens' = tokens /\ chain' = chain
    BY <1>6 DEF Counts
  <2> QED
    BY <1>1, <2>1, <2>2 DEF EnteredOnce
<1>7. CASE Admits(c) /\ UNCHANGED beats
  <2>1. PICK q \in RunnerIds, t \in Tokens : q = RunnerOf(c) /\ t = calls[c].token /\ q[1] = t
    BY <1>7, RunnerOfCall DEF Admits
  <2>2. tokens' = [tokens EXCEPT ![t].runner = q]
    BY <1>7, <2>1 DEF Admits, Enroll
  <2>3. \A u \in Tokens : /\ tokens'[u].issued = tokens[u].issued /\ tokens'[u].revoked = tokens[u].revoked
                          /\ tokens'[u].runner = (IF u = t THEN q ELSE tokens[u].runner)
    BY <1>1, <2>2
  <2>4. tokens[t].runner = q \/ (tokens[t].runner = Nobody /\ ~tokens[t].revoked)
    BY <1>7, <2>1 DEF Admits, OpenTo, Usable
  <2>5. fleet[q].status \in {"none", "active"}
    BY <1>1, <1>7, <2>1 DEF Admits, Collides, Active
  <2>6. /\ fleet'[q].status = "active" /\ \A r \in RunnerIds : r # q => fleet'[r] = fleet[r]
    <3>1. fleet' = IF Active(q) THEN fleet ELSE [fleet EXCEPT ![q] = [NewRunner EXCEPT !.status = "active"]]
      BY <1>7, <2>1 DEF Admits, Enroll
    <3> QED
      BY <1>1, <3>1 DEF Active, NewRunner
  <2>7. \A x \in EntriesOfTokens \cup EntriesOfRunners :
          chain'.entries[x] = IF x = <<"enrolled", q>> THEN 1 ELSE chain.entries[x]
    <3>1. chain.entries[<<"enrolled", q>>] = (IF fleet[q].status # "none" THEN 1 ELSE 0)
      BY <1>1 DEF EnteredOnce
    <3>2. CASE fleet[q].status = "active"
      <4>1. chain' = chain
        BY <1>7, <2>1, <3>1, <3>2 DEF Admits, Enroll, Recorded
      <4> QED
        BY <3>1, <3>2, <4>1
    <3>3. CASE fleet[q].status = "none"
      <4>1. Entered(calls[c].head, <<"enrolled", q>>)
        BY <1>7, <2>1, <3>1, <3>3 DEF Admits, Enroll, Recorded
      <4>2. chain'.entries = [chain.entries EXCEPT ![<<"enrolled", q>>] = @ + 1]
        BY <4>1 DEF Entered
      <4> QED
        BY <1>1, <3>1, <3>3, <4>2
    <3> QED
      BY <2>5, <3>2, <3>3
  <2>8. chain.entries[<<"revoked", q>>] = 0 /\ ~tokens[t].revoked
    <3>1. chain.entries[<<"revoked", q>>] = 0
      BY <1>1, <2>5 DEF EnteredOnce
    <3>2. ~tokens[t].revoked
      <4>1. CASE tokens[t].runner = q
        <5>1. q # Nobody
          BY <2>1, NobodyIsNobody
        <5> QED
          BY <1>1, <2>1, <4>1, <5>1 DEF EnteredOnce
      <4>2. CASE tokens[t].runner = Nobody /\ ~tokens[t].revoked
        BY <4>2
      <4> QED
        BY <2>4, <4>1, <4>2
    <3> QED
      BY <3>1, <3>2
  <2>9. ASSUME NEW r \in RunnerIds
        PROVE  /\ fleet'[r].status # "none" => tokens'[r[1]].runner = r
               /\ chain'.entries[<<"enrolled", r>>] = (IF fleet'[r].status # "none" THEN 1 ELSE 0)
               /\ chain'.entries[<<"revoked", r>>] = (IF fleet'[r].status = "revoked" THEN 1 ELSE 0)
    <3>1. CASE r = q
      BY <1>2, <2>1, <2>3, <2>6, <2>7, <2>8, <3>1
    <3>2. CASE r # q
      <4>1. /\ fleet[r].status # "none" => tokens[r[1]].runner = r
            /\ chain.entries[<<"enrolled", r>>] = (IF fleet[r].status # "none" THEN 1 ELSE 0)
            /\ chain.entries[<<"revoked", r>>] = (IF fleet[r].status = "revoked" THEN 1 ELSE 0)
            /\ fleet'[r] = fleet[r] /\ r[1] \in Tokens
        BY <1>1, <1>2, <2>6, <3>2 DEF EnteredOnce
      <4>2. fleet[r].status # "none" => r[1] # t
        BY <2>4, <3>2, <4>1, NobodyIsNobody
      <4> QED
        BY <1>2, <2>3, <2>7, <3>2, <4>1, <4>2
    <3> QED
      BY <3>1, <3>2
  <2>10. ASSUME NEW u \in Tokens
         PROVE  /\ tokens'[u].runner # Nobody => ~tokens'[u].revoked /\ fleet'[tokens'[u].runner].status # "none"
                /\ chain'.entries[<<"issued", u>>] = (IF tokens'[u].issued THEN 1 ELSE 0)
                /\ chain'.entries[<<"withdrawn", u>>] = (IF tokens'[u].revoked THEN 1 ELSE 0)
    <3>1. /\ tokens[u].runner # Nobody => ~tokens[u].revoked /\ fleet[tokens[u].runner].status # "none"
          /\ chain.entries[<<"issued", u>>] = (IF tokens[u].issued THEN 1 ELSE 0)
          /\ chain.entries[<<"withdrawn", u>>] = (IF tokens[u].revoked THEN 1 ELSE 0)
          /\ tokens[u].runner \in RunnerIds \cup {Nobody}
      BY <1>1 DEF EnteredOnce
    <3>2. \A r \in RunnerIds : fleet[r].status # "none" => fleet'[r].status # "none"
      BY <2>6
    <3>3. /\ chain'.entries[<<"issued", u>>] = (IF tokens'[u].issued THEN 1 ELSE 0)
          /\ chain'.entries[<<"withdrawn", u>>] = (IF tokens'[u].revoked THEN 1 ELSE 0)
      BY <1>2, <2>3, <2>7, <3>1
    <3>4. tokens'[u].runner # Nobody => ~tokens'[u].revoked /\ fleet'[tokens'[u].runner].status # "none"
      BY <2>3, <2>6, <2>8, <3>1, <3>2
    <3> QED
      BY <3>3, <3>4
  <2> QED
    BY <2>9, <2>10 DEF EnteredOnce
<1> QED
  BY <1>3, <1>4, <1>5, <1>6, <1>7 DEF Handled, RowsMove

BeatRows == [Beats -> [runner : RunnerIds \cup {Nobody}, signed : Nat, until : Nat, counted : Nat, at : Nat]]

(* A heartbeat that is counted has not been counted yet: a copy of one      *)
(* whose nonce has been cleaned up is too old to be let in.                 *)
LEMMA FirstCount ==
  ASSUME EnrollInv, NEW c \in Calls, Counts(c), NEW n \in Beats, n = calls[c].beat
  PROVE  /\ beats[n].runner \in RunnerIds /\ beats[n].counted = 0 /\ fleet[beats[n].runner].status # "none"
         /\ calls[c].now \in Nat /\ calls[c].now <= tick /\ beats[n].signed <= calls[c].now + SkewFuture
<1> DEFINE now == calls[c].now
<1>1. /\ beats \in BeatRows /\ CallSound(calls[c]) /\ CallTimely(calls[c]) /\ BeatSound(n) /\ now \in Nat /\ tick \in Nat
  BY EnrollFacts, EnrollNumbers DEF EnrollInv, EnrollmentTypeOK, BeatRows, CallRecords, BeatsSound
<1>2. calls[c].kind = "beat" /\ calls[c].step = "commit" /\ beats[n].until = 0 /\ Active(beats[n].runner)
  BY DEF Counts, At
<1>3. beats[n].runner \in RunnerIds
  BY <1>1, <1>2 DEF CallTimely, BeatRows
<1>4. now <= tick /\ tick <= now + LongestCall /\ InSkew(beats[n].signed, now)
  BY <1>1, <1>2 DEF CallTimely
<1>5. beats[n].signed + SkewPast >= now /\ beats[n].signed <= now + SkewFuture
  BY <1>4 DEF InSkew
<1>6. /\ beats[n].signed \in Nat /\ beats[n].at \in Nat /\ beats[n].counted \in Nat
      /\ SkewPast \in Nat /\ SkewFuture \in Nat /\ LongestCall \in Nat /\ BeatTtl \in Nat
      /\ BeatTtl > SkewPast + SkewFuture + LongestCall
  BY <1>1, EnrollNumbers DEF BeatRows
<1>7. ASSUME beats[n].counted = 1 PROVE FALSE
  <2>1. beats[n].signed <= beats[n].at + SkewFuture /\ (0 = beats[n].at + BeatTtl \/ beats[n].at + BeatTtl <= tick)
    BY <1>1, <1>2, <1>7 DEF BeatSound
  <2> HIDE DEF now
  <2> QED
    BY <1>1, <1>4, <1>5, <1>6, <2>1
<1>8. beats[n].counted = 0
  BY <1>1, <1>6, <1>7 DEF BeatSound
<1> QED
  BY <1>1, <1>2, <1>3, <1>4, <1>5, <1>8 DEF Active

LEMMA CountedRows ==
  ASSUME EnrollInv, NEW c \in Calls, Counts(c), NEW n \in Beats, n = calls[c].beat
  PROVE  /\ beats'[n].counted = 1 /\ beats'[n].at = calls[c].now /\ beats'[n].until = calls[c].now + BeatTtl
         /\ \A m \in Beats : beats'[m].runner = beats[m].runner /\ beats'[m].signed = beats[m].signed
         /\ \A m \in Beats : m # n =>
              /\ beats'[m].counted = beats[m].counted /\ beats'[m].at = beats[m].at
              /\ beats'[m].until = beats[m].until \/ (beats'[m].until = 0 /\ beats[m].until <= calls[c].now)
<1> DEFINE now == calls[c].now
           later == now + BeatTtl
           rows == [beats EXCEPT ![n].until = later, ![n].counted = @ + 1, ![n].at = now]
<1>1. beats \in BeatRows /\ beats[n].counted = 0 /\ now \in Nat
  BY FirstCount, EnrollFacts DEF BeatRows
<1>2. /\ rows[n].counted = 1 /\ rows[n].at = now /\ rows[n].until = later
      /\ \A m \in Beats : rows[m].runner = beats[m].runner /\ rows[m].signed = beats[m].signed
      /\ \A m \in Beats : m # n => rows[m] = beats[m]
  <2>1. beats[n].counted + 1 = 1
    BY <1>1
  <2> HIDE DEF later, now
  <2> QED
    BY <1>1, <2>1 DEF BeatRows
<1>3. later \in Nat /\ ~(later <= now)
  BY <1>1, EnrollNumbers
<1>4. beats' \in {rows, Cleaned(rows, now)}
  BY DEF Counts
<1> HIDE DEF rows
<1>5. CASE beats' = rows
  BY <1>2, <1>5
<1>6. CASE beats' = Cleaned(rows, now)
  <2>1. \A m \in Beats : beats'[m] = IF rows[m].until <= now THEN [rows[m] EXCEPT !.until = 0] ELSE rows[m]
    BY <1>6 DEF Cleaned, Outlived
  <2>2. beats'[n] = rows[n]
    BY <1>2, <1>3, <2>1
  <2>3. ASSUME NEW m \in Beats, m # n
        PROVE  /\ beats'[m].runner = beats[m].runner /\ beats'[m].signed = beats[m].signed
               /\ beats'[m].counted = beats[m].counted /\ beats'[m].at = beats[m].at
               /\ beats'[m].until = beats[m].until \/ (beats'[m].until = 0 /\ beats[m].until <= now)
    <3>1. beats'[m] = IF beats[m].until <= now THEN [beats[m] EXCEPT !.until = 0] ELSE beats[m]
      BY <1>2, <2>1, <2>3
    <3> QED
      BY <1>1, <3>1 DEF BeatRows
  <2> QED
    BY <1>2, <2>2, <2>3
<1> QED
  BY <1>4, <1>5, <1>6

LEMMA BeatOfCount == ASSUME EnrollInv, NEW c \in Calls, Counts(c) PROVE calls[c].beat \in Beats
  BY EnrollFacts DEF Counts, At, CallSound

LEMMA HandledBeats == ASSUME EnrollInv, NEW c \in Calls, Handled(c) PROVE BeatsSound'
<1> SUFFICES ASSUME NEW n \in Beats PROVE BeatSound(n)'
  BY DEF BeatsSound
<1>1. BeatSound(n) /\ tick' = tick /\ beats \in BeatRows /\ tick \in Nat
  BY HandledFacts, EnrollFacts, EnrollNumbers DEF EnrollInv, EnrollmentTypeOK, BeatsSound, BeatRows
<1>2. \A r \in RunnerIds : fleet[r].status # "none" => fleet'[r].status # "none"
  BY FleetMoves
<1>3. beats[n].counted = 1 => beats[n].runner \in RunnerIds
  BY <1>1 DEF BeatSound, BeatRows
<1>4. CASE UNCHANGED beats
  BY <1>1, <1>2, <1>3, <1>4 DEF BeatSound
<1>5. CASE Counts(c)
  <2>1. PICK m \in Beats : m = calls[c].beat
    BY <1>5, BeatOfCount
  <2>2. PICK now \in Nat : now = calls[c].now
    BY <1>5, <2>1, FirstCount
  <2>3. /\ beats[m].runner \in RunnerIds /\ fleet[beats[m].runner].status # "none"
        /\ now <= tick /\ beats[m].signed <= now + SkewFuture
    BY <1>5, <2>1, <2>2, FirstCount
  <2>4. /\ beats'[m].counted = 1 /\ beats'[m].at = now /\ beats'[m].until = now + BeatTtl
        /\ \A x \in Beats : beats'[x].runner = beats[x].runner /\ beats'[x].signed = beats[x].signed
        /\ \A x \in Beats : x # m =>
             /\ beats'[x].counted = beats[x].counted /\ beats'[x].at = beats[x].at
             /\ beats'[x].until = beats[x].until \/ (beats'[x].until = 0 /\ beats[x].until <= now)
    BY <1>5, <2>1, <2>2, CountedRows
  <2>5. CASE n = m
    BY <1>1, <1>2, <2>3, <2>4, <2>5, NobodyIsNobody DEF BeatSound
  <2>6. CASE n # m
    <3>1. /\ beats'[n].counted = beats[n].counted /\ beats'[n].at = beats[n].at
          /\ beats'[n].runner = beats[n].runner /\ beats'[n].signed = beats[n].signed
          /\ beats'[n].until = beats[n].until \/ (beats'[n].until = 0 /\ beats[n].until <= now)
      BY <2>4, <2>6
    <3>2. CASE beats[n].counted = 0
      BY <1>1, <3>1, <3>2 DEF BeatSound
    <3>3. CASE beats[n].counted = 1
      <4>1. beats[n].at \in Nat /\ BeatTtl \in Nat
        BY <1>1, EnrollNumbers DEF BeatRows
      <4>2. beats'[n].until = beats[n].at + BeatTtl \/ (beats'[n].until = 0 /\ beats[n].at + BeatTtl <= tick)
        <5>1. beats[n].until = beats[n].at + BeatTtl \/ (beats[n].until = 0 /\ beats[n].at + BeatTtl <= tick)
          BY <1>1, <3>3 DEF BeatSound
        <5> QED
          BY <1>1, <2>3, <3>1, <4>1, <5>1
      <4> QED
        BY <1>1, <1>2, <1>3, <3>1, <3>3, <4>2 DEF BeatSound
    <3> QED
      BY <1>1, <3>2, <3>3 DEF BeatSound, BeatRows
  <2> QED
    BY <2>5, <2>6
<1> QED
  BY <1>4, <1>5 DEF Handled, RowsMove

LEMMA BeatsMove ==
  ASSUME EnrollInv, NEW c \in Calls, Handled(c)
  PROVE  \A n \in Beats : beats'[n].runner = beats[n].runner /\ beats'[n].signed = beats[n].signed
<1>1. CASE Counts(c)
  BY <1>1, BeatOfCount, CountedRows
<1> QED
  BY <1>1 DEF Handled, RowsMove

LEMMA HandledTimely == ASSUME EnrollInv, NEW c \in Calls, Handled(c) PROVE CallsTimely'
<1> SUFFICES ASSUME NEW b \in Calls PROVE CallTimely(calls[b])'
  BY DEF CallsTimely
<1>1. /\ tick' = tick /\ tick \in Nat /\ calls' \in [Calls -> CallRecords] /\ calls \in [Calls -> CallRecords]
      /\ \A x \in Calls : CallSound(calls[x]) /\ CallTimely(calls[x])
      /\ \A n \in Beats : beats'[n].runner = beats[n].runner /\ beats'[n].signed = beats[n].signed
  BY HandledFacts, BeatsMove, EnrollFacts, EnrollNumbers DEF EnrollInv, EnrollmentTypeOK
<1>2. CASE calls'[b] = calls[b]
  BY <1>1, <1>2 DEF CallTimely, CallSound
<1>3. CASE calls'[b] = IdleCall
  BY <1>3 DEF CallTimely, IdleCall
<1>4. CASE b = c /\ calls'[b] # IdleCall
  <2>1. CallMoves(c)
    BY <1>4, EnrollFacts DEF Handled, CallEnds, Answer
  <2>2. PICK x \in CallRecords :
          /\ calls' = [calls EXCEPT ![c] = x] /\ Carries(calls[c], x)
          /\ IF calls[c].step = "sent" THEN x.now = tick /\ (calls[c].kind = "beat" => InSkew(BeatOf(c).signed, tick))
                                       ELSE x.now = calls[c].now
          /\ x.step \notin {"none", "sent"}
    BY <2>1 DEF CallMoves
  <2>3. calls'[c] = x
    BY <1>1, <2>2
  <2>4. x.now <= tick /\ tick <= x.now + LongestCall
    BY <1>1, <2>2, EnrollNumbers DEF CallTimely, Handled
  <2>5. ASSUME x.kind = "beat" PROVE beats'[x.beat].runner # Nobody /\ InSkew(beats'[x.beat].signed, x.now)
    <3>1. calls[c].kind = "beat" /\ x.beat = calls[c].beat /\ x.beat \in Beats
      BY <1>1, <2>2, <2>5 DEF Carries, CallSound
    <3>2. beats[x.beat].runner # Nobody /\ beats'[x.beat].runner = beats[x.beat].runner
          /\ beats'[x.beat].signed = beats[x.beat].signed
      BY <1>1, <3>1 DEF CallTimely
    <3>3. InSkew(beats[x.beat].signed, x.now)
      BY <1>1, <2>2, <3>1 DEF CallTimely, BeatOf
    <3> QED
      BY <3>2, <3>3
  <2>6. \A n \in Beats, now \in Nat : InSkew(beats[n].signed, now)' <=> InSkew(beats'[n].signed, now)
    BY DEF InSkew
  <2> QED
    BY <1>1, <1>4, <2>3, <2>4, <2>5, <2>6 DEF CallTimely, InSkew
<1> QED
  BY <1>2, <1>3, <1>4, HandledFacts

LEMMA HandledSeen == ASSUME EnrollInv, NEW c \in Calls, Handled(c) PROVE SeenSound'
<1> SUFFICES ASSUME NEW r \in RunnerIds
             PROVE  IF Times(r)' = {} THEN fleet'[r].seen = 0
                    ELSE fleet'[r].seen \in Times(r)' /\ \A moment \in Times(r)' : moment <= fleet'[r].seen
  BY DEF SeenSound
<1>1. /\ fleet \in [RunnerIds -> [status : {"none", "active", "revoked"}, seen : Nat]] /\ beats \in BeatRows
      /\ IF Times(r) = {} THEN fleet[r].seen = 0
         ELSE fleet[r].seen \in Times(r) /\ \A moment \in Times(r) : moment <= fleet[r].seen
  BY EnrollFacts DEF EnrollInv, SeenSound, BeatRows
<1>2. ASSUME UNCHANGED beats, fleet'[r].seen = fleet[r].seen PROVE Times(r)' = Times(r) /\ fleet'[r].seen = fleet[r].seen
  BY <1>2 DEF Times
<1>3. CASE UNCHANGED <<registryRows, beats>>
  BY <1>1, <1>2, <1>3 DEF registryRows
<1>4. CASE Withdraws(c) /\ UNCHANGED beats
  BY <1>1, <1>2, <1>4 DEF Withdraws
<1>5. CASE Expels(c) /\ UNCHANGED beats
  <2>1. fleet' = [fleet EXCEPT ![RunnerOf(c)].status = "revoked"]
    BY <1>5 DEF Expels
  <2>2. fleet'[r].seen = fleet[r].seen
    BY <1>1, <2>1
  <2> QED
    BY <1>1, <1>2, <1>5, <2>2
<1>6. CASE Admits(c) /\ UNCHANGED beats
  <2>1. PICK q \in RunnerIds : q = RunnerOf(c)
    BY <1>6, RunnerOfCall DEF Admits
  <2>2. fleet' = IF Active(q) THEN fleet ELSE [fleet EXCEPT ![q] = [NewRunner EXCEPT !.status = "active"]]
    BY <1>6, <2>1 DEF Admits, Enroll
  <2>3. ~Active(q) => fleet[q].status = "none"
    <3>1. q[1] = calls[c].token
      BY <1>6, <2>1, RunnerOfCall DEF Admits
    <3> QED
      BY <1>6, <2>1, <3>1 DEF Admits, Collides
  <2>4. fleet[r].status = "none" => Times(r) = {}
    <3>1. ASSUME NEW n \in Beats, beats[n].runner = r, beats[n].counted > 0 PROVE fleet[r].status # "none"
      <4>1. BeatSound(n) /\ beats[n].counted \in Nat
        BY <1>1 DEF EnrollInv, BeatsSound, BeatRows
      <4>2. beats[n].counted = 1
        BY <3>1, <4>1 DEF BeatSound
      <4> QED
        BY <3>1, <4>1, <4>2 DEF BeatSound
    <3> QED
      BY <3>1 DEF Times
  <2>5. CASE Active(q) \/ r # q
    <3>1. fleet'[r].seen = fleet[r].seen
      BY <1>1, <2>2, <2>5
    <3> QED
      BY <1>1, <1>2, <1>6, <3>1
  <2>6. CASE ~Active(q) /\ r = q
    <3>1. Times(r)' = {}
      BY <1>6, <2>3, <2>4, <2>6 DEF Times
    <3>2. fleet'[r].seen = 0
      BY <1>1, <2>2, <2>6 DEF NewRunner
    <3> QED
      BY <3>1, <3>2
  <2> QED
    BY <2>5, <2>6
<1>7. CASE Counts(c)
  <2>1. PICK m \in Beats : m = calls[c].beat
    BY <1>7, BeatOfCount
  <2>2. PICK now \in Nat, q \in RunnerIds : now = calls[c].now /\ q = beats[m].runner /\ beats[m].counted = 0
    BY <1>7, <2>1, FirstCount
  <2>3. /\ beats'[m].counted = 1 /\ beats'[m].at = now
        /\ \A x \in Beats : beats'[x].runner = beats[x].runner
        /\ \A x \in Beats : x # m => beats'[x].counted = beats[x].counted /\ beats'[x].at = beats[x].at
    BY <1>7, <2>1, <2>2, CountedRows
  <2>4. fleet' = IF fleet[q].seen < now THEN [fleet EXCEPT ![q].seen = now] ELSE fleet
    BY <1>7, <2>1, <2>2 DEF Counts
  <2>5. CASE r # q
    <3>1. Times(r)' = Times(r)
      BY <2>2, <2>3, <2>5 DEF Times
    <3>2. fleet'[r].seen = fleet[r].seen
      BY <1>1, <2>4, <2>5
    <3> QED
      BY <1>1, <3>1, <3>2
  <2>6. CASE r = q
    <3>1. Times(r)' = Times(r) \cup {now}
      BY <2>2, <2>3, <2>6 DEF Times
    <3>2. fleet'[r].seen = (IF fleet[r].seen < now THEN now ELSE fleet[r].seen) /\ fleet[r].seen \in Nat
      BY <1>1, <2>4, <2>6
    <3>3. \A moment \in Times(r) : moment \in Nat
      BY <1>1 DEF Times, BeatRows
    <3>4. CASE Times(r) = {}
      <4>1. fleet'[r].seen = now
        BY <1>1, <2>2, <3>2, <3>4
      <4>2. Times(r)' = {now}
        BY <3>1, <3>4
      <4> QED
        BY <2>2, <4>1, <4>2
    <3>5. CASE Times(r) # {}
      <4>1. fleet[r].seen \in Times(r) /\ \A moment \in Times(r) : moment <= fleet[r].seen
        BY <1>1, <3>5
      <4>2. CASE fleet[r].seen < now
        <5>1. \A moment \in Times(r) : moment <= now
          BY <3>2, <3>3, <4>1, <4>2
        <5> QED
          BY <2>2, <3>1, <3>2, <4>2, <5>1
      <4>3. CASE ~(fleet[r].seen < now)
        <5>1. now <= fleet[r].seen
          BY <2>2, <3>2, <4>3
        <5> QED
          BY <3>1, <3>2, <4>1, <4>3, <5>1
      <4> QED
        BY <4>2, <4>3
    <3> QED
      BY <3>4, <3>5
  <2> QED
    BY <2>5, <2>6
<1> QED
  BY <1>3, <1>4, <1>5, <1>6, <1>7 DEF Handled, RowsMove

LEMMA HandledKeeps == ASSUME EnrollInv, NEW c \in Calls, Handled(c) PROVE EnrollInv'
  BY HandledTyped, HandledCalls, HandledClis, HandledDirs, HandledKeys, HandledMades, HandledRows, HandledBeats,
     HandledTimely, HandledSeen DEF EnrollInv

-----------------------------------------------------------------------------
(* What commands, machines and the network do keeps it too.                 *)

LEMMA QuietRows ==
  ASSUME EnrollInv, UNCHANGED <<registryRows, beats>>, tick' \in Nat, tick' >= tick
  PROVE  EnteredOnce' /\ BeatsSound' /\ SeenSound'
<1>1. /\ EnteredOnce /\ SeenSound /\ \A n \in Beats : BeatSound(n)
      /\ tokens' = tokens /\ fleet' = fleet /\ chain' = chain /\ beats' = beats
  BY DEF EnrollInv, BeatsSound, registryRows
<1>2. EnteredOnce'
  BY <1>1 DEF EnteredOnce
<1>3. SeenSound'
  <2> SUFFICES ASSUME NEW r \in RunnerIds
               PROVE  IF Times(r)' = {} THEN fleet'[r].seen = 0
                      ELSE fleet'[r].seen \in Times(r)' /\ \A moment \in Times(r)' : moment <= fleet'[r].seen
    BY DEF SeenSound
  <2>1. Times(r)' = Times(r)
    BY <1>1 DEF Times
  <2> QED
    BY <1>1, <2>1 DEF SeenSound
<1>4. ASSUME NEW n \in Beats PROVE BeatSound(n)'
  <2>1. beats[n].at \in Nat /\ tick \in Nat /\ BeatTtl \in Nat
    BY EnrollFacts, EnrollNumbers DEF EnrollInv, EnrollmentTypeOK
  <2>2. beats[n].at <= tick => beats[n].at <= tick'
    BY <2>1
  <2>3. beats[n].at + BeatTtl <= tick => beats[n].at + BeatTtl <= tick'
    BY <2>1
  <2> QED
    BY <1>1, <2>2, <2>3 DEF BeatSound
<1> QED
  BY <1>2, <1>3, <1>4 DEF BeatsSound

(* A request is lost, or nobody waits for its answer any more.              *)
Faded(x, y) == y = x \/ y = IdleCall \/ y = [x EXCEPT !.from = Nobody]
LEMMA FadeKeeps ==
  ASSUME EnrollInv, UNCHANGED <<registryRows, beats, tick>>,
         calls' \in [Calls -> CallRecords], dirs' \in [Dirs -> DirTypes], cli' \in [Enrollers -> CliTypes],
         \A b \in Calls : Faded(calls[b], calls'[b]),
         \A d \in Dirs : SameDir(dirs[d], dirs'[d]),
         \A e \in Enrollers :
           \/ cli'[e] = cli[e] /\ \A b \in Calls : calls[b].from = e => calls'[b] = calls[b]
           \/ (\A b \in Calls : calls'[b].from # e) /\ cli'[e] = IdleCli
           \/ (\A b \in Calls : calls'[b].from # e)
                /\ SameCli(cli[e], cli'[e]) /\ cli[e].at = "waiting" /\ cli'[e].at = "open"
  PROVE  EnrollInv'
<1>1. tick \in Nat /\ tick' = tick /\ beats' = beats /\ fleet' = fleet
  BY EnrollNumbers DEF EnrollInv, EnrollmentTypeOK, registryRows
<1>2. EnteredOnce' /\ BeatsSound' /\ SeenSound'
  BY <1>1, QuietRows
<1>3. EnrollmentTypeOK'
  BY DEF EnrollInv, EnrollmentTypeOK, registryRows, CallRecords, CallKinds, CallSteps, DirTypes, CliTypes
<1>4. \A b \in Calls : /\ CallSound(calls[b]) /\ CallTimely(calls[b]) /\ calls[b] \in CallRecords
                       /\ calls'[b].from \in {calls[b].from, Nobody}
                       /\ \/ calls'[b] = IdleCall
                          \/ /\ calls'[b].kind = calls[b].kind /\ calls'[b].step = calls[b].step
                             /\ calls'[b].token = calls[b].token /\ calls'[b].key = calls[b].key
                             /\ calls'[b].beat = calls[b].beat /\ calls'[b].now = calls[b].now
  <2> SUFFICES ASSUME NEW b \in Calls
               PROVE  /\ CallSound(calls[b]) /\ CallTimely(calls[b]) /\ calls[b] \in CallRecords
                      /\ calls'[b].from \in {calls[b].from, Nobody}
                      /\ \/ calls'[b] = IdleCall
                         \/ /\ calls'[b].kind = calls[b].kind /\ calls'[b].step = calls[b].step
                            /\ calls'[b].token = calls[b].token /\ calls'[b].key = calls[b].key
                            /\ calls'[b].beat = calls[b].beat /\ calls'[b].now = calls[b].now
    OBVIOUS
  <2>1. CallSound(calls[b]) /\ CallTimely(calls[b]) /\ calls[b] \in CallRecords
    BY EnrollFacts
  <2>2. Faded(calls[b], calls'[b])
    OBVIOUS
  <2>3. CASE calls'[b] = calls[b]
    BY <2>1, <2>3
  <2>4. CASE calls'[b] = IdleCall
    BY <2>1, <2>4 DEF IdleCall
  <2>5. CASE calls'[b] = [calls[b] EXCEPT !.from = Nobody]
    BY <2>1, <2>5 DEF CallRecords
  <2> QED
    BY <2>2, <2>3, <2>4, <2>5 DEF Faded
<1>5. CallsSound'
  <2> SUFFICES ASSUME NEW b \in Calls PROVE CallSound(calls'[b])
    BY DEF CallsSound, CallSound, IdleCall
  <2>1. CASE calls'[b] = IdleCall
    BY <2>1, IdleCallTyped
  <2>2. CASE calls'[b] = calls[b]
    BY <1>4, <2>2
  <2>3. CASE calls'[b] = [calls[b] EXCEPT !.from = Nobody] /\ calls'[b] # calls[b] /\ calls'[b] # IdleCall
    <3>1. calls[b].step # "none"
      BY <1>4, <2>3 DEF CallSound, IdleCall
    <3> QED
      BY <1>4, <2>3, <3>1, NobodyIsNobody DEF CallSound, CallRecords
  <2> QED
    BY <2>1, <2>2, <2>3 DEF Faded
<1>6. CallsTimely'
  <2> SUFFICES ASSUME NEW b \in Calls PROVE CallTimely(calls[b])'
    BY DEF CallsTimely
  <2> QED
    BY <1>1, <1>4 DEF CallTimely, IdleCall
<1>7. DirsSound'
  BY DEF EnrollInv, DirsSound, DirSound, SameDir
<1>8. \A b \in Calls, key \in KeyPairs : Enrolling(b, key)' => Enrolling(b, key)
  BY <1>4 DEF Enrolling, IdleCall
<1>9. KeysSafe'
  <2> SUFFICES ASSUME NEW key \in KeyPairs, KeyKnown(key)' PROVE KeySafe(key)'
    BY DEF KeysSafe
  <2>1. KeySafe(key) /\ key[1] \in Dirs
    BY <1>1, <1>8 DEF EnrollInv, KeysSafe, KeyKnown, Enrolled, KeyPairs
  <2> QED
    BY <2>1 DEF KeySafe, SameDir
<1>10. ASSUME NEW e \in Enrollers PROVE CliSound(e)' /\ MadeSound(e)'
  <2>1. CliSound(e) /\ MadeSound(e) /\ \A x \in Enrollers : CliSound(x)
    BY EnrollFacts DEF EnrollInv, MadesSound
  <2>2. CASE cli'[e] = IdleCli
    BY <1>4, <2>1, <2>2, NobodyIsNobody DEF CliSound, MadeSound, Past, IdleCli, IdleCall
  <2>3. CASE cli'[e] # IdleCli
    <3>1. /\ SameCli(cli[e], cli'[e]) /\ (cli'[e].at = cli[e].at \/ (cli[e].at = "waiting" /\ cli'[e].at = "open"))
          /\ \A b \in Calls : calls'[b].from = e => cli'[e] = cli[e] /\ calls'[b] = calls[b]
      <4>1. e # Nobody
        BY NobodyIsNobody
      <4> QED
        BY <1>4, <2>3, <4>1 DEF SameCli
    <3>2. \A x \in Enrollers : Past(x)' => Past(x) /\ cli'[x].dir = cli[x].dir
      BY DEF Past, IdleCli, SameCli
    <3>3. cli[e].dir \in Dirs => KeyOf(e)' = KeyOf(e) /\ dirs'[cli'[e].dir].whole = dirs[cli[e].dir].whole
                              /\ dirs'[cli'[e].dir].lock = dirs[cli[e].dir].lock
      BY <3>1 DEF KeyOf, SameCli, SameDir
    <3>4. cli[e].at # "idle" => cli[e].dir \in Dirs
      BY <2>1 DEF CliSound
    <3>5. CliSound(e)'
      <4>1. cli'[e].at = "idle" => cli'[e] = IdleCli
        BY <2>1, <3>1 DEF CliSound, SameCli
      <4>2. cli'[e].at # "idle" => cli'[e].dir \in Dirs /\ cli'[e].token \in Tokens
        BY <2>1, <3>1 DEF CliSound, SameCli
      <4>3. Past(e)' => /\ dirs'[cli'[e].dir].lock
                        /\ \A x \in Enrollers : Past(x)' /\ cli'[x].dir = cli'[e].dir => x = e
        BY <2>1, <3>1, <3>2, <3>3, <3>4 DEF CliSound, SameCli, Past
      <4>4. cli'[e].at \in {"keyed", "waiting", "open", "accepted", "rejected"} =>
              KeyOf(e)' # Nobody /\ dirs'[cli'[e].dir].whole
        BY <2>1, <3>1, <3>3, <3>4 DEF CliSound
      <4>5. cli'[e].at = "writing" => KeyOf(e)' # Nobody /\ ~dirs'[cli'[e].dir].whole
        BY <2>1, <3>1, <3>3, <3>4 DEF CliSound
      <4>6. cli'[e].created => cli'[e].at \in {"keyed", "waiting", "open", "accepted", "rejected", "leaving"}
        BY <2>1, <3>1 DEF CliSound, SameCli
      <4>7. ASSUME NEW b \in Calls, calls'[b].from = e
            PROVE  /\ calls'[b].kind = "enroll" /\ cli'[e].at = "waiting"
                   /\ calls'[b].token = cli'[e].token /\ calls'[b].key = KeyOf(e)'
                   /\ \A a \in Calls : calls'[a].from = e => a = b
        <5>1. /\ calls[b].from = e /\ cli'[e] = cli[e] /\ calls'[b] = calls[b]
              /\ \A a \in Calls : calls'[a].from = e => calls[a].from = e
          BY <3>1, <4>7
        <5> QED
          BY <2>1, <3>3, <3>4, <5>1 DEF CliSound
      <4> QED
        BY <4>1, <4>2, <4>3, <4>4, <4>5, <4>6, <4>7 DEF CliSound
    <3>6. MadeSound(e)'
      <4> SUFFICES ASSUME cli'[e].created, cli'[e].at \in {"keyed", "rejected", "waiting"} PROVE MadeSound(e)'
        BY DEF MadeSound
      <4>1. cli'[e] = cli[e] /\ cli[e].dir \in Dirs /\ KeyOf(e)' = KeyOf(e) /\ KeyOf(e) \in KeyPairs
            /\ \A b \in Calls : calls[b].from = e => calls'[b] = calls[b]
        <5>1. cli'[e] = cli[e] /\ \A b \in Calls : calls[b].from = e => calls'[b] = calls[b]
          BY <2>3
        <5> QED
          BY <2>1, <3>3, <3>4, <5>1, EnrollFacts DEF CliSound, KeyOf
      <4>2. PICK key \in KeyPairs : key = KeyOf(e)
        BY <4>1
      <4>3. \A b \in Calls : Enrolling(b, KeyOf(e))' => Enrolling(b, key)
        BY <1>8, <4>1, <4>2 DEF Enrolling
      <4>4. Enrolled(KeyOf(e))' <=> Enrolled(key)
        BY <1>1, <4>1, <4>2 DEF Enrolled
      <4>5. CASE cli[e].at # "waiting"
        BY <2>1, <4>1, <4>2, <4>3, <4>4, <4>5 DEF MadeSound, KeyKnown
      <4>6. CASE cli[e].at = "waiting"
        <5>1. ASSUME NEW b \in Calls, Enrolling(b, KeyOf(e))'
              PROVE  /\ calls'[b].from = e
                     /\ calls'[b].step # "after" => ~Enrolled(KeyOf(e))'
                     /\ \A r \in RunnerIds : r[2] = KeyOf(e)' /\ fleet'[r].status # "none" => r = RunnerOf(b)'
          <6>1. calls[b].from = e /\ calls'[b] = calls[b]
            BY <2>1, <4>1, <4>2, <4>3, <4>6, <5>1 DEF MadeSound
          <6>2. Enrolling(b, key)
            BY <4>3, <5>1
          <6>3. /\ calls[b].step # "after" => ~Enrolled(key)
                /\ \A r \in RunnerIds : r[2] = key /\ fleet[r].status # "none" => r = RunnerOf(b)
            BY <2>1, <4>1, <4>2, <4>6, <6>2 DEF MadeSound
          <6> QED
            BY <1>1, <4>1, <4>2, <4>4, <6>1, <6>3 DEF RunnerOf
        <5> QED
          BY <4>1, <4>6, <5>1 DEF MadeSound
      <4> QED
        BY <4>5, <4>6
    <3> QED
      BY <3>5, <3>6
  <2> QED
    BY <2>2, <2>3
<1> QED
  BY <1>2, <1>3, <1>5, <1>6, <1>7, <1>9, <1>10 DEF EnrollInv, ClisSound, MadesSound

(* A command or its directory goes on; no request knows of it.              *)
LEMMA CliStepKeeps ==
  ASSUME EnrollInv, UNCHANGED <<registryRows, calls, beats, tick>>, NEW e \in Enrollers, NEW d \in Dirs,
         dirs' \in [Dirs -> DirTypes], cli' \in [Enrollers -> CliTypes],
         \A x \in Enrollers : x # e =>
           cli'[x] = cli[x] /\ (Past(x) /\ cli[x].dir = d => dirs'[d] = dirs[d] /\ ~Past(e)'),
         \A y \in Dirs : y # d => dirs'[y] = dirs[y],
         cli'[e].at # "idle" => cli'[e].dir = d,
         DirSound(d)', MadeSound(e)',
         /\ cli'[e].at = "idle" => cli'[e] = IdleCli
         /\ cli'[e].at # "idle" => cli'[e].token \in Tokens
         /\ Past(e)' => dirs'[d].lock
         /\ cli'[e].at \in {"keyed", "waiting", "open", "accepted", "rejected"} => dirs'[d].key # Nobody /\ dirs'[d].whole
         /\ cli'[e].at = "writing" => dirs'[d].key # Nobody /\ ~dirs'[d].whole
         /\ cli'[e].created => cli'[e].at \in {"keyed", "waiting", "open", "accepted", "rejected", "leaving"}
         /\ \A c \in Calls : calls[c].from # e,
         \A key \in KeyPairs : key[1] = d /\ KeyKnown(key) => dirs'[d].key = key /\ dirs'[d].whole
  PROVE  EnrollInv'
<1>1. /\ tick \in Nat /\ tick' = tick /\ beats' = beats /\ fleet' = fleet /\ calls' = calls
      /\ \A x \in Enrollers : CliSound(x) /\ MadeSound(x)
      /\ cli \in [Enrollers -> CliTypes] /\ dirs \in [Dirs -> DirTypes]
  BY EnrollNumbers, EnrollFacts, MachineFacts DEF EnrollInv, EnrollmentTypeOK, registryRows, MadesSound
<1>2. EnteredOnce' /\ BeatsSound' /\ SeenSound'
  BY <1>1, QuietRows
<1>3. EnrollmentTypeOK'
  BY DEF EnrollInv, EnrollmentTypeOK, registryRows, CallRecords, CallKinds, CallSteps, DirTypes, CliTypes
<1>4. CallsSound'
  BY <1>1 DEF EnrollInv, CallsSound, CallSound, IdleCall
<1>5. CallsTimely'
  BY <1>1 DEF EnrollInv, CallsTimely, CallTimely, InSkew
<1>6. DirsSound'
  BY DEF EnrollInv, DirsSound, DirSound
<1>7. \A key \in KeyPairs : KeyKnown(key)' <=> KeyKnown(key)
  BY <1>1 DEF KeyKnown, Enrolling, Enrolled
<1>8. KeysSafe'
  <2> SUFFICES ASSUME NEW key \in KeyPairs, KeyKnown(key)' PROVE KeySafe(key)'
    BY DEF KeysSafe
  <2>1. KeySafe(key) /\ key[1] \in Dirs /\ KeyKnown(key)
    BY <1>7 DEF EnrollInv, KeysSafe, KeyPairs
  <2>2. CASE key[1] = d
    BY <2>1, <2>2 DEF KeySafe
  <2>3. CASE key[1] # d
    BY <2>1, <2>3 DEF KeySafe
  <2> QED
    BY <2>2, <2>3
<1>9. ASSUME NEW x \in Enrollers, x # e PROVE CliSound(x)' /\ MadeSound(x)'
  <2>1. /\ cli'[x] = cli[x] /\ (Past(x) /\ cli[x].dir = d => dirs'[d] = dirs[d] /\ ~Past(e)')
        /\ CliSound(x) /\ MadeSound(x)
    BY <1>1, <1>9
  <2>2. cli[x].at # "idle" => cli[x].dir \in Dirs
    BY <2>1 DEF CliSound
  <2>3. Past(x) => cli[x].dir \in Dirs /\ dirs'[cli[x].dir] = dirs[cli[x].dir] /\ KeyOf(x)' = KeyOf(x)
    <3>1. Past(x) => cli[x].dir \in Dirs /\ dirs'[cli[x].dir] = dirs[cli[x].dir]
      BY <2>1, <2>2 DEF Past
    <3> QED
      BY <2>1, <3>1 DEF KeyOf
  <2>4. ASSUME NEW y \in Enrollers, Past(y)', Past(x), cli'[y].dir = cli[x].dir PROVE y = x
    <3>1. y # e
      <4>1. Past(e)' => cli'[e].dir = d
        BY DEF Past
      <4> QED
        BY <2>1, <2>4, <4>1
    <3>2. Past(y) /\ cli[y].dir = cli[x].dir
      BY <2>4, <3>1 DEF Past
    <3> QED
      BY <2>1, <2>4, <3>2 DEF CliSound
  <2>5. CliSound(x)'
    <3>1. Past(x)' <=> Past(x)
      BY <2>1 DEF Past
    <3>2. /\ cli'[x].at = "idle" => cli'[x] = IdleCli
          /\ cli'[x].at # "idle" => cli'[x].dir \in Dirs /\ cli'[x].token \in Tokens
          /\ cli'[x].created => cli'[x].at \in {"keyed", "waiting", "open", "accepted", "rejected", "leaving"}
      BY <2>1 DEF CliSound
    <3>3. Past(x)' => /\ dirs'[cli'[x].dir].lock
                      /\ \A y \in Enrollers : Past(y)' /\ cli'[y].dir = cli'[x].dir => y = x
      BY <2>1, <2>3, <2>4, <3>1 DEF CliSound
    <3>4. cli'[x].at \in {"keyed", "waiting", "open", "accepted", "rejected"} =>
            KeyOf(x)' # Nobody /\ dirs'[cli'[x].dir].whole
      BY <2>1, <2>3 DEF CliSound, Past
    <3>5. cli'[x].at = "writing" => KeyOf(x)' # Nobody /\ ~dirs'[cli'[x].dir].whole
      BY <2>1, <2>3 DEF CliSound, Past
    <3>6. \A c \in Calls : calls'[c].from = x =>
            /\ calls'[c].kind = "enroll" /\ cli'[x].at = "waiting"
            /\ calls'[c].token = cli'[x].token /\ calls'[c].key = KeyOf(x)'
            /\ \A b \in Calls : calls'[b].from = x => b = c
      <4>1. ASSUME NEW c \in Calls, calls[c].from = x
            PROVE  /\ calls[c].kind = "enroll" /\ cli[x].at = "waiting" /\ calls[c].token = cli[x].token
                   /\ calls[c].key = KeyOf(x) /\ Past(x) /\ \A b \in Calls : calls[b].from = x => b = c
        BY <2>1, <4>1 DEF CliSound, Past
      <4> QED
        BY <1>1, <2>1, <2>3, <4>1
    <3> QED
      BY <3>2, <3>3, <3>4, <3>5, <3>6 DEF CliSound
  <2>6. MadeSound(x)'
    <3> SUFFICES ASSUME cli[x].created, cli[x].at \in {"keyed", "rejected", "waiting"} PROVE MadeSound(x)'
      BY <2>1 DEF MadeSound
    <3>1. Past(x) /\ KeyOf(x) \in KeyPairs
      <4>1. Past(x)
        BY DEF Past
      <4> QED
        BY <1>1, <2>1, <2>3, <4>1 DEF CliSound, KeyOf, DirTypes
    <3>2. KeyOf(x)' = KeyOf(x) /\ cli'[x] = cli[x]
      BY <2>1, <2>3, <3>1
    <3> QED
      BY <1>1, <2>1, <3>2 DEF MadeSound, KeyKnown, Enrolling, Enrolled, RunnerOf
  <2> QED
    BY <2>5, <2>6
<1>10. CliSound(e)'
  <2>1. cli'[e].at # "idle" => KeyOf(e)' = dirs'[d].key
    BY DEF KeyOf
  <2>2. ASSUME Past(e)' PROVE \A y \in Enrollers : Past(y)' /\ cli'[y].dir = cli'[e].dir => y = e
    <3>1. cli'[e].dir = d
      BY <2>2 DEF Past
    <3>2. ASSUME NEW y \in Enrollers, Past(y)', cli'[y].dir = d, y # e PROVE FALSE
      <4>1. Past(y) /\ cli[y].dir = d
        BY <3>2 DEF Past
      <4> QED
        BY <2>2, <3>2, <4>1
    <3> QED
      BY <3>1, <3>2
  <2>3. Past(e)' => cli'[e].at # "idle"
    BY DEF Past
  <2> QED
    BY <1>1, <2>1, <2>2, <2>3 DEF CliSound
<1> QED
  BY <1>2, <1>3, <1>4, <1>5, <1>6, <1>8, <1>9, <1>10 DEF EnrollInv, ClisSound, MadesSound

(* The directory of a command that has its lock is its own.                 *)
LEMMA OwnDirectory ==
  ASSUME EnrollInv, NEW e \in Enrollers, Past(e)
  PROVE  /\ cli[e].dir \in Dirs /\ cli[e].token \in Tokens /\ dirs[cli[e].dir].lock /\ DirSound(cli[e].dir)
         /\ \A x \in Enrollers : x # e => ~(Past(x) /\ cli[x].dir = cli[e].dir)
         /\ cli[e].at # "waiting" => \A c \in Calls : calls[c].from # e
         /\ \A key \in KeyPairs : key[1] = cli[e].dir /\ KeyKnown(key) =>
              dirs[cli[e].dir].key = key /\ dirs[cli[e].dir].whole
<1>1. CliSound(e) /\ DirsSound /\ KeysSafe
  BY EnrollFacts DEF EnrollInv
<1> QED
  BY <1>1 DEF CliSound, Past, DirsSound, KeysSafe, KeySafe

CliWords == {"idle", "start", "locked", "writing", "keyed", "waiting", "open", "accepted", "rejected", "leaving"}

(* A command that goes on in its directory and leaves the key there alone.  *)
LEMMA CliMoves ==
  ASSUME EnrollInv, NEW e \in Enrollers, Past(e), NEW at \in CliWords, NEW created \in BOOLEAN,
         cli' = [cli EXCEPT ![e].at = at, ![e].created = created]
  PROVE  /\ cli' \in [Enrollers -> CliTypes] /\ cli'[e].at = at /\ cli'[e].dir = cli[e].dir
         /\ cli'[e].token = cli[e].token /\ cli'[e].created = created
         /\ \A x \in Enrollers : x # e => cli'[x] = cli[x]
<1>1. cli \in [Enrollers -> CliTypes]
  BY MachineFacts
<1> QED
  BY <1>1 DEF CliTypes, CliWords

LEMMA CliProceeds ==
  ASSUME EnrollInv, NEW e \in Enrollers, NEW at \in CliWords, Proceed(e, at)
  PROVE  /\ cli' \in [Enrollers -> CliTypes] /\ cli'[e].at = at /\ cli'[e].dir = cli[e].dir
         /\ cli'[e].token = cli[e].token /\ cli'[e].created = cli[e].created
         /\ \A x \in Enrollers : x # e => cli'[x] = cli[x]
<1>1. cli \in [Enrollers -> CliTypes]
  BY MachineFacts
<1>2. cli' = [cli EXCEPT ![e].at = at]
  BY DEF Proceed
<1> QED
  BY <1>1, <1>2 DEF CliTypes, CliWords

LEMMA IdleCliTyped == IdleCli \in CliTypes
  BY DEF IdleCli, CliTypes

LEMMA StartKeeps ==
  ASSUME EnrollInv, NEW e \in Enrollers, NEW d \in Dirs, NEW t \in Tokens, StartEnroll(e, d, t) PROVE EnrollInv'
<1>1. cli \in [Enrollers -> CliTypes] /\ dirs \in [Dirs -> DirTypes] /\ CliSound(e) /\ DirsSound /\ KeysSafe
  BY MachineFacts, EnrollFacts DEF EnrollInv
<1>2. /\ cli[e].at = "idle" /\ UNCHANGED <<registryRows, calls, beats, dirs, tick>>
      /\ cli' = [cli EXCEPT ![e] = [at |-> "start", dir |-> d, token |-> t, created |-> FALSE]]
  BY DEF StartEnroll
<1>3. /\ cli' \in [Enrollers -> CliTypes] /\ cli'[e].at = "start" /\ cli'[e].dir = d /\ cli'[e].token = t
      /\ cli'[e].created = FALSE /\ \A x \in Enrollers : x # e => cli'[x] = cli[x]
  BY <1>1, <1>2 DEF CliTypes
<1>4. ~Past(e)' /\ MadeSound(e)'
  BY <1>3 DEF Past, MadeSound
<1>5. \A c \in Calls : calls[c].from # e
  BY <1>1, <1>2 DEF CliSound
<1>6. DirSound(d)' /\ dirs'[d] = dirs[d] /\ dirs' \in [Dirs -> DirTypes]
  BY <1>1, <1>2 DEF DirsSound, DirSound
<1>7. \A key \in KeyPairs : key[1] = d /\ KeyKnown(key) => dirs'[d].key = key /\ dirs'[d].whole
  BY <1>1, <1>2 DEF KeysSafe, KeySafe
<1> QED
  BY <1>2, <1>3, <1>4, <1>5, <1>6, <1>7, CliStepKeeps

LEMMA AcquireKeeps == ASSUME EnrollInv, NEW e \in Enrollers, AcquireEnrollmentLock(e) PROVE EnrollInv'
<1>1. /\ cli \in [Enrollers -> CliTypes] /\ dirs \in [Dirs -> DirTypes] /\ DirsSound /\ KeysSafe
      /\ \A x \in Enrollers : CliSound(x)
  BY MachineFacts, EnrollFacts DEF EnrollInv
<1>2. /\ cli[e].at = "start" /\ UNCHANGED <<registryRows, calls, beats, tick>>
  BY DEF AcquireEnrollmentLock
<1>3. cli[e].dir \in Dirs /\ cli[e].token \in Tokens /\ ~cli[e].created /\ \A c \in Calls : calls[c].from # e
  BY <1>1, <1>2 DEF CliSound, CliTypes
<1>4. PICK d \in Dirs : d = cli[e].dir
  BY <1>3
<1>5. CASE dirs[d].lock
  <2>1. cli' = [cli EXCEPT ![e] = IdleCli] /\ dirs' = dirs
    BY <1>4, <1>5 DEF AcquireEnrollmentLock
  <2>2. cli' \in [Enrollers -> CliTypes] /\ cli'[e] = IdleCli /\ \A x \in Enrollers : x # e => cli'[x] = cli[x]
    BY <1>1, <2>1, IdleCliTyped
  <2>3. cli'[e].at = "idle" /\ ~cli'[e].created /\ ~Past(e)' /\ MadeSound(e)'
    BY <2>2 DEF IdleCli, Past, MadeSound
  <2>4. DirSound(d)' /\ \A key \in KeyPairs : key[1] = d /\ KeyKnown(key) => dirs'[d].key = key /\ dirs'[d].whole
    BY <1>1, <2>1 DEF DirsSound, DirSound, KeysSafe, KeySafe
  <2> QED
    BY <1>1, <1>2, <1>3, <2>1, <2>2, <2>3, <2>4, CliStepKeeps
<1>6. CASE ~dirs[d].lock
  <2>1. Proceed(e, "locked") /\ dirs' = [dirs EXCEPT ![d].lock = TRUE]
    BY <1>4, <1>6 DEF AcquireEnrollmentLock
  <2>2. /\ cli' \in [Enrollers -> CliTypes] /\ cli'[e].at = "locked" /\ cli'[e].dir = d /\ cli'[e].token \in Tokens
        /\ ~cli'[e].created /\ \A x \in Enrollers : x # e => cli'[x] = cli[x]
    BY <1>3, <1>4, <2>1, CliProceeds DEF CliWords
  <2>3. /\ dirs' \in [Dirs -> DirTypes] /\ dirs'[d].lock /\ dirs'[d].key = dirs[d].key /\ dirs'[d].whole = dirs[d].whole
        /\ \A y \in Dirs : y # d => dirs'[y] = dirs[y]
    BY <1>1, <2>1 DEF DirTypes
  <2>4. MadeSound(e)'
    BY <2>2 DEF MadeSound
  <2>5. \A x \in Enrollers : ~(Past(x) /\ cli[x].dir = d)
    BY <1>1, <1>6 DEF CliSound
  <2>6. DirSound(d)' /\ \A key \in KeyPairs : key[1] = d /\ KeyKnown(key) => dirs'[d].key = key /\ dirs'[d].whole
    BY <1>1, <2>3 DEF DirsSound, DirSound, KeysSafe, KeySafe
  <2> QED
    BY <1>1, <1>2, <1>3, <2>2, <2>3, <2>4, <2>5, <2>6, CliStepKeeps
<1> QED
  BY <1>5, <1>6

LEMMA FindKeyKeeps == ASSUME EnrollInv, NEW e \in Enrollers, FindKey(e) PROVE EnrollInv'
<1>1. /\ cli \in [Enrollers -> CliTypes] /\ dirs \in [Dirs -> DirTypes] /\ CliSound(e)
  BY MachineFacts, EnrollFacts DEF EnrollInv
<1>2. cli[e].at = "locked" /\ UNCHANGED <<registryRows, calls, beats, tick>> /\ Past(e)
  BY DEF FindKey, Past
<1>3. PICK d \in Dirs : d = cli[e].dir
  BY <1>2, OwnDirectory
<1>4. /\ cli[e].token \in Tokens /\ dirs[d].lock /\ DirSound(d)
      /\ \A x \in Enrollers : x # e => ~(Past(x) /\ cli[x].dir = d)
      /\ \A c \in Calls : calls[c].from # e
      /\ \A key \in KeyPairs : key[1] = d /\ KeyKnown(key) => dirs[d].key = key /\ dirs[d].whole
      /\ ~cli[e].created
  BY <1>1, <1>2, <1>3, OwnDirectory DEF CliSound, CliTypes
<1>5. CASE dirs[d].key # Nobody /\ Proceed(e, IF dirs[d].whole THEN "keyed" ELSE "leaving") /\ UNCHANGED dirs
  <2>1. PICK at \in {"keyed", "leaving"} : at = IF dirs[d].whole THEN "keyed" ELSE "leaving"
    OBVIOUS
  <2>2. /\ cli' \in [Enrollers -> CliTypes] /\ cli'[e].at = at /\ cli'[e].dir = d /\ cli'[e].token \in Tokens
        /\ ~cli'[e].created /\ \A x \in Enrollers : x # e => cli'[x] = cli[x]
    BY <1>3, <1>4, <1>5, <2>1, CliProceeds DEF CliWords
  <2>3. MadeSound(e)' /\ DirSound(d)' /\ dirs'[d] = dirs[d]
    BY <1>4, <1>5, <2>2 DEF MadeSound, DirSound
  <2> QED
    BY <1>1, <1>2, <1>4, <1>5, <2>1, <2>2, <2>3, CliStepKeeps
<1>6. CASE /\ dirs[d].key = Nobody /\ dirs[d].made < MaxKeys
           /\ dirs' = [dirs EXCEPT ![d].key = <<d, dirs[d].made + 1>>, ![d].made = @ + 1]
           /\ Proceed(e, "writing")
  <2>1. /\ cli' \in [Enrollers -> CliTypes] /\ cli'[e].at = "writing" /\ cli'[e].dir = d /\ cli'[e].token \in Tokens
        /\ ~cli'[e].created /\ \A x \in Enrollers : x # e => cli'[x] = cli[x]
    BY <1>3, <1>4, <1>6, CliProceeds DEF CliWords
  <2>2. PICK n \in 1..MaxKeys : n = dirs[d].made + 1
    <3>1. dirs[d].made \in 0..MaxKeys /\ MaxKeys \in Nat
      BY <1>1, EnrollNumbers DEF DirTypes
    <3> QED
      BY <1>6, <3>1
  <2>3. <<d, n>> \in KeyPairs /\ n \in 0..MaxKeys /\ <<d, n>> # Nobody /\ <<d, n>>[1] = d
    <3>1. <<d, n>> \in KeyPairs /\ n \in 0..MaxKeys
      BY EnrollNumbers DEF KeyPairs
    <3> QED
      BY <3>1, NobodyIsNobody
  <2>4. dirs' = [dirs EXCEPT ![d].key = <<d, n>>, ![d].made = n]
    BY <1>1, <1>6, <2>2
  <2>5. /\ dirs' \in [Dirs -> DirTypes] /\ dirs'[d].key = <<d, n>> /\ dirs'[d].whole = dirs[d].whole /\ dirs'[d].lock
        /\ \A y \in Dirs : y # d => dirs'[y] = dirs[y]
    BY <1>1, <1>4, <2>3, <2>4, ZenonT(40) DEF DirTypes
  <2>6. MadeSound(e)' /\ DirSound(d)' /\ ~dirs'[d].whole
    BY <1>4, <1>6, <2>1, <2>3, <2>5 DEF MadeSound, DirSound
  <2>7. \A key \in KeyPairs : ~(key[1] = d /\ KeyKnown(key))
    BY <1>4, <1>6, NobodyIsNobody
  <2> QED
    BY <1>1, <1>2, <1>4, <2>1, <2>3, <2>5, <2>6, <2>7, CliStepKeeps
<1> QED
  BY <1>3, <1>5, <1>6 DEF FindKey

LEMMA FinishKeyKeeps == ASSUME EnrollInv, NEW e \in Enrollers, FinishKey(e) PROVE EnrollInv'
<1>1. /\ cli \in [Enrollers -> CliTypes] /\ dirs \in [Dirs -> DirTypes] /\ CliSound(e)
  BY MachineFacts, EnrollFacts DEF EnrollInv
<1>2. cli[e].at = "writing" /\ UNCHANGED <<registryRows, calls, beats, tick>> /\ Past(e)
  BY DEF FinishKey, Past
<1>3. PICK d \in Dirs : d = cli[e].dir
  BY <1>2, OwnDirectory
<1>4. /\ cli[e].token \in Tokens /\ dirs[d].lock /\ DirSound(d)
      /\ \A x \in Enrollers : x # e => ~(Past(x) /\ cli[x].dir = d)
      /\ \A c \in Calls : calls[c].from # e
      /\ \A key \in KeyPairs : key[1] = d /\ KeyKnown(key) => dirs[d].key = key /\ dirs[d].whole
      /\ dirs[d].key # Nobody /\ ~dirs[d].whole
  BY <1>1, <1>2, <1>3, OwnDirectory DEF CliSound, KeyOf
<1>5. /\ cli' \in [Enrollers -> CliTypes] /\ cli'[e].at = "keyed" /\ cli'[e].dir = d /\ cli'[e].token \in Tokens
      /\ \A x \in Enrollers : x # e => cli'[x] = cli[x]
  <2>1. cli' = [cli EXCEPT ![e].at = "keyed", ![e].created = TRUE]
    BY DEF FinishKey
  <2> QED
    BY <1>1, <1>3, <1>4, <2>1 DEF CliTypes
<1>6. /\ dirs' \in [Dirs -> DirTypes] /\ dirs'[d].key = dirs[d].key /\ dirs'[d].whole /\ dirs'[d].lock
      /\ \A y \in Dirs : y # d => dirs'[y] = dirs[y]
  <2>1. dirs' = [dirs EXCEPT ![d].whole = TRUE]
    BY <1>3 DEF FinishKey
  <2> QED
    BY <1>1, <1>4, <2>1 DEF DirTypes
<1>7. \A key \in KeyPairs : ~(key[1] = d /\ KeyKnown(key))
  BY <1>4
<1>8. DirSound(d)' /\ MadeSound(e)'
  <2>1. DirSound(d)'
    BY <1>4, <1>6 DEF DirSound
  <2>2. dirs[d].key \in KeyPairs /\ dirs[d].key[1] = d
    BY <1>1, <1>4 DEF DirSound, DirTypes
  <2>3. KeyOf(e)' = dirs[d].key
    BY <1>5, <1>6 DEF KeyOf
  <2>4. ~KeyKnown(KeyOf(e))'
    BY <1>2, <1>7, <2>2, <2>3 DEF KeyKnown, Enrolling, Enrolled, registryRows
  <2> QED
    BY <1>5, <2>1, <2>4 DEF MadeSound
<1> QED
  BY <1>1, <1>2, <1>4, <1>5, <1>6, <1>7, <1>8, CliStepKeeps

LEMMA HearKeeps == ASSUME EnrollInv, NEW e \in Enrollers, HearEnroll(e) PROVE EnrollInv'
<1>1. /\ cli \in [Enrollers -> CliTypes] /\ dirs \in [Dirs -> DirTypes] /\ CliSound(e) /\ MadeSound(e)
  BY MachineFacts, EnrollFacts DEF EnrollInv, MadesSound
<1>2. /\ cli[e].at \in {"open", "rejected", "accepted"} /\ UNCHANGED <<registryRows, calls, beats, tick>> /\ Past(e)
      /\ Proceed(e, "leaving")
  BY DEF HearEnroll, Past
<1>3. PICK d \in Dirs : d = cli[e].dir
  BY <1>2, OwnDirectory
<1>4. /\ cli[e].token \in Tokens /\ dirs[d].lock /\ DirSound(d)
      /\ \A x \in Enrollers : x # e => ~(Past(x) /\ cli[x].dir = d)
      /\ \A c \in Calls : calls[c].from # e
      /\ \A key \in KeyPairs : key[1] = d /\ KeyKnown(key) => dirs[d].key = key /\ dirs[d].whole
      /\ dirs[d].key # Nobody /\ dirs[d].whole /\ dirs[d].key \in KeyPairs
  BY <1>1, <1>2, <1>3, OwnDirectory DEF CliSound, KeyOf, DirTypes
<1>5. /\ cli' \in [Enrollers -> CliTypes] /\ cli'[e].at = "leaving" /\ cli'[e].dir = d /\ cli'[e].token \in Tokens
      /\ \A x \in Enrollers : x # e => cli'[x] = cli[x]
  BY <1>2, <1>3, <1>4, CliProceeds DEF CliWords
<1>6. MadeSound(e)'
  BY <1>5 DEF MadeSound
<1>7. /\ dirs' \in [Dirs -> DirTypes] /\ dirs'[d].lock /\ DirSound(d)' /\ \A y \in Dirs : y # d => dirs'[y] = dirs[y]
      /\ \A key \in KeyPairs : key[1] = d /\ KeyKnown(key) => dirs'[d].key = key /\ dirs'[d].whole
  <2>1. CASE UNCHANGED dirs
    BY <1>1, <1>4, <2>1 DEF DirSound
  <2>2. CASE cli[e].at = "rejected" /\ Discards(e) /\ dirs' = [dirs EXCEPT ![d].key = Nobody, ![d].whole = FALSE]
    <3>1. /\ dirs' \in [Dirs -> DirTypes] /\ dirs'[d].lock /\ dirs'[d].key = Nobody /\ ~dirs'[d].whole
          /\ \A y \in Dirs : y # d => dirs'[y] = dirs[y]
      BY <1>1, <1>4, <2>2 DEF DirTypes
    <3>2. ~KeyKnown(dirs[d].key)
      BY <1>1, <1>3, <2>2 DEF MadeSound, Discards, KeyOf
    <3> QED
      BY <1>4, <3>1, <3>2 DEF DirSound
  <2>3. CASE dirs' = [dirs EXCEPT ![d].config = <<cli[e].token, dirs[d].key>>]
    <3>1. <<cli[e].token, dirs[d].key>> \in RunnerIds
      BY <1>4 DEF RunnerIds
    <3>2. /\ dirs' \in [Dirs -> DirTypes] /\ dirs'[d].lock /\ dirs'[d].key = dirs[d].key /\ dirs'[d].whole = dirs[d].whole
          /\ \A y \in Dirs : y # d => dirs'[y] = dirs[y]
      BY <1>1, <1>4, <2>3, <3>1 DEF DirTypes
    <3> QED
      BY <1>4, <3>2 DEF DirSound
  <2> QED
    BY <1>3, <2>1, <2>2, <2>3 DEF HearEnroll
<1> QED
  BY <1>1, <1>2, <1>4, <1>5, <1>6, <1>7, CliStepKeeps

LEMMA ReleaseKeeps == ASSUME EnrollInv, NEW e \in Enrollers, ReleaseEnrollmentLock(e) PROVE EnrollInv'
<1>1. /\ cli \in [Enrollers -> CliTypes] /\ dirs \in [Dirs -> DirTypes]
  BY MachineFacts
<1>2. cli[e].at = "leaving" /\ UNCHANGED <<registryRows, calls, beats, tick>> /\ Past(e)
  BY DEF ReleaseEnrollmentLock, Past
<1>3. PICK d \in Dirs : d = cli[e].dir
  BY <1>2, OwnDirectory
<1>4. /\ DirSound(d) /\ \A x \in Enrollers : x # e => ~(Past(x) /\ cli[x].dir = d)
      /\ \A c \in Calls : calls[c].from # e
      /\ \A key \in KeyPairs : key[1] = d /\ KeyKnown(key) => dirs[d].key = key /\ dirs[d].whole
  BY <1>2, <1>3, OwnDirectory
<1>5. /\ cli' \in [Enrollers -> CliTypes] /\ cli'[e] = IdleCli /\ \A x \in Enrollers : x # e => cli'[x] = cli[x]
  BY <1>1, IdleCliTyped DEF ReleaseEnrollmentLock
<1>6. cli'[e].at = "idle" /\ ~cli'[e].created /\ ~Past(e)' /\ MadeSound(e)'
  BY <1>5 DEF IdleCli, Past, MadeSound
<1>7. /\ dirs' \in [Dirs -> DirTypes] /\ dirs'[d].key = dirs[d].key /\ dirs'[d].whole = dirs[d].whole
      /\ \A y \in Dirs : y # d => dirs'[y] = dirs[y]
  <2>1. dirs' = [dirs EXCEPT ![d].lock = FALSE]
    BY <1>3 DEF ReleaseEnrollmentLock
  <2> QED
    BY <1>1, <2>1 DEF DirTypes
<1>8. DirSound(d)'
  BY <1>4, <1>7 DEF DirSound
<1> QED
  BY <1>2, <1>4, <1>5, <1>6, <1>7, <1>8, CliStepKeeps

LEMMA FadedTyped ==
  ASSUME EnrollInv, NEW who \in Enrollers \cup Dirs, calls' = Forgotten(who)
  PROVE  /\ calls' \in [Calls -> CallRecords] /\ \A b \in Calls : Faded(calls[b], calls'[b])
         /\ \A b \in Calls : calls[b].from # who => calls'[b] = calls[b]
         /\ \A b \in Calls : calls'[b].from # who
<1>1. calls \in [Calls -> CallRecords] /\ who # Nobody
  BY EnrollFacts, NobodyIsNobody
<1>2. \A b \in Calls : [calls[b] EXCEPT !.from = Nobody] \in CallRecords /\ [calls[b] EXCEPT !.from = Nobody].from = Nobody
  BY <1>1 DEF CallRecords
<1>3. /\ calls' = [b \in Calls |-> IF calls[b].from = who THEN [calls[b] EXCEPT !.from = Nobody] ELSE calls[b]]
  BY DEF Forgotten
<1> QED
  BY <1>1, <1>2, <1>3 DEF Faded

LEMMA LoseKeeps == ASSUME EnrollInv, NEW c \in Calls, LoseCall(c) PROVE EnrollInv'
<1>1. /\ calls \in [Calls -> CallRecords] /\ cli \in [Enrollers -> CliTypes] /\ dirs \in [Dirs -> DirTypes]
      /\ calls[c].from = Nobody /\ calls' = [calls EXCEPT ![c] = IdleCall]
      /\ UNCHANGED <<registryRows, beats, machine>>
  BY EnrollFacts, MachineFacts DEF LoseCall
<1>2. /\ calls' \in [Calls -> CallRecords] /\ \A b \in Calls : Faded(calls[b], calls'[b])
      /\ \A b \in Calls : calls[b].from # Nobody => calls'[b] = calls[b]
  BY <1>1, IdleCallTyped DEF Faded
<1>3. dirs' = dirs /\ cli' = cli /\ tick' = tick
  BY <1>1 DEF machine
<1>4. \A e \in Enrollers : e # Nobody
  BY NobodyIsNobody
<1>5. \A d \in Dirs : SameDir(dirs[d], dirs'[d])
  BY <1>3 DEF SameDir
<1>6. \A e \in Enrollers : cli'[e] = cli[e] /\ \A b \in Calls : calls[b].from = e => calls'[b] = calls[b]
  BY <1>2, <1>3, <1>4
<1> QED
  BY <1>1, <1>2, <1>3, <1>5, <1>6, FadeKeeps

LEMMA StopWaitingKeeps == ASSUME EnrollInv, NEW e \in Enrollers, StopWaiting(e) PROVE EnrollInv'
<1>1. /\ cli[e].at = "waiting" /\ calls' = Forgotten(e) /\ UNCHANGED <<registryRows, beats, dirs, tick>>
      /\ dirs \in [Dirs -> DirTypes]
  BY MachineFacts DEF StopWaiting
<1>2. /\ cli' \in [Enrollers -> CliTypes] /\ cli'[e].at = "open" /\ SameCli(cli[e], cli'[e])
      /\ \A x \in Enrollers : x # e => cli'[x] = cli[x]
  BY CliProceeds DEF StopWaiting, CliWords, SameCli
<1>3. /\ calls' \in [Calls -> CallRecords] /\ \A b \in Calls : Faded(calls[b], calls'[b])
      /\ \A b \in Calls : calls[b].from # e => calls'[b] = calls[b]
      /\ \A b \in Calls : calls'[b].from # e
  BY <1>1, FadedTyped
<1>4. \A d \in Dirs : SameDir(dirs[d], dirs'[d])
  BY <1>1 DEF SameDir
<1> QED
  BY <1>1, <1>2, <1>3, <1>4, FadeKeeps

LEMMA KillKeeps == ASSUME EnrollInv, NEW e \in Enrollers, KillEnroll(e) PROVE EnrollInv'
<1>1. /\ calls' = Forgotten(e) /\ UNCHANGED <<registryRows, beats, dirs, tick>> /\ cli' = [cli EXCEPT ![e] = IdleCli]
      /\ dirs \in [Dirs -> DirTypes] /\ cli \in [Enrollers -> CliTypes]
  BY MachineFacts DEF KillEnroll
<1>2. cli' \in [Enrollers -> CliTypes] /\ cli'[e] = IdleCli /\ \A x \in Enrollers : x # e => cli'[x] = cli[x]
  BY <1>1, IdleCliTyped
<1>3. /\ calls' \in [Calls -> CallRecords] /\ \A b \in Calls : Faded(calls[b], calls'[b])
      /\ \A b \in Calls : calls[b].from # e => calls'[b] = calls[b]
      /\ \A b \in Calls : calls'[b].from # e
  BY <1>1, FadedTyped
<1>4. \A d \in Dirs : SameDir(dirs[d], dirs'[d])
  BY <1>1 DEF SameDir
<1> QED
  BY <1>1, <1>2, <1>3, <1>4, FadeKeeps

LEMMA StopBeatingKeeps == ASSUME EnrollInv, NEW d \in Dirs, StopBeating(d) PROVE EnrollInv'
<1>1. /\ calls' = Forgotten(d) /\ UNCHANGED <<registryRows, beats, cli, tick>> /\ dirs' = [dirs EXCEPT ![d].loop = "on"]
      /\ dirs \in [Dirs -> DirTypes] /\ cli \in [Enrollers -> CliTypes]
  BY MachineFacts DEF StopBeating
<1>2. dirs' \in [Dirs -> DirTypes] /\ \A y \in Dirs : SameDir(dirs[y], dirs'[y])
  BY <1>1 DEF DirTypes, SameDir
<1>3. /\ calls' \in [Calls -> CallRecords] /\ \A b \in Calls : Faded(calls[b], calls'[b])
      /\ \A b \in Calls : calls[b].from # d => calls'[b] = calls[b]
  BY <1>1, FadedTyped
<1>4. \A e \in Enrollers : e # d
  BY NobodyIsNobody
<1>5. \A e \in Enrollers : cli'[e] = cli[e] /\ \A b \in Calls : calls[b].from = e => calls'[b] = calls[b]
  BY <1>1, <1>3, <1>4
<1> QED
  BY <1>1, <1>2, <1>3, <1>5, FadeKeeps

LEMMA ClearLockKeeps == ASSUME EnrollInv, NEW d \in Dirs, ClearLock(d) PROVE EnrollInv'
<1>1. /\ UNCHANGED <<registryRows, calls, beats, cli, tick>> /\ dirs' = [dirs EXCEPT ![d].lock = FALSE]
      /\ \A e \in Enrollers : cli[e].dir # d
      /\ dirs \in [Dirs -> DirTypes] /\ cli \in [Enrollers -> CliTypes] /\ tick \in Nat
      /\ \A e \in Enrollers : CliSound(e) /\ MadeSound(e)
  BY MachineFacts, EnrollFacts, EnrollNumbers DEF ClearLock, EnrollInv, EnrollmentTypeOK, MadesSound
<1>2. /\ dirs' \in [Dirs -> DirTypes] /\ \A y \in Dirs : dirs'[y].key = dirs[y].key /\ dirs'[y].whole = dirs[y].whole
      /\ \A y \in Dirs : y # d => dirs'[y] = dirs[y]
  BY <1>1 DEF DirTypes
<1>3. EnteredOnce' /\ BeatsSound' /\ SeenSound'
  BY <1>1, QuietRows
<1>4. EnrollmentTypeOK'
  BY <1>1, <1>2 DEF EnrollInv, EnrollmentTypeOK, registryRows, CallRecords, CallKinds, CallSteps, DirTypes, CliTypes
<1>5. CallsSound' /\ CallsTimely'
  BY <1>1 DEF EnrollInv, CallsSound, CallSound, IdleCall, CallsTimely, CallTimely, InSkew
<1>6. DirsSound'
  BY <1>2 DEF EnrollInv, DirsSound, DirSound
<1>7. KeysSafe'
  <2>1. \A key \in KeyPairs : key[1] \in Dirs
    BY DEF KeyPairs
  <2> QED
    BY <1>1, <1>2, <2>1 DEF EnrollInv, KeysSafe, KeySafe, KeyKnown, Enrolling, Enrolled, registryRows
<1>8. ASSUME NEW e \in Enrollers PROVE CliSound(e)' /\ MadeSound(e)'
  <2>1. cli' = cli /\ calls' = calls /\ fleet' = fleet
    BY <1>1 DEF registryRows
  <2>2. cli[e].at # "idle" => cli[e].dir \in Dirs /\ dirs'[cli[e].dir] = dirs[cli[e].dir] /\ KeyOf(e)' = KeyOf(e)
    BY <1>1, <1>2, <2>1 DEF CliSound, KeyOf
  <2>3. CliSound(e)'
    BY <1>1, <2>1, <2>2 DEF CliSound, Past
  <2>4. MadeSound(e)'
    <3>1. CASE cli[e].at = "idle"
      BY <2>1, <3>1 DEF MadeSound
    <3>2. CASE cli[e].at # "idle"
      <4>1. KeyOf(e)' = KeyOf(e)
        BY <2>2, <3>2
      <4> QED
        BY <1>1, <2>1, <4>1 DEF MadeSound, KeyKnown, Enrolling, Enrolled, RunnerOf
    <3> QED
      BY <3>1, <3>2
  <2> QED
    BY <2>3, <2>4
<1> QED
  BY <1>3, <1>4, <1>5, <1>6, <1>7, <1>8 DEF EnrollInv, ClisSound, MadesSound

-----------------------------------------------------------------------------
(* New requests                                                             *)

LEMMA NewCall ==
  ASSUME EnrollInv, NEW c \in Calls, Spare(c), NEW x \in CallRecords, CallSound(x), x.kind # "enroll", x.from \notin Enrollers,
         calls' = [calls EXCEPT ![c] = x], fleet' = fleet, cli' = cli, \A d \in Dirs : SameDir(dirs[d], dirs'[d])
  PROVE  /\ calls' \in [Calls -> CallRecords] /\ calls'[c] = x /\ \A b \in Calls : b # c => calls'[b] = calls[b]
         /\ CallsSound' /\ ClisSound' /\ DirsSound' /\ KeysSafe' /\ MadesSound'
<1>1. /\ calls' \in [Calls -> CallRecords] /\ calls'[c] = x /\ \A b \in Calls : b # c => calls'[b] = calls[b]
      /\ calls[c].kind # "enroll" /\ calls[c].from = Nobody
      /\ \A e \in Enrollers : CliSound(e) /\ MadeSound(e)
      /\ \A b \in Calls : CallSound(calls[b])
      /\ dirs \in [Dirs -> DirTypes]
  BY EnrollFacts, MachineFacts DEF EnrollInv, MadesSound, Spare, CallSound, IdleCall
<1>2. CallsSound'
  <2>1. \A b \in Calls : CallSound(calls'[b])
    BY <1>1
  <2> QED
    BY <2>1 DEF CallsSound, CallSound, IdleCall
<1>3. DirsSound'
  BY DEF EnrollInv, DirsSound, DirSound, SameDir
<1>4. \A b \in Calls, key \in KeyPairs : Enrolling(b, key)' <=> Enrolling(b, key)
  BY <1>1 DEF Enrolling
<1>5. \A b \in Calls, key \in KeyPairs : Enrolling(b, key) => b # c
  BY <1>1 DEF Enrolling
<1>6. \A key \in KeyPairs : (KeyKnown(key)' <=> KeyKnown(key)) /\ (Enrolled(key)' <=> Enrolled(key))
  BY <1>4 DEF KeyKnown, Enrolled
<1>7. KeysSafe'
  <2>1. \A key \in KeyPairs : key[1] \in Dirs
    BY DEF KeyPairs
  <2> QED
    BY <1>6, <2>1 DEF EnrollInv, KeysSafe, KeySafe, SameDir
<1>8. ASSUME NEW e \in Enrollers PROVE CliSound(e)' /\ MadeSound(e)'
  <2>1. cli[e].at # "idle" => /\ cli[e].dir \in Dirs /\ KeyOf(e)' = KeyOf(e)
                              /\ dirs'[cli[e].dir].whole = dirs[cli[e].dir].whole
                              /\ dirs'[cli[e].dir].lock = dirs[cli[e].dir].lock
    BY <1>1 DEF CliSound, KeyOf, SameDir
  <2>2. \A b \in Calls : calls'[b].from = e <=> (b # c /\ calls[b].from = e)
    BY <1>1, NobodyIsNobody
  <2>3. CliSound(e)'
    <3>1. /\ cli'[e].at = "idle" => cli'[e] = IdleCli
          /\ cli'[e].at # "idle" => cli'[e].dir \in Dirs /\ cli'[e].token \in Tokens
          /\ cli'[e].created => cli'[e].at \in {"keyed", "waiting", "open", "accepted", "rejected", "leaving"}
      BY <1>1 DEF CliSound
    <3>2. Past(e)' => /\ dirs'[cli'[e].dir].lock
                      /\ \A y \in Enrollers : Past(y)' /\ cli'[y].dir = cli'[e].dir => y = e
      BY <1>1, <2>1 DEF CliSound, Past
    <3>3. /\ cli'[e].at \in {"keyed", "waiting", "open", "accepted", "rejected"} =>
               KeyOf(e)' # Nobody /\ dirs'[cli'[e].dir].whole
          /\ cli'[e].at = "writing" => KeyOf(e)' # Nobody /\ ~dirs'[cli'[e].dir].whole
      BY <1>1, <2>1 DEF CliSound
    <3>4. ASSUME NEW b \in Calls, calls'[b].from = e
          PROVE  /\ calls'[b].kind = "enroll" /\ cli'[e].at = "waiting"
                 /\ calls'[b].token = cli'[e].token /\ calls'[b].key = KeyOf(e)'
                 /\ \A a \in Calls : calls'[a].from = e => a = b
      <4>1. b # c /\ calls[b].from = e /\ calls'[b] = calls[b]
        BY <1>1, <2>2, <3>4
      <4>2. /\ calls[b].kind = "enroll" /\ cli[e].at = "waiting" /\ calls[b].token = cli[e].token /\ calls[b].key = KeyOf(e)
            /\ \A a \in Calls : calls[a].from = e => a = b
        BY <1>1, <4>1 DEF CliSound
      <4> QED
        BY <2>1, <2>2, <4>1, <4>2
    <3> QED
      BY <3>1, <3>2, <3>3, <3>4 DEF CliSound
  <2>4. MadeSound(e)'
    <3> SUFFICES ASSUME cli[e].created, cli[e].at \in {"keyed", "rejected", "waiting"} PROVE MadeSound(e)'
      BY DEF MadeSound
    <3>1. KeyOf(e) \in KeyPairs /\ KeyOf(e)' = KeyOf(e)
      BY <1>1, <2>1 DEF CliSound, KeyOf, DirTypes
    <3>2. PICK key \in KeyPairs : key = KeyOf(e)
      BY <3>1
    <3>3. /\ \A b \in Calls : Enrolling(b, KeyOf(e))' <=> Enrolling(b, key)
          /\ KeyKnown(KeyOf(e))' <=> KeyKnown(key)
          /\ Enrolled(KeyOf(e))' <=> Enrolled(key)
      BY <1>4, <1>6, <3>1, <3>2 DEF Enrolling, KeyKnown, Enrolled
    <3>4. CASE cli[e].at # "waiting"
      BY <1>1, <3>2, <3>3, <3>4 DEF MadeSound
    <3>5. CASE cli[e].at = "waiting"
      <4>1. ASSUME NEW b \in Calls, Enrolling(b, KeyOf(e))'
            PROVE  /\ calls'[b].from = e
                   /\ calls'[b].step # "after" => ~Enrolled(KeyOf(e))'
                   /\ \A r \in RunnerIds : r[2] = KeyOf(e)' /\ fleet'[r].status # "none" => r = RunnerOf(b)'
        <5>1. Enrolling(b, key) /\ calls'[b] = calls[b]
          BY <1>1, <1>5, <3>3, <4>1
        <5>2. /\ calls[b].from = e
              /\ calls[b].step # "after" => ~Enrolled(key)
              /\ \A r \in RunnerIds : r[2] = key /\ fleet[r].status # "none" => r = RunnerOf(b)
          BY <1>1, <3>2, <3>5, <5>1 DEF MadeSound
        <5> QED
          BY <3>1, <3>2, <3>3, <5>1, <5>2 DEF RunnerOf
      <4> QED
        BY <3>5, <4>1 DEF MadeSound
    <3> QED
      BY <3>4, <3>5
  <2> QED
    BY <2>3, <2>4
<1> QED
  BY <1>1, <1>2, <1>3, <1>7, <1>8 DEF ClisSound, MadesSound

LEMMA AskKeeps ==
  ASSUME EnrollInv, NEW c \in Calls, Spare(c), NEW x \in CallRecords, CallSound(x), x.kind # "enroll", x.from \notin Enrollers,
         calls' = [calls EXCEPT ![c] = x], UNCHANGED <<registryRows, beats, machine>>, CallTimely(x)
  PROVE  EnrollInv'
<1>1. fleet' = fleet /\ cli' = cli /\ dirs' = dirs /\ beats' = beats /\ tick' = tick /\ tick \in Nat
  BY EnrollNumbers DEF registryRows, machine, EnrollInv, EnrollmentTypeOK
<1>2. \A d \in Dirs : SameDir(dirs[d], dirs'[d])
  BY <1>1 DEF SameDir
<1>3. /\ calls' \in [Calls -> CallRecords] /\ calls'[c] = x /\ \A b \in Calls : b # c => calls'[b] = calls[b]
      /\ CallsSound' /\ ClisSound' /\ DirsSound' /\ KeysSafe' /\ MadesSound'
  BY <1>1, <1>2, NewCall
<1>4. EnrollmentTypeOK'
  BY <1>1, <1>3 DEF EnrollInv, EnrollmentTypeOK, registryRows, CallRecords, CallKinds, CallSteps
<1>5. EnteredOnce' /\ BeatsSound' /\ SeenSound'
  BY <1>1, QuietRows
<1>6. CallsTimely'
  <2>1. \A b \in Calls : CallTimely(calls'[b])
    BY <1>3, EnrollFacts
  <2> QED
    BY <1>1, <2>1 DEF CallsTimely, CallTimely, InSkew
<1> QED
  BY <1>3, <1>4, <1>5, <1>6 DEF EnrollInv

LEMMA AskWithdrawKeeps ==
  ASSUME EnrollInv, NEW c \in Calls, NEW t \in Tokens, AskWithdraw(c, t) PROVE EnrollInv'
<1> DEFINE x == [IdleCall EXCEPT !.kind = "withdraw", !.step = "head", !.token = t, !.now = tick]
<1>1. tick \in Nat /\ LongestCall \in Nat
  BY EnrollNumbers DEF EnrollInv, EnrollmentTypeOK
<1>2. /\ x \in CallRecords /\ x.kind = "withdraw" /\ x.step = "head" /\ x.token = t /\ x.now = tick /\ x.from = Nobody
  BY <1>1, IdleCallTyped DEF CallRecords, CallKinds, CallSteps, IdleCall
<1>3. Spare(c) /\ calls' = [calls EXCEPT ![c] = x] /\ UNCHANGED <<registryRows, beats, machine>>
  BY DEF AskWithdraw
<1> HIDE DEF x
<1>4. CallSound(x) /\ CallTimely(x) /\ x.from \notin Enrollers
  BY <1>1, <1>2, NobodyIsNobody DEF CallSound, CallTimely
<1> QED
  BY <1>2, <1>3, <1>4, AskKeeps

LEMMA AskRevokedKeeps ==
  ASSUME EnrollInv, NEW c \in Calls, NEW r \in RunnerIds, AskRunnerRevoked(c, r) PROVE EnrollInv'
<1>1. tick \in Nat /\ LongestCall \in Nat /\ r[1] \in Tokens /\ r[2] \in KeyPairs
  BY EnrollNumbers DEF EnrollInv, EnrollmentTypeOK, RunnerIds
<1> DEFINE x == [IdleCall EXCEPT !.kind = "revoke", !.step = "read", !.token = r[1], !.key = r[2], !.now = tick]
<1>2. /\ x \in CallRecords /\ x.kind = "revoke" /\ x.step = "read" /\ x.token = r[1] /\ x.key = r[2] /\ x.now = tick
      /\ x.from = Nobody
  BY <1>1, IdleCallTyped DEF CallRecords, CallKinds, CallSteps, IdleCall
<1>3. Spare(c) /\ calls' = [calls EXCEPT ![c] = x] /\ UNCHANGED <<registryRows, beats, machine>>
  BY DEF AskRunnerRevoked
<1> HIDE DEF x
<1>4. CallSound(x) /\ CallTimely(x) /\ x.from \notin Enrollers
  BY <1>1, <1>2, NobodyIsNobody DEF CallSound, CallTimely
<1> QED
  BY <1>2, <1>3, <1>4, AskKeeps

LEMMA BeatCall ==
  ASSUME NEW n \in Beats, NEW from \in Dirs, NEW x,
         x = [IdleCall EXCEPT !.kind = "beat", !.step = "sent", !.beat = n, !.from = from]
  PROVE  /\ x \in CallRecords /\ x.kind = "beat" /\ x.step = "sent" /\ x.beat = n /\ CallSound(x) /\ x.from \notin Enrollers
<1>1. /\ x \in CallRecords /\ x.kind = "beat" /\ x.step = "sent" /\ x.beat = n /\ x.from = from
  BY IdleCallTyped DEF CallRecords, CallKinds, CallSteps, IdleCall
<1> QED
  BY <1>1, NobodyIsNobody DEF CallSound

LEMMA CopyBeatKeeps == ASSUME EnrollInv, NEW c \in Calls, NEW n \in Beats, CopyBeat(c, n) PROVE EnrollInv'
<1> DEFINE x == [IdleCall EXCEPT !.kind = "beat", !.step = "sent", !.beat = n]
<1>1. /\ x \in CallRecords /\ x.kind = "beat" /\ x.step = "sent" /\ x.beat = n /\ x.from = Nobody
  BY IdleCallTyped DEF CallRecords, CallKinds, CallSteps, IdleCall
<1>2. /\ Spare(c) /\ calls' = [calls EXCEPT ![c] = x] /\ UNCHANGED <<registryRows, beats, machine>>
      /\ beats[n].runner # Nobody
  BY DEF CopyBeat
<1> HIDE DEF x
<1>3. CallSound(x) /\ x.from \notin Enrollers
  BY <1>1, NobodyIsNobody DEF CallSound
<1>4. CallTimely(x)
  BY <1>1, <1>2 DEF CallTimely
<1> QED
  BY <1>1, <1>2, <1>3, <1>4, AskKeeps

LEMMA SendBeatKeeps ==
  ASSUME EnrollInv, NEW d \in Dirs, NEW c \in Calls, NEW n \in Beats, NEW signed \in Nat, SendBeat(d, c, n, signed)
  PROVE  EnrollInv'
<1> DEFINE x == [IdleCall EXCEPT !.kind = "beat", !.step = "sent", !.beat = n, !.from = d]
<1>1. PICK r \in RunnerIds : r = dirs[d].config
  BY MachineFacts DEF SendBeat, DirTypes
<1>2. /\ Spare(c) /\ calls' = [calls EXCEPT ![c] = x] /\ beats[n].runner = Nobody
      /\ beats' = [beats EXCEPT ![n].runner = r, ![n].signed = signed]
      /\ dirs' = [dirs EXCEPT ![d].loop = "waiting"] /\ UNCHANGED <<registryRows, cli, tick>>
  BY <1>1 DEF SendBeat
<1>3. fleet' = fleet /\ tokens' = tokens /\ chain' = chain /\ cli' = cli /\ tick' = tick
  BY <1>2 DEF registryRows
<1> HIDE DEF x
<1>4. x \in CallRecords /\ x.kind = "beat" /\ x.step = "sent" /\ x.beat = n /\ CallSound(x) /\ x.from \notin Enrollers
  BY BeatCall DEF x
<1>5. dirs' \in [Dirs -> DirTypes] /\ \A y \in Dirs : SameDir(dirs[y], dirs'[y])
  BY <1>2, MachineFacts DEF DirTypes, SameDir
<1>6. /\ calls' \in [Calls -> CallRecords] /\ calls'[c] = x /\ \A b \in Calls : b # c => calls'[b] = calls[b]
      /\ CallsSound' /\ ClisSound' /\ DirsSound' /\ KeysSafe' /\ MadesSound'
  BY <1>2, <1>3, <1>4, <1>5, NewCall
<1>7. beats \in BeatRows
  BY EnrollFacts DEF BeatRows
<1>8. /\ beats' \in BeatRows /\ beats'[n].runner = r /\ \A m \in Beats : m # n => beats'[m] = beats[m]
      /\ beats'[n].counted = beats[n].counted /\ beats'[n].until = beats[n].until
  BY <1>2, <1>7 DEF BeatRows
<1>9. EnrollmentTypeOK'
  BY <1>3, <1>5, <1>6, <1>8 DEF EnrollInv, EnrollmentTypeOK, CallRecords, CallKinds, CallSteps, DirTypes, BeatRows
<1>10. EnteredOnce'
  BY <1>3 DEF EnrollInv, EnteredOnce
<1>11. BeatSound(n) /\ beats[n].counted = 0 /\ r # Nobody
  BY <1>2, NobodyIsNobody DEF EnrollInv, BeatsSound, BeatSound
<1>12. BeatsSound'
  <2> SUFFICES ASSUME NEW m \in Beats PROVE BeatSound(m)'
    BY DEF BeatsSound
  <2>1. CASE m = n
    BY <1>8, <1>11, <2>1 DEF BeatSound
  <2>2. CASE m # n
    BY <1>3, <1>8, <2>2 DEF EnrollInv, BeatsSound, BeatSound
  <2> QED
    BY <2>1, <2>2
<1>13. SeenSound'
  <2> SUFFICES ASSUME NEW q \in RunnerIds
               PROVE  IF Times(q)' = {} THEN fleet'[q].seen = 0
                      ELSE fleet'[q].seen \in Times(q)' /\ \A moment \in Times(q)' : moment <= fleet'[q].seen
    BY DEF SeenSound
  <2>1. Times(q)' = Times(q)
    <3>1. ~(beats[n].counted > 0) /\ ~(beats'[n].counted > 0)
      BY <1>8, <1>11
    <3> QED
      BY <1>8, <3>1 DEF Times
  <2> QED
    BY <1>3, <2>1 DEF EnrollInv, SeenSound
<1>14. CallsTimely'
  <2> SUFFICES ASSUME NEW b \in Calls PROVE CallTimely(calls[b])'
    BY DEF CallsTimely
  <2>1. CASE b = c
    BY <1>3, <1>4, <1>6, <1>8, <1>11, <2>1 DEF CallTimely
  <2>2. CASE b # c
    <3>1. CallTimely(calls[b]) /\ CallSound(calls[b]) /\ calls'[b] = calls[b]
      BY <1>6, <2>2, EnrollFacts
    <3>2. CASE calls[b].kind # "beat"
      BY <1>3, <3>1, <3>2 DEF CallTimely
    <3>3. CASE calls[b].kind = "beat"
      <4>1. beats'[calls[b].beat] = beats[calls[b].beat]
        BY <1>2, <1>8, <3>1, <3>3 DEF CallTimely, CallSound
      <4> QED
        BY <1>3, <3>1, <4>1 DEF CallTimely, InSkew
    <3> QED
      BY <3>2, <3>3
  <2> QED
    BY <2>1, <2>2
<1> QED
  BY <1>6, <1>9, <1>10, <1>12, <1>13, <1>14 DEF EnrollInv

(* The command sends its request, and waits.                                *)
LEMMA SendEnrollKeeps ==
  ASSUME EnrollInv, NEW e \in Enrollers, NEW c \in Calls, SendEnroll(e, c) PROVE EnrollInv'
<1>1. /\ cli[e].at = "keyed" /\ Spare(c) /\ Past(e) /\ Proceed(e, "waiting") /\ UNCHANGED <<registryRows, beats, dirs, tick>>
  BY DEF SendEnroll, Past
<1>2. /\ \A x \in Enrollers : CliSound(x) /\ MadeSound(x)
      /\ \A b \in Calls : CallSound(calls[b]) /\ CallTimely(calls[b])
      /\ cli \in [Enrollers -> CliTypes] /\ dirs \in [Dirs -> DirTypes] /\ calls \in [Calls -> CallRecords]
  BY EnrollFacts, MachineFacts DEF EnrollInv, MadesSound
<1>3. PICK d \in Dirs, t \in Tokens : d = cli[e].dir /\ t = cli[e].token
  BY <1>1, OwnDirectory
<1>4. PICK key \in KeyPairs : key = KeyOf(e)
  BY <1>1, <1>2, <1>3 DEF CliSound, KeyOf, DirTypes
<1>5. /\ dirs[d].key = key /\ dirs[d].whole /\ key[1] = d
      /\ \A x \in Enrollers : x # e => ~(Past(x) /\ cli[x].dir = d)
      /\ \A b \in Calls : calls[b].from # e
  BY <1>1, <1>2, <1>3, <1>4, OwnDirectory, NobodyIsNobody DEF KeyOf, CliSound, DirSound
<1> DEFINE x == [IdleCall EXCEPT !.kind = "enroll", !.step = "sent", !.token = t, !.key = key, !.from = e]
<1>6. calls' = [calls EXCEPT ![c] = x]
  BY <1>3, <1>4 DEF SendEnroll, KeyOf
<1>7. x \in CallRecords /\ x.kind = "enroll" /\ x.step = "sent" /\ x.token = t /\ x.key = key /\ x.from = e
  BY IdleCallTyped DEF CallRecords, CallKinds, CallSteps, IdleCall
<1> HIDE DEF x
<1>8. CallSound(x)
  BY <1>7, NobodyIsNobody DEF CallSound
<1>9. /\ calls' \in [Calls -> CallRecords] /\ calls'[c] = x /\ \A b \in Calls : b # c => calls'[b] = calls[b]
      /\ calls[c].kind # "enroll"
  BY <1>1, <1>2, <1>6, <1>7 DEF Spare, CallSound
<1>10. /\ cli' \in [Enrollers -> CliTypes] /\ cli'[e].at = "waiting" /\ cli'[e].dir = d /\ cli'[e].token = t
       /\ cli'[e].created = cli[e].created /\ \A y \in Enrollers : y # e => cli'[y] = cli[y]
  BY <1>1, <1>3, CliProceeds DEF CliWords
<1>11. /\ fleet' = fleet /\ beats' = beats /\ dirs' = dirs /\ tick' = tick /\ tick \in Nat
  BY <1>1, EnrollNumbers DEF registryRows, EnrollInv, EnrollmentTypeOK
<1>12. EnteredOnce' /\ BeatsSound' /\ SeenSound'
  BY <1>1, <1>11, QuietRows
<1>13. EnrollmentTypeOK'
  BY <1>1, <1>9, <1>10 DEF EnrollInv, EnrollmentTypeOK, registryRows, CallRecords, CallKinds, CallSteps, CliTypes
<1>14. CallsSound'
  <2>1. \A b \in Calls : CallSound(calls'[b])
    BY <1>2, <1>8, <1>9
  <2> QED
    BY <2>1 DEF CallsSound, CallSound, IdleCall
<1>15. CallsTimely'
  <2>1. \A b \in Calls : CallTimely(calls'[b])
    BY <1>2, <1>7, <1>9 DEF CallTimely
  <2> QED
    BY <1>11, <2>1 DEF CallsTimely, CallTimely, InSkew
<1>16. DirsSound'
  BY <1>11 DEF EnrollInv, DirsSound, DirSound
<1>17. \A b \in Calls, k \in KeyPairs : Enrolling(b, k)' <=> (IF b = c THEN k = key ELSE Enrolling(b, k))
  BY <1>7, <1>9 DEF Enrolling
<1>18. \A b \in Calls, k \in KeyPairs : Enrolling(b, k) => b # c
  BY <1>9 DEF Enrolling
<1>19. \A k \in KeyPairs : (KeyKnown(k)' <=> KeyKnown(k) \/ k = key) /\ (Enrolled(k)' <=> Enrolled(k))
  BY <1>11, <1>17, <1>18 DEF KeyKnown, Enrolled
<1>20. KeysSafe'
  BY <1>5, <1>11, <1>19 DEF EnrollInv, KeysSafe, KeySafe
<1>21. ASSUME NEW y \in Enrollers PROVE CliSound(y)'
  <2>1. Past(y)' <=> Past(y)
    BY <1>1, <1>10 DEF Past
  <2>2. KeyOf(y)' = KeyOf(y) /\ cli'[y].dir = cli[y].dir /\ cli'[y].token = cli[y].token /\ cli'[y].created = cli[y].created
    BY <1>3, <1>10, <1>11 DEF KeyOf
  <2>3. /\ cli'[y].at = "idle" => cli'[y] = IdleCli
        /\ cli'[y].at # "idle" => cli'[y].dir \in Dirs /\ cli'[y].token \in Tokens
        /\ cli'[y].created => cli'[y].at \in {"keyed", "waiting", "open", "accepted", "rejected", "leaving"}
        /\ cli'[y].at \in {"keyed", "waiting", "open", "accepted", "rejected"} => KeyOf(y)' # Nobody /\ dirs'[cli'[y].dir].whole
        /\ cli'[y].at = "writing" => KeyOf(y)' # Nobody /\ ~dirs'[cli'[y].dir].whole
    BY <1>1, <1>2, <1>3, <1>10, <1>11, <2>2 DEF CliSound
  <2>4. Past(y)' => dirs'[cli'[y].dir].lock
    BY <1>2, <1>11, <2>1, <2>2 DEF CliSound
  <2>5. ASSUME Past(y)', NEW z \in Enrollers, Past(z)', cli'[z].dir = cli'[y].dir PROVE z = y
    <3>1. Past(y) /\ Past(z) /\ cli[z].dir = cli[y].dir
      BY <1>1, <1>3, <1>10, <2>5 DEF Past
    <3> QED
      BY <1>2, <3>1 DEF CliSound
  <2>6. ASSUME NEW b \in Calls, calls'[b].from = y
        PROVE  /\ calls'[b].kind = "enroll" /\ cli'[y].at = "waiting"
               /\ calls'[b].token = cli'[y].token /\ calls'[b].key = KeyOf(y)'
               /\ \A a \in Calls : calls'[a].from = y => a = b
    <3>1. CASE y = e
      <4>1. b = c
        BY <1>5, <1>9, <2>6, <3>1
      <4> QED
        BY <1>3, <1>4, <1>5, <1>7, <1>9, <1>10, <2>2, <3>1, <4>1
    <3>2. CASE y # e
      <4>1. b # c /\ calls'[b] = calls[b] /\ cli'[y] = cli[y] /\ \A a \in Calls : calls'[a].from = y => calls[a].from = y
        BY <1>7, <1>9, <1>10, <2>6, <3>2
      <4>2. /\ calls[b].kind = "enroll" /\ cli[y].at = "waiting" /\ calls[b].token = cli[y].token /\ calls[b].key = KeyOf(y)
            /\ \A a \in Calls : calls[a].from = y => a = b
        BY <1>2, <2>6, <4>1 DEF CliSound
      <4> QED
        BY <2>2, <4>1, <4>2
    <3> QED
      BY <3>1, <3>2
  <2> QED
    BY <2>3, <2>4, <2>5, <2>6 DEF CliSound
<1>22. MadeSound(e)'
  <2> SUFFICES ASSUME cli'[e].created PROVE MadeSound(e)'
    BY DEF MadeSound
  <2>1. ~KeyKnown(key)
    BY <1>1, <1>2, <1>4, <1>10 DEF MadeSound
  <2>2. KeyOf(e)' = key
    BY <1>5, <1>10, <1>11 DEF KeyOf
  <2>3. \A b \in Calls : Enrolling(b, KeyOf(e))' => b = c
    <3>1. \A b \in Calls : Enrolling(b, KeyOf(e))' => Enrolling(b, key)'
      BY <2>2 DEF Enrolling
    <3> QED
      BY <1>17, <2>1, <3>1 DEF KeyKnown
  <2>4. ~Enrolled(KeyOf(e))' /\ \A r \in RunnerIds : ~(r[2] = key /\ fleet[r].status # "none")
    BY <1>11, <2>1, <2>2 DEF Enrolled, KeyKnown
  <2> QED
    BY <1>7, <1>9, <1>10, <1>11, <2>2, <2>3, <2>4 DEF MadeSound
<1>23. ASSUME NEW y \in Enrollers, y # e PROVE MadeSound(y)'
  <2> SUFFICES ASSUME cli[y].created, cli[y].at \in {"keyed", "rejected", "waiting"} PROVE MadeSound(y)'
    BY <1>10, <1>23 DEF MadeSound
  <2>1. Past(y) /\ cli[y].dir # d /\ cli'[y] = cli[y] /\ KeyOf(y)' = KeyOf(y)
    BY <1>5, <1>10, <1>11, <1>23 DEF Past, KeyOf
  <2>2. PICK k \in KeyPairs : k = KeyOf(y) /\ k # key
    <3>1. cli[y].dir \in Dirs /\ KeyOf(y) # Nobody
      BY <1>2 DEF CliSound
    <3>2. KeyOf(y) \in KeyPairs /\ KeyOf(y)[1] = cli[y].dir
      BY <1>2, <3>1 DEF EnrollInv, DirsSound, DirSound, KeyOf, DirTypes
    <3> QED
      BY <1>5, <2>1, <3>2
  <2>3. /\ \A b \in Calls : Enrolling(b, KeyOf(y))' => Enrolling(b, k) /\ calls'[b] = calls[b]
        /\ KeyKnown(KeyOf(y))' <=> KeyKnown(k)
        /\ Enrolled(KeyOf(y))' <=> Enrolled(k)
    <3>1. /\ \A b \in Calls : Enrolling(b, KeyOf(y))' <=> Enrolling(b, k)'
          /\ KeyKnown(KeyOf(y))' <=> KeyKnown(k)'
          /\ Enrolled(KeyOf(y))' <=> Enrolled(k)'
      BY <2>1, <2>2 DEF Enrolling, KeyKnown, Enrolled
    <3> QED
      BY <1>9, <1>17, <1>18, <1>19, <2>2, <3>1
  <2>4. CASE cli[y].at # "waiting"
    BY <1>2, <2>1, <2>2, <2>3, <2>4 DEF MadeSound
  <2>5. CASE cli[y].at = "waiting"
    <3>1. ASSUME NEW b \in Calls, Enrolling(b, KeyOf(y))'
          PROVE  /\ calls'[b].from = y
                 /\ calls'[b].step # "after" => ~Enrolled(KeyOf(y))'
                 /\ \A r \in RunnerIds : r[2] = KeyOf(y)' /\ fleet'[r].status # "none" => r = RunnerOf(b)'
      <4>1. Enrolling(b, k) /\ calls'[b] = calls[b]
        BY <2>3, <3>1
      <4>2. /\ calls[b].from = y
            /\ calls[b].step # "after" => ~Enrolled(k)
            /\ \A r \in RunnerIds : r[2] = k /\ fleet[r].status # "none" => r = RunnerOf(b)
        BY <1>2, <2>2, <2>5, <4>1 DEF MadeSound
      <4> QED
        BY <1>11, <2>1, <2>2, <2>3, <4>1, <4>2 DEF RunnerOf
    <3> QED
      BY <2>1, <2>5, <3>1 DEF MadeSound
  <2> QED
    BY <2>4, <2>5
<1> QED
  BY <1>12, <1>13, <1>14, <1>15, <1>16, <1>20, <1>21, <1>22, <1>23 DEF EnrollInv, ClisSound, MadesSound

LEMMA IssueKeeps == ASSUME EnrollInv, NEW t \in Tokens, IssueToken(t) PROVE EnrollInv'
<1>1. /\ ~tokens[t].issued /\ Entered(chain.head, <<"issued", t>>) /\ UNCHANGED <<fleet, calls, beats, dirs, cli, tick>>
      /\ tokens' = [tokens EXCEPT ![t].issued = TRUE, ![t].expires = tick + TokenTtl]
  BY DEF IssueToken, machine
<1>2. /\ tokens \in [Tokens -> [issued : BOOLEAN, expires : Nat, revoked : BOOLEAN, runner : RunnerIds \cup {Nobody}]]
      /\ chain.head \in Nat /\ chain.entries \in [EntriesOfTokens \cup EntriesOfRunners -> Nat]
      /\ tick + TokenTtl \in Nat /\ EnteredOnce
  BY EnrollFacts, EnrollNumbers DEF EnrollInv, EnrollmentTypeOK
<1>3. <<"issued", t>> \in EntriesOfTokens \cup EntriesOfRunners /\ chain.entries[<<"issued", t>>] = 0
  BY <1>1, <1>2 DEF EntriesOfTokens, EnteredOnce
<1>4. /\ tokens' \in [Tokens -> [issued : BOOLEAN, expires : Nat, revoked : BOOLEAN, runner : RunnerIds \cup {Nobody}]]
      /\ \A u \in Tokens : /\ tokens'[u].runner = tokens[u].runner /\ tokens'[u].revoked = tokens[u].revoked
                           /\ tokens'[u].issued = (IF u = t THEN TRUE ELSE tokens[u].issued)
  BY <1>1, <1>2
<1>5. /\ chain' \in [head : Nat, entries : [EntriesOfTokens \cup EntriesOfRunners -> Nat]]
      /\ \A x \in EntriesOfTokens \cup EntriesOfRunners :
           chain'.entries[x] = IF x = <<"issued", t>> THEN 1 ELSE chain.entries[x]
  <2>1. /\ [chain.entries EXCEPT ![<<"issued", t>>] = @ + 1] \in [EntriesOfTokens \cup EntriesOfRunners -> Nat]
        /\ \A x \in EntriesOfTokens \cup EntriesOfRunners :
             [chain.entries EXCEPT ![<<"issued", t>>] = @ + 1][x] = IF x = <<"issued", t>> THEN 1 ELSE chain.entries[x]
    BY <1>2, <1>3
  <2> QED
    BY <1>1, <1>2, <2>1 DEF Entered
<1>6. EnteredOnce'
  <2>1. /\ \A r \in RunnerIds : /\ <<"enrolled", r>> \in EntriesOfTokens \cup EntriesOfRunners
                                /\ <<"revoked", r>> \in EntriesOfTokens \cup EntriesOfRunners
        /\ \A u \in Tokens : /\ <<"issued", u>> \in EntriesOfTokens \cup EntriesOfRunners
                             /\ <<"withdrawn", u>> \in EntriesOfTokens \cup EntriesOfRunners
        /\ \A r \in RunnerIds : r[1] \in Tokens
    BY DEF EntriesOfTokens, EntriesOfRunners, RunnerIds
  <2>2. ASSUME NEW r \in RunnerIds
        PROVE  /\ fleet'[r].status # "none" => tokens'[r[1]].runner = r
               /\ chain'.entries[<<"enrolled", r>>] = (IF fleet'[r].status # "none" THEN 1 ELSE 0)
               /\ chain'.entries[<<"revoked", r>>] = (IF fleet'[r].status = "revoked" THEN 1 ELSE 0)
    BY <1>1, <1>2, <1>4, <1>5, <2>1 DEF EnteredOnce
  <2>3. ASSUME NEW u \in Tokens
        PROVE  /\ tokens'[u].runner # Nobody => ~tokens'[u].revoked /\ fleet'[tokens'[u].runner].status # "none"
               /\ chain'.entries[<<"issued", u>>] = (IF tokens'[u].issued THEN 1 ELSE 0)
               /\ chain'.entries[<<"withdrawn", u>>] = (IF tokens'[u].revoked THEN 1 ELSE 0)
    BY <1>1, <1>2, <1>4, <1>5, <2>1 DEF EnteredOnce
  <2> QED
    BY <2>2, <2>3 DEF EnteredOnce
<1>7. EnrollmentTypeOK'
  BY <1>1, <1>4, <1>5 DEF EnrollInv, EnrollmentTypeOK
<1>8. CallsSound' /\ CallsTimely' /\ DirsSound' /\ KeysSafe'
  BY <1>1 DEF EnrollInv, CallsSound, CallSound, IdleCall, CallsTimely, CallTimely, InSkew, DirsSound, DirSound,
              KeysSafe, KeySafe, KeyKnown, Enrolling, Enrolled
<1>9. ClisSound' /\ MadesSound'
  BY <1>1 DEF EnrollInv, ClisSound, CliSound, KeyOf, Past, MadesSound, MadeSound, KeyKnown, Enrolling, Enrolled, RunnerOf
<1>10. BeatsSound'
  BY <1>1 DEF EnrollInv, BeatsSound, BeatSound
<1>11. SeenSound'
  <2> SUFFICES ASSUME NEW q \in RunnerIds
               PROVE  IF Times(q)' = {} THEN fleet'[q].seen = 0
                      ELSE fleet'[q].seen \in Times(q)' /\ \A moment \in Times(q)' : moment <= fleet'[q].seen
    BY DEF SeenSound
  <2>1. Times(q)' = Times(q)
    BY <1>1 DEF Times
  <2> QED
    BY <1>1, <2>1 DEF EnrollInv, SeenSound
<1> QED
  BY <1>6, <1>7, <1>8, <1>9, <1>10, <1>11 DEF EnrollInv

(* Time passes, or nothing happens.                                         *)
LEMMA TimeKeeps ==
  ASSUME EnrollInv, UNCHANGED <<registryRows, calls, beats, dirs, cli>>, tick' \in 0..LastTick, tick' >= tick,
         \A c \in Calls : calls[c].step \in {"none", "sent"} \/ tick' <= calls[c].now + LongestCall
  PROVE  EnrollInv'
<1>1. /\ tick \in Nat /\ tick' \in Nat /\ LongestCall \in Nat /\ calls \in [Calls -> CallRecords]
      /\ \A c \in Calls : CallTimely(calls[c])
  BY EnrollNumbers, EnrollFacts DEF EnrollInv, EnrollmentTypeOK
<1>2. EnteredOnce' /\ BeatsSound' /\ SeenSound'
  BY <1>1, QuietRows
<1>3. EnrollmentTypeOK'
  BY DEF EnrollInv, EnrollmentTypeOK, registryRows
<1>4. CallsTimely'
  <2> SUFFICES ASSUME NEW c \in Calls PROVE CallTimely(calls[c])'
    BY DEF CallsTimely
  <2>1. calls[c].step \notin {"none", "sent"} => calls[c].now <= tick'
    <3>1. calls[c].now \in Nat
      BY <1>1 DEF CallRecords
    <3> QED
      BY <1>1, <3>1 DEF CallTimely
  <2>2. calls[c].step \notin {"none", "sent"} => tick' <= calls[c].now + LongestCall
    OBVIOUS
  <2> QED
    BY <1>1, <2>1, <2>2 DEF CallTimely, InSkew
<1>5. CallsSound' /\ DirsSound' /\ KeysSafe'
  BY DEF EnrollInv, CallsSound, CallSound, IdleCall, DirsSound, DirSound, registryRows,
         KeysSafe, KeySafe, KeyKnown, Enrolling, Enrolled
<1>6. ClisSound' /\ MadesSound'
  BY DEF EnrollInv, ClisSound, CliSound, KeyOf, Past, MadesSound, MadeSound, KeyKnown, Enrolling, Enrolled, RunnerOf,
         registryRows
<1> QED
  BY <1>2, <1>3, <1>4, <1>5, <1>6 DEF EnrollInv

LEMMA TickKeeps == ASSUME EnrollInv, PassTime \/ UNCHANGED evars PROVE EnrollInv'
<1>1. /\ tick \in 0..LastTick /\ LastTick \in Nat /\ LongestCall \in Nat /\ calls \in [Calls -> CallRecords]
      /\ \A c \in Calls : CallTimely(calls[c])
  BY EnrollNumbers, EnrollFacts DEF EnrollInv, EnrollmentTypeOK
<1>2. \A c \in Calls : calls[c].now \in Nat
  BY <1>1 DEF CallRecords
<1>3. CASE PassTime
  <2>1. /\ tick < LastTick /\ tick' = tick + 1 /\ UNCHANGED <<registryRows, calls, beats, dirs, cli>>
        /\ \A c \in Calls : calls[c].step \in {"none", "sent"} \/ tick < calls[c].now + LongestCall
    BY <1>3 DEF PassTime
  <2>2. tick' \in 0..LastTick /\ tick' >= tick
    BY <1>1, <2>1
  <2>3. \A c \in Calls : calls[c].step \in {"none", "sent"} \/ tick' <= calls[c].now + LongestCall
    BY <1>1, <1>2, <2>1
  <2> QED
    BY <2>1, <2>2, <2>3, TimeKeeps
<1>4. CASE UNCHANGED evars
  <2>1. UNCHANGED <<registryRows, calls, beats, dirs, cli>> /\ tick' = tick
    BY <1>4 DEF evars, registryRows
  <2>2. \A c \in Calls : calls[c].step \in {"none", "sent"} \/ tick' <= calls[c].now + LongestCall
    BY <1>1, <2>1 DEF CallTimely
  <2> QED
    BY <1>1, <2>1, <2>2, TimeKeeps
<1> QED
  BY <1>3, <1>4

LEMMA EnrollNextKeeps == EnrollInv /\ [EnrollmentNext]_evars => EnrollInv'
<1> SUFFICES ASSUME EnrollInv, [EnrollmentNext]_evars PROVE EnrollInv'
  OBVIOUS
<1>1. ASSUME NEW c \in Calls, HandleEnroll(c) \/ HandleOwner(c) \/ HandleBeat(c) \/ ReadHead(c) PROVE EnrollInv'
  BY <1>1, EnrollHandled, OwnerHandled, BeatHandled, HeadHandled, HandledKeeps
<1>2. ASSUME NEW c \in Calls, LoseCall(c) PROVE EnrollInv'
  BY <1>2, LoseKeeps
<1>3. ASSUME NEW e \in Enrollers, EnrollStep(e) PROVE EnrollInv'
  BY <1>3, AcquireKeeps, FindKeyKeeps, FinishKeyKeeps, HearKeeps, ReleaseKeeps DEF EnrollStep
<1>4. ASSUME NEW e \in Enrollers, StopWaiting(e) \/ KillEnroll(e) PROVE EnrollInv'
  BY <1>4, StopWaitingKeeps, KillKeeps
<1>5. ASSUME NEW e \in Enrollers, NEW c \in Calls, SendEnroll(e, c) PROVE EnrollInv'
  BY <1>5, SendEnrollKeeps
<1>6. ASSUME NEW e \in Enrollers, NEW d \in Dirs, NEW t \in Tokens, StartEnroll(e, d, t) PROVE EnrollInv'
  BY <1>6, StartKeeps
<1>7. ASSUME NEW t \in Tokens, IssueToken(t) PROVE EnrollInv'
  BY <1>7, IssueKeeps
<1>8. ASSUME NEW c \in Calls, NEW t \in Tokens, AskWithdraw(c, t) PROVE EnrollInv'
  BY <1>8, AskWithdrawKeeps
<1>9. ASSUME NEW c \in Calls, NEW r \in RunnerIds, AskRunnerRevoked(c, r) PROVE EnrollInv'
  BY <1>9, AskRevokedKeeps
<1>10. ASSUME NEW c \in Calls, NEW n \in Beats, CopyBeat(c, n) PROVE EnrollInv'
  BY <1>10, CopyBeatKeeps
<1>11. ASSUME NEW d \in Dirs, NEW c \in Calls, NEW n \in Beats, NEW signed \in 0..(LastTick + SkewFuture),
              SendBeat(d, c, n, signed)
       PROVE  EnrollInv'
  <2>1. signed \in Nat
    BY EnrollNumbers
  <2> QED
    BY <1>11, <2>1, SendBeatKeeps
<1>12. ASSUME NEW d \in Dirs, ClearLock(d) \/ StopBeating(d) PROVE EnrollInv'
  BY <1>12, ClearLockKeeps, StopBeatingKeeps
<1>13. CASE PassTime \/ UNCHANGED evars
  BY <1>13, TickKeeps
<1> QED
  BY <1>1, <1>2, <1>3, <1>4, <1>5, <1>6, <1>7, <1>8, <1>9, <1>10, <1>11, <1>12, <1>13 DEF EnrollmentNext

-----------------------------------------------------------------------------
(* It begins so.                                                            *)

LEMMA IdleStart ==
  ASSUME calls = [c \in Calls |-> IdleCall], cli = [e \in Enrollers |-> IdleCli], beats = [n \in Beats |-> NewBeat], tick = 0
  PROVE  /\ calls \in [Calls -> CallRecords] /\ cli \in [Enrollers -> CliTypes] /\ beats \in BeatRows /\ tick \in 0..LastTick
         /\ CallsSound /\ ClisSound /\ MadesSound /\ BeatsSound /\ CallsTimely
         /\ \A r : Times(r) = {}
         /\ \A c \in Calls : \A key : ~Enrolling(c, key)
<1>1. calls \in [Calls -> CallRecords] /\ CallsSound
  BY IdleCallTyped DEF CallsSound
<1>2. cli \in [Enrollers -> CliTypes]
  BY IdleCliTyped
<1>3. beats \in BeatRows /\ tick \in 0..LastTick
  BY EnrollNumbers DEF NewBeat, BeatRows
<1>4. ClisSound
  <2>1. \A c \in Calls, e \in Enrollers : calls[c].from # e
    BY NobodyIsNobody DEF IdleCall
  <2>2. \A e \in Enrollers : cli[e] = IdleCli /\ cli[e].at = "idle" /\ cli[e].created = FALSE
    BY DEF IdleCli
  <2> QED
    BY <2>1, <2>2 DEF ClisSound, CliSound, Past
<1>5. MadesSound
  BY DEF MadesSound, MadeSound, IdleCli
<1>6. BeatsSound
  BY DEF BeatsSound, BeatSound, NewBeat
<1>7. CallsTimely
  BY DEF CallsTimely, CallTimely, IdleCall
<1>8. \A r : Times(r) = {}
  <2>1. \A n \in Beats : ~(beats[n].counted > 0)
    BY DEF NewBeat
  <2> QED
    BY <2>1 DEF Times
<1>9. \A c \in Calls : \A key : ~Enrolling(c, key)
  BY DEF Enrolling, IdleCall
<1> QED
  BY <1>1, <1>2, <1>3, <1>4, <1>5, <1>6, <1>7, <1>8, <1>9

LEMMA EmptyStart == ASSUME EnrollmentInit PROVE EnrollInv
<1>1. /\ tokens = [t \in Tokens |-> NewToken] /\ fleet = [r \in RunnerIds |-> NewRunner] /\ dirs = [d \in Dirs |-> NewDir]
      /\ chain = [head |-> 0, entries |-> [x \in EntriesOfTokens \cup EntriesOfRunners |-> 0]]
  BY DEF EnrollmentInit
<1>2. /\ calls \in [Calls -> CallRecords] /\ cli \in [Enrollers -> CliTypes] /\ beats \in BeatRows /\ tick \in 0..LastTick
      /\ CallsSound /\ ClisSound /\ MadesSound /\ BeatsSound /\ CallsTimely
      /\ \A r : Times(r) = {}
      /\ \A c \in Calls : \A key : ~Enrolling(c, key)
  BY IdleStart DEF EnrollmentInit
<1>3. EnrollmentTypeOK
  <2>1. tokens \in [Tokens -> [issued : BOOLEAN, expires : Nat, revoked : BOOLEAN, runner : RunnerIds \cup {Nobody}]]
    BY <1>1 DEF NewToken
  <2>2. fleet \in [RunnerIds -> [status : {"none", "active", "revoked"}, seen : Nat]]
    BY <1>1 DEF NewRunner
  <2>3. dirs \in [Dirs -> DirTypes]
    BY <1>1, EnrollNumbers DEF NewDir, DirTypes
  <2>4. chain \in [head : Nat, entries : [EntriesOfTokens \cup EntriesOfRunners -> Nat]]
    BY <1>1
  <2> QED
    BY <1>2, <2>1, <2>2, <2>3, <2>4
    DEF EnrollmentTypeOK, CallRecords, CallKinds, CallSteps, CliTypes, DirTypes, BeatRows
<1>4. DirsSound
  BY <1>1 DEF DirsSound, DirSound, NewDir
<1>5. KeysSafe
  BY <1>1, <1>2 DEF KeysSafe, KeyKnown, Enrolled, NewRunner
<1>6. EnteredOnce
  <2>1. /\ \A r \in RunnerIds : /\ <<"enrolled", r>> \in EntriesOfTokens \cup EntriesOfRunners
                                /\ <<"revoked", r>> \in EntriesOfTokens \cup EntriesOfRunners
        /\ \A u \in Tokens : /\ <<"issued", u>> \in EntriesOfTokens \cup EntriesOfRunners
                             /\ <<"withdrawn", u>> \in EntriesOfTokens \cup EntriesOfRunners
    BY DEF EntriesOfTokens, EntriesOfRunners
  <2> QED
    BY <1>1, <2>1 DEF EnteredOnce, NewToken, NewRunner
<1>7. SeenSound
  BY <1>1, <1>2 DEF SeenSound, NewRunner
<1> QED
  BY <1>2, <1>3, <1>4, <1>5, <1>6, <1>7 DEF EnrollInv

LEMMA EnrolledStart == ASSUME NEW d \in Dirs, NEW t \in Tokens, EnrolledInit(d, t) PROVE EnrollInv
<1>1. PICK key \in KeyPairs : key = <<d, 1>>
  <2>1. 1 \in 1..MaxKeys
    BY EnrollNumbers
  <2>2. <<d, 1>> \in KeyPairs
    BY <2>1 DEF KeyPairs
  <2> QED
    BY <2>2
<1>2. PICK r \in RunnerIds : r = <<t, key>>
  BY DEF RunnerIds
<1>3. r[1] = t /\ r[2] = key /\ key[1] = d /\ key # Nobody /\ r # Nobody
  BY <1>1, <1>2, NobodyIsNobody
<1>4. /\ tokens = [[x \in Tokens |-> NewToken] EXCEPT ![t] = [issued |-> TRUE, expires |-> TokenTtl, revoked |-> FALSE,
                                                              runner |-> r]]
      /\ fleet = [[x \in RunnerIds |-> NewRunner] EXCEPT ![r].status = "active"]
      /\ chain = [head |-> 2, entries |-> [x \in EntriesOfTokens \cup EntriesOfRunners |->
                                             IF x \in {<<"issued", t>>, <<"enrolled", r>>} THEN 1 ELSE 0]]
      /\ dirs = [[x \in Dirs |-> NewDir] EXCEPT ![d] = [key |-> key, whole |-> TRUE, made |-> 1, config |-> r,
                                                        lock |-> FALSE, loop |-> "on"]]
  BY <1>1, <1>2, <1>3 DEF EnrolledInit
<1>5. /\ calls \in [Calls -> CallRecords] /\ cli \in [Enrollers -> CliTypes] /\ beats \in BeatRows /\ tick \in 0..LastTick
      /\ CallsSound /\ ClisSound /\ MadesSound /\ BeatsSound /\ CallsTimely
      /\ \A q : Times(q) = {}
      /\ \A c \in Calls : \A k : ~Enrolling(c, k)
  BY IdleStart DEF EnrolledInit
<1>6. /\ tokens \in [Tokens -> [issued : BOOLEAN, expires : Nat, revoked : BOOLEAN, runner : RunnerIds \cup {Nobody}]]
      /\ \A u \in Tokens : /\ tokens[u].issued = (IF u = t THEN TRUE ELSE FALSE) /\ tokens[u].revoked = FALSE
                           /\ tokens[u].runner = (IF u = t THEN r ELSE Nobody)
  BY <1>4, EnrollNumbers DEF NewToken
<1>7. /\ fleet \in [RunnerIds -> [status : {"none", "active", "revoked"}, seen : Nat]]
      /\ \A q \in RunnerIds : fleet[q].status = (IF q = r THEN "active" ELSE "none") /\ fleet[q].seen = 0
  BY <1>4 DEF NewRunner
<1>8. /\ dirs \in [Dirs -> DirTypes] /\ dirs[d].key = key /\ dirs[d].whole
      /\ \A y \in Dirs : y # d => dirs[y].key = Nobody /\ dirs[y].whole = FALSE
  <2>1. 0 \in 0..MaxKeys /\ 1 \in 0..MaxKeys
    BY EnrollNumbers
  <2> QED
    BY <1>4, <2>1 DEF NewDir, DirTypes
<1>9. chain \in [head : Nat, entries : [EntriesOfTokens \cup EntriesOfRunners -> Nat]]
  BY <1>4
<1>10. EnrollmentTypeOK
  BY <1>5, <1>6, <1>7, <1>8, <1>9
  DEF EnrollmentTypeOK, CallRecords, CallKinds, CallSteps, CliTypes, DirTypes, BeatRows
<1>11. DirsSound
  BY <1>3, <1>8 DEF DirsSound, DirSound
<1>12. KeysSafe
  BY <1>3, <1>5, <1>7, <1>8 DEF KeysSafe, KeyKnown, KeySafe, Enrolled
<1>13. EnteredOnce
  <2>1. /\ \A q \in RunnerIds : /\ <<"enrolled", q>> \in EntriesOfTokens \cup EntriesOfRunners
                                /\ <<"revoked", q>> \in EntriesOfTokens \cup EntriesOfRunners
        /\ \A u \in Tokens : /\ <<"issued", u>> \in EntriesOfTokens \cup EntriesOfRunners
                             /\ <<"withdrawn", u>> \in EntriesOfTokens \cup EntriesOfRunners
    BY DEF EntriesOfTokens, EntriesOfRunners
  <2>2. /\ \A q \in RunnerIds : /\ chain.entries[<<"enrolled", q>>] = (IF q = r THEN 1 ELSE 0)
                                /\ chain.entries[<<"revoked", q>>] = 0
        /\ \A u \in Tokens : /\ chain.entries[<<"issued", u>>] = (IF u = t THEN 1 ELSE 0)
                             /\ chain.entries[<<"withdrawn", u>>] = 0
    BY <1>4, <2>1
  <2> QED
    BY <1>3, <1>6, <1>7, <2>2, ZenonT(40) DEF EnteredOnce
<1>14. SeenSound
  BY <1>5, <1>7 DEF SeenSound
<1> QED
  BY <1>5, <1>10, <1>11, <1>12, <1>13, <1>14 DEF EnrollInv

(* What enrollment, revocation and heartbeats keep true, for any number of  *)
(* tokens, machines, commands and requests: the invariant the theorems      *)
(* below rest on (runner-repository.ts and the commands of                  *)
(* nexus-runner.mjs).                                                       *)
THEOREM EnrollmentInvariant == EnrollmentSpec => []EnrollInv
<1>1. (EnrollmentInit \/ \E d \in Dirs, t \in Tokens : EnrolledInit(d, t)) => EnrollInv
  BY EmptyStart, EnrolledStart
<1> QED
  BY <1>1, EnrollNextKeeps, PTL DEF EnrollmentSpec

(* The control plane knows no runner whose private key is gone: a rejected  *)
(* `enroll` throws away a key only if no request could have enrolled it.    *)
THEOREM EnrolledKeysKept == EnrollmentSpec => []KeyKept
<1>1. EnrollInv => KeyKept
  <2> SUFFICES ASSUME EnrollInv, NEW r \in RunnerIds, fleet[r].status # "none"
               PROVE  dirs[r[2][1]].key = r[2] /\ dirs[r[2][1]].whole
    BY DEF KeyKept
  <2>1. r[2] \in KeyPairs
    BY DEF RunnerIds
  <2> QED
    BY <2>1 DEF EnrollInv, KeysSafe, KeyKnown, Enrolled, KeySafe
<1> QED
  BY <1>1, EnrollmentInvariant, PTL

(* The head of the ledger counts its entries: each batch that enters        *)
(* something takes the number after the head, and enters what was not there.*)
Entries == EntriesOfTokens \cup EntriesOfRunners
EntersNext == \E x \in Entries : ~Recorded(x) /\ Entered(chain.head, x)
Counted == IsFiniteSet(Listed) /\ chain.head = Cardinality(Listed)

LEMMA HandledEnters == ASSUME EnrollInv, NEW c \in Calls, Handled(c) PROVE chain' = chain \/ EntersNext
<1>1. EnteredOnce /\ \A t \in Tokens : tokens[t].revoked \in BOOLEAN
  BY DEF EnrollInv, EnrollmentTypeOK
<1>2. CASE UNCHANGED <<registryRows, beats>> \/ Counts(c)
  BY <1>2 DEF registryRows, Counts
<1>3. CASE Admits(c)
  <2>1. RunnerOf(c) \in RunnerIds
    BY <1>3, RunnerOfCall DEF Admits
  <2>2. <<"enrolled", RunnerOf(c)>> \in Entries
    BY <2>1 DEF Entries, EntriesOfRunners
  <2> QED
    BY <1>3, <2>2 DEF Admits, Enroll, Numbered, HeadCurrent, EntersNext
<1>4. CASE Withdraws(c)
  <2>1. PICK t \in Tokens : t = calls[c].token
    BY <1>4, EnrollFacts DEF Withdraws, CallSound
  <2>2. <<"withdrawn", t>> \in Entries
    BY DEF Entries, EntriesOfTokens
  <2>3. ~Recorded(<<"withdrawn", t>>)
    <3>1. tokens[t].revoked = FALSE
      BY <1>1, <1>4, <2>1 DEF Withdraws
    <3>2. chain.entries[<<"withdrawn", t>>] = 0
      BY <1>1, <3>1 DEF EnteredOnce
    <3> QED
      BY <3>2 DEF Recorded
  <2>4. Entered(chain.head, <<"withdrawn", t>>)
    BY <1>4, <2>1 DEF Withdraws, HeadCurrent
  <2> QED
    BY <2>2, <2>3, <2>4 DEF EntersNext
<1>5. CASE Expels(c)
  <2>1. PICK r \in RunnerIds : r = RunnerOf(c)
    BY <1>5, RunnerOfCall DEF Expels
  <2>2. <<"revoked", r>> \in Entries
    BY DEF Entries, EntriesOfRunners
  <2>3. ~Recorded(<<"revoked", r>>)
    <3>1. fleet[r].status = "active"
      BY <1>5, <2>1 DEF Expels, Active
    <3>2. chain.entries[<<"revoked", r>>] = 0
      BY <1>1, <3>1 DEF EnteredOnce
    <3> QED
      BY <3>2 DEF Recorded
  <2>4. Entered(chain.head, <<"revoked", r>>)
    BY <1>5, <2>1 DEF Expels, HeadCurrent
  <2> QED
    BY <2>2, <2>3, <2>4 DEF EntersNext
<1> QED
  BY <1>2, <1>3, <1>4, <1>5 DEF Handled, RowsMove

LEMMA IssueEnters == ASSUME EnrollInv, NEW t \in Tokens, IssueToken(t) PROVE EntersNext
<1>1. <<"issued", t>> \in Entries
  BY DEF Entries, EntriesOfTokens
<1>2. ~Recorded(<<"issued", t>>)
  <2>1. tokens[t].issued = FALSE
    BY DEF EnrollInv, EnrollmentTypeOK, IssueToken
  <2>2. chain.entries[<<"issued", t>>] = 0
    BY <2>1 DEF EnrollInv, EnteredOnce
  <2> QED
    BY <2>2 DEF Recorded
<1> QED
  BY <1>1, <1>2 DEF IssueToken, EntersNext

LEMMA HeadsMoveOn == ASSUME EnrollInv, [EnrollmentNext]_evars PROVE chain' = chain \/ EntersNext
<1>1. ASSUME NEW c \in Calls, HandleEnroll(c) \/ HandleOwner(c) \/ HandleBeat(c) \/ ReadHead(c)
      PROVE  chain' = chain \/ EntersNext
  BY <1>1, EnrollHandled, OwnerHandled, BeatHandled, HeadHandled, HandledEnters
<1>2. ASSUME NEW c \in Calls, LoseCall(c) PROVE chain' = chain
  BY <1>2 DEF LoseCall, registryRows
<1>3. ASSUME NEW e \in Enrollers, EnrollStep(e) PROVE chain' = chain
  BY <1>3 DEF EnrollStep, AcquireEnrollmentLock, FindKey, FinishKey, HearEnroll, ReleaseEnrollmentLock, registryRows
<1>4. ASSUME NEW e \in Enrollers, StopWaiting(e) \/ KillEnroll(e) PROVE chain' = chain
  BY <1>4 DEF StopWaiting, KillEnroll, registryRows
<1>5. ASSUME NEW e \in Enrollers, NEW c \in Calls, SendEnroll(e, c) PROVE chain' = chain
  BY <1>5 DEF SendEnroll, registryRows
<1>6. ASSUME NEW e \in Enrollers, NEW d \in Dirs, NEW t \in Tokens, StartEnroll(e, d, t) PROVE chain' = chain
  BY <1>6 DEF StartEnroll, registryRows
<1>7. ASSUME NEW t \in Tokens, IssueToken(t) PROVE EntersNext
  BY <1>7, IssueEnters
<1>8. ASSUME NEW c \in Calls, NEW t \in Tokens, AskWithdraw(c, t) PROVE chain' = chain
  BY <1>8 DEF AskWithdraw, registryRows
<1>9. ASSUME NEW c \in Calls, NEW r \in RunnerIds, AskRunnerRevoked(c, r) PROVE chain' = chain
  BY <1>9 DEF AskRunnerRevoked, registryRows
<1>10. ASSUME NEW c \in Calls, NEW n \in Beats, CopyBeat(c, n) PROVE chain' = chain
  BY <1>10 DEF CopyBeat, registryRows
<1>11. ASSUME NEW d \in Dirs, NEW c \in Calls, NEW n \in Beats, NEW signed \in 0..(LastTick + SkewFuture),
              SendBeat(d, c, n, signed)
       PROVE  chain' = chain
  BY <1>11 DEF SendBeat, registryRows
<1>12. ASSUME NEW d \in Dirs, ClearLock(d) \/ StopBeating(d) PROVE chain' = chain
  BY <1>12 DEF ClearLock, StopBeating, registryRows
<1>13. CASE PassTime \/ UNCHANGED evars
  BY <1>13 DEF PassTime, evars, registryRows
<1> QED
  BY <1>1, <1>2, <1>3, <1>4, <1>5, <1>6, <1>7, <1>8, <1>9, <1>10, <1>11, <1>12, <1>13 DEF EnrollmentNext

LEMMA CountGoesOn == ASSUME EnrollInv, Counted, [EnrollmentNext]_evars PROVE Counted'
<1>1. CASE chain' = chain
  BY <1>1 DEF Counted, Listed, Recorded
<1>2. CASE EntersNext
  <2>1. PICK x \in Entries : ~Recorded(x) /\ Entered(chain.head, x)
    BY <1>2 DEF EntersNext
  <2>2. chain.entries \in [Entries -> Nat]
    BY DEF EnrollInv, EnrollmentTypeOK, Entries
  <2>3. /\ chain'.head = chain.head + 1
        /\ \A y \in Entries : chain'.entries[y] = IF y = x THEN chain.entries[x] + 1 ELSE chain.entries[y]
    BY <2>1, <2>2 DEF Entered
  <2>4. Listed' = Listed \cup {x}
    <3>1. \A y \in Entries : chain.entries[y] \in Nat
      BY <2>2
    <3>2. \A y \in Entries : chain'.entries[y] > 0 <=> (chain.entries[y] > 0 \/ y = x)
      BY <2>3, <3>1
    <3> QED
      BY <2>1, <3>2 DEF Listed, Recorded, Entries
  <2>5. x \notin Listed
    BY <2>1 DEF Listed
  <2> QED
    BY <2>3, <2>4, <2>5, FS_AddElement DEF Counted
<1> QED
  BY <1>1, <1>2, HeadsMoveOn

LEMMA PairCounts ==
  ASSUME NEW a, NEW b, a # b PROVE IsFiniteSet({a} \cup {b}) /\ Cardinality({a} \cup {b}) = 2
<1>1. IsFiniteSet({a}) /\ Cardinality({a}) = 1 /\ b \notin {a}
  BY FS_Singleton
<1>2. IsFiniteSet({a} \cup {b}) /\ Cardinality({a} \cup {b}) = 1 + 1
  BY <1>1, FS_AddElement, Zenon
<1> QED
  BY <1>2

LEMMA CountBegins ==
  ASSUME EnrollmentInit \/ \E d \in Dirs, t \in Tokens : EnrolledInit(d, t) PROVE Counted
<1>1. CASE EnrollmentInit
  <2>1. Listed = {}
    BY <1>1 DEF EnrollmentInit, Listed, Recorded
  <2> QED
    BY <1>1, <2>1, FS_EmptySet DEF EnrollmentInit, Counted
<1>2. ASSUME NEW d \in Dirs, NEW t \in Tokens, EnrolledInit(d, t) PROVE Counted
  <2>1. PICK r : r = <<t, <<d, 1>>>>
    OBVIOUS
  <2>2. r \in RunnerIds
    <3>1. 1 \in 1..MaxKeys
      BY EnrollNumbers
    <3>2. <<d, 1>> \in KeyPairs
      BY <3>1 DEF KeyPairs
    <3> QED
      BY <2>1, <3>2 DEF RunnerIds
  <2>3. /\ chain.head = 2
        /\ \A x \in Entries : chain.entries[x] = IF x \in {<<"issued", t>>, <<"enrolled", r>>} THEN 1 ELSE 0
    BY <1>2, <2>1 DEF EnrolledInit, Entries
  <2>4. <<"issued", t>> \in Entries /\ <<"enrolled", r>> \in Entries /\ <<"issued", t>> # <<"enrolled", r>>
    BY <2>2 DEF Entries, EntriesOfTokens, EntriesOfRunners
  <2>5. Listed = {<<"issued", t>>} \cup {<<"enrolled", r>>}
    <3>1. \A x \in Entries : Recorded(x) <=> x \in {<<"issued", t>>, <<"enrolled", r>>}
      BY <2>3 DEF Recorded
    <3> QED
      BY <2>4, <3>1 DEF Listed, Entries
  <2> QED
    BY <2>3, <2>4, <2>5, PairCounts DEF Counted
<1> QED
  BY <1>1, <1>2

(* A token is spent once and never after its withdrawal, and the ledger has *)
(* just the entries of what happened, one to every number (enrollRunner,    *)
(* revokeRunner, executeLedgerBatch).                                       *)
THEOREM FleetRecorded == EnrollmentSpec => []FleetAsRecorded
<1>1. (EnrollmentInit \/ \E d \in Dirs, t \in Tokens : EnrolledInit(d, t)) => Counted
  BY CountBegins
<1>2. EnrollInv /\ Counted /\ [EnrollmentNext]_evars => Counted'
  BY CountGoesOn
<1>3. EnrollInv /\ Counted => FleetAsRecorded
  BY DEF EnrollInv, Counted, FleetAsRecorded
<1> QED
  BY <1>1, <1>2, <1>3, EnrollmentInvariant, PTL DEF EnrollmentSpec

(* A heartbeat counts once, also when its nonce has been cleaned up, and a  *)
(* runner was last seen when its latest one arrived                         *)
(* (recordRunnerHeartbeat, cleanupRunnerNonces).                            *)
THEOREM HeartbeatsCountOnce == EnrollmentSpec => []BeatsOnce
<1>1. EnrollInv => BeatsOnce
  <2> SUFFICES ASSUME EnrollInv PROVE BeatsOnce
    OBVIOUS
  <2>1. \A n \in Beats : beats[n].counted <= 1
    BY DEF EnrollInv, BeatsSound, BeatSound
  <2>2. \A r \in RunnerIds : Times(r) = {beats[n].at : n \in {x \in Beats : beats[x].runner = r /\ beats[x].counted > 0}}
    BY DEF Times
  <2>3. SeenSound
    BY DEF EnrollInv
  <2> QED
    BY <2>1, <2>2, <2>3 DEF BeatsOnce, SeenSound
<1> QED
  BY <1>1, EnrollmentInvariant, PTL

(* Every row and every request of enrollment has its type.                  *)
THEOREM EnrollmentTypes == EnrollmentSpec => []EnrollmentTypeOK
<1>1. EnrollInv => EnrollmentTypeOK
  BY DEF EnrollInv
<1> QED
  BY <1>1, EnrollmentInvariant, PTL

-----------------------------------------------------------------------------

(* RunnerReports. The nonces a report has used are there, or have been      *)
(* cleaned up when no request could use them (Used); reports are received   *)
(* in the order in which they are taken in (AgesSound); what the command    *)
(* works at is what it sent last (ReporterSound).                           *)

PostSteps == {"none", "sent", "look", "read", "apply", "failed", "replay", "miss", "tidy"}
ReporterSteps == {"idle", "look", "deliver", "suppressed", "waiting", "accepted", "settled", "open", "acked"}
Bodies == [at : Nat, next : Nat]
RowTypes == [finds : Inventories \cup {Nil}, at : Nat, body : Bodies \cup {Nil}, compacted : BOOLEAN, replays : Nat,
             applied : Nat, fresh : Nat, age : Nat]
NonceTypes == [report : Reports \cup {Nil}, until : Nat, body : Bodies \cup {Nil}]
PostTypes == [step : PostSteps, send : Sends \cup {0}, now : Nat, prev : Nat, fresh : Nat, tries : Nat, heard : BOOLEAN]
SendTypes == [report : Reports \cup {Nil}, finds : Inventories \cup {Nil}, signed : Nat]
EntryTypes == [report : Reports \cup {Nil}, finds : Inventories \cup {Nil}]
MemoTypes == [finds : Inventories \cup {Nil}, next : Nat, send : Sends \cup {0}]
ReporterTypes == [at : ReporterSteps, finds : Inventories \cup {Nil}, replaced : BOOLEAN, body : Bodies \cup {Nil}, since : Nat]

TablesTyped ==
  /\ declared \in [Reports -> RowTypes] /\ nonceRows \in [Sends -> NonceTypes] /\ enlisted \in BOOLEAN /\ lastSeen \in Nat
CommandTyped ==
  /\ inventory \in Inventories /\ entry \in EntryTypes /\ memo \in MemoTypes /\ reporter \in ReporterTypes
ReportsTyped ==
  /\ TablesTyped /\ CommandTyped
  /\ requests \in [Wires -> PostTypes] /\ sends \in [Sends -> SendTypes] /\ answers \in [Reports -> SUBSET Bodies]
  /\ kind \in ReportKinds /\ freshness \in Freshness /\ time \in Nat \ {0}

Sent == {n \in Sends : sends[n].report # Nil}
Known == {r \in Reports : Declared(r)}
NothingWithoutEnd == IsFiniteSet(Sent) /\ IsFiniteSet(Known)

(* The nonces that requests for a report have used: their rows are there,   *)
(* or have been cleaned up when no request could use them any more.         *)
TooOld(n) == sends[n].signed + DeclarationTtl <= time
Used(r) == {n \in Sends : sends[n].report = r /\ (nonceRows[n].report # Nil \/ TooOld(n))}

RowSound(r) ==
  LET row == declared[r] IN
  IF Declared(r)
  THEN /\ row.applied = 1 /\ row.body \in Bodies /\ row.at <= lastSeen
       /\ row.replays + 1 <= Cardinality(Used(r))
       /\ row.age <= Cardinality(Known)
       /\ \A n \in Sends : sends[n].report = r => sends[n].finds = row.finds
       /\ kind = "engine" => row.body.next <= row.at + row.fresh
  ELSE row.applied = 0 /\ row.age = 0
RowsSound == \A r \in Reports : RowSound(r)

(* Reports are received in the order of their ages, and one is the latest.  *)
AgesSound ==
  /\ \A r, s \in Known : (declared[s].age < declared[r].age => declared[s].at <= declared[r].at)
                          /\ (declared[s].age = declared[r].age => s = r)
  /\ Known # {} => \E r \in Reports : LatestReport(r)

AnswerSound(r) == answers[r] # {} => Declared(r) /\ answers[r] \subseteq {declared[r].body}
AnswersSound == \A r \in Reports : AnswerSound(r)

NonceSound(n) ==
  /\ sends[n].report # Nil => sends[n].signed <= time /\ \A m \in Sends : m < n => sends[m].report # Nil
  /\ nonceRows[n].report # Nil =>
       /\ nonceRows[n].report = sends[n].report /\ Declared(sends[n].report)
       /\ nonceRows[n].body = declared[sends[n].report].body
       /\ nonceRows[n].until >= sends[n].signed + DeclarationTtl
  /\ \A m \in Sends : sends[n].report # Nil /\ sends[m].report = sends[n].report => sends[m].finds = sends[n].finds
NoncesSound == \A n \in Sends : NonceSound(n)

LastIs(n) == n \in Sends /\ sends[n].report # Nil /\ \A m \in Sends : m > n => sends[m].report = Nil

PostSound(c) ==
  LET x == requests[c] IN
  /\ x.step = "none" => ~x.heard
  /\ x.step # "none" => x.send \in Sends /\ sends[x.send].report # Nil
  /\ x.step \notin {"none", "sent"} =>
       /\ x.now <= time /\ time <= x.now + LongestPost /\ x.now > 0
       /\ sends[x.send].signed <= x.now /\ x.now <= sends[x.send].signed + SignedFor
  /\ x.prev <= lastSeen
  /\ x.step \in {"replay", "miss", "tidy"} => Declared(sends[x.send].report)
  /\ x.heard => /\ reporter.at = "waiting" /\ LastIs(x.send)
                /\ \A b \in Wires : requests[b].heard => b = c
PostsSound == \A c \in Wires : PostSound(c)

(* What the command works at is what it sent last.                          *)
Found(n) == kind = "engine" => sends[n].finds = reporter.finds
ReporterSound ==
  /\ entry.report # Nil => \A n \in Sends : sends[n].report = entry.report => sends[n].finds = entry.finds
  /\ entry.report # Nil /\ Declared(entry.report) => declared[entry.report].finds = entry.finds
  /\ reporter.at = "deliver" => entry.report # Nil /\ (kind = "engine" => entry.finds = reporter.finds)
  /\ reporter.at \in {"waiting", "accepted", "acked"} => \E n \in Sends : LastIs(n) /\ Found(n)
  /\ reporter.at \in {"accepted", "acked"} =>
       \A n \in Sends : LastIs(n) => Declared(sends[n].report) /\ reporter.body = declared[sends[n].report].body
  /\ reporter.at = "acked" => kind = "engine"

MemoSound ==
  memo.finds # Nil =>
    /\ kind = "engine" /\ memo.send \in Sends /\ sends[memo.send].report # Nil /\ Declared(sends[memo.send].report)
    /\ memo.finds = declared[sends[memo.send].report].finds /\ memo.next = declared[sends[memo.send].report].body.next

ReportsInv ==
  /\ ReportsTyped /\ NothingWithoutEnd /\ RowsSound /\ AgesSound /\ AnswersSound /\ NoncesSound /\ PostsSound
  /\ ReporterSound /\ MemoSound

-----------------------------------------------------------------------------

LEMMA ReportNumbers ==
  /\ Reports \subseteq Nat /\ Sends \subseteq Nat /\ Freshness \subseteq Nat /\ Nil \notin Reports
  /\ 0 \notin Sends /\ Interval \in Nat /\ ApplyAttempts \in Nat
  /\ SignedFor \in Nat /\ LongestPost \in Nat /\ DeclarationTtl \in Nat /\ ResponseTtl \in Nat /\ LastTime \in Nat
  /\ DeclarationTtl > SignedFor + LongestPost
  BY ReportsAssumption

(* The received time of the latest report is that of no earlier one.        *)
LEMMA LatestIsLatest ==
  ASSUME ReportsInv
  PROVE  LatestAt \in Nat /\ LatestAt <= lastSeen /\ \A r \in Reports : declared[r].at <= LatestAt
<1>1. /\ declared \in [Reports -> RowTypes] /\ lastSeen \in Nat /\ \A r \in Reports : RowSound(r)
      /\ Known # {} => \E r \in Reports : LatestReport(r)
  BY DEF ReportsInv, ReportsTyped, TablesTyped, RowsSound, AgesSound
<1>2. CASE \E r \in Reports : LatestReport(r)
  <2>1. PICK q \in Reports : LatestReport(q) /\ LatestAt = declared[q].at
    BY <1>2 DEF LatestAt
  <2>2. declared[q].at \in Nat /\ Declared(q) /\ declared[q].at <= lastSeen
    BY <1>1, <2>1 DEF LatestReport, RowSound, RowTypes
  <2>3. ASSUME NEW r \in Reports PROVE declared[r].at <= declared[q].at
    <3>1. declared[r].at \in Nat
      BY <1>1 DEF RowTypes
    <3> QED
      BY <2>1, <2>2, <3>1 DEF LatestReport, Newer, Declared
  <2> QED
    BY <2>1, <2>2, <2>3
<1>3. CASE ~\E r \in Reports : LatestReport(r)
  <2>1. LatestAt = 0 /\ Known = {}
    BY <1>1, <1>3 DEF LatestAt
  <2>2. \A r \in Reports : declared[r].at \in Nat /\ ~(declared[r].at > 0)
    BY <1>1, <2>1 DEF Known, Declared, RowTypes
  <2> QED
    BY <1>1, <2>1, <2>2
<1> QED
  BY <1>2, <1>3

LEMMA LastIsOne == ASSUME NEW m \in Sends, NEW n \in Sends, LastIs(m), LastIs(n) PROVE m = n
<1>1. m \in Nat /\ n \in Nat
  BY ReportNumbers
<1>2. ~(m > n) /\ ~(n > m)
  BY DEF LastIs
<1> QED
  BY <1>1, <1>2

LEMMA UsedIsFinite ==
  ASSUME IsFiniteSet(Sent), NEW r \in Reports
  PROVE  IsFiniteSet(Used(r)) /\ Cardinality(Used(r)) \in Nat
<1>1. Used(r) \subseteq Sent
  BY ReportNumbers DEF Used, Sent
<1> QED
  BY <1>1, FS_Subset, FS_CardinalityType

-----------------------------------------------------------------------------
(* What a handler does.                                                     *)

ReportReplies == {"accepted", "settled", "open"}
PostGoes(c) ==
  \E x \in PostTypes :
    LET p == requests[c] IN
    /\ requests' = [requests EXCEPT ![c] = x]
    /\ x.send = p.send /\ x.heard = p.heard /\ x.step \notin {"none", "sent"}
    /\ IF p.step = "sent" THEN x.now = time /\ Timely(c) ELSE x.now = p.now
    /\ x.prev <= lastSeen
    /\ x.step \in {"replay", "miss", "tidy"} => declared'[ReportOf(c)].at > 0
    /\ UNCHANGED <<answers, reporter>>
PostEnds(c) ==
  \E reply \in ReportReplies, body \in Bodies \cup {Nil} :
    /\ Reply(c, reply, body)
    /\ reply = "accepted" => Declared(ReportOf(c)) /\ body = declared[ReportOf(c)].body
Inserts(c) == requests[c].step = "apply" /\ Insertable(c) /\ Insert(c)
Recounts(c) ==
  /\ requests[c].step = "replay" /\ Replayable(c)
  /\ declared' = [declared EXCEPT ![ReportOf(c)].replays = @ + 1]
  /\ NoteNonce(c, declared[ReportOf(c)].body) /\ SeeRunner(c) /\ UNCHANGED enlisted
Tidies(c) == requests[c].step = "tidy" /\ TidyUp(c)
TablesMove(c) == UNCHANGED tables \/ Inserts(c) \/ Recounts(c) \/ Tidies(c)
ReportHandled(c) ==
  /\ requests[c].step # "none" /\ (PostGoes(c) \/ PostEnds(c)) /\ TablesMove(c)
  /\ UNCHANGED <<world, sends, local, time>>

LEMMA PostFacts ==
  ASSUME ReportsInv, NEW c \in Wires
  PROVE  /\ requests \in [Wires -> PostTypes] /\ requests[c] \in PostTypes /\ PostSound(c)
         /\ requests[c].step # "none" => /\ requests[c].send \in Sends /\ ReportOf(c) \in Reports
                                         /\ RowSound(ReportOf(c)) /\ NonceSound(requests[c].send)
                                         /\ declared[ReportOf(c)] \in RowTypes
         /\ lastSeen \in Nat /\ time \in Nat
<1>1. requests \in [Wires -> PostTypes] /\ requests[c] \in PostTypes /\ PostSound(c)
  BY DEF ReportsInv, ReportsTyped, PostsSound
<1>2. lastSeen \in Nat /\ time \in Nat
  BY DEF ReportsInv, ReportsTyped, TablesTyped
<1>3. ASSUME requests[c].step # "none"
      PROVE  requests[c].send \in Sends /\ ReportOf(c) \in Reports
  BY <1>1, <1>3 DEF PostSound, ReportsInv, ReportsTyped, SendTypes, ReportOf
<1> QED
  BY <1>1, <1>2, <1>3 DEF ReportsInv, RowsSound, NoncesSound, ReportsTyped, TablesTyped

(* A request that goes on with the same clock.                              *)
LEMMA PostGoesOn ==
  ASSUME ReportsInv, NEW c \in Wires, requests[c].step \notin {"none", "sent"}, NEW step \in PostSteps \ {"none", "sent"},
         GoesOn(c, step), step \in {"replay", "miss", "tidy"} => declared'[ReportOf(c)].at > 0,
         UNCHANGED <<answers, reporter>>
  PROVE  PostGoes(c)
<1> DEFINE x == [requests[c] EXCEPT !.step = step]
<1>1. requests \in [Wires -> PostTypes] /\ requests[c] \in PostTypes /\ requests[c].prev <= lastSeen
  BY PostFacts DEF PostSound
<1>2. /\ x \in PostTypes /\ x.send = requests[c].send /\ x.heard = requests[c].heard /\ x.step = step
      /\ x.now = requests[c].now /\ x.prev = requests[c].prev
  BY <1>1 DEF PostTypes
<1>3. requests' = [requests EXCEPT ![c] = x]
  BY <1>1 DEF GoesOn
<1> HIDE DEF x
<1> QED
  BY <1>1, <1>2, <1>3 DEF PostGoes

LEMMA LookEnds ==
  ASSUME ReportsInv, NEW c \in Wires, requests[c].step \notin {"none", "sent"}, Look(c), UNCHANGED declared
  PROVE  PostGoes(c) \/ PostEnds(c)
<1>1. CASE ~enlisted /\ TurnDown(c, "settled")
  BY <1>1 DEF TurnDown, PostEnds, ReportReplies
<1>2. CASE Replayed(c) /\ Reply(c, "accepted", BodyOfNonce(c))
  <2>1. /\ Declared(ReportOf(c)) /\ BodyOfNonce(c) = declared[ReportOf(c)].body /\ declared[ReportOf(c)].body \in Bodies
    BY <1>2, PostFacts DEF Replayed, NonceSound, BodyOfNonce, ReportOf, RowSound
  <2> QED
    BY <1>2, <2>1 DEF PostEnds, ReportReplies
<1>3. CASE Stored(c) /\ ~Replayed(c) /\ declared[ReportOf(c)].compacted /\ TurnDown(c, "settled")
  BY <1>3 DEF TurnDown, PostEnds, ReportReplies
<1>4. CASE Stored(c) /\ ~Replayed(c) /\ GoesOn(c, "replay") /\ UNCHANGED <<answers, reporter>>
  <2>1. declared'[ReportOf(c)].at > 0
    BY <1>4 DEF Stored, Declared
  <2> QED
    BY <1>4, <2>1, PostGoesOn DEF PostSteps
<1> QED
  BY <1>1, <1>2, <1>3, <1>4 DEF Look

LEMMA ReportIsHandled == ASSUME ReportsInv, NEW c \in Wires, HandleReport(c) PROVE ReportHandled(c)
<1>1. CASE ArriveReport(c)
  <2>1. requests[c].step = "sent" /\ UNCHANGED <<tables, world, sends, local, time>>
    BY <1>1 DEF ArriveReport
  <2>2. CASE requests' = [requests EXCEPT ![c].step = "look", ![c].now = time] /\ UNCHANGED <<answers, reporter>> /\ Timely(c)
    <3> DEFINE x == [requests[c] EXCEPT !.step = "look", !.now = time]
    <3>1. requests \in [Wires -> PostTypes] /\ requests[c] \in PostTypes /\ requests[c].prev <= lastSeen /\ time \in Nat
      BY PostFacts DEF PostSound
    <3>2. /\ x \in PostTypes /\ x.send = requests[c].send /\ x.heard = requests[c].heard /\ x.step = "look"
          /\ x.now = time /\ x.prev = requests[c].prev
      BY <3>1 DEF PostTypes, PostSteps
    <3>3. requests' = [requests EXCEPT ![c] = x]
      BY <2>2, <3>1
    <3> HIDE DEF x
    <3>4. PostGoes(c)
      BY <2>1, <2>2, <3>1, <3>2, <3>3 DEF PostGoes
    <3> QED
      BY <2>1, <3>4 DEF ReportHandled, TablesMove
  <2>3. CASE TurnDown(c, "settled")
    BY <2>1, <2>3 DEF TurnDown, PostEnds, ReportReplies, ReportHandled, TablesMove
  <2> QED
    BY <1>1, <2>2, <2>3 DEF ArriveReport
<1>2. CASE LookAtReport(c)
  <2>1. requests[c].step = "look" /\ UNCHANGED <<tables, world, sends, local, time>> /\ declared' = declared
    BY <1>2 DEF LookAtReport, tables
  <2>2. PostGoes(c) \/ PostEnds(c)
    BY <1>2, <2>1, LookEnds, PostGoesOn DEF LookAtReport, PostSteps
  <2> QED
    BY <2>1, <2>2 DEF ReportHandled, TablesMove
<1>3. CASE ReadLatest(c)
  <2>1. requests[c].step = "read" /\ UNCHANGED <<tables, world, sends, answers, local, reporter, time>>
    BY <1>3 DEF ReadLatest
  <2> DEFINE x == [requests[c] EXCEPT !.step = "apply", !.prev = LatestAt, !.fresh = freshness]
  <2>2. /\ requests \in [Wires -> PostTypes] /\ requests[c] \in PostTypes /\ LatestAt \in Nat /\ LatestAt <= lastSeen
        /\ freshness \in Nat
    BY PostFacts, LatestIsLatest, ReportNumbers DEF ReportsInv, ReportsTyped
  <2>3. /\ x \in PostTypes /\ x.send = requests[c].send /\ x.heard = requests[c].heard /\ x.step = "apply"
        /\ x.now = requests[c].now /\ x.prev = LatestAt
    BY <2>2 DEF PostTypes, PostSteps
  <2>4. requests' = [requests EXCEPT ![c] = x]
    BY <1>3, <2>2 DEF ReadLatest
  <2> HIDE DEF x
  <2>5. PostGoes(c)
    BY <2>1, <2>2, <2>3, <2>4 DEF PostGoes
  <2> QED
    BY <2>1, <2>5 DEF ReportHandled, TablesMove
<1>4. CASE ApplyReport(c)
  <2>1. requests[c].step = "apply" /\ UNCHANGED <<world, sends, answers, local, reporter, time>>
    BY <1>4 DEF ApplyReport
  <2>2. CASE Insertable(c) /\ Insert(c) /\ GoesOn(c, "tidy")
    <3>1. declared'[ReportOf(c)].at > 0
      <4>1. requests[c].now \in Nat /\ requests[c].prev \in Nat /\ requests[c].now > 0 /\ ReportOf(c) \in Reports
        BY <2>1, PostFacts DEF PostTypes, PostSound
      <4>2. nextReceivedAt(c) > 0
        BY <4>1 DEF nextReceivedAt, Later
      <4>3. declared \in [Reports -> RowTypes]
        BY DEF ReportsInv, ReportsTyped, TablesTyped
      <4> QED
        BY <2>2, <4>1, <4>2, <4>3 DEF Insert
    <3> QED
      BY <2>1, <2>2, <3>1, PostGoesOn DEF ReportHandled, TablesMove, Inserts, PostSteps
  <2>3. CASE ~Insertable(c) /\ GoesOn(c, "failed") /\ UNCHANGED tables
    BY <2>1, <2>3, PostGoesOn DEF ReportHandled, TablesMove, PostSteps
  <2> QED
    BY <1>4, <2>2, <2>3 DEF ApplyReport
<1>5. CASE FailReport(c)
  <2>1. /\ requests[c].step = "apply" /\ UNCHANGED <<world, sends, answers, local, reporter, time>>
        /\ UNCHANGED tables \/ Inserts(c)
        /\ requests' = [requests EXCEPT ![c].step = "failed", ![c].tries = ApplyAttempts]
    BY <1>5 DEF FailReport, Inserts
  <2> DEFINE x == [requests[c] EXCEPT !.step = "failed", !.tries = ApplyAttempts]
  <2>2. /\ requests \in [Wires -> PostTypes] /\ requests[c] \in PostTypes /\ requests[c].prev <= lastSeen
        /\ ApplyAttempts \in Nat
    BY PostFacts, ReportNumbers DEF PostSound
  <2>3. /\ x \in PostTypes /\ x.send = requests[c].send /\ x.heard = requests[c].heard /\ x.step = "failed"
        /\ x.now = requests[c].now /\ x.prev = requests[c].prev
    BY <2>2 DEF PostTypes, PostSteps
  <2>4. requests' = [requests EXCEPT ![c] = x]
    BY <2>1, <2>2
  <2> HIDE DEF x
  <2>5. PostGoes(c)
    BY <2>1, <2>2, <2>3, <2>4 DEF PostGoes
  <2> QED
    BY <2>1, <2>5 DEF ReportHandled, TablesMove
<1>6. CASE AfterFailure(c)
  <2>1. requests[c].step = "failed" /\ UNCHANGED <<tables, world, sends, local, time>> /\ declared' = declared
    BY <1>6 DEF AfterFailure, tables
  <2>2. CASE Look(c)
    BY <2>1, <2>2, LookEnds DEF ReportHandled, TablesMove
  <2>3. CASE requests' = [requests EXCEPT ![c].step = "read", ![c].tries = @ + 1] /\ UNCHANGED <<answers, reporter>>
    <3> DEFINE x == [requests[c] EXCEPT !.step = "read", !.tries = @ + 1]
    <3>1. /\ requests \in [Wires -> PostTypes] /\ requests[c] \in PostTypes /\ requests[c].prev <= lastSeen
      BY PostFacts DEF PostSound
    <3>2. requests[c].tries + 1 \in Nat
      BY <3>1 DEF PostTypes
    <3>3. /\ x \in PostTypes /\ x.send = requests[c].send /\ x.heard = requests[c].heard /\ x.step = "read"
          /\ x.now = requests[c].now /\ x.prev = requests[c].prev
      BY <3>1, <3>2 DEF PostTypes, PostSteps
    <3>4. requests' = [requests EXCEPT ![c] = x]
      BY <2>3, <3>1
    <3> HIDE DEF x
    <3>5. PostGoes(c)
      BY <2>1, <2>3, <3>1, <3>3, <3>4 DEF PostGoes
    <3> QED
      BY <2>1, <3>5 DEF ReportHandled, TablesMove
  <2>4. CASE TurnDown(c, "open")
    BY <2>1, <2>4 DEF TurnDown, PostEnds, ReportReplies, ReportHandled, TablesMove
  <2> QED
    BY <1>6, <2>2, <2>3, <2>4 DEF AfterFailure
<1>7. CASE ReplayReport(c)
  <2>1. requests[c].step = "replay" /\ UNCHANGED <<world, sends, answers, local, reporter, time>>
    BY <1>7 DEF ReplayReport
  <2>2. Declared(ReportOf(c)) /\ ReportOf(c) \in Reports
    BY <2>1, PostFacts DEF PostSound, ReportOf
  <2>3. CASE Recounts(c) /\ GoesOn(c, "tidy")
    <3>1. declared'[ReportOf(c)].at > 0
      <4>1. declared \in [Reports -> RowTypes] /\ declared' = [declared EXCEPT ![ReportOf(c)].replays = @ + 1]
        BY <2>3 DEF ReportsInv, ReportsTyped, TablesTyped, Recounts
      <4>2. declared'[ReportOf(c)].at = declared[ReportOf(c)].at
        BY <2>2, <4>1 DEF RowTypes
      <4> QED
        BY <2>2, <4>2 DEF Declared
    <3> QED
      BY <2>1, <2>3, <3>1, PostGoesOn DEF ReportHandled, TablesMove, PostSteps
  <2>4. CASE GoesOn(c, "miss") /\ UNCHANGED tables
    <3>1. declared'[ReportOf(c)].at > 0
      BY <2>2, <2>4 DEF Declared, tables
    <3> QED
      BY <2>1, <2>4, <3>1, PostGoesOn DEF ReportHandled, TablesMove, PostSteps
  <2> QED
    BY <1>7, <2>1, <2>3, <2>4 DEF ReplayReport, Recounts
<1>8. CASE MissReplay(c)
  <2>1. requests[c].step = "miss" /\ UNCHANGED <<tables, world, sends, local, time>>
    BY <1>8 DEF MissReplay
  <2>2. CASE Replayed(c) /\ Reply(c, "accepted", BodyOfNonce(c))
    <3>1. /\ Declared(ReportOf(c)) /\ BodyOfNonce(c) = declared[ReportOf(c)].body /\ declared[ReportOf(c)].body \in Bodies
      BY <2>1, <2>2, PostFacts DEF Replayed, NonceSound, BodyOfNonce, ReportOf, RowSound
    <3> QED
      BY <2>1, <2>2, <3>1 DEF PostEnds, ReportReplies, ReportHandled, TablesMove
  <2>3. CASE TurnDown(c, "settled") \/ TurnDown(c, "open")
    BY <2>1, <2>3 DEF TurnDown, PostEnds, ReportReplies, ReportHandled, TablesMove
  <2> QED
    BY <1>8, <2>2, <2>3 DEF MissReplay
<1>9. CASE FinishReport(c)
  <2>1. requests[c].step = "tidy" /\ UNCHANGED <<world, sends, local, time>> /\ Reply(c, "accepted", Answered(c))
    BY <1>9 DEF FinishReport
  <2>2. Declared(ReportOf(c)) /\ Answered(c) = declared[ReportOf(c)].body /\ declared[ReportOf(c)].body \in Bodies
    BY <2>1, PostFacts DEF PostSound, ReportOf, RowSound, Answered
  <2> QED
    BY <1>9, <2>1, <2>2 DEF FinishReport, PostEnds, ReportReplies, ReportHandled, TablesMove, Tidies
<1> QED
  BY <1>1, <1>2, <1>3, <1>4, <1>5, <1>6, <1>7, <1>8, <1>9 DEF HandleReport

-----------------------------------------------------------------------------
(* The tables.                                                              *)

LEMMA BiggerSet ==
  ASSUME NEW S, NEW T, IsFiniteSet(T), S \subseteq T
  PROVE  /\ IsFiniteSet(S) /\ Cardinality(S) \in Nat /\ Cardinality(T) \in Nat /\ Cardinality(S) <= Cardinality(T)
         /\ \A n \in T \ S : Cardinality(S) + 1 <= Cardinality(T)
<1>1. IsFiniteSet(S) /\ Cardinality(S) \in Nat /\ Cardinality(T) \in Nat /\ Cardinality(S) <= Cardinality(T)
  BY FS_Subset, FS_CardinalityType
<1>2. ASSUME NEW n \in T \ S PROVE Cardinality(S) + 1 <= Cardinality(T)
  <2>1. IsFiniteSet(S \cup {n}) /\ Cardinality(S \cup {n}) = Cardinality(S) + 1
    BY <1>1, <1>2, FS_AddElement
  <2>2. S \cup {n} \subseteq T
    BY <1>2
  <2>3. Cardinality(S \cup {n}) <= Cardinality(T)
    BY <2>2, FS_Subset
  <2> QED
    BY <2>1, <2>3
<1> QED
  BY <1>1, <1>2

RowKept(r) ==
  LET x == declared[r]
      y == declared'[r]
  IN  /\ y.at = x.at /\ y.finds = x.finds /\ y.body = x.body /\ y.fresh = x.fresh /\ y.age = x.age
      /\ y.applied = x.applied

(* A report that was taken in stays sound while the tables grow.            *)
LEMMA RowStays ==
  ASSUME NEW r \in Reports, RowSound(r), RowKept(r), kind' = kind, lastSeen \in Nat, lastSeen' \in Nat, lastSeen <= lastSeen',
         Declared(r) => \A n \in Sends : sends'[n].report = r => sends'[n].finds = declared[r].finds,
         declared[r] \in RowTypes, IsFiniteSet(Known'), Known \subseteq Known',
         Declared(r) => declared'[r].replays + 1 <= Cardinality(Used(r)')
  PROVE  RowSound(r)'
<1>1. Cardinality(Known) \in Nat /\ Cardinality(Known') \in Nat /\ Cardinality(Known) <= Cardinality(Known')
  BY BiggerSet
<1> DEFINE k == Cardinality(Known)
<1> DEFINE l == Cardinality(Known')
<1>2. /\ declared'[r].at = declared[r].at /\ declared'[r].body = declared[r].body /\ declared'[r].fresh = declared[r].fresh
      /\ declared'[r].age = declared[r].age /\ declared'[r].applied = declared[r].applied
      /\ declared'[r].finds = declared[r].finds
  BY DEF RowKept
<1>3. declared[r].at \in Nat /\ declared[r].age \in Nat
  BY DEF RowTypes
<1>4. CASE Declared(r)
  <2>1. /\ declared[r].applied = 1 /\ declared[r].body \in Bodies /\ declared[r].at <= lastSeen
        /\ declared[r].age <= k /\ (kind = "engine" => declared[r].body.next <= declared[r].at + declared[r].fresh)
    BY <1>4 DEF RowSound
  <2>2. Declared(r)'
    BY <1>2, <1>4 DEF Declared
  <2>3. declared'[r].at <= lastSeen' /\ declared'[r].age <= l
    BY <1>1, <1>2, <1>3, <2>1
  <2> QED
    BY <1>2, <1>4, <2>1, <2>2, <2>3 DEF RowSound
<1>5. CASE ~Declared(r)
  <2>1. ~Declared(r)'
    BY <1>2, <1>5 DEF Declared
  <2> QED
    BY <1>2, <1>5, <2>1 DEF RowSound
<1> QED
  BY <1>4, <1>5

LEMMA AgesStay ==
  ASSUME AgesSound, \A r \in Reports : declared'[r].at = declared[r].at /\ declared'[r].age = declared[r].age
  PROVE  AgesSound' /\ Known' = Known
<1>1. \A r \in Reports : Declared(r)' <=> Declared(r)
  BY DEF Declared
<1>2. Known' = Known
  BY <1>1 DEF Known
<1>3. \A r \in Reports : LatestReport(r)' <=> LatestReport(r)
  BY <1>1 DEF LatestReport, Newer
<1>4. \A r \in Known : r \in Reports
  BY DEF Known
<1> QED
  BY <1>2, <1>3, <1>4 DEF AgesSound

TablesSound ==
  TablesTyped /\ IsFiniteSet(Known) /\ RowsSound /\ AgesSound /\ NoncesSound
RowsGoOn(c) ==
  /\ lastSeen <= lastSeen'
  /\ \A r \in Reports : /\ Declared(r) => declared'[r].at > 0 /\ RowKept(r)
                        /\ declared'[r].at > 0 => Declared(r) \/ r = ReportOf(c)

LEMMA HalfIsLess == \A f \in Nat : f \div 2 \in Nat /\ f \div 2 <= f
  BY SMT

(* A nonce of a request under way has not been cleaned up.                  *)
LEMMA InTime ==
  ASSUME ReportsInv, NEW c \in Wires, requests[c].step \notin {"none", "sent"}
  PROVE  ~TooOld(requests[c].send) /\ sends[requests[c].send].signed <= requests[c].now /\ requests[c].now <= time
<1> DEFINE w == sends[requests[c].send].signed
<1> DEFINE n == requests[c].now
<1>1. w \in Nat /\ n \in Nat /\ time \in Nat
  BY PostFacts DEF PostTypes, ReportsInv, ReportsTyped, SendTypes
<1>2. time <= n + LongestPost /\ w <= n /\ n <= w + SignedFor /\ n <= time
  BY PostFacts DEF PostSound
<1> HIDE DEF w, n
<1>3. ~(w + DeclarationTtl <= time)
  BY <1>1, <1>2, ReportNumbers
<1> QED
  BY <1>2, <1>3 DEF w, n, TooOld

LEMMA NewNonceUsed ==
  ASSUME ReportsInv, NEW c \in Wires, requests[c].step \notin {"none", "sent"}, NEW body \in Bodies,
         nonceRows[requests[c].send].report = Nil, NoteNonce(c, body), SeeRunner(c), UNCHANGED <<sends, time>>,
         NEW n, n = requests[c].send, NEW q, q = ReportOf(c)
  PROVE  /\ lastSeen' \in Nat /\ lastSeen <= lastSeen' /\ requests[c].now <= lastSeen'
         /\ nonceRows' \in [Sends -> NonceTypes]
         /\ nonceRows'[n].report = q /\ nonceRows'[n].body = body
         /\ nonceRows'[n].until >= sends[n].signed + DeclarationTtl
         /\ \A m \in Sends \ {n} : nonceRows'[m] = nonceRows[m]
         /\ \A r \in Reports : Used(r) \subseteq Used(r)'
         /\ n \in Used(q)' \ Used(q)
<1>1. /\ n \in Sends /\ q \in Reports /\ requests[c].now \in Nat /\ lastSeen \in Nat /\ q = sends[n].report
      /\ nonceRows \in [Sends -> NonceTypes] /\ sends[n].signed \in Nat
  BY PostFacts DEF PostTypes, ReportsInv, ReportsTyped, SendTypes, ReportOf, TablesTyped
<1>2. lastSeen' \in Nat /\ lastSeen <= lastSeen' /\ requests[c].now <= lastSeen'
  BY <1>1 DEF SeeRunner, Later
<1> DEFINE u == requests[c].now + DeclarationTtl
<1>3. u \in Nat /\ u >= sends[n].signed + DeclarationTtl
  BY <1>1, InTime, ReportNumbers
<1>4. nonceRows' = [nonceRows EXCEPT ![n] = [report |-> q, until |-> u, body |-> body]]
  BY DEF NoteNonce
<1> HIDE DEF u
<1>5. /\ nonceRows' \in [Sends -> NonceTypes] /\ nonceRows'[n].report = q /\ nonceRows'[n].body = body /\ nonceRows'[n].until = u
      /\ \A m \in Sends \ {n} : nonceRows'[m] = nonceRows[m]
  BY <1>1, <1>3, <1>4 DEF NonceTypes
<1>6. q # Nil /\ nonceRows[n].report = Nil /\ ~TooOld(n)
  BY <1>1, ReportNumbers, InTime
<1>7. \A m \in Sends : TooOld(m)' <=> TooOld(m)
  BY DEF TooOld
<1>8. ASSUME NEW r \in Reports PROVE Used(r) \subseteq Used(r)'
  BY <1>5, <1>6, <1>7 DEF Used
<1>9. n \in Used(q)' \ Used(q)
  BY <1>1, <1>5, <1>6 DEF Used
<1> QED
  BY <1>2, <1>3, <1>5, <1>8, <1>9

(* A tidied nonce was too old for any request; a compacted report stays.    *)
LEMMA TidyingSound ==
  ASSUME ReportsInv, NEW c \in Wires, Tidies(c), UNCHANGED <<kind, sends, time>>
  PROVE  TablesSound' /\ RowsGoOn(c)
<1>1. /\ requests[c].step = "tidy" /\ requests[c].now \in Nat /\ requests[c].now <= time /\ time \in Nat
  BY PostFacts DEF PostTypes, PostSound, Tidies
<1>2. /\ declared \in [Reports -> RowTypes] /\ nonceRows \in [Sends -> NonceTypes] /\ lastSeen \in Nat
      /\ sends \in [Sends -> SendTypes] /\ RowsSound /\ AgesSound /\ NoncesSound /\ IsFiniteSet(Sent) /\ IsFiniteSet(Known)
      /\ enlisted \in BOOLEAN
  BY DEF ReportsInv, ReportsTyped, TablesTyped, NothingWithoutEnd
<1>3. PICK now \in Nat : now = requests[c].now
  BY <1>1
<1>4. /\ nonceRows' = [n \in Sends |-> IF nonceRows[n].report # Nil /\ nonceRows[n].until <= now
                                       THEN [report |-> Nil, until |-> 0, body |-> Nil] ELSE nonceRows[n]]
      /\ declared' = [r \in Reports |-> IF Declared(r) /\ declared[r].at + ResponseTtl <= now
                                        THEN Compacts(r) ELSE declared[r]]
      /\ enlisted' = enlisted /\ lastSeen' = lastSeen
  BY <1>3 DEF Tidies, TidyUp
<1>5. ASSUME NEW r \in Reports
      PROVE  /\ declared'[r] \in RowTypes /\ RowKept(r) /\ declared'[r].replays = declared[r].replays
  <2>1. Compacts(r) \in RowTypes
    BY <1>2 DEF Compacts, RowTypes
  <2>2. CASE declared'[r] = Compacts(r)
    <3>1. /\ declared'[r].at = declared[r].at /\ declared'[r].finds = declared[r].finds
          /\ declared'[r].body = declared[r].body /\ declared'[r].fresh = declared[r].fresh
          /\ declared'[r].age = declared[r].age /\ declared'[r].applied = declared[r].applied
          /\ declared'[r].replays = declared[r].replays
      BY <1>2, <2>2 DEF Compacts, RowTypes
    <3> QED
      BY <2>1, <2>2, <3>1 DEF RowKept
  <2>3. CASE declared'[r] = declared[r]
    BY <1>2, <2>3 DEF RowKept
  <2> QED
    BY <1>4, <2>2, <2>3
<1>6. declared' \in [Reports -> RowTypes]
  BY <1>4, <1>5
<1>7. ASSUME NEW n \in Sends
      PROVE  /\ nonceRows'[n] \in NonceTypes
             /\ nonceRows'[n] = nonceRows[n] \/ (nonceRows'[n].report = Nil /\ (nonceRows[n].report # Nil => TooOld(n)))
  <2>1. nonceRows[n].until \in Nat /\ sends[n].signed \in Nat /\ NonceSound(n)
    BY <1>2 DEF NonceTypes, SendTypes, NoncesSound
  <2>2. CASE nonceRows[n].report # Nil /\ nonceRows[n].until <= now
    <3>1. nonceRows[n].until >= sends[n].signed + DeclarationTtl
      BY <2>1, <2>2 DEF NonceSound
    <3>2. sends[n].signed + DeclarationTtl \in Nat
      BY <2>1, ReportNumbers
    <3>3. TooOld(n)
      BY <1>1, <1>3, <2>1, <2>2, <3>1, <3>2 DEF TooOld
    <3>4. nonceRows'[n] = [report |-> Nil, until |-> 0, body |-> Nil]
      BY <1>4, <2>2
    <3> QED
      BY <3>3, <3>4 DEF NonceTypes
  <2>3. CASE ~(nonceRows[n].report # Nil /\ nonceRows[n].until <= now)
    BY <1>2, <1>4, <2>3
  <2> QED
    BY <2>2, <2>3
<1>8. nonceRows' \in [Sends -> NonceTypes]
  BY <1>4, <1>7
<1>9. AgesSound' /\ Known' = Known
  BY <1>2, <1>5, AgesStay DEF RowKept
<1>10. ASSUME NEW r \in Reports PROVE RowSound(r)'
  <2>1. Used(r) \subseteq Used(r)'
    BY <1>7 DEF Used, TooOld
  <2>2. Used(r)' \subseteq Sent
    BY ReportNumbers DEF Used, Sent
  <2>3. Cardinality(Used(r)) \in Nat /\ Cardinality(Used(r)') \in Nat /\ Cardinality(Used(r)) <= Cardinality(Used(r)')
    BY <1>2, <2>1, <2>2, BiggerSet, UsedIsFinite
  <2>4. declared[r].replays \in Nat /\ RowSound(r) /\ declared[r] \in RowTypes
    BY <1>2 DEF RowTypes, RowsSound
  <2>5. Declared(r) => declared'[r].replays + 1 <= Cardinality(Used(r)')
    BY <1>5, <2>3, <2>4 DEF RowSound
  <2>6. Declared(r) => \A n \in Sends : sends'[n].report = r => sends'[n].finds = declared[r].finds
    BY <2>4 DEF RowSound
  <2> QED
    BY <1>2, <1>4, <1>5, <1>9, <2>4, <2>5, <2>6, RowStays
<1>11. ASSUME NEW n \in Sends PROVE NonceSound(n)'
  <2>1. NonceSound(n) /\ NoncesSound
    BY <1>2 DEF NoncesSound
  <2>2. CASE nonceRows'[n] = nonceRows[n] /\ nonceRows[n].report # Nil
    <3>1. sends[n].report \in Reports /\ nonceRows[n].report = sends[n].report
      BY <1>2, <2>1, <2>2 DEF NonceSound, NonceTypes
    <3>2. RowKept(sends[n].report)
      BY <1>5, <3>1
    <3> QED
      BY <2>1, <2>2, <3>2 DEF NonceSound, RowKept, Declared
  <2>3. CASE nonceRows'[n].report = Nil
    BY <2>1, <2>3 DEF NonceSound
  <2> QED
    BY <1>7, <2>2, <2>3
<1>12. RowsGoOn(c)
  BY <1>2, <1>4, <1>5 DEF RowsGoOn, RowKept, Declared
<1> QED
  BY <1>2, <1>4, <1>6, <1>8, <1>9, <1>10, <1>11, <1>12 DEF TablesSound, TablesTyped, RowsSound, NoncesSound

(* A replay is counted with a nonce that no request had used.               *)
LEMMA RecountSound ==
  ASSUME ReportsInv, NEW c \in Wires, Recounts(c), UNCHANGED <<kind, sends, time>>
  PROVE  TablesSound' /\ RowsGoOn(c)
<1>1. PICK n \in Sends, q \in Reports : n = requests[c].send /\ q = ReportOf(c)
  BY PostFacts DEF Recounts
<1>2. /\ requests[c].step = "replay" /\ sends[n].report = q /\ Declared(q) /\ nonceRows[n].report = Nil
      /\ RowSound(q) /\ declared[q] \in RowTypes /\ declared[q].body \in Bodies
  BY <1>1, PostFacts DEF Recounts, Replayable, PostSound, ReportOf, RowSound
<1>3. /\ declared \in [Reports -> RowTypes] /\ nonceRows \in [Sends -> NonceTypes] /\ lastSeen \in Nat
      /\ sends \in [Sends -> SendTypes] /\ RowsSound /\ AgesSound /\ NoncesSound /\ IsFiniteSet(Sent) /\ IsFiniteSet(Known)
      /\ enlisted \in BOOLEAN
  BY DEF ReportsInv, ReportsTyped, TablesTyped, NothingWithoutEnd
<1>4. PICK body \in Bodies : body = declared[q].body
  BY <1>2
<1>5. /\ declared' = [declared EXCEPT ![q].replays = @ + 1] /\ NoteNonce(c, body) /\ SeeRunner(c) /\ enlisted' = enlisted
  BY <1>1, <1>4 DEF Recounts
<1>6. /\ lastSeen' \in Nat /\ lastSeen <= lastSeen' /\ nonceRows' \in [Sends -> NonceTypes]
      /\ nonceRows'[n].report = q /\ nonceRows'[n].body = body
      /\ nonceRows'[n].until >= sends[n].signed + DeclarationTtl
      /\ \A m \in Sends \ {n} : nonceRows'[m] = nonceRows[m]
      /\ \A r \in Reports : Used(r) \subseteq Used(r)'
      /\ n \in Used(q)' \ Used(q)
  BY <1>1, <1>2, <1>5, NewNonceUsed
<1>7. declared[q].replays + 1 \in Nat
  BY <1>2 DEF RowTypes
<1>8. declared' \in [Reports -> RowTypes] /\ declared'[q].replays = declared[q].replays + 1
  BY <1>3, <1>5, <1>7 DEF RowTypes
<1>9. ASSUME NEW r \in Reports
      PROVE  RowKept(r) /\ (r # q => declared'[r].replays = declared[r].replays)
  BY <1>3, <1>5 DEF RowTypes, RowKept
<1>10. AgesSound' /\ Known' = Known
  BY <1>3, <1>9, AgesStay DEF RowKept
<1>11. ASSUME NEW r \in Reports PROVE RowSound(r)'
  <2>1. Used(r)' \subseteq Sent
    BY ReportNumbers DEF Used, Sent
  <2>2. /\ Cardinality(Used(r)) \in Nat /\ Cardinality(Used(r)') \in Nat /\ Cardinality(Used(r)) <= Cardinality(Used(r)')
        /\ \A m \in Used(r)' \ Used(r) : Cardinality(Used(r)) + 1 <= Cardinality(Used(r)')
    <3>1. IsFiniteSet(Used(r)')
      BY <1>3, <2>1, BiggerSet
    <3>2. Used(r) \subseteq Used(r)'
      BY <1>6
    <3> QED
      BY <3>1, <3>2, BiggerSet
  <2>3. declared[r].replays \in Nat /\ RowSound(r) /\ declared[r] \in RowTypes
    BY <1>3 DEF RowTypes, RowsSound
  <2>4. Declared(r) => declared[r].replays + 1 <= Cardinality(Used(r))
    BY <2>3 DEF RowSound
  <2>5. Declared(r) => declared'[r].replays + 1 <= Cardinality(Used(r)')
    <3>1. CASE r = q
      <4>1. Cardinality(Used(r)) + 1 <= Cardinality(Used(r)')
        BY <1>6, <2>2, <3>1
      <4> QED
        BY <1>8, <2>2, <2>3, <2>4, <3>1, <4>1
    <3>2. CASE r # q
      BY <1>9, <2>2, <2>3, <2>4, <3>2
    <3> QED
      BY <3>1, <3>2
  <2>6. Declared(r) => \A m \in Sends : sends'[m].report = r => sends'[m].finds = declared[r].finds
    BY <2>3 DEF RowSound
  <2> QED
    BY <1>3, <1>6, <1>9, <1>10, <2>3, <2>5, <2>6, RowStays
<1>12. ASSUME NEW m \in Sends PROVE NonceSound(m)'
  <2>1. NonceSound(m) /\ NoncesSound /\ sends[m].report \in Reports \cup {Nil}
    BY <1>3 DEF NoncesSound, SendTypes
  <2>2. CASE m # n /\ nonceRows[m].report # Nil
    <3>1. sends[m].report \in Reports /\ nonceRows'[m] = nonceRows[m]
      BY <1>3, <1>6, <2>1, <2>2 DEF NonceSound, NonceTypes
    <3>2. RowKept(sends[m].report)
      BY <1>9, <3>1
    <3> QED
      BY <2>1, <3>1, <3>2 DEF NonceSound, RowKept, Declared
  <2>3. CASE m # n /\ nonceRows[m].report = Nil
    BY <1>6, <2>1, <2>3 DEF NonceSound
  <2>4. CASE m = n
    <3>1. RowKept(q)
      BY <1>9
    <3> QED
      BY <1>2, <1>4, <1>6, <2>1, <2>4, <3>1 DEF NonceSound, RowKept, Declared
  <2> QED
    BY <2>2, <2>3, <2>4
<1>13. RowsGoOn(c)
  BY <1>6, <1>9 DEF RowsGoOn, RowKept, Declared
<1> QED
  BY <1>3, <1>5, <1>6, <1>8, <1>10, <1>11, <1>12, <1>13 DEF TablesSound, TablesTyped, RowsSound, NoncesSound

(* What is taken in is received no earlier than what was there, and later   *)
(* than the runner's sending of it.                                         *)
LEMMA InsertMakes ==
  ASSUME ReportsInv, NEW c \in Wires, Inserts(c), UNCHANGED <<kind, sends, time>>, NEW n, n = requests[c].send, NEW q, q = ReportOf(c)
  PROVE  /\ n \in Sends /\ q \in Reports /\ sends[n].report = q /\ ~Declared(q) /\ nonceRows[n].report = Nil
         /\ declared' \in [Reports -> RowTypes] /\ declared'[q].body \in Bodies
         /\ NoteNonce(c, declared'[q].body) /\ SeeRunner(c) /\ enlisted' = enlisted
         /\ \A r \in Reports \ {q} : declared'[r] = declared[r]
         /\ declared'[q].at > 0 /\ LatestAt <= declared'[q].at /\ declared'[q].at <= lastSeen'
         /\ declared'[q].applied = 1 /\ declared'[q].replays = 0 /\ declared'[q].finds = sends[n].finds
         /\ declared'[q].age = Cardinality(Known) + 1
         /\ kind = "engine" => declared'[q].body.next <= declared'[q].at + declared'[q].fresh
<1>1. /\ n \in Sends /\ q \in Reports /\ sends[n].report = q /\ ~Declared(q) /\ nonceRows[n].report = Nil
      /\ RowSound(q) /\ declared[q] \in RowTypes
  BY PostFacts DEF Inserts, Insertable, ReportOf
<1>2. /\ declared \in [Reports -> RowTypes] /\ sends \in [Sends -> SendTypes] /\ lastSeen \in Nat /\ IsFiniteSet(Known)
  BY DEF ReportsInv, ReportsTyped, TablesTyped, NothingWithoutEnd
<1> DEFINE at == nextReceivedAt(c)
<1> DEFINE body == Acknowledgement(c)
<1> DEFINE fresh == requests[c].fresh
<1> DEFINE age == Cardinality(Known) + 1
<1>3. requests[c].now \in Nat /\ requests[c].prev \in Nat /\ fresh \in Nat /\ requests[c].now > 0 /\ requests[c].prev <= lastSeen
  BY PostFacts DEF Inserts, PostTypes, PostSound
<1>4. at \in Nat /\ at > 0 /\ LatestAt <= at
  <2>1. at \in Nat /\ at > 0
    BY <1>3 DEF nextReceivedAt, Later
  <2>2. LatestAt \in Nat /\ at >= LatestAt
    BY LatestIsLatest DEF Inserts, Insertable
  <2> QED
    BY <2>1, <2>2
<1>5. SeeRunner(c) /\ at <= lastSeen'
  <2>1. SeeRunner(c)
    BY DEF Inserts, Insert
  <2> QED
    BY <1>2, <1>3, <2>1 DEF SeeRunner, nextReceivedAt, Later
<1>6. IntervalOf(c) \in Nat /\ IntervalOf(c) <= fresh
  <2>1. fresh \div 2 \in Nat /\ fresh \div 2 <= fresh
    BY <1>3, HalfIsLess
  <2> QED
    BY <1>3, <2>1, ReportNumbers DEF IntervalOf
<1> HIDE DEF at, fresh
<1>7. /\ body = [at |-> at, next |-> IF kind = "engine" THEN at + IntervalOf(c) ELSE 0]
  BY DEF Acknowledgement, at
<1>8. body \in Bodies /\ (kind = "engine" => body.next <= at + fresh)
  <2>1. at + IntervalOf(c) \in Nat /\ at + IntervalOf(c) <= at + fresh
    BY <1>3, <1>4, <1>6
  <2> QED
    BY <1>4, <1>7, <2>1 DEF Bodies
<1>9. age \in Nat
  BY <1>2, FS_CardinalityType
<1> DEFINE row == [finds |-> sends[n].finds, at |-> at, body |-> body, compacted |-> FALSE, replays |-> 0,
                   applied |-> declared[q].applied + 1, fresh |-> fresh, age |-> age]
<1>10. declared[q].applied = 0
  BY <1>1 DEF RowSound
<1>11. declared' = [declared EXCEPT ![q] = row] /\ NoteNonce(c, body) /\ enlisted' = enlisted
  BY <1>1, <1>2 DEF Inserts, Insert, Known, at, fresh
<1> HIDE DEF body, age
<1>12. row \in RowTypes /\ row.at = at /\ row.body = body /\ row.applied = 1 /\ row.replays = 0 /\ row.finds = sends[n].finds
       /\ row.age = age /\ row.fresh = fresh
  <2>1. sends[n].finds \in Inventories \cup {Nil}
    BY <1>1, <1>2 DEF SendTypes
  <2> QED
    BY <1>3, <1>4, <1>8, <1>9, <1>10, <2>1 DEF RowTypes
<1> HIDE DEF row
<1>13. declared'[q] = row /\ declared' \in [Reports -> RowTypes] /\ \A r \in Reports \ {q} : declared'[r] = declared[r]
  BY <1>1, <1>2, <1>11, <1>12
<1> QED
  BY <1>1, <1>4, <1>5, <1>8, <1>11, <1>12, <1>13 DEF age

LEMMA InsertSound ==
  ASSUME ReportsInv, NEW c \in Wires, Inserts(c), UNCHANGED <<kind, sends, time>>
  PROVE  TablesSound' /\ RowsGoOn(c)
<1>1. PICK n \in Sends, q \in Reports : n = requests[c].send /\ q = ReportOf(c)
  BY PostFacts DEF Inserts
<1>2. /\ sends[n].report = q /\ ~Declared(q) /\ nonceRows[n].report = Nil
      /\ declared' \in [Reports -> RowTypes] /\ declared'[q].body \in Bodies
      /\ NoteNonce(c, declared'[q].body) /\ SeeRunner(c) /\ enlisted' = enlisted
      /\ \A r \in Reports \ {q} : declared'[r] = declared[r]
      /\ declared'[q].at > 0 /\ LatestAt <= declared'[q].at /\ declared'[q].at <= lastSeen'
      /\ declared'[q].applied = 1 /\ declared'[q].replays = 0 /\ declared'[q].finds = sends[n].finds
      /\ declared'[q].age = Cardinality(Known) + 1
      /\ kind = "engine" => declared'[q].body.next <= declared'[q].at + declared'[q].fresh
  BY <1>1, InsertMakes
<1>3. PICK body \in Bodies : body = declared'[q].body
  BY <1>2
<1>4. /\ declared \in [Reports -> RowTypes] /\ nonceRows \in [Sends -> NonceTypes] /\ lastSeen \in Nat
      /\ sends \in [Sends -> SendTypes] /\ RowsSound /\ AgesSound /\ NoncesSound /\ IsFiniteSet(Sent) /\ IsFiniteSet(Known)
      /\ enlisted \in BOOLEAN
  BY DEF ReportsInv, ReportsTyped, TablesTyped, NothingWithoutEnd
<1>5. /\ lastSeen' \in Nat /\ lastSeen <= lastSeen' /\ nonceRows' \in [Sends -> NonceTypes]
      /\ nonceRows'[n].report = q /\ nonceRows'[n].body = body
      /\ nonceRows'[n].until >= sends[n].signed + DeclarationTtl
      /\ \A m \in Sends \ {n} : nonceRows'[m] = nonceRows[m]
      /\ \A r \in Reports : Used(r) \subseteq Used(r)'
      /\ n \in Used(q)' \ Used(q)
  BY <1>1, <1>2, <1>3, NewNonceUsed DEF Inserts
<1>6. ASSUME NEW r \in Reports, Declared(r) PROVE RowKept(r) /\ r # q /\ declared'[r].at > 0 /\ declared'[r] = declared[r]
  BY <1>2, <1>6 DEF RowKept, Declared
<1>7. Known' = Known \cup {q} /\ q \notin Known
  BY <1>1, <1>2 DEF Known, Declared
<1>8. IsFiniteSet(Known') /\ Cardinality(Known) \in Nat /\ Cardinality(Known') = Cardinality(Known) + 1
  BY <1>4, <1>7, FS_AddElement, FS_CardinalityType
<1>9. ASSUME NEW r \in Reports PROVE Cardinality(Used(r)') \in Nat /\ Cardinality(Used(r)) <= Cardinality(Used(r)')
                                     /\ Cardinality(Used(r)) \in Nat
                                     /\ \A m \in Used(r)' \ Used(r) : Cardinality(Used(r)) + 1 <= Cardinality(Used(r)')
  <2>1. Used(r)' \subseteq Sent
    BY ReportNumbers DEF Used, Sent
  <2>2. IsFiniteSet(Used(r)')
    BY <1>4, <2>1, BiggerSet
  <2>3. Used(r) \subseteq Used(r)'
    BY <1>5
  <2> QED
    BY <2>2, <2>3, BiggerSet
<1>10. ASSUME NEW r \in Reports, r # q PROVE RowSound(r)'
  <2>1. declared[r].replays \in Nat /\ RowSound(r) /\ declared[r] \in RowTypes /\ declared'[r] = declared[r]
    BY <1>2, <1>4, <1>10 DEF RowTypes, RowsSound
  <2>2. Declared(r) => declared'[r].replays + 1 <= Cardinality(Used(r)')
    <3>1. Declared(r) => declared[r].replays + 1 <= Cardinality(Used(r))
      BY <2>1 DEF RowSound
    <3> QED
      BY <1>9, <2>1, <3>1
  <2>3. Declared(r) => \A m \in Sends : sends'[m].report = r => sends'[m].finds = declared[r].finds
    BY <2>1 DEF RowSound
  <2>4. RowKept(r) /\ Known \subseteq Known'
    BY <1>7, <2>1 DEF RowKept
  <2> QED
    BY <1>4, <1>5, <1>8, <2>1, <2>2, <2>3, <2>4, RowStays
<1>11. RowSound(q)'
  <2>1. 0 + 1 <= Cardinality(Used(q)')
    BY <1>5, <1>9
  <2>2. \A m \in Sends : sends[m].report = q => sends[m].finds = sends[n].finds
    BY <1>2, <1>4, ReportNumbers DEF NoncesSound, NonceSound
  <2>3. Declared(q)'
    BY <1>2 DEF Declared
  <2>4. declared'[q].age <= Cardinality(Known')
    BY <1>2, <1>8
  <2> QED
    BY <1>2, <2>1, <2>2, <2>3, <2>4 DEF RowSound
<1>12. AgesSound'
  <2>1. ASSUME NEW r \in Known
        PROVE  /\ r \in Reports /\ r # q /\ declared'[r] = declared[r] /\ declared[r].at \in Nat /\ declared[r].age \in Nat
               /\ declared[r].at <= declared'[q].at /\ declared[r].age < declared'[q].age
    <3>1. r \in Reports /\ r # q /\ declared'[r] = declared[r] /\ declared[r].at \in Nat /\ declared[r].age \in Nat
      BY <1>2, <1>4, <1>7 DEF Known, RowTypes
    <3>2. declared[r].age <= Cardinality(Known)
      BY <1>4, <3>1 DEF RowsSound, RowSound, Known
    <3>3. declared[r].at <= LatestAt /\ LatestAt \in Nat
      BY <3>1, LatestIsLatest
    <3>4. declared'[q].at \in Nat /\ declared'[q].age \in Nat
      BY <1>1, <1>2 DEF RowTypes
    <3> QED
      BY <1>2, <1>8, <3>1, <3>2, <3>3, <3>4
  <2>2. declared'[q].at \in Nat /\ declared'[q].age \in Nat
    BY <1>1, <1>2 DEF RowTypes
  <2>3. ASSUME NEW r \in Known', NEW s \in Known'
        PROVE  /\ declared'[s].age < declared'[r].age => declared'[s].at <= declared'[r].at
               /\ declared'[s].age = declared'[r].age => s = r
    <3>1. CASE r \in Known /\ s \in Known
      BY <1>4, <2>1, <3>1 DEF AgesSound
    <3>2. CASE r = q /\ s \in Known
      BY <2>1, <2>2, <3>2
    <3>3. CASE r \in Known /\ s = q
      BY <2>1, <2>2, <3>3
    <3>4. CASE r = q /\ s = q
      BY <2>2, <3>4
    <3> QED
      BY <1>7, <3>1, <3>2, <3>3, <3>4
  <2>4. \A r \in Reports : Declared(r)' <=> r \in Known'
    BY DEF Known
  <2>5. \E r \in Reports : LatestReport(r)'
    <3>1. CASE Known = {}
      <4>1. LatestReport(q)'
        BY <1>1, <1>7, <2>4, <3>1 DEF LatestReport
      <4> QED
        BY <1>1, <4>1
    <3>2. CASE Known # {}
      <4>1. PICK l \in Reports : LatestReport(l)
        BY <1>4, <3>2 DEF AgesSound
      <4>2. l \in Known /\ \A s \in Known \ {l} : Newer(l, s)
        BY <4>1 DEF LatestReport, Known
      <4>3. \A s \in Known : Newer(l, s) => Newer(l, s)'
        BY <2>1, <4>2 DEF Newer
      <4>4. CASE Newer(q, l)'
        <5>1. ASSUME NEW s \in Known PROVE Newer(q, s)'
          <6>1. s = l \/ Newer(l, s)'
            BY <4>2, <4>3
          <6>2. /\ declared'[s].at \in Nat /\ declared'[l].at \in Nat /\ declared'[q].at \in Nat
                /\ s \in Nat /\ l \in Nat /\ q \in Nat
            BY <1>1, <2>1, <2>2, <4>2, ReportNumbers
          <6> QED
            BY <4>4, <6>1, <6>2 DEF Newer
        <5>2. LatestReport(q)'
          BY <1>1, <1>7, <2>4, <5>1 DEF LatestReport
        <5> QED
          BY <1>1, <5>2
      <4>5. CASE ~Newer(q, l)'
        <5>1. Newer(l, q)'
          <6>1. /\ declared'[l].at \in Nat /\ declared'[q].at \in Nat /\ l \in Nat /\ q \in Nat /\ l # q
                /\ declared'[l].at <= declared'[q].at
            BY <1>1, <2>1, <2>2, <4>2, ReportNumbers
          <6> QED
            BY <4>5, <6>1 DEF Newer
        <5>2. LatestReport(l)'
          BY <1>7, <2>1, <2>4, <4>2, <4>3, <5>1 DEF LatestReport
        <5> QED
          BY <4>1, <5>2
      <4> QED
        BY <4>4, <4>5
    <3> QED
      BY <3>1, <3>2
  <2> QED
    BY <2>3, <2>5 DEF AgesSound
<1>13. ASSUME NEW m \in Sends PROVE NonceSound(m)'
  <2>1. NonceSound(m) /\ NoncesSound
    BY <1>4 DEF NoncesSound
  <2>2. CASE m # n /\ nonceRows[m].report # Nil
    <3>1. sends[m].report \in Reports /\ nonceRows'[m] = nonceRows[m]
      BY <1>4, <1>5, <2>1, <2>2 DEF NonceSound, NonceTypes
    <3>2. Declared(sends[m].report) /\ declared'[sends[m].report] = declared[sends[m].report]
      BY <1>6, <2>1, <2>2, <3>1 DEF NonceSound
    <3> QED
      BY <2>1, <3>1, <3>2 DEF NonceSound, Declared
  <2>3. CASE m # n /\ nonceRows[m].report = Nil
    BY <1>5, <2>1, <2>3 DEF NonceSound
  <2>4. CASE m = n
    BY <1>2, <1>3, <1>5, <2>1, <2>4 DEF NonceSound, Declared
  <2> QED
    BY <2>2, <2>3, <2>4
<1>14. RowsGoOn(c)
  <2>1. ASSUME NEW r \in Reports, declared'[r].at > 0, r # q PROVE Declared(r)
    BY <1>2, <2>1 DEF Declared
  <2> QED
    BY <1>1, <1>5, <1>6, <2>1 DEF RowsGoOn
<1>15. \A r \in Reports : RowSound(r)'
  BY <1>10, <1>11
<1> QED
  BY <1>2, <1>4, <1>5, <1>8, <1>12, <1>13, <1>14, <1>15 DEF TablesSound, TablesTyped, RowsSound, NoncesSound

(* Tables that nobody touches stay sound while time passes.                 *)
LEMMA TablesRest ==
  ASSUME ReportsInv, UNCHANGED <<kind, declared, nonceRows, lastSeen, sends>>, time' \in Nat, time <= time', enlisted' \in BOOLEAN
  PROVE  /\ TablesSound' /\ LatestAt' = LatestAt /\ IsFiniteSet(Sent)'
         /\ \A n \in Sends : LastIs(n)' <=> LastIs(n)
<1>1. /\ declared \in [Reports -> RowTypes] /\ nonceRows \in [Sends -> NonceTypes] /\ lastSeen \in Nat
      /\ sends \in [Sends -> SendTypes] /\ RowsSound /\ AgesSound /\ NoncesSound /\ IsFiniteSet(Sent) /\ IsFiniteSet(Known)
      /\ time \in Nat
  BY DEF ReportsInv, ReportsTyped, TablesTyped, NothingWithoutEnd
<1>2. AgesSound' /\ Known' = Known
  BY <1>1, AgesStay
<1>3. ASSUME NEW r \in Reports PROVE RowSound(r)'
  <2>1. Used(r) \subseteq Used(r)' /\ Used(r)' \subseteq Sent
    <3>1. \A n \in Sends : TooOld(n) => TooOld(n)'
      <4>1. \A n \in Sends : sends[n].signed \in Nat
        BY <1>1 DEF SendTypes
      <4> QED
        BY <1>1, <4>1, ReportNumbers DEF TooOld
    <3> QED
      BY <3>1, ReportNumbers DEF Used, Sent
  <2>2. Cardinality(Used(r)) \in Nat /\ Cardinality(Used(r)') \in Nat /\ Cardinality(Used(r)) <= Cardinality(Used(r)')
    <3>1. IsFiniteSet(Used(r)')
      BY <1>1, <2>1, BiggerSet
    <3> QED
      BY <2>1, <3>1, BiggerSet
  <2>3. declared[r].replays \in Nat /\ RowSound(r) /\ declared[r] \in RowTypes
    BY <1>1 DEF RowTypes, RowsSound
  <2>4. Declared(r) => declared'[r].replays + 1 <= Cardinality(Used(r)')
    BY <2>2, <2>3 DEF RowSound
  <2>5. Declared(r) => \A m \in Sends : sends'[m].report = r => sends'[m].finds = declared[r].finds
    BY <2>3 DEF RowSound
  <2>6. RowKept(r)
    BY DEF RowKept
  <2> QED
    BY <1>1, <1>2, <2>3, <2>4, <2>5, <2>6, RowStays
<1>4. ASSUME NEW n \in Sends PROVE NonceSound(n)'
  <2>1. NonceSound(n) /\ sends[n].signed \in Nat
    BY <1>1 DEF NoncesSound, SendTypes
  <2>2. sends[n].signed <= time => sends[n].signed <= time'
    BY <1>1, <2>1
  <2> QED
    BY <2>1, <2>2 DEF NonceSound, Declared
<1>5. LatestAt' = LatestAt
  BY DEF LatestAt, LatestReport, Newer, Declared
<1>6. Sent' = Sent /\ \A n \in Sends : LastIs(n)' <=> LastIs(n)
  BY DEF Sent, LastIs
<1> QED
  BY <1>1, <1>2, <1>3, <1>4, <1>5, <1>6 DEF TablesSound, TablesTyped, RowsSound, NoncesSound

LEMMA TablesHandled ==
  ASSUME ReportsInv, NEW c \in Wires, requests[c].step # "none", TablesMove(c), UNCHANGED <<kind, sends, time>>
  PROVE  TablesSound' /\ RowsGoOn(c)
<1>1. CASE UNCHANGED tables
  <2>1. UNCHANGED <<declared, nonceRows, lastSeen, enlisted>>
    BY <1>1 DEF tables
  <2>2. time \in Nat /\ enlisted \in BOOLEAN /\ lastSeen \in Nat
    BY DEF ReportsInv, ReportsTyped, TablesTyped
  <2>3. TablesSound'
    BY <2>1, <2>2, TablesRest
  <2> QED
    BY <2>1, <2>2, <2>3 DEF RowsGoOn, RowKept, Declared
<1> QED
  BY <1>1, InsertSound, RecountSound, TidyingSound DEF TablesMove

-----------------------------------------------------------------------------
(* The handling of a request.                                               *)

LEMMA HandledPosts ==
  ASSUME ReportsInv, NEW c \in Wires, ReportHandled(c), TablesSound', RowsGoOn(c)
  PROVE  requests' \in [Wires -> PostTypes] /\ PostsSound'
<1>1. /\ requests \in [Wires -> PostTypes] /\ lastSeen \in Nat /\ lastSeen' \in Nat /\ lastSeen <= lastSeen' /\ time \in Nat
      /\ sends' = sends /\ time' = time /\ requests[c].step # "none"
      /\ sends \in [Sends -> SendTypes]
  BY DEF ReportsInv, ReportsTyped, TablesTyped, TablesSound, RowsGoOn, ReportHandled
<1>2. ASSUME NEW b \in Wires, b # c, requests'[b] = requests[b], requests[b].heard => reporter' = reporter,
             \A a \in Wires : requests'[a].heard => requests[a].heard
      PROVE  PostSound(b)'
  <2>1. PostSound(b) /\ requests[b] \in PostTypes
    BY PostFacts
  <2>2. requests[b].prev <= lastSeen'
    BY <1>1, <2>1 DEF PostSound, PostTypes
  <2>3. ASSUME requests[b].step \in {"replay", "miss", "tidy"} PROVE declared'[sends[requests[b].send].report].at > 0
    <3>1. sends[requests[b].send].report \in Reports /\ Declared(sends[requests[b].send].report)
      BY <2>3, PostFacts DEF ReportOf, PostSound
    <3> QED
      BY <3>1 DEF RowsGoOn
  <2>4. ASSUME requests[b].heard PROVE reporter'.at = "waiting" /\ LastIs(requests[b].send)
                                       /\ \A a \in Wires : requests'[a].heard => a = b
    <3>1. reporter.at = "waiting" /\ LastIs(requests[b].send) /\ \A a \in Wires : requests[a].heard => a = b
      BY <2>1, <2>4 DEF PostSound
    <3> QED
      BY <1>2, <2>4, <3>1
  <2> QED
    BY <1>1, <1>2, <2>1, <2>2, <2>3, <2>4 DEF PostSound, LastIs, Declared
<1>3. CASE PostGoes(c)
  <2>1. PICK x \in PostTypes :
          /\ requests' = [requests EXCEPT ![c] = x]
          /\ x.send = requests[c].send /\ x.heard = requests[c].heard /\ x.step \notin {"none", "sent"}
          /\ IF requests[c].step = "sent" THEN x.now = time /\ Timely(c) ELSE x.now = requests[c].now
          /\ x.prev <= lastSeen
          /\ x.step \in {"replay", "miss", "tidy"} => declared'[ReportOf(c)].at > 0
          /\ UNCHANGED <<answers, reporter>>
    BY <1>3 DEF PostGoes
  <2>2. requests'[c] = x /\ \A b \in Wires \ {c} : requests'[b] = requests[b]
    BY <1>1, <2>1
  <2>3. \A a \in Wires : requests'[a].heard => requests[a].heard
    BY <2>1, <2>2
  <2>4. \A b \in Wires \ {c} : PostSound(b)'
    BY <1>2, <2>1, <2>2, <2>3
  <2>5. PICK n \in Sends : n = requests[c].send /\ sends[n].report # Nil /\ sends[n].report = ReportOf(c)
    BY <1>1, PostFacts DEF PostSound, ReportOf
  <2>6. /\ x.now <= time /\ time <= x.now + LongestPost /\ x.now > 0
        /\ sends[n].signed <= x.now /\ x.now <= sends[n].signed + SignedFor
    <3>1. PostSound(c) /\ NonceSound(n) /\ time > 0 /\ sends[n].signed \in Nat
      BY <1>1, <2>5, PostFacts DEF ReportsInv, ReportsTyped, SendTypes
    <3>2. CASE requests[c].step = "sent"
      <4>1. x.now = time /\ sends[n].signed <= time /\ sends[n].signed + SignedFor >= time
        BY <2>1, <2>5, <3>1, <3>2 DEF NonceSound, Timely
      <4> QED
        BY <1>1, <3>1, <4>1, ReportNumbers
    <3>3. CASE requests[c].step # "sent"
      BY <1>1, <2>1, <2>5, <3>1, <3>3 DEF PostSound
    <3> QED
      BY <3>2, <3>3
  <2>7. x.prev <= lastSeen'
    BY <1>1, <2>1 DEF PostTypes
  <2>8. PostSound(c)'
    <3>1. x.step \in {"replay", "miss", "tidy"} => declared'[sends[n].report].at > 0
      BY <2>1, <2>5
    <3>2. ASSUME x.heard
          PROVE  reporter'.at = "waiting" /\ LastIs(n) /\ \A b \in Wires : requests'[b].heard => b = c
      <4>1. reporter.at = "waiting" /\ LastIs(n) /\ \A b \in Wires : requests[b].heard => b = c
        BY <2>1, <2>5, <3>2, PostFacts DEF PostSound
      <4> QED
        BY <2>1, <2>3, <4>1
    <3> QED
      BY <1>1, <2>1, <2>2, <2>5, <2>6, <2>7, <3>1, <3>2 DEF PostSound, LastIs, Declared
  <2> QED
    BY <1>1, <2>1, <2>4, <2>8 DEF PostsSound
<1>4. CASE PostEnds(c)
  <2>1. requests' = [requests EXCEPT ![c] = NoPost] /\ (~requests[c].heard => reporter' = reporter)
    BY <1>4 DEF PostEnds, Reply
  <2>2. NoPost \in PostTypes /\ ~NoPost.heard /\ NoPost.step = "none" /\ NoPost.prev = 0
    BY DEF NoPost, PostTypes, PostSteps
  <2>3. requests'[c] = NoPost /\ \A b \in Wires \ {c} : requests'[b] = requests[b]
    BY <1>1, <2>1
  <2>4. \A a \in Wires : requests'[a].heard => requests[a].heard
    BY <2>2, <2>3
  <2>5. ASSUME NEW b \in Wires, b # c, requests[b].heard PROVE reporter' = reporter
    <3>1. ~requests[c].heard
      BY <2>5, PostFacts DEF PostSound
    <3> QED
      BY <2>1, <3>1
  <2>6. \A b \in Wires \ {c} : PostSound(b)'
    BY <1>2, <2>3, <2>4, <2>5
  <2>7. PostSound(c)'
    BY <1>1, <2>2, <2>3 DEF PostSound
  <2> QED
    BY <1>1, <2>1, <2>2, <2>6, <2>7 DEF PostsSound
<1> QED
  BY <1>3, <1>4 DEF ReportHandled

(* Every 201 repeats what is stored.                                        *)
LEMMA HandledAnswers ==
  ASSUME ReportsInv, NEW c \in Wires, ReportHandled(c), RowsGoOn(c)
  PROVE  answers' \in [Reports -> SUBSET Bodies] /\ AnswersSound'
<1>1. answers \in [Reports -> SUBSET Bodies] /\ AnswersSound /\ requests[c].step # "none"
  BY DEF ReportsInv, ReportsTyped, ReportHandled
<1>2. ASSUME NEW r \in Reports, answers'[r] = answers[r] PROVE AnswerSound(r)'
  <2>1. AnswerSound(r)
    BY <1>1 DEF AnswersSound
  <2>2. Declared(r) => Declared(r)' /\ declared'[r].body = declared[r].body
    BY DEF RowsGoOn, RowKept, Declared
  <2> QED
    BY <1>2, <2>1, <2>2 DEF AnswerSound
<1>3. CASE UNCHANGED answers
  BY <1>1, <1>2, <1>3 DEF AnswersSound
<1>4. CASE PostEnds(c)
  <2>1. PICK reply \in ReportReplies, body \in Bodies \cup {Nil} :
          Reply(c, reply, body) /\ (reply = "accepted" => Declared(ReportOf(c)) /\ body = declared[ReportOf(c)].body)
    BY <1>4 DEF PostEnds
  <2>2. CASE reply # "accepted"
    BY <1>3, <2>1, <2>2 DEF Reply
  <2>3. CASE reply = "accepted"
    <3>1. PICK q \in Reports : q = ReportOf(c)
      BY <1>1, PostFacts
    <3>2. Declared(q) /\ body = declared[q].body /\ RowSound(q) /\ answers' = [answers EXCEPT ![q] = @ \cup {body}]
      BY <1>1, <2>1, <2>3, <3>1, PostFacts DEF Reply
    <3>3. body \in Bodies
      BY <3>2 DEF RowSound
    <3>4. /\ answers'[q] = answers[q] \cup {body} /\ answers' \in [Reports -> SUBSET Bodies]
          /\ \A r \in Reports \ {q} : answers'[r] = answers[r]
      BY <1>1, <3>2, <3>3
    <3>5. Declared(q)' /\ declared'[q].body = declared[q].body
      BY <3>2 DEF RowsGoOn, RowKept, Declared
    <3>6. AnswerSound(q)
      BY <1>1 DEF AnswersSound
    <3>7. AnswerSound(q)'
      BY <3>2, <3>4, <3>5, <3>6 DEF AnswerSound
    <3> QED
      BY <1>2, <3>4, <3>7 DEF AnswersSound
  <2> QED
    BY <2>2, <2>3
<1> QED
  BY <1>3, <1>4 DEF ReportHandled, PostGoes

LEMMA HandledReporter ==
  ASSUME ReportsInv, NEW c \in Wires, ReportHandled(c), RowsGoOn(c), RowsSound'
  PROVE  CommandTyped' /\ ReporterSound' /\ MemoSound'
<1>1. /\ inventory' = inventory /\ entry' = entry /\ memo' = memo /\ sends' = sends /\ kind' = kind
      /\ requests[c].step # "none" /\ CommandTyped /\ ReporterSound /\ MemoSound /\ sends \in [Sends -> SendTypes]
      /\ reporter \in ReporterTypes
  BY DEF ReportsInv, ReportsTyped, CommandTyped, ReportHandled, world, local
<1>2. ASSUME NEW r \in Reports, Declared(r)
      PROVE  declared'[r].at > 0 /\ declared'[r].finds = declared[r].finds /\ declared'[r].body = declared[r].body
  BY <1>2 DEF RowsGoOn, RowKept
<1>3. MemoSound'
  <2>1. memo.finds # Nil => sends[memo.send].report \in Reports
    BY <1>1, ReportNumbers DEF MemoSound, SendTypes
  <2> QED
    BY <1>1, <1>2, <2>1 DEF MemoSound, Declared
<1>4. entry.report # Nil /\ Declared(entry.report)' => declared'[entry.report].finds = entry.finds
  <2>1. SUFFICES ASSUME entry.report # Nil, declared'[entry.report].at > 0
                 PROVE  declared'[entry.report].finds = entry.finds
    BY <1>1 DEF Declared
  <2>2. entry.report \in Reports
    BY <1>1, <2>1 DEF CommandTyped, EntryTypes
  <2>3. CASE Declared(entry.report)
    BY <1>1, <1>2, <2>1, <2>2, <2>3 DEF ReporterSound
  <2>4. CASE ~Declared(entry.report)
    <3>1. PICK n \in Sends : n = requests[c].send /\ sends[n].report = entry.report
      BY <1>1, <2>1, <2>2, <2>4, PostFacts DEF RowsGoOn, ReportOf
    <3>2. sends[n].finds = entry.finds
      BY <1>1, <2>1, <3>1 DEF ReporterSound
    <3>3. sends[n].finds = declared'[entry.report].finds
      <4>1. PICK q \in Reports : q = entry.report
        BY <2>2
      <4>2. RowSound(q)'
        BY DEF RowsSound
      <4> QED
        BY <1>1, <2>1, <3>1, <4>1, <4>2 DEF RowSound, Declared
    <3> QED
      BY <3>2, <3>3
  <2> QED
    BY <2>3, <2>4
<1>5. entry.report # Nil => \A n \in Sends : sends[n].report = entry.report => sends[n].finds = entry.finds
  BY <1>1 DEF ReporterSound
<1>6. CASE UNCHANGED reporter
  <2>1. reporter.at \in {"accepted", "acked"} =>
          \A n \in Sends : LastIs(n) => /\ declared'[sends[n].report].at > 0
                                        /\ reporter.body = declared'[sends[n].report].body
    <3>1. SUFFICES ASSUME reporter.at \in {"accepted", "acked"}, NEW n \in Sends, LastIs(n)
                   PROVE  declared'[sends[n].report].at > 0 /\ reporter.body = declared'[sends[n].report].body
      OBVIOUS
    <3>2. sends[n].report \in Reports /\ Declared(sends[n].report) /\ reporter.body = declared[sends[n].report].body
      BY <1>1, <3>1 DEF ReporterSound, LastIs, SendTypes
    <3> QED
      BY <1>2, <3>2
  <2>2. ReporterSound'
    <3>1. reporter.at = "deliver" => entry.report # Nil /\ (kind = "engine" => entry.finds = reporter.finds)
      BY <1>1 DEF ReporterSound
    <3>2. reporter.at \in {"waiting", "accepted", "acked"} => \E n \in Sends : LastIs(n) /\ Found(n)
      BY <1>1 DEF ReporterSound
    <3>3. reporter.at = "acked" => kind = "engine"
      BY <1>1 DEF ReporterSound
    <3> QED
      BY <1>1, <1>4, <1>5, <1>6, <2>1, <3>1, <3>2, <3>3 DEF ReporterSound, LastIs, Found, Declared
  <2> QED
    BY <1>1, <1>3, <1>6, <2>2 DEF CommandTyped
<1>7. CASE PostEnds(c) /\ requests[c].heard
  <2>1. PICK reply \in ReportReplies, body \in Bodies \cup {Nil} :
          Reply(c, reply, body) /\ (reply = "accepted" => Declared(ReportOf(c)) /\ body = declared[ReportOf(c)].body)
    BY <1>7 DEF PostEnds
  <2>2. reporter' = [reporter EXCEPT !.at = reply, !.body = body]
    BY <1>7, <2>1 DEF Reply
  <2>3. reporter' \in ReporterTypes
    BY <1>1, <2>1, <2>2 DEF ReporterTypes, ReporterSteps, ReportReplies
  <2>4. reporter'.at = reply /\ reporter'.body = body /\ reporter'.finds = reporter.finds
    BY <1>1, <2>2 DEF ReporterTypes
  <2>5. PICK n \in Sends : n = requests[c].send /\ LastIs(n) /\ reporter.at = "waiting" /\ ReportOf(c) = sends[n].report
                           /\ sends[n].report \in Reports
    BY <1>1, <1>7, PostFacts DEF PostSound, ReportOf
  <2>6. Found(n)
    <3>1. PICK m \in Sends : LastIs(m) /\ Found(m)
      BY <1>1, <2>5 DEF ReporterSound
    <3>2. m = n
      BY <2>5, <3>1, LastIsOne
    <3> QED
      BY <3>1, <3>2
  <2>7. \A m \in Sends : LastIs(m) => m = n
    BY <2>5, LastIsOne
  <2>8. reply = "accepted" => declared'[sends[n].report].at > 0 /\ body = declared'[sends[n].report].body
    BY <1>2, <2>1, <2>5
  <2>9. reply # "deliver" /\ reply # "acked" /\ reply # "waiting"
    BY <2>1 DEF ReportReplies
  <2>10. kind = "engine" => sends[n].finds = reporter'.finds
    BY <2>4, <2>6 DEF Found
  <2>11. (\E m \in Sends : LastIs(m) /\ Found(m))'
    BY <1>1, <2>5, <2>10 DEF LastIs, Found
  <2>12. reply = "accepted" =>
           (\A m \in Sends : LastIs(m) => Declared(sends[m].report) /\ reporter.body = declared[sends[m].report].body)'
    <3>1. \A m \in Sends : LastIs(m)' => m = n
      BY <1>1, <2>7 DEF LastIs
    <3> QED
      BY <1>1, <2>4, <2>8, <3>1 DEF Declared
  <2>13. ReporterSound'
    BY <1>1, <1>4, <1>5, <2>4, <2>9, <2>11, <2>12 DEF ReporterSound
  <2> QED
    BY <1>1, <1>3, <2>3, <2>13 DEF CommandTyped
<1> QED
  BY <1>6, <1>7 DEF ReportHandled, PostGoes, PostEnds, Reply

LEMMA HandlingSound == ASSUME ReportsInv, NEW c \in Wires, HandleReport(c) PROVE ReportsInv'
<1>1. ReportHandled(c)
  BY ReportIsHandled
<1>2. requests[c].step # "none" /\ TablesMove(c) /\ UNCHANGED <<kind, freshness, sends, time>>
  BY <1>1 DEF ReportHandled, world
<1>3. TablesSound' /\ RowsGoOn(c)
  BY <1>2, TablesHandled
<1>4. requests' \in [Wires -> PostTypes] /\ PostsSound'
  BY <1>1, <1>3, HandledPosts
<1>5. answers' \in [Reports -> SUBSET Bodies] /\ AnswersSound'
  BY <1>1, <1>3, HandledAnswers
<1>6. CommandTyped' /\ ReporterSound' /\ MemoSound'
  BY <1>1, <1>3, HandledReporter DEF TablesSound
<1>7. ReportsTyped'
  BY <1>2, <1>3, <1>4, <1>5, <1>6 DEF ReportsInv, ReportsTyped, TablesSound
<1>8. Sent' = Sent
  BY <1>2 DEF Sent
<1>9. NothingWithoutEnd'
  BY <1>3, <1>8 DEF ReportsInv, NothingWithoutEnd, TablesSound
<1> QED
  BY <1>3, <1>4, <1>5, <1>6, <1>7, <1>9 DEF ReportsInv, TablesSound

-----------------------------------------------------------------------------
(* Steps that leave the tables alone.                                       *)

LEMMA NoneHeard == ASSUME ReportsInv, reporter.at # "waiting" PROVE \A c \in Wires : ~requests[c].heard
  BY DEF ReportsInv, PostsSound, PostSound

LEMMA PostStays ==
  ASSUME ReportsInv, NEW b \in Wires, UNCHANGED <<declared, lastSeen, sends, time>>, requests'[b] = requests[b],
         requests[b].heard => reporter'.at = "waiting", \A a \in Wires : requests'[a].heard => requests[a].heard
  PROVE  PostSound(b)'
<1>1. PostSound(b)
  BY PostFacts
<1>2. requests[b].heard => \A a \in Wires : requests'[a].heard => a = b
  BY <1>1 DEF PostSound
<1>3. requests[b].heard => LastIs(requests[b].send)
  BY <1>1 DEF PostSound
<1> QED
  BY <1>1, <1>2, <1>3 DEF PostSound, LastIs, Declared

(* A request without a listener is as sound as it was.                      *)
LEMMA PostUnheard ==
  ASSUME ReportsInv, NEW b \in Wires, UNCHANGED <<declared, lastSeen, sends, time>>,
         requests'[b] = [requests[b] EXCEPT !.heard = FALSE]
  PROVE  PostSound(b)' /\ requests'[b] \in PostTypes
<1>1. PostSound(b) /\ requests[b] \in PostTypes
  BY PostFacts
<1> DEFINE x == requests'[b]
<1>2. /\ x.step = requests[b].step /\ x.send = requests[b].send /\ x.now = requests[b].now /\ x.prev = requests[b].prev
      /\ ~x.heard /\ x \in PostTypes
  BY <1>1 DEF PostTypes
<1> HIDE DEF x
<1>3. /\ x.step # "none" => x.send \in Sends /\ sends[x.send].report # Nil
      /\ x.step \notin {"none", "sent"} =>
           /\ x.now <= time /\ time <= x.now + LongestPost /\ x.now > 0
           /\ sends[x.send].signed <= x.now /\ x.now <= sends[x.send].signed + SignedFor
      /\ x.prev <= lastSeen
      /\ x.step \in {"replay", "miss", "tidy"} => declared[sends[x.send].report].at > 0
  BY <1>1, <1>2 DEF PostSound, Declared
<1> QED
  BY <1>2, <1>3 DEF PostSound, Declared, x

LEMMA NobodySound == NoPost \in PostTypes /\ NoPost.step = "none" /\ ~NoPost.heard /\ NoPost.prev = 0
  BY DEF NoPost, PostTypes, PostSteps

LEMMA StepSound ==
  ASSUME ReportsInv, UNCHANGED <<kind, declared, nonceRows, lastSeen, sends, answers>>,
         time' \in Nat \ {0}, time <= time', enlisted' \in BOOLEAN, freshness' \in Freshness,
         CommandTyped', requests' \in [Wires -> PostTypes], PostsSound', ReporterSound', memo' = memo \/ MemoSound'
  PROVE  ReportsInv'
<1>1. TablesSound' /\ IsFiniteSet(Sent)'
  BY TablesRest
<1>2. AnswersSound'
  BY DEF ReportsInv, AnswersSound, AnswerSound, Declared
<1>3. MemoSound'
  BY DEF ReportsInv, MemoSound, Declared
<1>4. answers' \in [Reports -> SUBSET Bodies] /\ sends' \in [Sends -> SendTypes] /\ kind' \in ReportKinds
  BY DEF ReportsInv, ReportsTyped
<1> QED
  BY <1>1, <1>2, <1>3, <1>4 DEF ReportsInv, ReportsTyped, NothingWithoutEnd, TablesSound

(* The command goes on: the requests, the tables and the sends stay.        *)
LEMMA CommandGoesOn ==
  ASSUME ReportsInv, UNCHANGED <<tables, world, requests, sends, answers, time>>,
         reporter.at = "waiting" => reporter'.at = "waiting", CommandTyped', ReporterSound', memo' = memo \/ MemoSound'
  PROVE  ReportsInv'
<1>1. UNCHANGED <<kind, freshness, declared, nonceRows, enlisted, lastSeen, requests, sends, answers, time>>
  BY DEF tables, world
<1>2. time \in Nat \ {0} /\ enlisted \in BOOLEAN /\ freshness \in Freshness /\ requests \in [Wires -> PostTypes]
  BY DEF ReportsInv, ReportsTyped, TablesTyped
<1>3. \A b \in Wires : PostSound(b)'
  <2>1. \A b \in Wires : requests[b].heard => reporter'.at = "waiting"
    BY NoneHeard
  <2> QED
    BY <1>1, <2>1, PostStays
<1> QED
  BY <1>1, <1>2, <1>3, StepSound DEF PostsSound

(* What ReporterSound asks of an entry alone stays true with the entry.     *)
EntrySound ==
  /\ entry.report # Nil => \A n \in Sends : sends[n].report = entry.report => sends[n].finds = entry.finds
  /\ entry.report # Nil /\ Declared(entry.report) => declared[entry.report].finds = entry.finds
LEMMA NoEntrySound ==
  ASSUME entry = [report |-> Nil, finds |-> Nil]
  PROVE  EntrySound /\ entry \in EntryTypes
  BY DEF EntrySound, EntryTypes

LEMMA ProbingSound == ASSUME ReportsInv, ProbeMachine PROVE ReportsInv'
<1>1. /\ UNCHANGED <<tables, world, requests, sends, answers, time, inventory, entry, memo, declared, kind>>
      /\ reporter.at = "idle" /\ reporter' = Probed(inventory)
  BY DEF ProbeMachine, local, world, tables
<1>2. CommandTyped /\ ReporterSound
  BY DEF ReportsInv, ReportsTyped
<1>3. reporter' \in ReporterTypes /\ reporter'.at = "look"
  BY <1>1, <1>2 DEF CommandTyped, Probed, IdleCommand, ReporterTypes, ReporterSteps
<1>4. ReporterSound'
  BY <1>1, <1>2, <1>3 DEF ReporterSound, Declared
<1> QED
  BY <1>1, <1>2, <1>3, <1>4, CommandGoesOn DEF CommandTyped

LEMMA AbandoningSound == ASSUME ReportsInv, AbandonOutdated PROVE ReportsInv'
<1>1. /\ UNCHANGED <<tables, world, requests, sends, answers, time, inventory, memo, declared, kind>>
      /\ reporter.at = "look" /\ reporter' = [reporter EXCEPT !.replaced = TRUE]
      /\ entry' = [report |-> Nil, finds |-> Nil]
  BY DEF AbandonOutdated, world, tables
<1>2. CommandTyped /\ ReporterSound
  BY DEF ReportsInv, ReportsTyped
<1>3. reporter' \in ReporterTypes /\ reporter'.at = "look"
  BY <1>1, <1>2 DEF CommandTyped, ReporterTypes
<1>4. entry' \in EntryTypes /\ entry'.report = Nil
  BY <1>1 DEF EntryTypes
<1>5. ReporterSound'
  BY <1>1, <1>2, <1>3, <1>4 DEF ReporterSound
<1> QED
  BY <1>1, <1>2, <1>3, <1>4, <1>5, CommandGoesOn DEF CommandTyped

(* The command goes on with the same entry.                                 *)
LEMMA GoingSound ==
  ASSUME ReportsInv, NEW at \in {"deliver", "suppressed"}, reporter.at = "look", Goes(at),
         UNCHANGED <<tables, world, requests, sends, answers, local, time>>,
         at = "deliver" => entry.report # Nil /\ ~Outdated
  PROVE  ReportsInv'
<1>1. /\ UNCHANGED <<inventory, entry, memo, declared, kind, sends>> /\ reporter' = [reporter EXCEPT !.at = at]
  BY DEF Goes, local, world, tables
<1>2. CommandTyped /\ ReporterSound
  BY DEF ReportsInv, ReportsTyped
<1>3. reporter' \in ReporterTypes /\ reporter'.at = at /\ reporter'.finds = reporter.finds
  BY <1>1, <1>2 DEF CommandTyped, ReporterTypes, ReporterSteps
<1>4. at = "deliver" => entry.report # Nil /\ (kind = "engine" => entry.finds = reporter.finds)
  BY DEF Outdated
<1>5. ReporterSound'
  BY <1>1, <1>2, <1>3, <1>4 DEF ReporterSound, Declared
<1>6. CommandTyped'
  BY <1>1, <1>2, <1>3 DEF CommandTyped
<1> QED
  BY <1>1, <1>5, <1>6, CommandGoesOn

LEMMA LeavingSound ==
  ASSUME ReportsInv
  PROVE  Leave \in ReporterTypes /\ Leave.at = "idle"
<1>1. time \in Nat
  BY DEF ReportsInv, ReportsTyped
<1> QED
  BY <1>1 DEF Leave, IdleCommand, ReporterTypes, ReporterSteps

LEMMA PersistingSound == ASSUME ReportsInv, NEW r \in Reports, PersistReport(r) PROVE ReportsInv'
<1>1. /\ UNCHANGED <<tables, world, requests, sends, answers, time, inventory, memo, declared, kind>>
      /\ reporter.at = "look" /\ reporter' = [reporter EXCEPT !.at = "deliver"]
      /\ entry' = [report |-> r, finds |-> reporter.finds]
      /\ ~Declared(r) /\ \A n \in Sends : sends[n].report # r
  BY DEF PersistReport, Goes, FreshId, world, tables
<1>2. CommandTyped /\ ReporterSound
  BY DEF ReportsInv, ReportsTyped
<1>3. reporter' \in ReporterTypes /\ reporter'.at = "deliver" /\ reporter'.finds = reporter.finds
      /\ reporter.finds \in Inventories \cup {Nil}
  BY <1>1, <1>2 DEF CommandTyped, ReporterTypes, ReporterSteps
<1>4. entry' \in EntryTypes /\ entry'.report = r /\ entry'.finds = reporter.finds /\ r # Nil
  BY <1>1, <1>3, ReportNumbers DEF EntryTypes
<1>5. ReporterSound'
  BY <1>1, <1>3, <1>4 DEF ReporterSound, Declared
<1> QED
  BY <1>1, <1>2, <1>3, <1>4, <1>5, CommandGoesOn DEF CommandTyped

LEMMA HearingSound == ASSUME ReportsInv, HearReport PROVE ReportsInv'
<1>1. /\ UNCHANGED <<tables, world, requests, sends, answers, time, inventory, memo, declared, kind>>
      /\ reporter.at \in {"accepted", "settled", "open"}
      /\ entry' = entry \/ entry' = [report |-> Nil, finds |-> Nil]
  BY DEF HearReport, world, tables
<1>2. CommandTyped /\ ReporterSound
  BY DEF ReportsInv, ReportsTyped
<1>3. entry' \in EntryTypes
  BY <1>1, <1>2 DEF CommandTyped, EntryTypes
<1>4. EntrySound'
  <2>1. EntrySound
    BY <1>2 DEF ReporterSound, EntrySound
  <2>2. CASE entry' = entry
    BY <1>1, <2>1, <2>2 DEF EntrySound, Declared
  <2>3. CASE entry' = [report |-> Nil, finds |-> Nil]
    BY <2>3 DEF EntrySound
  <2> QED
    BY <1>1, <2>2, <2>3
<1>5. CASE reporter.at = "accepted" /\ kind = "engine" /\ reporter' = [reporter EXCEPT !.at = "acked"]
  <2>1. reporter' \in ReporterTypes /\ reporter'.at = "acked" /\ reporter'.finds = reporter.finds /\ reporter'.body = reporter.body
    BY <1>2, <1>5 DEF CommandTyped, ReporterTypes, ReporterSteps
  <2>2. \E n \in Sends : LastIs(n) /\ Found(n)
    BY <1>2, <1>5 DEF ReporterSound
  <2>3. \A n \in Sends : LastIs(n) => Declared(sends[n].report) /\ reporter.body = declared[sends[n].report].body
    BY <1>2, <1>5 DEF ReporterSound
  <2>4. ReporterSound'
    BY <1>1, <1>4, <1>5, <2>1, <2>2, <2>3 DEF ReporterSound, EntrySound, LastIs, Found, Declared
  <2> QED
    BY <1>1, <1>2, <1>3, <2>1, <2>4, CommandGoesOn DEF CommandTyped
<1>6. CASE reporter' = Leave
  <2>1. reporter' \in ReporterTypes /\ reporter'.at = "idle"
    BY <1>6, LeavingSound
  <2>2. ReporterSound'
    BY <1>4, <2>1 DEF ReporterSound, EntrySound
  <2> QED
    BY <1>1, <1>2, <1>3, <2>1, <2>2, CommandGoesOn DEF CommandTyped
<1> QED
  BY <1>5, <1>6 DEF HearReport

LEMMA WritingSound == ASSUME ReportsInv, WriteMemo PROVE ReportsInv'
<1>1. /\ UNCHANGED <<tables, world, requests, sends, answers, time, inventory, entry, declared, kind>>
      /\ reporter.at = "acked" /\ reporter' = Leave
      /\ memo' = [finds |-> reporter.finds, next |-> reporter.body.next, send |-> LastSend]
  BY DEF WriteMemo, world, tables
<1>2. CommandTyped /\ ReporterSound /\ RowsSound /\ sends \in [Sends -> SendTypes]
  BY DEF ReportsInv, ReportsTyped
<1>3. PICK n \in Sends : LastIs(n) /\ Found(n)
  BY <1>1, <1>2 DEF ReporterSound
<1>4. LastSend = n
  <2>1. n \in Sends /\ sends[n].report # Nil /\ \A m \in Sends : m > n => sends[m].report = Nil
    BY <1>3 DEF LastIs
  <2>2. \A m \in Sends : sends[m].report # Nil /\ (\A k \in Sends : k > m => sends[k].report = Nil) => m = n
    BY <1>3, LastIsOne DEF LastIs
  <2> QED
    BY <2>1, <2>2 DEF LastSend
<1>5. kind = "engine" /\ Declared(sends[n].report) /\ reporter.body = declared[sends[n].report].body
  BY <1>1, <1>2, <1>3 DEF ReporterSound
<1>6. sends[n].report \in Reports /\ sends[n].report # Nil
  BY <1>2, <1>3 DEF LastIs, SendTypes
<1>7. RowSound(sends[n].report)
  BY <1>2, <1>6 DEF RowsSound
<1>8. reporter.finds = sends[n].finds /\ sends[n].finds = declared[sends[n].report].finds
  BY <1>3, <1>5, <1>7 DEF Found, RowSound
<1>9. reporter.body \in Bodies /\ reporter.body.next \in Nat
  BY <1>5, <1>7 DEF RowSound, Bodies
<1>10. memo' \in MemoTypes
  BY <1>1, <1>2, <1>4, <1>9 DEF MemoTypes, CommandTyped, ReporterTypes
<1>11. memo'.send = n /\ memo'.finds = reporter.finds /\ memo'.next = reporter.body.next
  BY <1>1, <1>4
<1>12. MemoSound'
  BY <1>1, <1>5, <1>6, <1>8, <1>11 DEF MemoSound, Declared
<1>13. reporter' \in ReporterTypes /\ reporter'.at = "idle"
  BY <1>1, LeavingSound
<1>14. ReporterSound'
  BY <1>1, <1>2, <1>13 DEF ReporterSound, Declared
<1> QED
  BY <1>1, <1>2, <1>10, <1>12, <1>13, <1>14, CommandGoesOn DEF CommandTyped

(* Nobody listens any more.                                                 *)
LEMMA UnheardSound ==
  ASSUME ReportsInv, requests' = Unheard, reporter' \in ReporterTypes, reporter'.at \in {"open", "idle"},
         UNCHANGED <<tables, world, sends, answers, local, time>>
  PROVE  ReportsInv'
<1>1. UNCHANGED <<kind, freshness, declared, nonceRows, enlisted, lastSeen, inventory, entry, memo, sends, answers, time>>
  BY DEF tables, world, local
<1>2. /\ CommandTyped /\ ReporterSound /\ time \in Nat \ {0} /\ enlisted \in BOOLEAN /\ freshness \in Freshness
  BY DEF ReportsInv, ReportsTyped, TablesTyped
<1>3. ASSUME NEW b \in Wires PROVE PostSound(b)' /\ requests'[b] \in PostTypes
  <2>1. requests'[b] = [requests[b] EXCEPT !.heard = FALSE]
    BY DEF Unheard
  <2> QED
    BY <1>1, <2>1, PostUnheard
<1>4. requests' \in [Wires -> PostTypes]
  BY <1>3 DEF Unheard
<1>5. ReporterSound'
  BY <1>1, <1>2 DEF ReporterSound, Declared
<1>6. CommandTyped'
  BY <1>1, <1>2 DEF CommandTyped
<1> QED
  BY <1>1, <1>2, <1>3, <1>4, <1>5, <1>6, StepSound DEF PostsSound

LEMMA StoppingSound == ASSUME ReportsInv, StopHearing \/ EndCommand PROVE ReportsInv'
<1>1. CASE StopHearing
  <2>1. reporter \in ReporterTypes
    BY DEF ReportsInv, ReportsTyped, CommandTyped
  <2>2. reporter' \in ReporterTypes /\ reporter'.at = "open"
    BY <1>1, <2>1 DEF StopHearing, Goes, ReporterTypes, ReporterSteps
  <2> QED
    BY <1>1, <2>2, UnheardSound DEF StopHearing
<1>2. CASE EndCommand
  BY <1>2, UnheardSound, LeavingSound DEF EndCommand
<1> QED
  BY <1>1, <1>2

(* One request changes, and nobody hears it before or after.                *)
LEMMA WireSound ==
  ASSUME ReportsInv, NEW c \in Wires, NEW x \in PostTypes, requests' = [requests EXCEPT ![c] = x], ~x.heard,
         UNCHANGED <<tables, world, sends, answers, local, reporter, time>>, requests[c].step \in {"none", "sent"},
         x.step = "none" \/ (x.step = "sent" /\ x.send \in Sends /\ sends[x.send].report # Nil), x.prev = 0
  PROVE  ReportsInv'
<1>1. UNCHANGED <<kind, freshness, declared, nonceRows, enlisted, lastSeen, inventory, entry, memo, sends, answers, time>>
  BY DEF tables, world, local
<1>2. /\ CommandTyped /\ ReporterSound /\ time \in Nat \ {0} /\ enlisted \in BOOLEAN /\ freshness \in Freshness
      /\ requests \in [Wires -> PostTypes] /\ lastSeen \in Nat
  BY DEF ReportsInv, ReportsTyped, TablesTyped
<1>3. requests'[c] = x /\ \A b \in Wires \ {c} : requests'[b] = requests[b]
  BY <1>2
<1>4. \A a \in Wires : requests'[a].heard => requests[a].heard
  BY <1>3
<1>5. ASSUME NEW b \in Wires, b # c PROVE PostSound(b)'
  <2>1. requests[b].heard => reporter'.at = "waiting"
    BY NoneHeard
  <2> QED
    BY <1>1, <1>3, <1>4, <1>5, <2>1, PostStays
<1>6. PostSound(c)'
  BY <1>1, <1>2, <1>3 DEF PostSound
<1>7. ReporterSound' /\ CommandTyped'
  BY <1>1, <1>2 DEF ReporterSound, CommandTyped, LastIs, Found, Declared
<1>8. PostsSound'
  BY <1>5, <1>6 DEF PostsSound
<1> QED
  BY <1>1, <1>2, <1>7, <1>8, StepSound

LEMMA LosingSound == ASSUME ReportsInv, NEW c \in Wires, LoseReport(c) PROVE ReportsInv'
  BY WireSound, NobodySound DEF LoseReport

LEMMA CopyingSound == ASSUME ReportsInv, NEW c \in Wires, NEW n \in Sends, CopyReport(c, n) PROVE ReportsInv'
<1> DEFINE x == [NoPost EXCEPT !.step = "sent", !.send = n]
<1>1. x \in PostTypes /\ x.step = "sent" /\ x.send = n /\ ~x.heard /\ x.prev = 0
  BY DEF NoPost, PostTypes, PostSteps
<1>2. requests' = [requests EXCEPT ![c] = x] /\ requests[c].step = "none" /\ sends[n].report # Nil
      /\ UNCHANGED <<tables, world, sends, answers, local, reporter, time>>
  BY DEF CopyReport, Unposted
<1> HIDE DEF x
<1> QED
  BY <1>1, <1>2, WireSound

(* A request that is signed says what the entry says.                       *)
LEMMA SendingTables ==
  ASSUME ReportsInv, NEW c \in Wires, NEW n \in Sends, SendReport(c, n)
  PROVE  /\ TablesSound' /\ IsFiniteSet(Sent)' /\ sends' \in [Sends -> SendTypes]
         /\ sends[n].report = Nil /\ sends'[n].report = entry.report /\ sends'[n].finds = entry.finds /\ sends'[n].signed = time
         /\ entry.report \in Reports
         /\ \A m \in Sends \ {n} : sends'[m] = sends[m]
         /\ \A m \in Sends : sends'[m].report # Nil => m <= n
<1>1. /\ UNCHANGED <<kind, declared, nonceRows, enlisted, lastSeen, time>> /\ reporter.at = "deliver"
      /\ sends' = [sends EXCEPT ![n] = [report |-> entry.report, finds |-> entry.finds, signed |-> time]]
      /\ sends[n].report = Nil /\ \A m \in Sends : m < n => sends[m].report # Nil
  BY DEF SendReport, NextSend, tables, world
<1>2. /\ declared \in [Reports -> RowTypes] /\ nonceRows \in [Sends -> NonceTypes] /\ lastSeen \in Nat
      /\ sends \in [Sends -> SendTypes] /\ RowsSound /\ AgesSound /\ NoncesSound /\ IsFiniteSet(Sent) /\ IsFiniteSet(Known)
      /\ time \in Nat /\ enlisted \in BOOLEAN /\ entry \in EntryTypes /\ ReporterSound
  BY DEF ReportsInv, ReportsTyped, TablesTyped, NothingWithoutEnd, CommandTyped
<1>3. entry.report \in Reports /\ entry.report # Nil /\ entry.finds \in Inventories \cup {Nil} /\ EntrySound
  BY <1>1, <1>2 DEF ReporterSound, EntryTypes, EntrySound
<1>4. /\ sends' \in [Sends -> SendTypes] /\ sends'[n].report = entry.report /\ sends'[n].finds = entry.finds
      /\ sends'[n].signed = time /\ \A m \in Sends \ {n} : sends'[m] = sends[m]
  BY <1>1, <1>2, <1>3 DEF SendTypes
<1>5. \A m \in Sends : sends[m].report # Nil => m < n
  BY <1>1, <1>2, ReportNumbers DEF NoncesSound, NonceSound
<1>6. Sent' = Sent \cup {n} /\ IsFiniteSet(Sent')
  <2>1. Sent' = Sent \cup {n}
    BY <1>3, <1>4 DEF Sent
  <2> QED
    BY <1>2, <2>1, FS_AddElement
<1>7. AgesSound' /\ Known' = Known
  BY <1>1, <1>2, AgesStay
<1>8. ASSUME NEW r \in Reports PROVE RowSound(r)'
  <2>1. Used(r) \subseteq Used(r)' /\ Used(r)' \subseteq Sent'
    <3>1. n \notin Used(r)
      BY <1>1, ReportNumbers DEF Used
    <3>2. \A m \in Sends \ {n} : TooOld(m)' <=> TooOld(m)
      BY <1>1, <1>4 DEF TooOld
    <3> QED
      BY <1>1, <1>4, <3>1, <3>2, ReportNumbers DEF Used, Sent
  <2>2. IsFiniteSet(Used(r)')
    BY <1>6, <2>1, BiggerSet
  <2>3. Cardinality(Used(r)) \in Nat /\ Cardinality(Used(r)') \in Nat /\ Cardinality(Used(r)) <= Cardinality(Used(r)')
    BY <2>1, <2>2, BiggerSet
  <2>4. declared[r].replays \in Nat /\ RowSound(r) /\ declared[r] \in RowTypes
    BY <1>2 DEF RowTypes, RowsSound
  <2>5. Declared(r) => declared'[r].replays + 1 <= Cardinality(Used(r)')
    BY <1>1, <2>3, <2>4 DEF RowSound
  <2>6. Declared(r) => \A m \in Sends : sends'[m].report = r => sends'[m].finds = declared[r].finds
    BY <1>3, <1>4, <2>4 DEF RowSound, EntrySound
  <2>7. RowKept(r)
    BY <1>1 DEF RowKept
  <2> QED
    BY <1>1, <1>2, <1>7, <2>4, <2>5, <2>6, <2>7, RowStays
<1>9. ASSUME NEW m \in Sends PROVE NonceSound(m)'
  <2>1. NonceSound(m) /\ m \in Nat /\ n \in Nat
    BY <1>2, ReportNumbers DEF NoncesSound
  <2>2. CASE m = n
    <3>1. nonceRows[n].report = Nil
      BY <1>1, <2>1, <2>2 DEF NonceSound
    <3>2. \A k \in Sends : sends'[k].report = entry.report => sends'[k].finds = entry.finds
      BY <1>3, <1>4 DEF EntrySound
    <3>3. \A k \in Sends : k < n => sends'[k].report # Nil
      BY <1>1, <1>4, <2>1, ReportNumbers
    <3>4. time <= time
      BY <1>2
    <3> QED
      BY <1>1, <1>4, <2>2, <3>1, <3>2, <3>3, <3>4 DEF NonceSound
  <2>3. CASE m # n
    <3>1. sends'[m] = sends[m]
      BY <1>4, <2>3
    <3>2. sends[m].report # Nil =>
            \A k \in Sends : sends'[k].report = sends[m].report => sends'[k].finds = sends[m].finds
      BY <1>2, <1>3, <1>4, <2>1, <2>3 DEF NonceSound, EntrySound
    <3>3. sends[m].report # Nil => \A k \in Sends : k < m => sends'[k].report # Nil
      BY <1>3, <1>4, <2>1 DEF NonceSound
    <3> QED
      BY <1>1, <2>1, <3>1, <3>2, <3>3 DEF NonceSound, Declared
  <2> QED
    BY <2>2, <2>3
<1>10. \A m \in Sends : sends'[m].report # Nil => m <= n
  BY <1>4, <1>5, ReportNumbers
<1> QED
  BY <1>1, <1>2, <1>3, <1>4, <1>6, <1>7, <1>8, <1>9, <1>10 DEF TablesSound, TablesTyped, RowsSound, NoncesSound

LEMMA SendingSound == ASSUME ReportsInv, NEW c \in Wires, NEW n \in Sends, SendReport(c, n) PROVE ReportsInv'
<1>1. /\ TablesSound' /\ IsFiniteSet(Sent)' /\ sends' \in [Sends -> SendTypes]
      /\ sends[n].report = Nil /\ sends'[n].report = entry.report /\ sends'[n].finds = entry.finds /\ sends'[n].signed = time
      /\ entry.report \in Reports
      /\ \A m \in Sends \ {n} : sends'[m] = sends[m]
      /\ \A m \in Sends : sends'[m].report # Nil => m <= n
  BY SendingTables
<1>2. /\ UNCHANGED <<kind, freshness, declared, nonceRows, enlisted, lastSeen, inventory, entry, memo, answers, time>>
      /\ reporter.at = "deliver" /\ reporter' = [reporter EXCEPT !.at = "waiting"] /\ requests[c].step = "none"
  BY DEF SendReport, Goes, Unposted, tables, world, local
<1>3. /\ CommandTyped /\ ReporterSound /\ time \in Nat /\ requests \in [Wires -> PostTypes] /\ lastSeen \in Nat
      /\ reporter \in ReporterTypes /\ declared \in [Reports -> RowTypes]
  BY DEF ReportsInv, ReportsTyped, TablesTyped, CommandTyped
<1> DEFINE x == [NoPost EXCEPT !.step = "sent", !.send = n, !.heard = TRUE]
<1>4. x \in PostTypes /\ x.step = "sent" /\ x.send = n /\ x.heard /\ x.prev = 0
  BY DEF NoPost, PostTypes, PostSteps
<1>5. requests' = [requests EXCEPT ![c] = x]
  BY DEF SendReport
<1> HIDE DEF x
<1>6. requests'[c] = x /\ requests' \in [Wires -> PostTypes] /\ \A b \in Wires \ {c} : requests'[b] = requests[b]
  BY <1>3, <1>4, <1>5
<1>7. reporter' \in ReporterTypes /\ reporter'.at = "waiting" /\ reporter'.finds = reporter.finds
  BY <1>2, <1>3 DEF ReporterTypes, ReporterSteps
<1>8. LastIs(n)'
  <2>1. \A m \in Sends : m > n => ~(m <= n)
    BY ReportNumbers
  <2> QED
    BY <1>1, <2>1, ReportNumbers DEF LastIs
<1>9. \A b \in Wires : ~requests[b].heard
  BY <1>2, NoneHeard
<1>10. ASSUME NEW b \in Wires, b # c PROVE PostSound(b)'
  <2>1. PostSound(b) /\ ~requests[b].heard /\ requests'[b] = requests[b]
    BY <1>6, <1>9, <1>10, PostFacts
  <2>2. requests[b].step # "none" => sends'[requests[b].send] = sends[requests[b].send]
    BY <1>1, <2>1 DEF PostSound
  <2> QED
    BY <1>2, <2>1, <2>2 DEF PostSound, Declared
<1>11. PostSound(c)'
  <2>1. \A b \in Wires : requests'[b].heard => b = c
    BY <1>6, <1>9
  <2>2. n \in Sends /\ sends'[n].report # Nil /\ \A m \in Sends : m > n => sends'[m].report = Nil
    BY <1>8 DEF LastIs
  <2>3. 0 <= lastSeen
    BY <1>3
  <2> QED
    BY <1>2, <1>4, <1>6, <1>7, <2>1, <2>2, <2>3 DEF PostSound, LastIs
<1>12. ReporterSound'
  <2>1. /\ entry.report # Nil => \A m \in Sends : sends'[m].report = entry.report => sends'[m].finds = entry.finds
        /\ entry.report # Nil /\ Declared(entry.report) => declared[entry.report].finds = entry.finds
    BY <1>1, <1>3 DEF ReporterSound
  <2>2. kind = "engine" => entry.finds = reporter.finds
    BY <1>2, <1>3 DEF ReporterSound
  <2>3. Found(n)'
    BY <1>1, <1>2, <1>7, <2>2 DEF Found
  <2> QED
    BY <1>2, <1>7, <1>8, <2>1, <2>3 DEF ReporterSound, Declared
<1>13. MemoSound'
  <2>1. MemoSound
    BY DEF ReportsInv
  <2>2. memo.finds # Nil => sends'[memo.send] = sends[memo.send]
    BY <1>1, <2>1 DEF MemoSound
  <2> QED
    BY <1>2, <2>1, <2>2 DEF MemoSound, Declared
<1>14. AnswersSound'
  BY <1>2 DEF ReportsInv, AnswersSound, AnswerSound, Declared
<1>15. ReportsTyped'
  BY <1>1, <1>2, <1>3, <1>6, <1>7 DEF ReportsInv, ReportsTyped, TablesSound, CommandTyped
<1> QED
  BY <1>1, <1>10, <1>11, <1>12, <1>13, <1>14, <1>15 DEF ReportsInv, TablesSound, NothingWithoutEnd, PostsSound

LEMMA WorldSound ==
  ASSUME ReportsInv, ChangeInventory \/ ChangeFreshness \/ RevokeReporter \/ UNCHANGED repvars
  PROVE  ReportsInv'
<1>1. /\ UNCHANGED <<kind, declared, nonceRows, lastSeen, requests, sends, answers, entry, memo, reporter, time>>
      /\ enlisted' \in {enlisted, FALSE} /\ freshness' \in Freshness \cup {freshness}
      /\ inventory' \in Inventories \cup {inventory}
  BY DEF ChangeInventory, ChangeFreshness, RevokeReporter, repvars, tables, world, local
<1>2. /\ CommandTyped /\ ReporterSound /\ time \in Nat \ {0} /\ enlisted \in BOOLEAN /\ freshness \in Freshness
      /\ requests \in [Wires -> PostTypes]
  BY DEF ReportsInv, ReportsTyped, TablesTyped
<1>3. \A b \in Wires : PostSound(b)'
  <2>1. \A b \in Wires : requests[b].heard => reporter'.at = "waiting"
    BY <1>1, NoneHeard
  <2> QED
    BY <1>1, <2>1, PostStays
<1>4. ReporterSound' /\ CommandTyped'
  BY <1>1, <1>2 DEF ReporterSound, CommandTyped, LastIs, Found, Declared
<1>5. enlisted' \in BOOLEAN /\ freshness' \in Freshness
  BY <1>1, <1>2
<1>6. time <= time
  BY <1>2
<1> QED
  BY <1>1, <1>2, <1>3, <1>4, <1>5, <1>6, StepSound DEF PostsSound

(* A request is not under way longer than the platform lets it run.         *)
LEMMA PassingSound == ASSUME ReportsInv, TimePasses PROVE ReportsInv'
<1>1. /\ UNCHANGED <<kind, declared, nonceRows, enlisted, freshness, lastSeen, requests, sends, answers, inventory, entry, memo, reporter>>
      /\ time' = time + 1
      /\ \A c \in Wires : requests[c].step \in {"none", "sent"} \/ time < requests[c].now + LongestPost
  BY DEF TimePasses, tables, world, local
<1>2. /\ CommandTyped /\ ReporterSound /\ time \in Nat \ {0} /\ enlisted \in BOOLEAN /\ freshness \in Freshness
      /\ requests \in [Wires -> PostTypes]
  BY DEF ReportsInv, ReportsTyped, TablesTyped
<1>3. time' \in Nat \ {0} /\ time <= time'
  BY <1>1, <1>2
<1>4. ASSUME NEW b \in Wires PROVE PostSound(b)'
  <2>1. PostSound(b) /\ requests[b].now \in Nat
    BY PostFacts DEF PostTypes
  <2>2. requests[b].step \notin {"none", "sent"} => requests[b].now <= time' /\ time' <= requests[b].now + LongestPost
    <3>1. SUFFICES ASSUME requests[b].step \notin {"none", "sent"}
                   PROVE  requests[b].now <= time' /\ time' <= requests[b].now + LongestPost
      OBVIOUS
    <3>2. requests[b].now <= time /\ time < requests[b].now + LongestPost
      BY <1>1, <2>1, <3>1 DEF PostSound
    <3> QED
      BY <1>1, <1>2, <2>1, <3>2, ReportNumbers
  <2> QED
    BY <1>1, <2>1, <2>2 DEF PostSound, LastIs, Declared
<1>5. ReporterSound' /\ CommandTyped'
  BY <1>1, <1>2 DEF ReporterSound, CommandTyped, LastIs, Found, Declared
<1> QED
  BY <1>1, <1>2, <1>3, <1>4, <1>5, StepSound DEF PostsSound

LEMMA ReportsStep == ReportsInv /\ [ReportsNext]_repvars => ReportsInv'
<1> SUFFICES ASSUME ReportsInv, [ReportsNext]_repvars PROVE ReportsInv'
  OBVIOUS
<1>1. CASE \E c \in Wires : HandleReport(c) \/ LoseReport(c)
  BY <1>1, HandlingSound, LosingSound
<1>2. CASE \E c \in Wires, n \in Sends : SendReport(c, n) \/ CopyReport(c, n)
  BY <1>2, SendingSound, CopyingSound
<1>3. CASE \E r \in Reports : PersistReport(r)
  BY <1>3, PersistingSound
<1>4. CASE RunCommand
  <2>1. CASE ResumePending
    BY <2>1, GoingSound DEF ResumePending
  <2>2. CASE SuppressReport
    BY <2>2, GoingSound DEF SuppressReport
  <2> QED
    BY <1>4, <2>1, <2>2, ProbingSound, AbandoningSound, HearingSound, WritingSound DEF RunCommand
<1>5. CASE StopHearing \/ EndCommand
  BY <1>5, StoppingSound
<1>6. CASE TimePasses
  BY <1>6, PassingSound
<1>7. CASE ChangeInventory \/ ChangeFreshness \/ RevokeReporter \/ UNCHANGED repvars
  BY <1>7, WorldSound
<1> QED
  BY <1>1, <1>2, <1>3, <1>4, <1>5, <1>6, <1>7 DEF ReportsNext

LEMMA ReportsStart == ReportsInit => ReportsInv
<1> SUFFICES ASSUME ReportsInit PROVE ReportsInv
  OBVIOUS
<1>1. /\ Unreported \in RowTypes /\ NoPost \in PostTypes /\ IdleCommand \in ReporterTypes
      /\ [report |-> Nil, until |-> 0, body |-> Nil] \in NonceTypes
      /\ [report |-> Nil, finds |-> Nil, signed |-> 0] \in SendTypes
      /\ [report |-> Nil, finds |-> Nil] \in EntryTypes /\ [finds |-> Nil, next |-> 0, send |-> 0] \in MemoTypes
  BY DEF Unreported, RowTypes, NoPost, PostTypes, PostSteps, IdleCommand, ReporterTypes, ReporterSteps, NonceTypes, SendTypes,
         EntryTypes, MemoTypes
<1>2. ReportsTyped
  BY <1>1 DEF ReportsInit, ReportsTyped, TablesTyped, CommandTyped
<1>3. \A r \in Reports : ~Declared(r) /\ declared[r].applied = 0 /\ declared[r].age = 0
  BY DEF ReportsInit, Declared, Unreported
<1>4. Sent = {} /\ Known = {}
  BY <1>3 DEF ReportsInit, Sent, Known
<1>5. NothingWithoutEnd
  BY <1>4, FS_EmptySet DEF NothingWithoutEnd
<1>6. RowsSound /\ AgesSound
  BY <1>3, <1>4 DEF RowsSound, RowSound, AgesSound
<1>7. AnswersSound /\ NoncesSound /\ MemoSound
  BY DEF ReportsInit, AnswersSound, AnswerSound, NoncesSound, NonceSound, MemoSound
<1>8. ReporterSound
  BY DEF ReportsInit, ReporterSound, IdleCommand
<1>9. PostsSound
  BY DEF ReportsInit, PostsSound, PostSound, NoPost
<1> QED
  BY <1>2, <1>5, <1>6, <1>7, <1>8, <1>9 DEF ReportsInv

(* Requests, the tables and the command keep in step, whatever is repeated, *)
(* comes late or fails.                                                     *)
THEOREM ReportsInvariant == ReportsSpec => []ReportsInv
  BY ReportsStart, ReportsStep, PTL DEF ReportsSpec

(* A report is applied once and answered in one way, its replays are fewer  *)
(* than the signed requests made for it, and no report was received later   *)
(* than the runner was last seen.                                           *)
THEOREM ReportsTakenOnce == ReportsSpec => []ReportedOnce
<1>1. ReportsInv => ReportedOnce
  <2> SUFFICES ASSUME ReportsInv PROVE ReportedOnce
    OBVIOUS
  <2>1. LatestAt <= lastSeen
    BY LatestIsLatest
  <2>2. ASSUME NEW r \in Reports PROVE declared[r].applied <= 1
    BY DEF ReportsInv, RowsSound, RowSound
  <2>3. ASSUME NEW r \in Reports PROVE Cardinality(answers[r]) <= 1
    <3>1. AnswerSound(r)
      BY DEF ReportsInv, AnswersSound
    <3>2. answers[r] \subseteq {declared[r].body}
      BY <3>1 DEF AnswerSound
    <3>3. IsFiniteSet({declared[r].body}) /\ Cardinality({declared[r].body}) = 1
      BY FS_Singleton
    <3> QED
      BY <3>2, <3>3, FS_Subset
  <2>4. ASSUME NEW r \in Reports, Declared(r)
        PROVE  declared[r].replays < Cardinality({n \in Sends : sends[n].report = r})
    <3> DEFINE S == {n \in Sends : sends[n].report = r}
    <3>1. Used(r) \subseteq S /\ S \subseteq Sent
      BY ReportNumbers DEF Used, Sent
    <3>2. IsFiniteSet(S)
      BY <3>1, FS_Subset DEF ReportsInv, NothingWithoutEnd
    <3>3. Cardinality(Used(r)) \in Nat /\ Cardinality(S) \in Nat /\ Cardinality(Used(r)) <= Cardinality(S)
      BY <3>1, <3>2, BiggerSet
    <3>4. declared[r].replays \in Nat /\ declared[r].replays + 1 <= Cardinality(Used(r))
      BY <2>4 DEF ReportsInv, ReportsTyped, TablesTyped, RowTypes, RowsSound, RowSound
    <3> HIDE DEF S
    <3>5. declared[r].replays < Cardinality(S)
      BY <3>3, <3>4
    <3> QED
      BY <3>5 DEF S
  <2> QED
    BY <2>1, <2>2, <2>3, <2>4 DEF ReportedOnce
<1> QED
  BY <1>1, ReportsInvariant, PTL

(* Until the report that lets a runner keep silent is due again, the        *)
(* control plane takes the machine to be what that report found.            *)
THEOREM SilentReportsStand == ReportsSpec => []DeclaredUntilDue
<1>1. ReportsInv => DeclaredUntilDue
  <2> SUFFICES ASSUME ReportsInv, SilentSince, time < memo.next
               PROVE  \E r \in Reports : /\ LatestReport(r) /\ r = sends[memo.send].report /\ declared[r].finds = memo.finds
                                         /\ time < declared[r].at + declared[r].fresh
    BY DEF DeclaredUntilDue
  <2>1. memo.finds # Nil
    BY DEF SilentSince
  <2>2. /\ kind = "engine" /\ memo.send \in Sends /\ sends[memo.send].report # Nil /\ Declared(sends[memo.send].report)
        /\ memo.finds = declared[sends[memo.send].report].finds /\ memo.next = declared[sends[memo.send].report].body.next
    BY <2>1 DEF ReportsInv, MemoSound
  <2>3. PICK r \in Reports : r = sends[memo.send].report
    BY <2>2 DEF ReportsInv, ReportsTyped, SendTypes
  <2>4. /\ declared \in [Reports -> RowTypes] /\ RowSound(r) /\ AgesSound /\ Declared(r) /\ time \in Nat
    BY <2>2, <2>3 DEF ReportsInv, ReportsTyped, TablesTyped, RowsSound
  <2>5. ASSUME NEW s \in Reports \ {r}, Declared(s) PROVE Newer(r, s)
    <3>1. declared[s].age <= declared[r].age /\ declared[s].at # declared[r].at
      BY <2>3 DEF SilentSince
    <3>2. /\ declared[s].age \in Nat /\ declared[r].age \in Nat /\ declared[s].at \in Nat /\ declared[r].at \in Nat
          /\ r \in Known /\ s \in Known
      BY <2>4, <2>5 DEF RowTypes, Known
    <3>3. declared[s].age # declared[r].age
      BY <2>4, <3>2 DEF AgesSound
    <3>4. declared[s].age < declared[r].age
      BY <3>1, <3>2, <3>3
    <3>5. declared[s].at <= declared[r].at
      BY <2>4, <3>2, <3>4 DEF AgesSound
    <3> QED
      BY <3>1, <3>2, <3>5 DEF Newer
  <2>6. LatestReport(r)
    BY <2>4, <2>5 DEF LatestReport
  <2>7. memo.next <= declared[r].at + declared[r].fresh
    BY <2>2, <2>3, <2>4 DEF RowSound
  <2>8. memo.next \in Nat /\ declared[r].at \in Nat /\ declared[r].fresh \in Nat
    BY <2>4 DEF RowTypes, ReportsInv, ReportsTyped, CommandTyped, MemoTypes
  <2>9. time < declared[r].at + declared[r].fresh
    BY <2>4, <2>7, <2>8
  <2> QED
    BY <2>2, <2>3, <2>6, <2>9
<1> QED
  BY <1>1, ReportsInvariant, PTL

-----------------------------------------------------------------------------

(* AdmissionPolicy. A draft that is open or on its way builds on the version*)
(* its panel shows (PanelsSound, PutsSound).                                *)

(* A request carries what its sender saw when it was sent, and is heard by  *)
(* nobody but a panel that waits for it alone.                              *)
PutSound(q) ==
  /\ q.step # "none" \/ q.heard => q.by \in Editors
  /\ q.step # "none" => q.shown = q.expected
HeardAlone ==
  \A w \in Puts : puts[w].heard =>
    /\ panels[puts[w].by].does = "submit"
    /\ \A x \in Puts : puts[x].heard /\ puts[x].by = puts[w].by => x = w

(* An open draft has the text of its owner and builds on what is shown; the *)
(* one that was sent is the one that is open.                               *)
PanelSound(panel) ==
  /\ panel.draft.open =>
       /\ panel.load = Absent /\ panel.draft.text = panel.opened
       /\ ~panel.draft.lost => Rebased(panel.draft).base = panel.shown
  /\ panel.does # "rest" =>
       panel.draft.open /\ panel.sent = panel.draft /\ panel.draft.conflict = 0 /\ ~panel.draft.lost
PanelsSound == \A p \in Editors : PanelSound(panels[p])
PutsSound == \A w \in Puts : PutSound(puts[w])

VersionsSound ==
  \A v \in Versions :
    /\ journal.versions[v] = (IF v <= Head THEN 1 ELSE 0)
    /\ v <= Head => policy.rows[v].by # Absent /\ policy.rows[v].shown = v - 1
    /\ v > 1 /\ v <= Head => policy.rows[v].at > policy.rows[v - 1].at

PolicyInv == PolicyTypeOK /\ PutsSound /\ HeardAlone /\ PanelsSound /\ VersionsSound
PanelsFine ==
  /\ puts \in [Puts -> PutRows] /\ panels \in [Editors -> Panels]
  /\ PutsSound /\ HeardAlone /\ PanelsSound
RecordsFine ==
  /\ policy \in [head : 0..MaxVersion, rows : [Versions -> VersionRows]]
  /\ journal \in [last : Nat, versions : [Versions -> Nat], others : Nat]
  /\ VersionsSound

-----------------------------------------------------------------------------

LEMMA NoDraftTyped == NoDraft \in Drafts
  BY PolicyAssumption DEF NoDraft, Drafts, Texts

LEMMA NoPutTyped == NoPut \in PutRows /\ PutSound(NoPut) /\ ~NoPut.heard
  BY PolicyAssumption DEF NoPut, PutRows, Texts, PutSound

LEMMA PolicyStarts == PolicyInit => PolicyInv
<1> SUFFICES ASSUME PolicyInit PROVE PolicyInv
  OBVIOUS
<1>1. NewPanel \in Panels /\ PanelSound(NewPanel)
  BY NoDraftTyped, PolicyAssumption DEF NewPanel, Panels, PanelSound, NoDraft, Texts, Doings
<1>2. NoVersion \in VersionRows
  BY PolicyAssumption DEF NoVersion, VersionRows, Texts
<1>3. PolicyTypeOK
  BY <1>1, <1>2, NoPutTyped, PolicyAssumption DEF PolicyInit, PolicyTypeOK, Versions
<1>4. PutsSound /\ HeardAlone /\ PanelsSound
  BY <1>1, NoPutTyped DEF PolicyInit, PutsSound, HeardAlone, PanelsSound
<1>5. VersionsSound
  BY PolicyAssumption DEF PolicyInit, VersionsSound, Versions, Head
<1> QED
  BY <1>3, <1>4, <1>5 DEF PolicyInv

(* A request goes on, and nobody hears of it yet.                           *)
LEMMA PutGoesOn ==
  ASSUME PolicyInv, NEW w \in Puts, NEW q \in PutRows, PutSound(q), q.by = puts[w].by, q.heard = puts[w].heard,
         puts' = [puts EXCEPT ![w] = q], UNCHANGED panels
  PROVE  PanelsFine'
<1>1. puts \in [Puts -> PutRows] /\ PutsSound
  BY DEF PolicyInv, PolicyTypeOK
<1>2. puts' \in [Puts -> PutRows] /\ PutsSound'
  BY <1>1 DEF PutsSound
<1>3. \A x \in Puts : puts'[x].by = puts[x].by /\ puts'[x].heard = puts[x].heard
  BY <1>1
<1>4. HeardAlone'
  BY <1>3 DEF HeardAlone, PolicyInv
<1> QED
  BY <1>2, <1>4 DEF PolicyInv, PolicyTypeOK, PanelsSound, PanelsFine

(* A request is answered: the panel that waits for it knows how.            *)
LEMMA PutAnswered ==
  ASSUME PolicyInv, NEW w \in Puts, NEW reply \in Doings, AnswerPut(w, reply)
  PROVE  PanelsFine'
<1> DEFINE p == puts[w].by
<1>1. puts \in [Puts -> PutRows] /\ panels \in [Editors -> Panels] /\ PutsSound /\ PanelsSound /\ HeardAlone
  BY DEF PolicyInv, PolicyTypeOK
<1>2. puts' \in [Puts -> PutRows] /\ PutsSound'
  BY <1>1, NoPutTyped DEF AnswerPut, PutsSound
<1>3. \A x \in Puts : puts'[x].heard => x # w /\ puts[x].heard /\ puts'[x] = puts[x]
  BY <1>1, NoPutTyped DEF AnswerPut
<1>4. CASE ~puts[w].heard
  <2>1. panels' = panels
    BY <1>4 DEF AnswerPut
  <2>2. HeardAlone'
    BY <1>1, <1>3, <2>1 DEF HeardAlone
  <2> QED
    BY <1>1, <1>2, <2>1, <2>2 DEF PanelsSound, PanelsFine
<1>5. CASE puts[w].heard
  <2>1. panels' = [panels EXCEPT ![p].does = reply] /\ p \in Editors
    BY <1>1, <1>5 DEF AnswerPut, PutsSound, PutSound
  <2>2. panels[p].does = "submit"
    BY <1>1, <1>5 DEF HeardAlone
  <2> DEFINE row == [panels[p] EXCEPT !.does = reply]
  <2>3. row \in Panels
    BY <1>1, <2>1 DEF Panels
  <2>4. PanelSound(row)
    BY <1>1, <2>1, <2>2 DEF PanelSound, PanelsSound, Panels
  <2>5. panels' \in [Editors -> Panels] /\ panels'[p] = row /\ \A o \in Editors \ {p} : panels'[o] = panels[o]
    BY <1>1, <2>1, <2>3
  <2>6. PanelsSound'
    BY <1>1, <2>4, <2>5 DEF PanelsSound
  <2>7. \A x \in Puts : puts'[x].heard => puts'[x].by # p /\ puts'[x].by \in Editors
    BY <1>1, <1>3, <1>5 DEF HeardAlone, PutsSound, PutSound
  <2>8. HeardAlone'
    BY <1>1, <1>3, <2>5, <2>7 DEF HeardAlone
  <2> QED
    BY <1>2, <2>5, <2>6, <2>8 DEF PanelsFine
<1> QED
  BY <1>4, <1>5

(* The batch that writes the next version.                                  *)
LEMMA VersionWritten ==
  ASSUME PolicyInv, NEW w \in Puts, puts[w].step = "commit", Committable(w), WriteVersion(w)
  PROVE  RecordsFine'
<1> DEFINE q == puts[w]
           h == policy.head
           at == nextPolicyUpdatedAt(w)
           row == [by |-> q.by, text |-> q.text, shown |-> q.shown, at |-> at]
<1>1. /\ q \in PutRows /\ policy \in [head : 0..MaxVersion, rows : [Versions -> VersionRows]]
      /\ journal \in [last : Nat, versions : [Versions -> Nat], others : Nat]
      /\ q.by \in Editors /\ q.shown = q.expected /\ VersionsSound
  BY DEF PolicyInv, PolicyTypeOK, PutsSound, PutSound
<1>2. h \in Nat /\ h < MaxVersion /\ h + 1 \in Versions /\ q.expected = h /\ q.by # Absent
  BY <1>1, PolicyAssumption DEF Committable, Expected, Head, Versions
<1>3. UpdatedAt \in Nat /\ (h > 0 => UpdatedAt = policy.rows[h].at)
  <2>1. CASE h = 0
    BY <2>1 DEF UpdatedAt, Head
  <2>2. CASE h > 0
    <3>1. h \in Versions
      BY <1>2, <2>2, PolicyAssumption DEF Versions
    <3>2. policy.rows \in [Versions -> VersionRows]
      BY <1>1
    <3>3. policy.rows[h].at \in Nat
      BY <3>1, <3>2 DEF VersionRows
    <3> QED
      BY <2>2, <3>3 DEF UpdatedAt, Head
  <2> QED
    BY <1>2, <2>1, <2>2
<1>4. at \in Nat /\ (h > 0 => at > policy.rows[h].at)
  BY <1>1, <1>3 DEF nextPolicyUpdatedAt, PutRows
<1>5. row \in VersionRows
  BY <1>1, <1>4 DEF VersionRows, PutRows
<1>6. policy' = [head |-> h + 1, rows |-> [policy.rows EXCEPT ![h + 1] = row]]
  BY DEF WriteVersion, Head
<1>7. journal' = [journal EXCEPT !.last = @ + 1, !.versions[h + 1] = @ + 1]
  BY <1>2 DEF WriteVersion
<1> HIDE DEF row, at
<1>8. /\ policy'.head = h + 1 /\ policy'.rows[h + 1] = row
      /\ \A v \in Versions \ {h + 1} : policy'.rows[v] = policy.rows[v]
  BY <1>1, <1>2, <1>6
<1>9. /\ journal'.versions[h + 1] = journal.versions[h + 1] + 1
      /\ \A v \in Versions \ {h + 1} : journal'.versions[v] = journal.versions[v]
  BY <1>1, <1>2, <1>7
<1>10. policy' \in [head : 0..MaxVersion, rows : [Versions -> VersionRows]]
  <2>1. [policy.rows EXCEPT ![h + 1] = row] \in [Versions -> VersionRows]
    BY <1>1, <1>2, <1>5
  <2> QED
    BY <1>2, <1>6, <2>1, PolicyAssumption
<1>11. journal' \in [last : Nat, versions : [Versions -> Nat], others : Nat]
  <2> DEFINE versions == [journal.versions EXCEPT ![h + 1] = @ + 1]
  <2>1. versions \in [Versions -> Nat]
    BY <1>1, <1>2
  <2>2. journal' = [last |-> journal.last + 1, versions |-> versions, others |-> journal.others]
    BY <1>1, <1>7
  <2> HIDE DEF versions
  <2>3. journal.last + 1 \in Nat /\ journal.others \in Nat
    BY <1>1
  <2> QED
    BY <2>1, <2>2, <2>3
<1>12. ASSUME NEW v \in Versions
       PROVE  /\ journal'.versions[v] = (IF v <= h + 1 THEN 1 ELSE 0)
              /\ v <= h + 1 => policy'.rows[v].by # Absent /\ policy'.rows[v].shown = v - 1
              /\ v > 1 /\ v <= h + 1 => policy'.rows[v].at > policy'.rows[v - 1].at
  <2>1. v \in Nat /\ v >= 1 /\ (v > 1 => v - 1 \in Versions)
    BY PolicyAssumption DEF Versions
  <2>2. CASE v = h + 1
    <3>1. row.by # Absent /\ row.shown = v - 1 /\ row.at = at
      BY <1>1, <1>2, <2>2 DEF row, PutRows
    <3>2. journal'.versions[v] = 1
      BY <1>1, <1>2, <1>9, <2>2 DEF VersionsSound, Head
    <3>3. v > 1 => policy'.rows[v - 1] = policy.rows[h]
      BY <1>2, <1>8, <2>1, <2>2
    <3> QED
      BY <1>2, <1>4, <1>8, <2>2, <3>1, <3>2, <3>3
  <2>3. CASE v # h + 1
    <3>1. v <= h + 1 <=> v <= h
      BY <1>2, <2>1, <2>3
    <3>2. v > 1 /\ v <= h => policy'.rows[v - 1] = policy.rows[v - 1]
      BY <1>2, <1>8, <2>1
    <3> QED
      BY <1>1, <1>8, <1>9, <2>3, <3>1, <3>2 DEF VersionsSound, Head
  <2> QED
    BY <2>2, <2>3
<1>13. VersionsSound'
  BY <1>8, <1>12 DEF VersionsSound, Head
<1> QED
  BY <1>10, <1>11, <1>13 DEF RecordsFine
LEMMA PolicyParts ==
  ASSUME (owners \subseteq Editors)', PanelsFine', RecordsFine'
  PROVE  PolicyInv'
  BY DEF PolicyInv, PolicyTypeOK, PanelsFine, RecordsFine

LEMMA RecordsUntouched ==
  ASSUME PolicyInv, UNCHANGED <<policy, journal>>
  PROVE  RecordsFine'
  BY DEF PolicyInv, PolicyTypeOK, RecordsFine, VersionsSound, Head

LEMMA PutHandled == ASSUME PolicyInv, NEW w \in Puts, HandlePut(w) PROVE PolicyInv'
<1> DEFINE q == puts[w]
<1>1. /\ q \in PutRows /\ PutSound(q) /\ puts \in [Puts -> PutRows] /\ owners \subseteq Editors
      /\ journal \in [last : Nat, versions : [Versions -> Nat], others : Nat]
  BY DEF PolicyInv, PolicyTypeOK, PutsSound
<1>2. owners' = owners
  BY DEF HandlePut, ArrivePut, ReadPolicy, ReadTail, CommitPolicy, FailPolicy, AfterPolicy
<1>3. ASSUME NEW step \in {"read", "tail", "commit", "after"}, q.step # "none", GoOn(w, step)
      PROVE  PanelsFine'
  <2> DEFINE x == [q EXCEPT !.step = step]
  <2>1. x \in PutRows /\ PutSound(x) /\ x.by = q.by /\ x.heard = q.heard
    BY <1>1, <1>3 DEF PutRows, PutSound
  <2> QED
    BY <1>3, <2>1, PutGoesOn DEF GoOn
<1>4. CASE ArrivePut(w)
  <2>1. RecordsFine'
    BY <1>4, RecordsUntouched DEF ArrivePut
  <2>2. CASE AnswerPut(w, "forbidden")
    BY <1>2, <1>1, <2>1, <2>2, PutAnswered, PolicyParts DEF Doings
  <2>3. CASE ~AnswerPut(w, "forbidden")
    <3>1. PICK now \in Instants : puts' = [puts EXCEPT ![w].step = "read", ![w].now = now] /\ UNCHANGED panels
      BY <1>4, <2>3 DEF ArrivePut
    <3> DEFINE x == [q EXCEPT !.step = "read", !.now = now]
    <3>2. x \in PutRows /\ PutSound(x) /\ x.by = q.by /\ x.heard = q.heard
      BY <1>1, <1>4, PolicyAssumption DEF PutRows, PutSound, ArrivePut
    <3>3. PanelsFine'
      BY <3>1, <3>2, PutGoesOn
    <3> QED
      BY <1>1, <1>2, <2>1, <3>3, PolicyParts
  <2> QED
    BY <2>2, <2>3
<1>5. CASE ReadPolicy(w)
  <2>1. RecordsFine'
    BY <1>5, RecordsUntouched DEF ReadPolicy
  <2>2. PanelsFine'
    BY <1>3, <1>5, PutAnswered DEF ReadPolicy, Doings
  <2> QED
    BY <1>1, <1>2, <2>1, <2>2, PolicyParts
<1>6. CASE ReadTail(w)
  <2> DEFINE x == [q EXCEPT !.step = "commit", !.head = journal.last]
  <2>1. x \in PutRows /\ PutSound(x) /\ x.by = q.by /\ x.heard = q.heard
    BY <1>1, <1>6 DEF PutRows, PutSound, ReadTail
  <2>2. PanelsFine' /\ RecordsFine'
    BY <1>6, <2>1, PutGoesOn, RecordsUntouched DEF ReadTail
  <2> QED
    BY <1>1, <1>2, <2>2, PolicyParts
<1>7. ASSUME NEW why \in {"number", "actor", "d1"}, q.step = "commit",
             puts' = [puts EXCEPT ![w].step = "after", ![w].why = why], UNCHANGED panels
      PROVE  PanelsFine'
  <2> DEFINE x == [q EXCEPT !.step = "after", !.why = why]
  <2>1. x \in PutRows /\ PutSound(x) /\ x.by = q.by /\ x.heard = q.heard
    BY <1>1, <1>7 DEF PutRows, PutSound
  <2> QED
    BY <1>7, <2>1, PutGoesOn
<1>8. CASE CommitPolicy(w)
  <2>1. CASE Committable(w) /\ WriteVersion(w)
               /\ \E reply \in {"saved", "ambiguous"} : AnswerPut(w, reply)
    <3>1. PanelsFine'
      BY <2>1, PutAnswered DEF Doings
    <3>2. RecordsFine'
      BY <1>8, <2>1, VersionWritten DEF CommitPolicy
    <3> QED
      BY <1>1, <1>2, <3>1, <3>2, PolicyParts
  <2>2. CASE puts' = [puts EXCEPT ![w].step = "after", ![w].why = IF q.by \in owners THEN "number" ELSE "actor"]
               /\ UNCHANGED <<policy, journal, panels>>
    <3>1. PanelsFine'
      BY <1>7, <1>8, <2>2 DEF CommitPolicy
    <3> QED
      BY <1>1, <1>2, <2>2, <3>1, RecordsUntouched, PolicyParts
  <2> QED
    BY <1>8, <2>1, <2>2 DEF CommitPolicy
<1>9. CASE FailPolicy(w)
  <2>1. PanelsFine'
    BY <1>7, <1>9 DEF FailPolicy
  <2>2. RecordsFine'
    BY <1>9, RecordsUntouched, VersionWritten DEF FailPolicy
  <2> QED
    BY <1>1, <1>2, <2>1, <2>2, PolicyParts
<1>10. CASE AfterPolicy(w)
  <2>1. RecordsFine'
    BY <1>10, RecordsUntouched DEF AfterPolicy
  <2>2. ASSUME NEW reply \in Doings, AnswerPut(w, reply) PROVE PanelsFine'
    BY <2>2, PutAnswered
  <2>3. ASSUME puts' = [puts EXCEPT ![w].step = "read", ![w].tries = @ + 1], UNCHANGED panels
        PROVE  PanelsFine'
    <3> DEFINE x == [q EXCEPT !.step = "read", !.tries = @ + 1]
    <3>1. q.step = "after" /\ q.tries + 1 \in Nat
      BY <1>1, <1>10 DEF PutRows, AfterPolicy
    <3>2. x \in PutRows /\ PutSound(x) /\ x.by = q.by /\ x.heard = q.heard
      BY <1>1, <3>1 DEF PutRows, PutSound
    <3>3. puts' = [puts EXCEPT ![w] = x]
      BY <1>1, <2>3
    <3> HIDE DEF x
    <3>4. UNCHANGED panels
      BY <2>3
    <3> QED
      BY <3>2, <3>3, <3>4, PutGoesOn
  <2>4. \/ AnswerPut(w, "conflict") \/ AnswerPut(w, "forbidden") \/ AnswerPut(w, "ambiguous")
        \/ puts' = [puts EXCEPT ![w].step = "read", ![w].tries = @ + 1] /\ UNCHANGED panels
    BY <1>10 DEF AfterPolicy
  <2>5. PanelsFine'
    BY <2>2, <2>3, <2>4 DEF Doings
  <2> QED
    BY <1>1, <1>2, <2>1, <2>5, PolicyParts
<1> QED
  BY <1>4, <1>5, <1>6, <1>8, <1>9, <1>10 DEF HandlePut
-----------------------------------------------------------------------------
(* Panels *)

LEMMA NoOthersHear ==
  ASSUME PolicyInv, NEW p \in Editors, puts' = Hushed(p)
  PROVE  /\ puts' \in [Puts -> PutRows] /\ PutsSound'
         /\ \A w \in Puts : puts'[w].heard => puts[w].heard /\ puts'[w].by = puts[w].by /\ puts[w].by # p
<1>1. puts \in [Puts -> PutRows] /\ PutsSound
  BY DEF PolicyInv, PolicyTypeOK
<1>2. ASSUME NEW w \in Puts
      PROVE  /\ puts'[w] \in PutRows /\ PutSound(puts'[w])
             /\ puts'[w].heard => puts[w].heard /\ puts'[w].by = puts[w].by /\ puts[w].by # p
  <2>1. puts'[w] = IF puts[w].by = p THEN [puts[w] EXCEPT !.heard = FALSE] ELSE puts[w]
    BY DEF Hushed
  <2>2. puts[w] \in PutRows /\ PutSound(puts[w])
    BY <1>1 DEF PutsSound
  <2> QED
    BY <2>1, <2>2 DEF PutRows, PutSound
<1>3. puts' \in [Puts -> PutRows]
  BY <1>2 DEF Hushed
<1> QED
  BY <1>2, <1>3 DEF PutsSound

(* One panel changes; the requests it does not wait for may be hushed.      *)
LEMMA PanelMoves ==
  ASSUME PolicyInv, NEW p \in Editors, NEW row \in Panels, PanelSound(row), Panel(p, row),
         puts' \in [Puts -> PutRows], PutsSound',
         \A w \in Puts : puts'[w].heard =>
           puts[w].heard /\ puts'[w].by = puts[w].by /\ (puts[w].by = p => row.does = "submit")
  PROVE  PanelsFine'
<1>1. panels \in [Editors -> Panels] /\ PanelsSound /\ HeardAlone /\ PutsSound
  BY DEF PolicyInv, PolicyTypeOK
<1>2. panels' \in [Editors -> Panels] /\ panels'[p] = row /\ \A o \in Editors \ {p} : panels'[o] = panels[o]
  BY <1>1 DEF Panel
<1>3. PanelsSound'
  BY <1>1, <1>2 DEF PanelsSound
<1>4. \A w \in Puts : puts[w].heard => puts[w].by \in Editors
  BY <1>1 DEF PutsSound, PutSound
<1>5. HeardAlone'
  BY <1>1, <1>2, <1>4 DEF HeardAlone
<1> QED
  BY <1>2, <1>3, <1>5 DEF PanelsFine

LEMMA PanelUsed == ASSUME PolicyInv, NEW p \in Editors, UsePanel(p) PROVE PolicyInv'
<1> DEFINE panel == panels[p]
<1>1. /\ panel \in Panels /\ PanelSound(panel) /\ owners \subseteq Editors /\ PutsSound /\ HeardAlone
      /\ puts \in [Puts -> PutRows] /\ policy.head \in Nat
  BY PolicyAssumption DEF PolicyInv, PolicyTypeOK, PanelsSound
<1>2. owners' = owners /\ UNCHANGED <<policy, journal>>
  BY DEF UsePanel, AskPolicy, HearPolicy, OpenEditor, CloseEditor, LosePut, HearSaved, RefreshFacts, HearFacts
<1>3. RecordsFine'
  BY <1>2, RecordsUntouched
<1>4. View(p) \in Views
  BY <1>1 DEF View, Views, Head
<1>5. ASSUME NEW row \in Panels, PanelSound(row), Panel(p, row), UNCHANGED puts,
             row.does # "submit" => panel.does # "submit"
      PROVE  PanelsFine'
  <2>1. puts' \in [Puts -> PutRows] /\ PutsSound'
    BY <1>1, <1>5 DEF PutsSound
  <2>2. \A w \in Puts : puts'[w].heard =>
          puts[w].heard /\ puts'[w].by = puts[w].by /\ (puts[w].by = p => row.does = "submit")
    BY <1>1, <1>5 DEF HeardAlone
  <2> QED
    BY <1>5, <2>1, <2>2, PanelMoves
<1>6. ASSUME NEW row \in Panels, PanelSound(row), Panel(p, row), puts' = Hushed(p)
      PROVE  PanelsFine'
  BY <1>6, NoOthersHear, PanelMoves
<1>7. ASSUME NEW view \in Views
      PROVE  /\ Merged(panel, view) \in Panels
             /\ \E shown \in Nat, mayEdit \in BOOLEAN :
                  /\ Merged(panel, view) = [panel EXCEPT !.shown = shown, !.mayEdit = mayEdit]
                  /\ view.version >= panel.shown => shown = view.version
  <2>1. view.version \in Nat /\ view.mayEdit \in BOOLEAN /\ panel.shown \in Nat /\ panel.mayEdit \in BOOLEAN
    BY <1>1 DEF Panels, Views
  <2>2. CASE view.version < panel.shown
    <3>1. Merged(panel, view) = panel /\ panel = [panel EXCEPT !.shown = panel.shown, !.mayEdit = panel.mayEdit]
      BY <1>1, <2>2 DEF Merged, Panels
    <3>2. ~(view.version >= panel.shown)
      BY <2>1, <2>2
    <3> QED
      BY <1>1, <2>1, <3>1, <3>2
  <2>3. CASE ~(view.version < panel.shown)
    <3>1. Merged(panel, view) = [panel EXCEPT !.shown = view.version, !.mayEdit = view.mayEdit]
      BY <2>3 DEF Merged
    <3>2. Merged(panel, view) \in Panels
      BY <1>1, <2>1, <3>1 DEF Panels
    <3> QED
      BY <2>1, <3>1, <3>2
  <2> QED
    BY <2>2, <2>3
<1>8. CASE AskPolicy(p)
  <2> DEFINE row == [panel EXCEPT !.load = View(p)]
  <2>1. row \in Panels /\ PanelSound(row) /\ row.does = panel.does
    BY <1>1, <1>4, <1>8 DEF AskPolicy, Panels, PanelSound
  <2> QED
    BY <1>1, <1>2, <1>3, <1>5, <1>8, <2>1, PolicyParts DEF AskPolicy
<1>9. CASE HearPolicy(p)
  <2> DEFINE row == [Merged(panel, panel.load) EXCEPT !.load = Absent]
  <2>1. panel.load \in Views /\ ~panel.draft.open /\ panel.does = "rest"
    BY <1>1, <1>9 DEF HearPolicy, Panels, PanelSound
  <2>2. PICK shown \in Nat, mayEdit \in BOOLEAN :
          Merged(panel, panel.load) = [panel EXCEPT !.shown = shown, !.mayEdit = mayEdit]
    BY <1>7, <2>1
  <2>3. row \in Panels /\ PanelSound(row) /\ row.does = panel.does
    BY <1>1, <2>1, <2>2 DEF Panels, PanelSound
  <2> QED
    BY <1>1, <1>2, <1>3, <1>5, <1>9, <2>3, PolicyParts DEF HearPolicy
<1>10. CASE OpenEditor(p)
  <2> DEFINE draft == [NoDraft EXCEPT !.open = TRUE, !.base = panel.shown, !.text = panel.opened + 1]
             row == [panel EXCEPT !.load = Absent, !.opened = @ + 1, !.does = "rest", !.draft = draft]
  <2>1. panel.opened + 1 \in Texts /\ panel.shown \in Nat /\ panel.does = "rest"
    BY <1>1, <1>10, PolicyAssumption DEF OpenEditor, Panels, Texts, PanelSound
  <2>2. /\ draft \in Drafts /\ draft.open /\ ~draft.lost /\ draft.text = panel.opened + 1
        /\ draft.base = panel.shown /\ draft.conflict = 0
    BY <2>1, NoDraftTyped DEF Drafts, NoDraft
  <2> HIDE DEF draft
  <2>3. row \in Panels /\ row.does = "rest" /\ row.draft = draft /\ row.load = Absent
        /\ row.opened = panel.opened + 1 /\ row.shown = panel.shown
    BY <1>1, <2>1, <2>2 DEF Panels, Doings
  <2>4. PanelSound(row)
    BY <2>2, <2>3 DEF PanelSound, Rebased
  <2>5. Panel(p, row) /\ UNCHANGED puts
    BY <1>10 DEF OpenEditor, draft
  <2> QED
    BY <1>1, <1>2, <1>3, <1>5, <2>1, <2>3, <2>4, <2>5, PolicyParts
<1>11. CASE CloseEditor(p)
  <2> DEFINE row == [panel EXCEPT !.draft = NoDraft, !.does = "rest", !.got = Absent]
  <2>1. row \in Panels /\ PanelSound(row)
    BY <1>1, NoDraftTyped DEF Panels, PanelSound, Doings, NoDraft
  <2> QED
    BY <1>1, <1>2, <1>3, <1>6, <1>11, <2>1, PolicyParts DEF CloseEditor, StopsHearing
<1>12. CASE LosePut(p)
  <2> DEFINE row == [panel EXCEPT !.does = "ambiguous"]
  <2>1. row \in Panels /\ PanelSound(row)
    BY <1>1, <1>12 DEF LosePut, Panels, PanelSound, Doings
  <2> QED
    BY <1>1, <1>2, <1>3, <1>6, <1>12, <2>1, PolicyParts DEF LosePut
<1>13. CASE HearSaved(p)
  <2> DEFINE view == [version |-> panel.sent.base + 1, mayEdit |-> TRUE]
             row == [Merged(panel, view) EXCEPT !.draft = NoDraft, !.does = "rest"]
  <2>1. view \in Views
    BY <1>1 DEF Panels, Drafts, Views
  <2> HIDE DEF view
  <2>2. PICK shown \in Nat, mayEdit \in BOOLEAN :
          Merged(panel, view) = [panel EXCEPT !.shown = shown, !.mayEdit = mayEdit]
    BY <1>7, <2>1
  <2>3. row \in Panels /\ PanelSound(row)
    BY <1>1, <2>2, NoDraftTyped DEF Panels, PanelSound, Doings, NoDraft
  <2>4. Panel(p, row) /\ UNCHANGED puts /\ panel.does # "submit"
    BY <1>13 DEF HearSaved, view
  <2> QED
    BY <1>1, <1>2, <1>3, <1>5, <2>3, <2>4, PolicyParts
<1>14. CASE RefreshFacts(p)
  <2>1. PICK view \in {View(p), [version |-> 0, mayEdit |-> FALSE]} : Panel(p, [panel EXCEPT !.got = view])
    BY <1>14 DEF RefreshFacts
  <2> DEFINE row == [panel EXCEPT !.got = view]
  <2>2. view \in Views
    <3>1. [version |-> 0, mayEdit |-> FALSE] \in Views
      BY DEF Views
    <3> QED
      BY <1>4, <3>1
  <2>3. row \in Panels /\ PanelSound(row) /\ row.does = panel.does
    BY <1>1, <2>2 DEF Panels, PanelSound
  <2> QED
    BY <1>1, <1>2, <1>3, <1>5, <1>14, <2>1, <2>3, PolicyParts DEF RefreshFacts
<1>15. CASE HearFacts(p)
  <2> DEFINE got == panel.got
             row == [Facts(p) EXCEPT !.does = "rest", !.got = Absent]
  <2>1. /\ got \in Views /\ panel.does \notin {"rest", "submit"} /\ panel.draft.open /\ panel.sent = panel.draft
        /\ panel.draft \in Drafts /\ panel.draft.conflict = 0 /\ ~panel.draft.lost
        /\ panel.draft.base = panel.shown /\ panel.load = Absent /\ panel.draft.text = panel.opened
    BY <1>1, <1>15 DEF HearFacts, Panels, PanelSound, Rebased
  <2>2. [panels[p] EXCEPT !.draft = panels[p].sent] = panel
    BY <1>1, <2>1 DEF Panels
  <2>3. PICK shown \in Nat, mayEdit \in BOOLEAN :
          /\ Merged(panel, got) = [panel EXCEPT !.shown = shown, !.mayEdit = mayEdit]
          /\ got.version >= panel.shown => shown = got.version
    BY <1>7, <2>1
  <2> DEFINE merged == [panel EXCEPT !.shown = shown, !.mayEdit = mayEdit]
  <2>4. \/ \E may \in BOOLEAN : Facts(p) = [merged EXCEPT !.mayEdit = may, !.draft.lost = TRUE]
        \/ got.version > panel.draft.base /\ Facts(p) = [merged EXCEPT !.draft.conflict = got.version]
        \/ got.version = panel.draft.base /\ Facts(p) = [merged EXCEPT !.draft.conflict = 0]
        \/ Facts(p) = panel
    <3> DEFINE ahead == got.version > panel.draft.base
               read == ahead \/ (panel.does = "ambiguous" /\ got.version = panel.draft.base)
    <3>1. merged \in Panels /\ merged.mayEdit = mayEdit
      BY <1>1 DEF Panels
    <3>2. CASE panel.does = "forbidden"
      <4>1. Facts(p) = [merged EXCEPT !.mayEdit = FALSE, !.draft.lost = TRUE]
        BY <2>2, <2>3, <3>2 DEF Facts
      <4> QED
        BY <4>1
    <3>3. CASE panel.does # "forbidden" /\ read /\ ~got.mayEdit
      <4>1. Facts(p) = [merged EXCEPT !.draft.lost = TRUE]
        BY <2>2, <2>3, <3>3 DEF Facts
      <4>2. @ = [merged EXCEPT !.mayEdit = mayEdit, !.draft.lost = TRUE]
        BY <3>1 DEF Panels
      <4> QED
        BY <4>1, <4>2
    <3>4. CASE panel.does # "forbidden" /\ read /\ got.mayEdit
      <4>1. CASE ahead
        BY <2>2, <2>3, <3>4, <4>1 DEF Facts
      <4>2. CASE ~ahead
        BY <2>2, <2>3, <3>4, <4>2 DEF Facts
      <4> QED
        BY <4>1, <4>2
    <3>5. CASE panel.does # "forbidden" /\ ~read
      BY <2>2, <2>3, <3>5 DEF Facts
    <3> QED
      BY <2>1, <3>2, <3>3, <3>4, <3>5 DEF Views
  <2>5. row \in Panels /\ PanelSound(row) /\ row.does = "rest"
    <3>1. shown \in Nat /\ got.version \in Nat /\ panel.draft.base \in Nat
      BY <2>1 DEF Views, Drafts
    <3>2. merged \in Panels /\ merged.draft = panel.draft /\ merged.shown = shown /\ merged.load = Absent
          /\ merged.opened = panel.opened
      BY <1>1, <2>1 DEF Panels
    <3> HIDE DEF merged
    <3>3. ASSUME NEW may \in BOOLEAN, Facts(p) = [merged EXCEPT !.mayEdit = may, !.draft.lost = TRUE]
          PROVE  row \in Panels /\ PanelSound(row) /\ row.does = "rest"
      <4> DEFINE draft == [panel.draft EXCEPT !.lost = TRUE]
      <4>1. draft \in Drafts /\ draft.lost /\ draft.text = panel.opened
        BY <2>1 DEF Drafts
      <4>2. row = [merged EXCEPT !.mayEdit = may, !.draft = draft, !.does = "rest", !.got = Absent]
        BY <3>2, <3>3 DEF Panels
      <4> HIDE DEF row, draft
      <4> QED
        BY <3>2, <4>1, <4>2 DEF Panels, PanelSound, Doings
    <3>4. ASSUME NEW c \in Nat, Facts(p) = [merged EXCEPT !.draft.conflict = c],
                 (c = got.version /\ got.version > panel.draft.base) \/ (c = 0 /\ got.version = panel.draft.base)
          PROVE  row \in Panels /\ PanelSound(row) /\ row.does = "rest"
      <4> DEFINE draft == [panel.draft EXCEPT !.conflict = c]
      <4>1. draft \in Drafts /\ draft.text = panel.opened /\ draft.conflict = c /\ draft.base = panel.draft.base
        BY <2>1, <3>4 DEF Drafts
      <4>2. row = [merged EXCEPT !.draft = draft, !.does = "rest", !.got = Absent]
        BY <3>2, <3>4 DEF Panels
      <4>3. shown = got.version
        BY <2>1, <2>3, <3>1, <3>4
      <4>4. Rebased(draft).base = shown
        <5>1. CASE c > 0
          BY <3>1, <3>4, <4>1, <4>3, <5>1 DEF Rebased, Drafts
        <5>2. CASE c = 0
          BY <3>1, <3>4, <4>1, <4>3, <5>2 DEF Rebased
        <5> QED
          BY <3>4, <5>1, <5>2
      <4> HIDE DEF row, draft
      <4> QED
        BY <3>2, <4>1, <4>2, <4>4 DEF Panels, PanelSound, Doings
    <3>5. CASE Facts(p) = panel
      <4>1. row = [panel EXCEPT !.does = "rest", !.got = Absent]
        BY <3>5
      <4> HIDE DEF row
      <4> QED
        BY <1>1, <4>1 DEF Panels, PanelSound, Doings
    <3> HIDE DEF row
    <3>6. CASE \E may \in BOOLEAN : Facts(p) = [merged EXCEPT !.mayEdit = may, !.draft.lost = TRUE]
      BY <3>3, <3>6
    <3>7. CASE got.version > panel.draft.base /\ Facts(p) = [merged EXCEPT !.draft.conflict = got.version]
      <4> HIDE DEF got
      <4> QED
        BY <3>1, <3>4, <3>7
    <3>8. CASE got.version = panel.draft.base /\ Facts(p) = [merged EXCEPT !.draft.conflict = 0]
      BY <3>4, <3>8
    <3> QED
      BY <2>4, <3>5, <3>6, <3>7, <3>8
  <2> HIDE DEF row
  <2> QED
    BY <1>1, <1>2, <1>3, <1>5, <1>15, <2>1, <2>5, PolicyParts DEF HearFacts, row
<1> QED
  BY <1>8, <1>9, <1>10, <1>11, <1>12, <1>13, <1>14, <1>15 DEF UsePanel

LEMMA DraftSubmitted == ASSUME PolicyInv, NEW p \in Editors, NEW w \in Puts, SubmitDraft(p, w) PROVE PolicyInv'
<1> DEFINE panel == panels[p]
           draft == Rebased(panel.draft)
           put == [NoPut EXCEPT !.step = "sent", !.by = p, !.text = draft.text, !.shown = panel.shown,
                                !.expected = draft.base, !.heard = TRUE]
           row == [panel EXCEPT !.draft = draft, !.sent = draft, !.does = "submit"]
           hushed == Hushed(p)
<1>1. /\ panel \in Panels /\ PanelSound(panel) /\ owners \subseteq Editors /\ PutsSound /\ HeardAlone
      /\ puts \in [Puts -> PutRows] /\ panels \in [Editors -> Panels] /\ PanelsSound
  BY DEF PolicyInv, PolicyTypeOK, PanelsSound
<1>2. /\ panel.draft.open /\ panel.does = "rest" /\ ~panel.draft.lost
      /\ puts' = [hushed EXCEPT ![w] = put] /\ Panel(p, row)
      /\ owners' = owners /\ UNCHANGED <<policy, journal>>
  <2>1. panel.draft.open /\ panel.does = "rest" /\ ~draft.lost /\ UNCHANGED <<policy, journal, owners>>
    BY DEF SubmitDraft
  <2>4. draft.lost = panel.draft.lost
    BY <1>1 DEF Rebased, Panels, Drafts
  <2>2. puts' = [hushed EXCEPT ![w] = put]
    BY DEF SubmitDraft, StopsHearing
  <2>3. Panel(p, row)
    BY DEF SubmitDraft
  <2> QED
    BY <2>1, <2>2, <2>3, <2>4
<1>3. RecordsFine'
  BY <1>2, RecordsUntouched
<1>4. /\ draft \in Drafts /\ draft.open /\ ~draft.lost /\ draft.text = panel.opened
      /\ draft.base = panel.shown /\ draft.conflict = 0 /\ panel.shown \in Nat
  <2>1. panel.draft \in Drafts /\ panel.shown \in Nat
    BY <1>1 DEF Panels
  <2>2. CASE panel.draft.conflict > 0
    BY <1>1, <1>2, <2>1, <2>2 DEF PanelSound, Rebased, Drafts
  <2>3. CASE ~(panel.draft.conflict > 0)
    BY <1>1, <1>2, <2>1, <2>3 DEF PanelSound, Rebased, Drafts
  <2> QED
    BY <2>2, <2>3
<1> HIDE DEF draft
<1>5. put \in PutRows /\ PutSound(put) /\ put.by = p /\ put.heard
  <2>1. draft.text \in Texts /\ draft.base \in Nat
    BY <1>4 DEF Drafts
  <2>2. put \in PutRows
    BY <1>4, <2>1, NoPutTyped DEF PutRows
  <2>3. put.by = p /\ put.heard /\ put.shown = panel.shown /\ put.expected = draft.base
    BY NoPutTyped DEF PutRows
  <2> HIDE DEF put
  <2> QED
    BY <1>4, <2>2, <2>3 DEF PutSound
<1>6. row \in Panels /\ row.does = "submit" /\ row.draft = draft /\ row.sent = draft /\ row.opened = panel.opened
      /\ row.shown = panel.shown /\ row.load = panel.load
  BY <1>1, <1>4 DEF Panels, Doings
<1>7. PanelSound(row)
  BY <1>1, <1>2, <1>4, <1>6 DEF PanelSound, Rebased
<1> HIDE DEF put, row
<1>8. hushed \in [Puts -> PutRows]
  <2>1. ASSUME NEW x \in Puts PROVE hushed[x] \in PutRows
    BY <1>1 DEF Hushed, PutRows
  <2> QED
    BY <2>1 DEF Hushed
<1>9. \A x \in Puts : PutSound(hushed[x]) /\ (hushed[x].heard => puts[x].heard /\ hushed[x].by = puts[x].by)
  <2>1. ASSUME NEW x \in Puts
        PROVE  PutSound(hushed[x]) /\ (hushed[x].heard => puts[x].heard /\ hushed[x].by = puts[x].by)
    <3>1. hushed[x] = IF puts[x].by = p THEN [puts[x] EXCEPT !.heard = FALSE] ELSE puts[x]
      BY DEF Hushed
    <3>2. puts[x] \in PutRows /\ PutSound(puts[x])
      BY <1>1 DEF PutsSound
    <3> QED
      BY <3>1, <3>2 DEF PutRows, PutSound
  <2> QED
    BY <2>1
<1> HIDE DEF hushed
<1>10. puts' \in [Puts -> PutRows] /\ puts'[w] = put /\ \A x \in Puts \ {w} : puts'[x] = hushed[x]
  BY <1>2, <1>5, <1>8
<1>11. PutsSound'
  BY <1>5, <1>9, <1>10 DEF PutsSound
<1>12. panels' \in [Editors -> Panels] /\ panels'[p] = row /\ \A o \in Editors \ {p} : panels'[o] = panels[o]
  BY <1>1, <1>2, <1>6 DEF Panel
<1>13. PanelsSound'
  BY <1>1, <1>7, <1>12 DEF PanelsSound
<1>14. \A x \in Puts : puts[x].heard => puts[x].by \in Editors \ {p}
  BY <1>1, <1>2 DEF PutsSound, PutSound, HeardAlone
<1>15. \A x \in Puts \ {w} : puts'[x].heard => puts[x].heard /\ puts'[x].by = puts[x].by /\ puts[x].by \in Editors \ {p}
  BY <1>9, <1>10, <1>14
<1>16. HeardAlone'
  <2> SUFFICES ASSUME NEW x \in Puts, puts'[x].heard
               PROVE  /\ panels'[puts'[x].by].does = "submit"
                      /\ \A y \in Puts : puts'[y].heard /\ puts'[y].by = puts'[x].by => y = x
    BY DEF HeardAlone
  <2>1. CASE x = w
    BY <1>5, <1>6, <1>10, <1>12, <1>15, <2>1
  <2>2. CASE x # w
    BY <1>1, <1>5, <1>10, <1>12, <1>15, <2>2 DEF HeardAlone
  <2> QED
    BY <2>1, <2>2
<1>17. PanelsFine'
  BY <1>10, <1>11, <1>12, <1>13, <1>16 DEF PanelsFine
<1> QED
  BY <1>1, <1>2, <1>3, <1>17, PolicyParts

LEMMA PanelsUntouched == ASSUME PolicyInv, UNCHANGED <<puts, panels>> PROVE PanelsFine'
  BY DEF PolicyInv, PolicyTypeOK, PanelsFine, PutsSound, HeardAlone, PanelsSound

LEMMA PolicyStep == PolicyInv /\ [PolicyNext]_polvars => PolicyInv'
<1> SUFFICES ASSUME PolicyInv, [PolicyNext]_polvars PROVE PolicyInv'
  OBVIOUS
<1>1. owners \subseteq Editors /\ journal \in [last : Nat, versions : [Versions -> Nat], others : Nat] /\ VersionsSound
      /\ policy \in [head : 0..MaxVersion, rows : [Versions -> VersionRows]]
  BY DEF PolicyInv, PolicyTypeOK
<1>2. CASE OtherEntry
  <2>1. journal' \in [last : Nat, versions : [Versions -> Nat], others : Nat] /\ journal'.versions = journal.versions
    <3>1. journal' = [last |-> journal.last + 1, versions |-> journal.versions, others |-> journal.others + 1]
      BY <1>1, <1>2 DEF OtherEntry
    <3> QED
      BY <1>1, <3>1
  <2>2. RecordsFine'
    BY <1>1, <1>2, <2>1 DEF OtherEntry, RecordsFine, VersionsSound, Head
  <2> QED
    BY <1>1, <1>2, <2>2, PanelsUntouched, PolicyParts DEF OtherEntry
<1>3. CASE \E p \in Editors : ChangeRole(p)
  BY <1>1, <1>3, PanelsUntouched, RecordsUntouched, PolicyParts DEF ChangeRole
<1>4. CASE UNCHANGED polvars
  BY <1>1, <1>4, PanelsUntouched, RecordsUntouched, PolicyParts DEF polvars
<1> QED
  BY <1>2, <1>3, <1>4, PutHandled, PanelUsed, DraftSubmitted DEF PolicyNext

(* The invariant holds for every number of panels, requests, versions,      *)
(* drafts and retries.                                                      *)
THEOREM PolicyInvariant == PolicySpec => []PolicyInv
<1>1. PolicyInit => PolicyInv
  BY PolicyStarts
<1>2. PolicyInv /\ [PolicyNext]_polvars => PolicyInv'
  BY PolicyStep
<1> QED
  BY <1>1, <1>2, PTL DEF PolicySpec

(* Every policy was decided once, on a screen that showed the one before,   *)
(* and an open draft says what its owner typed (putRunnerAdmissionPolicy,   *)
(* RunnerAdmissionPolicyPanel).                                             *)
THEOREM PoliciesDecidedOnFacts == PolicySpec => []DecidedOnFacts
<1>1. PolicyInv => DecidedOnFacts
  BY DEF PolicyInv, VersionsSound, PanelsSound, PanelSound, DecidedOnFacts
<1> QED
  BY <1>1, PolicyInvariant, PTL

(* Versions, ledger entries, requests and panels have their types.          *)
THEOREM PolicyTypes == PolicySpec => []PolicyTypeOK
<1>1. PolicyInv => PolicyTypeOK
  BY DEF PolicyInv
<1> QED
  BY <1>1, PolicyInvariant, PTL
=============================================================================
