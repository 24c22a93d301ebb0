----------------------------- MODULE Enrollment -----------------------------
(***************************************************************************)
(* How a machine becomes a runner, and how the control plane knows that it *)
(* is alive: the one-use enrollment tokens, the runners, the ledger        *)
(* entries of both and the heartbeat nonces (runner-repository.ts with the *)
(* triggers of drizzle/0016), the state directory in which `nexus-runner   *)
(* enroll` keeps the private key, and the heartbeat loop (nexus-runner.mjs)*)
(* The identity of a runner is a hash of token and key: a retry with the   *)
(* same two finds the runner that an answer never told of.                 *)
(***************************************************************************)
EXTENDS Naturals, FiniteSets

CONSTANTS
  Tokens,       \* enrollment tokens an owner may issue
  Dirs,         \* state directories
  Enrollers,    \* `enroll` commands that run together
  Calls,        \* requests under way together
  Beats,        \* nonces of heartbeats
  MaxKeys,      \* bound of the keys a directory generates
  TokenTtl,     \* TOKEN_TTL_MS
  BeatTtl,      \* HEARTBEAT_REPLAY_TTL_MS
  SkewPast,     \* RUNNER_SKEW_PAST_MS
  SkewFuture,   \* RUNNER_SKEW_FUTURE_MS
  LongestCall,  \* how long the platform lets a request run
  EnrollRetries,\* LEDGER_RETRY_LIMIT
  LastTick,     \* bound of the clock
  Nobody        \* no key, no runner, no sender

KeyPairs == Dirs \X (1..MaxKeys)
RunnerIds == Tokens \X KeyPairs

ASSUME EnrollmentAssumption ==
  /\ {MaxKeys, TokenTtl, EnrollRetries} \subseteq Nat \ {0}
  /\ {SkewPast, SkewFuture, LongestCall, LastTick} \subseteq Nat
  /\ BeatTtl \in Nat /\ BeatTtl > SkewPast + SkewFuture + LongestCall
  /\ Enrollers \cap Dirs = {}
  /\ Nobody \notin Tokens \cup Dirs \cup Enrollers \cup Beats \cup KeyPairs \cup RunnerIds

VARIABLES
  tokens,  \* runner_enrollment_tokens
  fleet,   \* runners with their principals
  chain,   \* ledger_entries: the last sequence number, and what it records
  calls,   \* requests under way
  beats,   \* heartbeats sent, and the rows of runner_heartbeat_nonces
  dirs,    \* state directories
  cli,     \* the enroll commands
  tick     \* the clock

evars == <<tokens, fleet, chain, calls, beats, dirs, cli, tick>>
registryRows == <<tokens, fleet, chain>>
machine == <<dirs, cli, tick>>

-----------------------------------------------------------------------------

EntriesOfTokens == {"issued", "withdrawn"} \X Tokens
EntriesOfRunners == {"enrolled", "revoked"} \X RunnerIds

NewToken == [issued |-> FALSE, expires |-> 0, revoked |-> FALSE, runner |-> Nobody]
NewRunner == [status |-> "none", seen |-> 0]
NewBeat == [runner |-> Nobody, signed |-> 0, until |-> 0, counted |-> 0, at |-> 0]
IdleCall == [kind |-> "none", step |-> "none", token |-> Nobody, key |-> Nobody, beat |-> Nobody,
             from |-> Nobody, now |-> 0, head |-> 0, tries |-> 0]
NewDir == [key |-> Nobody, whole |-> FALSE, made |-> 0, config |-> Nobody, lock |-> FALSE, loop |-> "on"]
IdleCli == [at |-> "idle", dir |-> Nobody, token |-> Nobody, created |-> FALSE]

Active(runner) == fleet[runner].status = "active"
Spare(c) == calls[c].step = "none"
RunnerOf(c) == <<calls[c].token, calls[c].key>>
At(c, kind, step) == calls[c].kind = kind /\ calls[c].step = step
Moves(c, step) == calls' = [calls EXCEPT ![c].step = step]

-----------------------------------------------------------------------------
(* The ledger: a batch that enters something takes the number after the     *)
(* one it read, and the unique index refuses all but the first.             *)

\* bug: two entries may take one number
HeadAnyway(c) == TRUE
HeadCurrent(c) == calls[c].head = chain.head

Entered(head, entry) == chain' = [head |-> head + 1, entries |-> [chain.entries EXCEPT ![entry] = @ + 1]]
Recorded(entry) == chain.entries[entry] > 0

ReadHead(c) ==
  /\ calls[c].step = "head"
  /\ calls' = [calls EXCEPT ![c].step = "commit", ![c].head = chain.head]
  /\ UNCHANGED <<registryRows, beats, machine>>

-----------------------------------------------------------------------------
(* Answers                                                                  *)

(* An answer reaches the command or the loop that still waits for it. 403   *)
(* ends both; anything but 200 and 403 leaves the outcome open.             *)
Answer(c, reply) ==
  LET from == calls[c].from IN
  /\ calls' = [calls EXCEPT ![c] = IdleCall]
  /\ cli' = IF from \in Enrollers THEN [cli EXCEPT ![from].at = reply] ELSE cli
  /\ dirs' = IF from \in Dirs THEN [dirs EXCEPT ![from].loop = IF reply = "rejected" THEN "off" ELSE "on"]
             ELSE dirs
  /\ UNCHANGED tick

(* A caller that stops waiting leaves its request behind.                   *)
Forgotten(from) == [c \in Calls |-> IF calls[c].from = from THEN [calls[c] EXCEPT !.from = Nobody] ELSE calls[c]]

(* Five attempts; then 409 conflict_retry.                                  *)
AgainAt(c, step) ==
  IF calls[c].tries + 1 < EnrollRetries
  THEN calls' = [calls EXCEPT ![c].step = step, ![c].tries = @ + 1] /\ UNCHANGED machine
  ELSE Answer(c, "open")

-----------------------------------------------------------------------------
(* enrollRunner                                                             *)

(* Signature, clock or display name may be refused before a token is read.  *)
ArriveEnroll(c) ==
  /\ At(c, "enroll", "sent")
  /\ \/ calls' = [calls EXCEPT ![c].step = "read", ![c].now = tick] /\ UNCHANGED machine
     \/ Answer(c, "rejected")
  /\ UNCHANGED <<registryRows, beats>>

Usable(c, token) == token.runner = Nobody /\ ~token.revoked /\ token.expires > calls[c].now
OpenTo(c) == LET token == tokens[calls[c].token] IN token.runner = RunnerOf(c) \/ Usable(c, token)

ReadToken(c) ==
  /\ At(c, "enroll", "read")
  /\ IF tokens[calls[c].token].issued /\ OpenTo(c)
     THEN Moves(c, "head") /\ UNCHANGED machine
     ELSE Answer(c, "rejected")
  /\ UNCHANGED <<registryRows, beats>>

(* The unique indexes of runners and principals: one runner to a token and  *)
(* to a key; the principal of a revoked runner is there, and not active.    *)
Collides(c) ==
  \E r \in RunnerIds : /\ fleet[r].status # "none"
                       /\ r[1] = calls[c].token \/ r[2] = calls[c].key
                       /\ r # RunnerOf(c) \/ ~Active(r)

Enroll(c) ==
  LET r == RunnerOf(c) IN
  /\ tokens' = [tokens EXCEPT ![calls[c].token].runner = r]
  /\ fleet' = IF Active(r) THEN fleet ELSE [fleet EXCEPT ![r] = [NewRunner EXCEPT !.status = "active"]]
  /\ IF Recorded(<<"enrolled", r>>) THEN UNCHANGED chain ELSE Entered(calls[c].head, <<"enrolled", r>>)

Numbered(c) == Recorded(<<"enrolled", RunnerOf(c)>>) \/ HeadCurrent(c)

CommitEnroll(c) ==
  /\ At(c, "enroll", "commit")
  /\ \/ ~OpenTo(c) /\ Moves(c, "after") /\ UNCHANGED <<registryRows, machine>>
     \/ OpenTo(c) /\ Collides(c) /\ Answer(c, "rejected") /\ UNCHANGED registryRows
     \/ OpenTo(c) /\ ~Collides(c) /\ ~Numbered(c) /\ AgainAt(c, "read") /\ UNCHANGED registryRows
     \/ OpenTo(c) /\ ~Collides(c) /\ Numbered(c) /\ Enroll(c) /\ Moves(c, "after") /\ UNCHANGED machine
  /\ UNCHANGED beats

(* The database may fail, or its answer may: 500, with or without a commit. *)
FailEnroll(c) ==
  /\ At(c, "enroll", "commit")
  /\ \/ UNCHANGED registryRows
     \/ OpenTo(c) /\ ~Collides(c) /\ Numbered(c) /\ Enroll(c)
  /\ Answer(c, "open")
  /\ UNCHANGED beats

AfterEnroll(c) ==
  LET token == tokens[calls[c].token] IN
  /\ At(c, "enroll", "after")
  /\ IF token.runner = RunnerOf(c) THEN Answer(c, "accepted") ELSE Answer(c, "rejected")
  /\ UNCHANGED <<registryRows, beats>>

-----------------------------------------------------------------------------
(* The owner: tokens and revocation                                         *)

IssueToken(t) ==
  /\ ~tokens[t].issued
  /\ tokens' = [tokens EXCEPT ![t].issued = TRUE, ![t].expires = tick + TokenTtl]
  /\ Entered(chain.head, <<"issued", t>>)
  /\ UNCHANGED <<fleet, calls, beats, machine>>

(* The owner's requests pass their check when they are made.                *)
AskWithdraw(c, t) ==
  /\ Spare(c) /\ tokens[t].issued /\ ~tokens[t].revoked /\ tokens[t].runner = Nobody
  /\ calls' = [calls EXCEPT ![c] = [IdleCall EXCEPT !.kind = "withdraw", !.step = "head", !.token = t, !.now = tick]]
  /\ UNCHANGED <<registryRows, beats, machine>>

CommitWithdraw(c) ==
  LET t == calls[c].token
      matches == ~tokens[t].revoked /\ tokens[t].runner = Nobody IN
  /\ At(c, "withdraw", "commit")
  /\ \/ ~matches /\ Answer(c, "open") /\ UNCHANGED registryRows
     \/ matches /\ ~HeadCurrent(c) /\ AgainAt(c, "head") /\ UNCHANGED registryRows
     \/ /\ matches /\ HeadCurrent(c)
        /\ tokens' = [tokens EXCEPT ![t].revoked = TRUE]
        /\ Entered(calls[c].head, <<"withdrawn", t>>)
        /\ Answer(c, "accepted") /\ UNCHANGED fleet
  /\ UNCHANGED beats

AskRunnerRevoked(c, r) ==
  /\ Spare(c) /\ fleet[r].status # "none"
  /\ calls' = [calls EXCEPT ![c] = [IdleCall EXCEPT !.kind = "revoke", !.step = "read", !.token = r[1],
                                                    !.key = r[2], !.now = tick]]
  /\ UNCHANGED <<registryRows, beats, machine>>

ReadRunner(c) ==
  /\ At(c, "revoke", "read")
  /\ IF Active(RunnerOf(c)) THEN Moves(c, "head") /\ UNCHANGED machine ELSE Answer(c, "accepted")
  /\ UNCHANGED <<registryRows, beats>>

(* The entry is inserted whatever the updates matched: its trigger and its  *)
(* number make the batch of a second revocation fail, and read again.       *)
CommitRevoke(c) ==
  LET r == RunnerOf(c) IN
  /\ At(c, "revoke", "commit")
  /\ IF Active(r) /\ HeadCurrent(c)
     THEN /\ fleet' = [fleet EXCEPT ![r].status = "revoked"]
          /\ Entered(calls[c].head, <<"revoked", r>>)
          /\ Answer(c, "accepted") /\ UNCHANGED tokens
     ELSE AgainAt(c, "read") /\ UNCHANGED registryRows
  /\ UNCHANGED beats

-----------------------------------------------------------------------------
(* recordRunnerHeartbeat                                                    *)

BeatOf(c) == beats[calls[c].beat]

(* hasValidRunnerTimestamp                                                  *)
InSkew(signed, now) == signed + SkewPast >= now /\ signed <= now + SkewFuture

ArriveBeat(c) ==
  /\ At(c, "beat", "sent")
  /\ IF Active(BeatOf(c).runner) /\ InSkew(BeatOf(c).signed, tick)
     THEN calls' = [calls EXCEPT ![c].step = "commit", ![c].now = tick] /\ UNCHANGED machine
     ELSE Answer(c, "rejected")
  /\ UNCHANGED <<registryRows, beats>>

(* cleanupRunnerNonces, whose failure nobody hears of.                      *)
\* bug: a nonce is forgotten as soon as its heartbeat is too old
ForgottenBySkew(row, now) == row.signed + SkewPast < now
Outlived(row, now) == row.until <= now
Cleaned(rows, now) == [n \in Beats |-> IF Outlived(rows[n], now) THEN [rows[n] EXCEPT !.until = 0] ELSE rows[n]]

CommitBeat(c) ==
  LET n == calls[c].beat
      r == beats[n].runner
      now == calls[c].now
      rows == [beats EXCEPT ![n].until = now + BeatTtl, ![n].counted = @ + 1, ![n].at = now] IN
  /\ At(c, "beat", "commit")
  /\ \/ ~Active(r) /\ Answer(c, "rejected") /\ UNCHANGED <<fleet, beats>>
     \/ Active(r) /\ beats[n].until > 0 /\ Moves(c, "again") /\ UNCHANGED <<fleet, beats, machine>>
     \/ /\ Active(r) /\ beats[n].until = 0
        /\ fleet' = IF fleet[r].seen < now THEN [fleet EXCEPT ![r].seen = now] ELSE fleet
        /\ beats' \in {rows, Cleaned(rows, now)}
        /\ Answer(c, "accepted")
  /\ UNCHANGED <<tokens, chain>>

(* The stored answer of the same request, or 409 if it is gone.             *)
AgainBeat(c) ==
  /\ At(c, "beat", "again")
  /\ Answer(c, IF ~Active(BeatOf(c).runner) THEN "rejected" ELSE IF BeatOf(c).until > 0 THEN "accepted" ELSE "open")
  /\ UNCHANGED <<registryRows, beats>>

-----------------------------------------------------------------------------
(* nexus-runner enroll                                                      *)

Proceed(e, at) == cli' = [cli EXCEPT ![e].at = at]

StartEnroll(e, d, t) ==
  /\ cli[e].at = "idle" /\ dirs[d].config = Nobody
  /\ cli' = [cli EXCEPT ![e] = [at |-> "start", dir |-> d, token |-> t, created |-> FALSE]]
  /\ UNCHANGED <<registryRows, calls, beats, dirs, tick>>

AcquireEnrollmentLock(e) ==
  LET d == cli[e].dir IN
  /\ cli[e].at = "start"
  /\ IF dirs[d].lock THEN cli' = [cli EXCEPT ![e] = IdleCli] /\ UNCHANGED dirs
     ELSE Proceed(e, "locked") /\ dirs' = [dirs EXCEPT ![d].lock = TRUE]
  /\ UNCHANGED <<registryRows, calls, beats, tick>>

(* A key that a crash left half written is not replaced.                    *)
FindKey(e) ==
  LET d == cli[e].dir IN
  /\ cli[e].at = "locked"
  /\ \/ dirs[d].key # Nobody /\ Proceed(e, IF dirs[d].whole THEN "keyed" ELSE "leaving") /\ UNCHANGED dirs
     \/ /\ dirs[d].key = Nobody /\ dirs[d].made < MaxKeys
        /\ dirs' = [dirs EXCEPT ![d].key = <<d, dirs[d].made + 1>>, ![d].made = @ + 1]
        /\ Proceed(e, "writing")
  /\ UNCHANGED <<registryRows, calls, beats, tick>>

FinishKey(e) ==
  /\ cli[e].at = "writing"
  /\ dirs' = [dirs EXCEPT ![cli[e].dir].whole = TRUE]
  /\ cli' = [cli EXCEPT ![e].at = "keyed", ![e].created = TRUE]
  /\ UNCHANGED <<registryRows, calls, beats, tick>>

SendEnroll(e, c) ==
  /\ cli[e].at = "keyed" /\ Spare(c)
  /\ calls' = [calls EXCEPT ![c] = [IdleCall EXCEPT !.kind = "enroll", !.step = "sent", !.token = cli[e].token,
                                                    !.key = dirs[cli[e].dir].key, !.from = e]]
  /\ Proceed(e, "waiting")
  /\ UNCHANGED <<registryRows, beats, dirs, tick>>

(* The request times out, or its answer cannot be used.                     *)
StopWaiting(e) ==
  /\ cli[e].at = "waiting"
  /\ Proceed(e, "open") /\ calls' = Forgotten(e)
  /\ UNCHANGED <<registryRows, beats, dirs, tick>>

\* bug: the key goes with every rejection
DiscardsAny(e) == TRUE
Discards(e) == cli[e].created

HearEnroll(e) ==
  LET d == cli[e].dir IN
  /\ \/ cli[e].at = "open" /\ UNCHANGED dirs
     \/ /\ cli[e].at = "rejected"
        /\ dirs' = IF Discards(e) THEN [dirs EXCEPT ![d].key = Nobody, ![d].whole = FALSE] ELSE dirs
     \/ /\ cli[e].at = "accepted"
        /\ dirs' = IF dirs[d].config = Nobody THEN [dirs EXCEPT ![d].config = <<cli[e].token, dirs[d].key>>] ELSE dirs
  /\ Proceed(e, "leaving")
  /\ UNCHANGED <<registryRows, calls, beats, tick>>

ReleaseEnrollmentLock(e) ==
  /\ cli[e].at = "leaving"
  /\ dirs' = [dirs EXCEPT ![cli[e].dir].lock = FALSE] /\ cli' = [cli EXCEPT ![e] = IdleCli]
  /\ UNCHANGED <<registryRows, calls, beats, tick>>

(* Killed between any two steps; the lock file stays.                       *)
KillEnroll(e) ==
  /\ cli[e].at # "idle"
  /\ cli' = [cli EXCEPT ![e] = IdleCli] /\ calls' = Forgotten(e)
  /\ UNCHANGED <<registryRows, beats, dirs, tick>>

(* The operator removes a lock file that no command holds.                  *)
ClearLock(d) ==
  /\ dirs[d].lock /\ \A e \in Enrollers : cli[e].dir # d
  /\ dirs' = [dirs EXCEPT ![d].lock = FALSE]
  /\ UNCHANGED <<registryRows, calls, beats, cli, tick>>

-----------------------------------------------------------------------------
(* nexus-runner heartbeat                                                   *)

(* Signed by the clock of the machine.                                      *)
SendBeat(d, c, n, signed) ==
  /\ dirs[d].loop = "on" /\ dirs[d].config # Nobody /\ Spare(c) /\ beats[n].runner = Nobody
  /\ beats' = [beats EXCEPT ![n].runner = dirs[d].config, ![n].signed = signed]
  /\ calls' = [calls EXCEPT ![c] = [IdleCall EXCEPT !.kind = "beat", !.step = "sent", !.beat = n, !.from = d]]
  /\ dirs' = [dirs EXCEPT ![d].loop = "waiting"]
  /\ UNCHANGED <<registryRows, cli, tick>>

(* A copy of a heartbeat arrives, at any later time.                        *)
CopyBeat(c, n) ==
  /\ Spare(c) /\ beats[n].runner # Nobody
  /\ calls' = [calls EXCEPT ![c] = [IdleCall EXCEPT !.kind = "beat", !.step = "sent", !.beat = n]]
  /\ UNCHANGED <<registryRows, beats, machine>>

StopBeating(d) ==
  /\ dirs[d].loop = "waiting"
  /\ dirs' = [dirs EXCEPT ![d].loop = "on"] /\ calls' = Forgotten(d)
  /\ UNCHANGED <<registryRows, beats, cli, tick>>

LoseCall(c) ==
  /\ calls[c].step = "sent" /\ calls[c].from = Nobody
  /\ calls' = [calls EXCEPT ![c] = IdleCall]
  /\ UNCHANGED <<registryRows, beats, machine>>

PassTime ==
  /\ tick < LastTick
  /\ \A c \in Calls : calls[c].step \in {"none", "sent"} \/ tick < calls[c].now + LongestCall
  /\ tick' = tick + 1
  /\ UNCHANGED <<registryRows, calls, beats, dirs, cli>>

-----------------------------------------------------------------------------

EnrollmentInit ==
  /\ tokens = [t \in Tokens |-> NewToken]
  /\ fleet = [r \in RunnerIds |-> NewRunner]
  /\ chain = [head |-> 0, entries |-> [x \in EntriesOfTokens \cup EntriesOfRunners |-> 0]]
  /\ calls = [c \in Calls |-> IdleCall]
  /\ beats = [n \in Beats |-> NewBeat]
  /\ dirs = [d \in Dirs |-> NewDir]
  /\ cli = [e \in Enrollers |-> IdleCli]
  /\ tick = 0

(* A directory that has enrolled with token t, and nothing else.            *)
EnrolledInit(d, t) ==
  LET r == <<t, <<d, 1>>>> IN
  /\ tokens = [[x \in Tokens |-> NewToken] EXCEPT ![t] = [issued |-> TRUE, expires |-> TokenTtl, revoked |-> FALSE,
                                                          runner |-> r]]
  /\ fleet = [[x \in RunnerIds |-> NewRunner] EXCEPT ![r].status = "active"]
  /\ chain = [head |-> 2, entries |-> [x \in EntriesOfTokens \cup EntriesOfRunners |->
                                         IF x \in {<<"issued", t>>, <<"enrolled", r>>} THEN 1 ELSE 0]]
  /\ dirs = [[x \in Dirs |-> NewDir] EXCEPT ![d] = [key |-> r[2], whole |-> TRUE, made |-> 1, config |-> r,
                                                    lock |-> FALSE, loop |-> "on"]]
  /\ calls = [c \in Calls |-> IdleCall] /\ beats = [n \in Beats |-> NewBeat]
  /\ cli = [e \in Enrollers |-> IdleCli] /\ tick = 0

HandleEnroll(c) ==
  ArriveEnroll(c) \/ ReadToken(c) \/ CommitEnroll(c) \/ FailEnroll(c) \/ AfterEnroll(c)
HandleOwner(c) == CommitWithdraw(c) \/ ReadRunner(c) \/ CommitRevoke(c)
HandleBeat(c) == ArriveBeat(c) \/ CommitBeat(c) \/ AgainBeat(c)
EnrollStep(e) ==
  AcquireEnrollmentLock(e) \/ FindKey(e) \/ FinishKey(e) \/ HearEnroll(e)
    \/ ReleaseEnrollmentLock(e)

EnrollmentNext ==
  \/ \E c \in Calls : HandleEnroll(c) \/ HandleOwner(c) \/ HandleBeat(c) \/ ReadHead(c) \/ LoseCall(c)
  \/ \E e \in Enrollers : EnrollStep(e) \/ StopWaiting(e) \/ KillEnroll(e)
  \/ \E e \in Enrollers, c \in Calls : SendEnroll(e, c)
  \/ \E e \in Enrollers, d \in Dirs, t \in Tokens : StartEnroll(e, d, t)
  \/ \E t \in Tokens : IssueToken(t)
  \/ \E c \in Calls, t \in Tokens : AskWithdraw(c, t)
  \/ \E c \in Calls, r \in RunnerIds : AskRunnerRevoked(c, r)
  \/ \E c \in Calls, n \in Beats : CopyBeat(c, n)
  \/ \E d \in Dirs, c \in Calls, n \in Beats, signed \in 0..(LastTick + SkewFuture) : SendBeat(d, c, n, signed)
  \/ \E d \in Dirs : ClearLock(d) \/ StopBeating(d)
  \/ PassTime

EnrollmentSpec ==
  (EnrollmentInit \/ \E d \in Dirs, t \in Tokens : EnrolledInit(d, t)) /\ [][EnrollmentNext]_evars

-----------------------------------------------------------------------------

EnrollmentTypeOK ==
  /\ tokens \in [Tokens -> [issued : BOOLEAN, expires : Nat, revoked : BOOLEAN, runner : RunnerIds \cup {Nobody}]]
  /\ fleet \in [RunnerIds -> [status : {"none", "active", "revoked"}, seen : Nat]]
  /\ chain \in [head : Nat, entries : [EntriesOfTokens \cup EntriesOfRunners -> Nat]]
  /\ calls \in [Calls -> [kind : {"none", "enroll", "withdraw", "revoke", "beat"},
                         step : {"none", "sent", "read", "head", "commit", "after", "again"},
                         token : Tokens \cup {Nobody}, key : KeyPairs \cup {Nobody}, beat : Beats \cup {Nobody},
                         from : Enrollers \cup Dirs \cup {Nobody}, now : Nat, head : Nat, tries : 0..EnrollRetries]]
  /\ beats \in [Beats -> [runner : RunnerIds \cup {Nobody}, signed : Nat, until : Nat, counted : Nat, at : Nat]]
  /\ dirs \in [Dirs -> [key : KeyPairs \cup {Nobody}, whole : BOOLEAN, made : 0..MaxKeys,
                       config : RunnerIds \cup {Nobody}, lock : BOOLEAN, loop : {"on", "waiting", "off"}]]
  /\ cli \in [Enrollers -> [at : {"idle", "start", "locked", "writing", "keyed", "waiting", "open", "accepted",
                                 "rejected", "leaving"},
                           dir : Dirs \cup {Nobody}, token : Tokens \cup {Nobody}, created : BOOLEAN]]
  /\ tick \in 0..LastTick

(* The control plane knows no runner whose private key is gone: whatever    *)
(* crashes, late requests and retries with other tokens come together, a    *)
(* rejected `enroll` removes a key only if no request could have enrolled   *)
(* it (enroll of nexus-runner.mjs).                                         *)
KeyKept ==
  \A r \in RunnerIds : fleet[r].status # "none" => dirs[r[2][1]].key = r[2] /\ dirs[r[2][1]].whole

(* A token is spent once, and never after it was withdrawn; each token and  *)
(* each runner has just the ledger entries of what happened to it, and the  *)
(* ledger has one entry to every number up to its last (enrollRunner,       *)
(* revokeRunner, executeLedgerBatch and the batches they enter).            *)
EnteredOnce ==
  /\ \A r \in RunnerIds : /\ fleet[r].status # "none" => tokens[r[1]].runner = r
                          /\ chain.entries[<<"enrolled", r>>] = (IF fleet[r].status # "none" THEN 1 ELSE 0)
                          /\ chain.entries[<<"revoked", r>>] = (IF fleet[r].status = "revoked" THEN 1 ELSE 0)
  /\ \A t \in Tokens : /\ tokens[t].runner # Nobody => ~tokens[t].revoked /\ fleet[tokens[t].runner].status # "none"
                       /\ chain.entries[<<"issued", t>>] = (IF tokens[t].issued THEN 1 ELSE 0)
                       /\ chain.entries[<<"withdrawn", t>>] = (IF tokens[t].revoked THEN 1 ELSE 0)

Listed == {x \in EntriesOfTokens \cup EntriesOfRunners : Recorded(x)}
FleetAsRecorded == EnteredOnce /\ chain.head = Cardinality(Listed)

(* A heartbeat counts once, however late its copies arrive, also when its   *)
(* nonce has been cleaned up; and a runner was last seen when the latest of *)
(* its counted heartbeats arrived (recordRunnerHeartbeat).                  *)
BeatsOnce ==
  /\ \A n \in Beats : beats[n].counted <= 1
  /\ \A r \in RunnerIds :
       LET times == {beats[n].at : n \in {x \in Beats : beats[x].runner = r /\ beats[x].counted > 0}} IN
       IF times = {} THEN fleet[r].seen = 0
       ELSE fleet[r].seen \in times /\ \A time \in times : time <= fleet[r].seen
=============================================================================
