------------------------------ MODULE Custody ------------------------------
(***************************************************************************)
(* What the server keeps of an engine run under its cipher: the prompt,    *)
(* from the creation of the run, and the excerpt of its output, from its   *)
(* completion; who is given the prompt (readEnginePromptForLease of        *)
(* run-repository.ts), and the retention that erases both                  *)
(* (prompt-retention-repository.ts). A read authorizes and reads in one    *)
(* batch, a copy of it authorizes anew; retention lists what is due and    *)
(* erases it row by row, in two passes at once if they meet. Of the row of *)
(* a run, its lease and the other handlers (RunControl) only what these    *)
(* two ask of them is kept.                                                *)
(***************************************************************************)
EXTENDS Integers, Sequences, FiniteSets

CONSTANTS
  Runs,         \* engine runs
  Reads,        \* prompt requests under way together
  ReadNonces,   \* nonces of prompt requests
  Passes,       \* where retention passes run: the cron trigger, and workers beside their requests
  KeyIds,       \* keys of the prompt cipher
  ReadRetries,  \* CLAIM_RETRY_LIMIT
  PassLimit,    \* SCHEDULED_PROMPT_RETENTION_LIMIT, MUTATION_PROMPT_RETENTION_LIMIT
  LeaseFor,     \* hours a lease lasts
  RetainFor,    \* PROMPT_RETENTION_MS, in hours
  NonceFor,     \* RUNNER_LEASE_NONCE_TTL_MS, in hours
  FenceMax,     \* max_claims of a run
  LastHour,     \* bound of the hours
  Absent        \* no key, no request, no run

ASSUME CustodyAssumption ==
  /\ {ReadRetries, PassLimit, LeaseFor, RetainFor, NonceFor, FenceMax} \subseteq Nat \ {0}
  /\ LastHour \in Nat
  /\ Absent \notin KeyIds \cup ReadNonces \cup Runs

VARIABLES
  row,      \* runs, each with its current lease
  prompt,   \* run_prompts
  excerpt,  \* run_engine_excerpts, each with what its receipt says of it
  readRows, \* runner_lease_nonces, the rows of prompt requests
  runnerUp, \* the runner the runs are assigned to, and its principal, are active
  ring,     \* the keyring of the worker that is deployed
  making,   \* a creation that has its cipher: the run and its keyring
  reading,  \* the prompt requests under way
  pass,     \* the retention passes under way
  erasures, \* passes that counted a payload as erased
  hour

runRows == <<row, excerpt, runnerUp>>
deployed == <<ring, making>>
kept == <<runRows, prompt, readRows, deployed>>
retention == <<pass, erasures>>
custodyVars == <<kept, reading, retention, hour>>

-----------------------------------------------------------------------------

Fences == 1..FenceMax
Hours == 0..LastHour
(* No handler cancels the run of an engine (cancelDiagnosticRun).          *)
Closed == {"completed", "expired"}
Protected == Runs \X {"prompt", "excerpt"}

NoRow == [status |-> "absent", fence |-> 0, lease |-> "none", until |-> 0,
          outcome |-> "none", recorded |-> 0]
RowRecords == [status : {"absent", "queued", "leased"} \cup Closed, fence : 0..FenceMax,
               lease : {"none", "active", "ended"}, until : 0..LastHour + LeaseFor,
               outcome : {"none", "succeeded", "failed"}, recorded : Hours]

(* What the engine wrote: text, nothing but blanks, more than an excerpt holds. *)
Outputs == {"text", "blank", "cut"}
NoPayload == [state |-> "none", key |-> Absent, output |-> "none", erased |-> 0]
PayloadRecords == [state : {"none", "stored", "erased"}, key : KeyIds \cup {Absent},
                   output : Outputs \cup {"none"}, erased : Hours]
Payload(x) == IF x[2] = "prompt" THEN prompt[x[1]] ELSE excerpt[x[1]]

Rings == {k \in [active : KeyIds, keys : SUBSET KeyIds] : k.active \in k.keys}
Encrypted(key, output) == [state |-> "stored", key |-> key, output |-> output, erased |-> 0]
Decrypts(k, payload) == payload.state = "stored" /\ payload.key \in k.keys

(* What a nonce was used for, and when.                                     *)
NoReadRow == [run |-> Absent, fence |-> 0, at |-> 0]
ReadRowRecords == [run : Runs, fence : Fences, at : Hours] \cup {NoReadRow}

Denials == {"runner_rejected", "run_unavailable", "lease_superseded", "lease_expired", "prompt_erased"}
ReadErrors == Denials \cup {"nonce_reused", "prompt_cipher_key_unavailable", "conflict_retry", "failed"}
IdleRead == [step |-> "none", nonce |-> Absent, run |-> Absent, fence |-> 0, now |-> 0,
             tries |-> 0, keys |-> {}, answer |-> "none"]
ReadRecords == [step : {"none", "find", "read", "failed", "replay", "denied", "answered"},
                nonce : ReadNonces \cup {Absent}, run : Runs \cup {Absent}, fence : 0..FenceMax,
                now : Hours, tries : 0..ReadRetries, keys : SUBSET KeyIds,
                answer : ReadErrors \cup {"none", "prompt", "replayed"}]

IdlePass == [step |-> "none", now |-> 0, due |-> <<>>]
PassRecords == [step : {"none", "prompts", "excerpts", "erase"}, now : Hours, due : Seq(Protected)]

CustodyInit ==
  /\ row = [r \in Runs |-> NoRow]
  /\ prompt = [r \in Runs |-> NoPayload] /\ excerpt = [r \in Runs |-> NoPayload]
  /\ readRows = [n \in ReadNonces |-> NoReadRow]
  /\ runnerUp = TRUE
  /\ ring \in Rings /\ making = [run |-> Absent, ring |-> ring]
  /\ reading = [q \in Reads |-> IdleRead]
  /\ pass = [p \in Passes |-> IdlePass]
  /\ erasures = [x \in Protected |-> 0]
  /\ hour = 0

NextHour ==
  /\ hour < LastHour
  /\ hour' = hour + 1
  /\ UNCHANGED <<kept, reading, retention>>

-----------------------------------------------------------------------------
(* The keyring, and what is written under it *)

(* Another worker is deployed with another keyring; a request keeps the one *)
(* it was given.                                                            *)
Rotate ==
  /\ ring' \in Rings \ {ring}
  /\ UNCHANGED <<runRows, prompt, readRows, making, reading, retention, hour>>

(* listLiveProtectedPayloadKeyIds, assertPromptCipherKeysCoverLiveReferences *)
LiveKeys == {Payload(x).key : x \in {y \in Protected : Payload(y).state = "stored"}}
Covers(k) == LiveKeys \subseteq k.keys

(* A creation asks for its cipher, and is refused one that misses a key;    *)
(* then it writes the run and its prompt in one batch, or fails.            *)
AskCipher(r) ==
  /\ row[r].status = "absent" /\ making.run = Absent /\ Covers(ring)
  /\ making' = [run |-> r, ring |-> ring]
  /\ UNCHANGED <<runRows, prompt, readRows, ring, reading, retention, hour>>
WriteRun ==
  /\ making.run # Absent
  /\ making' = [making EXCEPT !.run = Absent]
  /\ row' = [row EXCEPT ![making.run] = [NoRow EXCEPT !.status = "queued"]]
  /\ prompt' = [prompt EXCEPT ![making.run] = Encrypted(making.ring.active, "none")]
  /\ UNCHANGED <<excerpt, runnerUp, readRows, ring, reading, retention, hour>>
DropCreation ==
  /\ making.run # Absent
  /\ making' = [making EXCEPT !.run = Absent]
  /\ UNCHANGED <<runRows, prompt, readRows, ring, reading, retention, hour>>

-----------------------------------------------------------------------------
(* The row of a run, as the other handlers change it *)

Holds(r, fence, now) ==
  /\ row[r].status = "leased" /\ row[r].fence = fence
  /\ row[r].lease = "active" /\ now < row[r].until
Moved(to) ==
  /\ row' = to
  /\ UNCHANGED <<excerpt, runnerUp, prompt, readRows, deployed, reading, retention, hour>>

(* revokeRunner ends its leases, which queues their runs; so does a claim   *)
(* that meets a lease that has run out.                                     *)
Requeued(S) ==
  [r \in Runs |-> IF r \in S THEN [row[r] EXCEPT !.status = "queued", !.lease = "ended"] ELSE row[r]]
Leased == {r \in Runs : row[r].status = "leased"}

(* Where the deadline of the run, which is any hour, cuts a lease short.    *)
LeaseEnds == hour + 1..hour + LeaseFor
(* claimEngineLease: a runner holds one lease.                              *)
Claim(r, until) ==
  /\ runnerUp /\ row[r].fence < FenceMax /\ until \in LeaseEnds
  /\ row[r].status = "queued" \/ r \in Leased
  /\ \A s \in Leased : row[s].until <= hour
  /\ Moved([Requeued(Leased) EXCEPT ![r].status = "leased", ![r].fence = @ + 1, ![r].lease = "active",
                                    ![r].until = until])
Renew(r, until) ==
  /\ runnerUp /\ Holds(r, row[r].fence, hour) /\ until \in LeaseEnds /\ row[r].until < until
  /\ Moved([row EXCEPT ![r].until = until])

Close(r, status) ==
  [row[r] EXCEPT !.status = status, !.recorded = hour, !.lease = IF @ = "active" THEN "ended" ELSE @]
(* expireCandidate: past the deadline, which no lease outlives.             *)
ExpireRun(r) ==
  /\ row[r].status = "queued" \/ (r \in Leased /\ row[r].until <= hour)
  /\ Moved([row EXCEPT ![r] = Close(r, "expired")])

(* completeEngineRun: the receipt and the excerpt, under the key of its     *)
(* worker, which may not be the one deployed last, in the batch that closes *)
(* the run.                                                                 *)
\* bug: the excerpt of an output that failed is not stored with its receipt
CompleteBare(r, outcome, output, key) ==
  /\ runnerUp /\ Holds(r, row[r].fence, hour)
  /\ row' = [row EXCEPT ![r] = [Close(r, "completed") EXCEPT !.outcome = outcome]]
  /\ excerpt' = IF outcome = "failed" THEN excerpt
                ELSE [excerpt EXCEPT ![r] = Encrypted(key, output)]
  /\ UNCHANGED <<runnerUp, prompt, readRows, deployed, reading, retention, hour>>
CompleteEngine(r, outcome, output, key) ==
  /\ runnerUp /\ Holds(r, row[r].fence, hour)
  /\ row' = [row EXCEPT ![r] = [Close(r, "completed") EXCEPT !.outcome = outcome]]
  /\ excerpt' = [excerpt EXCEPT ![r] = Encrypted(key, output)]
  /\ UNCHANGED <<runnerUp, prompt, readRows, deployed, reading, retention, hour>>

RevokeRunner ==
  /\ runnerUp
  /\ runnerUp' = FALSE
  /\ row' = Requeued(Leased)
  /\ UNCHANGED <<excerpt, prompt, readRows, deployed, reading, retention, hour>>

-----------------------------------------------------------------------------
(* Reading the prompt *)

(* The route has checked the signature and takes the time; a copy of the    *)
(* request comes under the nonce it was signed with.                        *)
Receive(q, n, r, f) ==
  /\ reading[q] = IdleRead /\ runnerUp /\ f <= row[r].fence
  /\ reading' = [reading EXCEPT ![q] = [IdleRead EXCEPT !.step = "find", !.nonce = n, !.run = r,
       !.fence = f, !.now = hour, !.keys = ring.keys]]
  /\ UNCHANGED <<kept, retention, hour>>

Say(q, answer) == reading' = [reading EXCEPT ![q].step = "answered", ![q].answer = answer]
Step(q, step) == reading' = [reading EXCEPT ![q].step = step]

(* decryptEnginePrompt                                                      *)
Hand(q, as) ==
  Say(q, IF Decrypts([keys |-> reading[q].keys], prompt[reading[q].run]) THEN as
         ELSE "prompt_cipher_key_unavailable")

(* findPromptReadNonce, before the attempts and after one that failed.      *)
SameRequest(q, found) == found.run = reading[q].run /\ found.fence = reading[q].fence
FindRead(q) ==
  LET found == readRows[reading[q].nonce] IN
  /\ reading[q].step \in {"find", "failed"}
  /\ CASE found = NoReadRow -> Step(q, IF reading[q].step = "find" THEN "read" ELSE "denied")
       [] found # NoReadRow /\ ~SameRequest(q, found) -> Say(q, "nonce_reused")
       [] OTHER -> Step(q, "replay")
  /\ UNCHANGED <<kept, retention, hour>>

(* evaluateEnginePromptRead: what it is denied for, in this order.          *)
Denial(r, fence, now) ==
  IF ~runnerUp THEN "runner_rejected"
  ELSE IF row[r].status # "leased" \/ prompt[r].state = "none" THEN "run_unavailable"
  ELSE IF row[r].fence # fence \/ row[r].lease # "active" THEN "lease_superseded"
  ELSE IF row[r].until <= now THEN "lease_expired"
  ELSE IF prompt[r].state = "erased" THEN "prompt_erased"
  ELSE "none"
(* The same conditions, as the statements of the batch ask them.            *)
Authorized(r, fence, now) ==
  /\ runnerUp /\ Holds(r, fence, now) /\ prompt[r].state = "stored"

(* The batch: the nonce, guarded, then the prompt.                          *)
ReadPrompt(q) ==
  LET r == reading[q].run
      n == reading[q].nonce IN
  /\ reading[q].step = "read"
  /\ IF ~Authorized(r, reading[q].fence, reading[q].now)
     THEN Step(q, "denied") /\ UNCHANGED readRows
     ELSE IF readRows[n] # NoReadRow
     THEN Step(q, "failed") /\ UNCHANGED readRows
     ELSE /\ readRows' = [readRows EXCEPT ![n] = [run |-> r, fence |-> reading[q].fence, at |-> reading[q].now]]
          /\ Hand(q, "prompt") \/ Step(q, "failed")
  /\ UNCHANGED <<runRows, prompt, deployed, retention, hour>>
(* It may fail and change nothing.                                          *)
FailRead(q) ==
  /\ reading[q].step \in {"find", "read", "failed", "replay", "denied"}
  /\ IF reading[q].step = "read" THEN Step(q, "failed") ELSE Say(q, "failed")
  /\ UNCHANGED <<kept, retention, hour>>

(* authorizeEnginePromptRead: a copy is given the prompt if its request     *)
(* would be given it now; what was denied is told why, or tries again.      *)
\* bug: a copy is given what the first one was
ReplayTrusted(q) ==
  /\ reading[q].step = "replay"
  /\ Hand(q, "replayed")
  /\ UNCHANGED <<kept, retention, hour>>
Replay(q) ==
  LET denied == Denial(reading[q].run, reading[q].fence, reading[q].now) IN
  /\ reading[q].step = "replay"
  /\ IF denied # "none" THEN Say(q, denied) ELSE Hand(q, "replayed")
  /\ UNCHANGED <<kept, retention, hour>>
Explain(q) ==
  LET denied == Denial(reading[q].run, reading[q].fence, reading[q].now) IN
  /\ reading[q].step = "denied"
  /\ CASE denied # "none" -> Say(q, denied)
       [] denied = "none" /\ reading[q].tries + 1 < ReadRetries ->
            reading' = [reading EXCEPT ![q].step = "read", ![q].tries = @ + 1]
       [] OTHER -> Say(q, "conflict_retry")
  /\ UNCHANGED <<kept, retention, hour>>
TakeAnswer(q) ==
  /\ reading[q].step = "answered"
  /\ reading' = [reading EXCEPT ![q] = IdleRead]
  /\ UNCHANGED <<kept, retention, hour>>

(* cleanupRunOperationalState                                               *)
DropReadRows ==
  /\ \E n \in ReadNonces : readRows[n] # NoReadRow /\ readRows[n].at + NonceFor <= hour
  /\ readRows' = [n \in ReadNonces |-> IF readRows[n].at + NonceFor <= hour THEN NoReadRow ELSE readRows[n]]
  /\ UNCHANGED <<runRows, prompt, deployed, reading, retention, hour>>

-----------------------------------------------------------------------------
(* Retention *)

(* isPromptRetentionEligible, promptRetentionCutoff                         *)
DueAt(x, now) ==
  LET r == x[1] IN
  row[r].status \in Closed /\ row[r].recorded + RetainFor <= now /\ Payload(x).state = "stored"
(* At most PassLimit, the longest recorded first.                           *)
Listing(now, kind) ==
  {s \in UNION {[1..n -> {x \in Protected : x[2] = kind /\ DueAt(x, now)}] :
                n \in 0..PassLimit} :
     /\ \A i, j \in DOMAIN s : i < j => s[i] # s[j] /\ row[s[i][1]].recorded <= row[s[j][1]].recorded
     /\ \A x \in Protected : x[2] = kind /\ DueAt(x, now) =>
          \/ \E i \in DOMAIN s : s[i] = x
          \/ Len(s) = PassLimit /\ \A i \in DOMAIN s : row[s[i][1]].recorded <= row[x[1]].recorded}

(* Every now and then; two of them may meet (the latch of                   *)
(* scheduleMutationDeadlineReconciliation is one worker's).                 *)
StartPass(p) ==
  /\ pass[p] = IdlePass
  /\ pass' = [pass EXCEPT ![p] = [IdlePass EXCEPT !.step = "prompts", !.now = hour]]
  /\ UNCHANGED <<kept, reading, erasures, hour>>
ListDue(p) ==
  /\ pass[p].step \in {"prompts", "excerpts"}
  /\ \E s \in Listing(pass[p].now, IF pass[p].step = "prompts" THEN "prompt" ELSE "excerpt") :
       pass' = [pass EXCEPT ![p].due = @ \o s,
                            ![p].step = IF @ = "prompts" THEN "excerpts" ELSE "erase"]
  /\ UNCHANGED <<kept, reading, erasures, hour>>

EraseRow(payload, now) == [payload EXCEPT !.state = "erased", !.key = Absent, !.erased = now]
(* The UPDATE asks anew for a closed run recorded before the cutoff, and    *)
(* for a payload that is there.                                             *)
\* bug: the statement finds a row that another pass has erased
StillThere(x, now) == TRUE
StillDue(x, now) == DueAt(x, now)
EraseDue(p) ==
  LET x == Head(pass[p].due)
      now == pass[p].now IN
  /\ pass[p].step = "erase" /\ pass[p].due # <<>>
  /\ pass' = [pass EXCEPT ![p].due = Tail(@)]
  /\ IF StillDue(x, now)
     THEN /\ prompt' = IF x[2] = "prompt" THEN [prompt EXCEPT ![x[1]] = EraseRow(@, now)] ELSE prompt
          /\ excerpt' = IF x[2] = "excerpt" THEN [excerpt EXCEPT ![x[1]] = EraseRow(@, now)] ELSE excerpt
          /\ erasures' = [erasures EXCEPT ![x] = @ + 1] \/ UNCHANGED erasures
     ELSE UNCHANGED <<prompt, excerpt, erasures>>
  /\ UNCHANGED <<row, runnerUp, readRows, deployed, reading, hour>>
(* A statement that fails is a failure of the pass, which goes on; the next *)
(* one finds the row again.                                                 *)
PassOver(p) ==
  /\ pass[p].step = "erase" /\ pass[p].due # <<>>
  /\ pass' = [pass EXCEPT ![p].due = Tail(@)]
  /\ UNCHANGED <<kept, reading, erasures, hour>>
(* It is through, or its worker is gone.                                    *)
EndPass(p) ==
  /\ pass[p].step # "none"
  /\ pass' = [pass EXCEPT ![p] = IdlePass]
  /\ UNCHANGED <<kept, reading, erasures, hour>>

-----------------------------------------------------------------------------
RowStep ==
  \/ Rotate \/ WriteRun \/ DropCreation \/ RevokeRunner \/ NextHour
  \/ \E r \in Runs : AskCipher(r) \/ ExpireRun(r)
  \/ \E r \in Runs, until \in LeaseEnds : Claim(r, until) \/ Renew(r, until)
  \/ \E r \in Runs, outcome \in {"succeeded", "failed"}, output \in Outputs, key \in KeyIds :
       CompleteEngine(r, outcome, output, key)
ReadStep ==
  \/ DropReadRows
  \/ \E q \in Reads : FindRead(q) \/ ReadPrompt(q) \/ FailRead(q) \/ Replay(q) \/ Explain(q) \/ TakeAnswer(q)
  \/ \E q \in Reads, n \in ReadNonces, r \in Runs, f \in Fences : Receive(q, n, r, f)
PassStep ==
  \E p \in Passes : StartPass(p) \/ ListDue(p) \/ EraseDue(p) \/ PassOver(p) \/ EndPass(p)

CustodyNext == RowStep \/ ReadStep \/ PassStep
CustodySpec == CustodyInit /\ [][CustodyNext]_custodyVars

-----------------------------------------------------------------------------
(* Properties *)

CustodyTypeOK ==
  /\ row \in [Runs -> RowRecords]
  /\ prompt \in [Runs -> PayloadRecords] /\ excerpt \in [Runs -> PayloadRecords]
  /\ readRows \in [ReadNonces -> ReadRowRecords]
  /\ runnerUp \in BOOLEAN
  /\ ring \in Rings /\ making \in [run : Runs \cup {Absent}, ring : Rings]
  /\ reading \in [Reads -> ReadRecords]
  /\ pass \in [Passes -> PassRecords]
  /\ erasures \in [Protected -> Nat]
  /\ hour \in Hours

(* The prompt of a run is handed out to the holder of its current lease     *)
(* only: whether asked for the first time, again after a failed batch or    *)
(* as a copy, never under a fence that was superseded, and never once the   *)
(* run was closed or its runner revoked (engine-prompt-read.ts,             *)
(* authorizeEnginePromptRead).                                              *)
Given(q) == reading[q].answer \in {"prompt", "replayed"}
PromptToHolder ==
  [][\A q \in Reads : Given(q)' /\ ~Given(q) =>
       LET asked == reading[q] IN
       runnerUp /\ Holds(asked.run, asked.fence, asked.now)
    ]_custodyVars

(* Retention erases what is closed for long enough, all of it and once,     *)
(* whichever pass comes first: an open run has its prompt, a completed run  *)
(* its excerpt until then, and no key is left behind (prompt-retention.ts,  *)
(* run_prompts_validate_before_update).                                     *)
ErasedOnce ==
  /\ \A r \in Runs :
       /\ row[r].status \in {"queued", "leased"} => prompt[r].state = "stored"
       /\ excerpt[r].state # "none" <=> row[r].status = "completed"
  /\ \A x \in Protected :
       /\ Payload(x).key = Absent <=> Payload(x).state # "stored"
       /\ erasures[x] > 0 => Payload(x).state = "erased" /\ erasures[x] = 1
       /\ Payload(x).state = "erased" =>
            row[x[1]].status \in Closed /\ row[x[1]].recorded + RetainFor <= Payload(x).erased
=============================================================================
