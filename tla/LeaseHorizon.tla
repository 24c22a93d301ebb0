----------------------------- MODULE LeaseHorizon -----------------------------
(***************************************************************************)
(* How the expiry of a lease travels from the server to the timer that     *)
(* stops the engine.                                                       *)
(*                                                                         *)
(* The server renews a lease it still holds active (renewRunLease). The    *)
(* runner asks it every twenty seconds while an engine runs                *)
(* (superviseWithRenewal), passes each renewed expiry on to the supervisor *)
(* and adopts it when the supervisor has acknowledged it. The supervisor   *)
(* arms a timer at the expiry (armLeaseHorizon), and stops its engine when *)
(* the timer fires, with or without a runner.                              *)
(*                                                                         *)
(* Records, crash windows and the session's other frames are               *)
(* EngineAttempt's; the batches behind a renewal are RunControl's. Here an *)
(* attempt is on record as far as a returning runner looks at it.          *)
(***************************************************************************)
EXTENDS Integers, Sequences

CONSTANTS
  Ttl,       \* LEASE_TTL_MS
  Interval,  \* renewIntervalMs of the runner
  IoWindow,  \* ENGINE_HTTP_IO_TIMEOUT_MS: an effect is not begun later than this before expiry
  Reserve,   \* deadlineReserveMs
  Timeout,   \* the timeout of the run
  Deadline,  \* deadline_at of the run, counted from its claim
  Skew,      \* how far the server's clock is ahead of the machine's
  MaxClock   \* bound: the machine's clock stops here

ASSUME TimeAssumption ==
  /\ Ttl \in Nat \ {0} /\ Interval \in Nat \ {0} /\ IoWindow \in Nat
  /\ Reserve \in Nat /\ Timeout \in Nat \ {0} /\ Deadline \in Nat
  /\ Skew \in Int /\ MaxClock \in Nat
  /\ Timeout + Reserve <= Deadline

VARIABLES
  clock,       \* wall clock of the machine: runner and supervisor
  lease,       \* the server's row of the lease
  call,        \* the renewal the runner waits for
  stray,       \* a renewal whose caller gave up may still reach the server
  journal,     \* what the attempt's records say
  runner,      \* the loop of the runner that serves the run
  session,     \* its connection to the supervisor
  supervisor   \* the supervisor and its engine

hvars == <<clock, lease, call, stray, journal, runner, session, supervisor>>

-----------------------------------------------------------------------------
(* Time *)

Lesser(m, n) == IF m <= n THEN m ELSE n
Greater(m, n) == IF m <= n THEN n ELSE m

ServerNow == clock + Skew
Grant == Lesser(ServerNow + Ttl, Deadline)

WindowFits(expiresAt) == clock + IoWindow <= expiresAt
NextRenewAt(expiresAt) ==
  Greater(clock, Lesser(clock + Interval, expiresAt - Interval \div 2))

-----------------------------------------------------------------------------
(* Types *)

Reasons == {"cancel_requested", "lease_lost", "engine_deadline_exhausted"}

RenewalAnswer(kind, expiresAt, cancel, reason) ==
  [kind |-> kind, expiresAt |-> expiresAt, cancel |-> cancel, reason |-> reason]
NoAnswer == RenewalAnswer("none", 0, FALSE, "none")
Renewal(expiresAt, cancel) == RenewalAnswer("renewal", expiresAt, cancel, "none")
Denial(reason) == RenewalAnswer("denied", 0, FALSE, reason)
RenewalAnswers ==
  [kind : {"none", "renewal", "denied"}, expiresAt : Int, cancel : BOOLEAN,
   reason : Reasons \cup {"none"}]

Calls == [state : {"none", "sent", "answered"}, answer : RenewalAnswers]
NoCall == [state |-> "none", answer |-> NoAnswer]

(* What runs of the loop: first, final: the two renewals of                 *)
(* prepareExecution; running: one beside the supervisor.                    *)
Rounds == {"first", "final", "running"}

Runners ==
  [pc : {"off", "renewing", "commit", "propagate", "await_ack", "wait", "stopping", "stopped"},
   round : Rounds, expiresAt : Int, next : Int, cancel : BOOLEAN, wakeAt : Int,
   stop : Reasons \cup {"none"}]

Comes(pc, expiresAt, next) ==
  [pc |-> pc, round |-> "first", expiresAt |-> expiresAt, next |-> next, cancel |-> FALSE,
   wakeAt |-> 0, stop |-> "none"]
RunnerOff == Comes("off", 0, 0)

Frame(kind, expiresAt, reason) == [kind |-> kind, expiresAt |-> expiresAt, reason |-> reason]
Frames == [kind : {"authorize_spawn", "extend_lease", "terminate"}, expiresAt : Int,
           reason : Reasons \cup {"none"}]

(* spawn: the supervisor said it waits for a spawn request, and none has    *)
(* been sent.                                                               *)
Links == [open : BOOLEAN, spawn : BOOLEAN, frames : Seq(Frames), acks : Seq(Int)]
Link(open, spawn) == [open |-> open, spawn |-> spawn, frames |-> <<>>, acks |-> <<>>]
NoSession == Link(FALSE, FALSE)
Opened(phase) == Link(TRUE, phase = "waiting_spawn")

(* live: a spawn was authorized and its engine has not been reaped. timer:  *)
(* when the lease timer fires. endsAt: when the engine's own timeout does.  *)
Supervisors ==
  [phase : {"none", "waiting_spawn", "live", "terminal", "gone"}, expiresAt : Int, timer : Int,
   expired : BOOLEAN, aborted : BOOLEAN, stop : Reasons \cup {"none"}, endsAt : Int]

Unarmed(phase) ==
  [phase |-> phase, expiresAt |-> 0, timer |-> 0, expired |-> FALSE, aborted |-> FALSE,
   stop |-> "none", endsAt |-> 0]
NoSupervisor == Unarmed("none")

Journals == [claimExpiry : Int, supervisor : BOOLEAN, started : BOOLEAN, over : BOOLEAN]

HorizonTypeOK ==
  /\ clock \in Nat
  /\ lease \in [status : {"active", "ended"}, expiresAt : Int, cancel : BOOLEAN]
  /\ call \in Calls
  /\ stray \in BOOLEAN
  /\ journal \in Journals
  /\ runner \in Runners
  /\ session \in Links
  /\ supervisor \in Supervisors

(* The claim has just been granted and its descriptor journaled.            *)
HorizonInit ==
  /\ clock = 0
  /\ lease = [status |-> "active", expiresAt |-> Grant, cancel |-> FALSE]
  /\ call = NoCall /\ stray = FALSE
  /\ journal = [claimExpiry |-> Grant, supervisor |-> FALSE, started |-> FALSE, over |-> FALSE]
  /\ runner = RunnerOff
  /\ session = NoSession
  /\ supervisor = NoSupervisor

-----------------------------------------------------------------------------
(* The server *)

Renewable == lease.status = "active" /\ lease.expiresAt > ServerNow /\ Deadline > ServerNow

(* An expiry that would not move is refused as a deadline that is too near. *)
RenewRunLease ==
  /\ call.state = "sent"
  /\ IF Renewable /\ Grant > lease.expiresAt
     THEN /\ lease' = [lease EXCEPT !.expiresAt = Grant]
          /\ call' = [state |-> "answered", answer |-> Renewal(Grant, lease.cancel)]
     ELSE /\ call' = [state |-> "answered",
                      answer |-> Denial(IF Renewable THEN "engine_deadline_exhausted"
                                        ELSE "lease_lost")]
          /\ UNCHANGED lease
  /\ UNCHANGED <<clock, stray, journal, runner, session, supervisor>>

RenewForNobody ==
  /\ stray /\ Renewable /\ Grant > lease.expiresAt
  /\ lease' = [lease EXCEPT !.expiresAt = Grant]
  /\ stray' = FALSE
  /\ UNCHANGED <<clock, call, journal, runner, session, supervisor>>

(* Its owner cancels the run; the lease stays with the runner.              *)
CancelRequested ==
  /\ lease.status = "active" /\ ~lease.cancel
  /\ lease' = [lease EXCEPT !.cancel = TRUE]
  /\ UNCHANGED <<clock, call, stray, journal, runner, session, supervisor>>

(* Revoked, expired or superseded.                                          *)
LeaseClosed ==
  /\ lease.status = "active"
  /\ lease' = [lease EXCEPT !.status = "ended"]
  /\ UNCHANGED <<clock, call, stray, journal, runner, session, supervisor>>

-----------------------------------------------------------------------------
(* The runner: leaving and coming back *)

GivenUp == call' = NoCall /\ stray' = (stray \/ call.state = "sent")
OnlyCaller == UNCHANGED <<clock, lease, session, supervisor>>

(* Killed, told to stop, or its call of runEngineAttemptTarget failed.      *)
RunnerLeaves ==
  /\ runner' = RunnerOff
  /\ session' = NoSession
  /\ GivenUp

Listening == supervisor.phase \in {"waiting_spawn", "live", "terminal"}

RunnerEnds ==
  /\ runner.pc # "off"
  /\ RunnerLeaves
  /\ UNCHANGED <<clock, lease, journal, supervisor>>

Prepare ==
  /\ runner.pc = "off" /\ ~journal.over /\ ~(journal.supervisor /\ journal.started)
  /\ runner' = Comes("renewing", journal.claimExpiry, 0)
  /\ UNCHANGED <<call, stray, journal>>
  /\ OnlyCaller

(* With a started child there is no renewal before the supervisor is        *)
(* reached: the lease is the one the claim's descriptor was journaled with. *)
Resume ==
  /\ runner.pc = "off" /\ ~journal.over /\ journal.supervisor /\ journal.started /\ Listening
  /\ runner' = Comes("propagate", journal.claimExpiry, journal.claimExpiry)
  /\ session' = Opened(supervisor.phase)
  /\ UNCHANGED <<clock, lease, call, stray, journal, supervisor>>

-----------------------------------------------------------------------------
(* The runner: renewing *)

SendRenewal ==
  /\ runner.pc = "renewing" /\ call.state = "none" /\ WindowFits(runner.expiresAt)
  /\ call' = [call EXCEPT !.state = "sent"]
  /\ UNCHANGED <<stray, journal, runner>>
  /\ OnlyCaller

(* No answer, or one the runner retries; it may come to the server later.   *)
RenewalFails ==
  /\ runner.pc = "renewing" /\ call.state # "none"
  /\ GivenUp
  /\ UNCHANGED <<journal, runner>>
  /\ OnlyCaller

Waits(expiresAt) ==
  [runner EXCEPT !.pc = "wait", !.expiresAt = expiresAt, !.wakeAt = NextRenewAt(expiresAt)]

(* The retries of one renewal are used up and there is time for another.    *)
RenewLater ==
  /\ runner.pc = "renewing" /\ call.state = "none" /\ WindowFits(runner.expiresAt)
  /\ runner' = IF runner.round = "running" THEN Waits(runner.expiresAt) ELSE RunnerOff
  /\ UNCHANGED <<call, stray, journal>>
  /\ OnlyCaller

Stopping(reason) == [runner EXCEPT !.pc = "stopping", !.stop = reason]

(* A preparation that must stop: with a supervisor on record it is told,    *)
(* without one the result is written at once.                               *)
PreparationStops(expiresAt, reason) ==
  IF journal.supervisor
  THEN /\ Listening
       /\ runner' = [Stopping(reason) EXCEPT !.expiresAt = expiresAt]
       /\ session' = Opened(supervisor.phase)
       /\ UNCHANGED journal
  ELSE /\ runner' = RunnerOff
       /\ journal' = [journal EXCEPT !.over = TRUE]
       /\ UNCHANGED session

Stops(reason) ==
  IF runner.round = "running"
  THEN runner' = Stopping(reason) /\ UNCHANGED <<journal, session>>
  ELSE PreparationStops(runner.expiresAt, reason)

Unrenewable ==
  /\ runner.pc = "renewing" /\ call.state = "none" /\ ~WindowFits(runner.expiresAt)
  /\ Stops("lease_lost")
  /\ UNCHANGED <<clock, lease, call, stray, supervisor>>

(* The horizon runs beside a renewal that is under way.                     *)
RenewalOutlasted ==
  /\ runner.pc = "renewing" /\ runner.round = "running" /\ clock >= runner.expiresAt
  /\ runner' = Stopping("lease_lost")
  /\ GivenUp
  /\ UNCHANGED journal
  /\ OnlyCaller

Heard(kind) == runner.pc = "renewing" /\ call.state = "answered" /\ call.answer.kind = kind

TakeDenial ==
  /\ Heard("denied")
  /\ call' = NoCall
  /\ Stops(call.answer.reason)
  /\ UNCHANGED <<clock, lease, stray, supervisor>>

(* A renewal never shortens what the runner knows.                          *)
Merged == Greater(runner.expiresAt, call.answer.expiresAt)

Propagates(expiresAt, cancel) ==
  [runner EXCEPT !.pc = "propagate", !.round = "running", !.next = expiresAt, !.cancel = cancel]

TakeRenewal ==
  /\ Heard("renewal") /\ runner.round = "running"
  /\ call' = NoCall
  /\ runner' = Propagates(Merged, call.answer.cancel)
  /\ UNCHANGED <<stray, journal>>
  /\ OnlyCaller

(* Between the two the prompt is read and the engine probed: EngineAttempt. *)
TakePreparedRenewal ==
  /\ Heard("renewal") /\ runner.round # "running"
  /\ call' = NoCall
  /\ CASE call.answer.cancel -> PreparationStops(Merged, "cancel_requested")
       [] ~call.answer.cancel /\ runner.round = "first" ->
            /\ runner' = [runner EXCEPT !.round = "final", !.expiresAt = Merged]
            /\ UNCHANGED <<journal, session>>
       [] ~call.answer.cancel /\ runner.round = "final" /\ ~journal.supervisor ->
            /\ runner' = [runner EXCEPT !.pc = "commit", !.expiresAt = Merged]
            /\ UNCHANGED <<journal, session>>
       [] OTHER ->
            /\ Listening
            /\ runner' = [Propagates(Merged, FALSE) EXCEPT !.expiresAt = Merged]
            /\ session' = Opened(supervisor.phase)
            /\ UNCHANGED journal
  /\ UNCHANGED <<clock, lease, stray, supervisor>>

InTime == clock < runner.expiresAt /\ clock < Deadline /\ clock <= Deadline - Timeout - Reserve

CommitTooLate ==
  /\ runner.pc = "commit" /\ ~InTime
  /\ runner' = RunnerOff
  /\ journal' = [journal EXCEPT !.over = TRUE]
  /\ UNCHANGED <<call, stray>>
  /\ OnlyCaller

(* The supervisor is started, put on record and connected to.               *)
CommitSpawning ==
  /\ runner.pc = "commit" /\ InTime
  /\ journal' = [journal EXCEPT !.supervisor = TRUE]
  /\ supervisor' = Unarmed("waiting_spawn")
  /\ session' = Opened("waiting_spawn")
  /\ runner' = Propagates(runner.expiresAt, FALSE)
  /\ UNCHANGED <<clock, lease, call, stray>>

-----------------------------------------------------------------------------
(* The runner: driving the supervisor, with renewals beside it *)

Driving == runner.pc \notin {"off", "commit"} /\ session.open
Sends(frame) == session' = [session EXCEPT !.spawn = FALSE, !.frames = Append(@, frame)]

AuthorizeSpawn ==
  /\ Driving /\ session.spawn /\ runner.stop = "none"
  /\ Sends(Frame("authorize_spawn", runner.expiresAt, "none"))
  /\ UNCHANGED <<clock, lease, call, stray, journal, runner, supervisor>>

(* The child's identity reaches the journal.                                *)
RecordStarted ==
  /\ Driving /\ supervisor.phase = "live" /\ ~journal.started
  /\ journal' = [journal EXCEPT !.started = TRUE]
  /\ UNCHANGED <<clock, lease, call, stray, runner, session, supervisor>>

\* bug: the renewed expiry is the runner's as soon as it is sent
ExtendAndAdopt ==
  /\ runner.pc = "propagate" /\ session.open /\ ~session.spawn /\ clock < runner.expiresAt
  /\ Sends(Frame("extend_lease", runner.next, "none"))
  /\ runner' = Waits(runner.next)
  /\ UNCHANGED <<clock, lease, call, stray, journal, supervisor>>

(* The spawn request goes first; then an update is sent and waited for.     *)
ExtendLease ==
  /\ runner.pc = "propagate" /\ session.open /\ ~session.spawn /\ clock < runner.expiresAt
  /\ Sends(Frame("extend_lease", runner.next, "none"))
  /\ runner' = [runner EXCEPT !.pc = "await_ack"]
  /\ UNCHANGED <<clock, lease, call, stray, journal, supervisor>>

PropagationOutlasted ==
  /\ runner.pc \in {"propagate", "await_ack"} /\ clock >= runner.expiresAt
  /\ runner' = Stopping("lease_lost")
  /\ UNCHANGED <<clock, lease, call, stray, journal, session, supervisor>>

(* Only now is the renewed expiry the runner's.                             *)
LeaseAcknowledged ==
  /\ runner.pc = "await_ack" /\ session.acks # <<>> /\ Head(session.acks) = runner.next
  /\ session' = [session EXCEPT !.acks = Tail(@)]
  /\ runner' = IF runner.cancel THEN [Stopping("cancel_requested") EXCEPT !.expiresAt = runner.next]
               ELSE Waits(runner.next)
  /\ UNCHANGED <<clock, lease, call, stray, journal, supervisor>>

Wake ==
  /\ runner.pc = "wait" /\ clock >= runner.wakeAt
  /\ runner' = [runner EXCEPT !.pc = "renewing", !.round = "running"]
  /\ UNCHANGED <<clock, lease, call, stray, journal, session, supervisor>>

SendTerminate ==
  /\ runner.pc = "stopping" /\ session.open
  /\ Sends(Frame("terminate", 0, runner.stop))
  /\ runner' = [runner EXCEPT !.pc = "stopped"]
  /\ UNCHANGED <<clock, lease, call, stray, journal, supervisor>>

(* The result or fault of the supervisor is journaled, and it is let go.    *)
RecordResult ==
  /\ Driving /\ supervisor.phase = "terminal"
  /\ journal' = [journal EXCEPT !.over = TRUE]
  /\ supervisor' = [supervisor EXCEPT !.phase = "gone"]
  /\ RunnerLeaves
  /\ UNCHANGED <<clock, lease>>

SessionLost ==
  /\ session.open
  /\ RunnerLeaves
  /\ UNCHANGED <<clock, lease, journal, supervisor>>

-----------------------------------------------------------------------------
(* The supervisor *)

Receives(kind) == session.frames # <<>> /\ Head(session.frames).kind = kind
Asked == Head(session.frames)
Handled == session' = [session EXCEPT !.frames = Tail(@)]
OnlySupervisor == UNCHANGED <<clock, lease, call, stray, journal, runner>>

FirstReason(s, reason) == [s EXCEPT !.stop = IF @ = "none" THEN reason ELSE @]
Armed(s, expiresAt) == [s EXCEPT !.expiresAt = expiresAt, !.timer = expiresAt]

(* The timer is armed before anything is prepared.                          *)
TakeSpawn ==
  /\ Receives("authorize_spawn") /\ supervisor.phase = "waiting_spawn"
  /\ supervisor' =
       IF Asked.expiresAt <= clock
       THEN [FirstReason(supervisor, "lease_lost") EXCEPT !.phase = "terminal"]
       ELSE [Armed(supervisor, Asked.expiresAt) EXCEPT !.phase = "live", !.endsAt = clock + Timeout]
  /\ Handled
  /\ OnlySupervisor

(* armLeaseHorizon, for an update.                                          *)
Extends(expiresAt) ==
  /\ supervisor.phase = "live" /\ ~supervisor.expired
  /\ expiresAt <= Deadline /\ expiresAt > clock /\ expiresAt >= supervisor.expiresAt

\* bug: the timer is not armed anew
TakeExtensionUnarmed ==
  /\ Receives("extend_lease") /\ Extends(Asked.expiresAt)
  /\ supervisor' = [supervisor EXCEPT !.expiresAt = Asked.expiresAt]
  /\ session' = [session EXCEPT !.frames = Tail(@), !.acks = Append(@, Asked.expiresAt)]
  /\ OnlySupervisor

TakeExtension ==
  /\ Receives("extend_lease") /\ Extends(Asked.expiresAt)
  /\ supervisor' = Armed(supervisor, Asked.expiresAt)
  /\ session' = [session EXCEPT !.frames = Tail(@), !.acks = Append(@, Asked.expiresAt)]
  /\ OnlySupervisor

(* A frame it cannot take is a protocol error: it closes the connection,    *)
(* and the runner's call fails.                                             *)
RefuseExtension ==
  /\ Receives("extend_lease") /\ ~Extends(Asked.expiresAt)
  /\ RunnerLeaves
  /\ UNCHANGED <<clock, lease, journal, supervisor>>

TakeTerminate ==
  /\ Receives("terminate")
  /\ supervisor' =
       LET s == FirstReason(supervisor, Asked.reason) IN
       CASE s.phase = "waiting_spawn" -> [s EXCEPT !.phase = "terminal"]
         [] s.phase = "live" -> [s EXCEPT !.aborted = TRUE]
         [] OTHER -> s
  /\ Handled
  /\ OnlySupervisor

EnforceLeaseHorizon ==
  /\ supervisor.phase = "live" /\ clock >= supervisor.timer /\ ~supervisor.expired
  /\ supervisor' = [FirstReason(supervisor, "lease_lost") EXCEPT !.expired = TRUE, !.aborted = TRUE]
  /\ UNCHANGED session
  /\ OnlySupervisor

(* By itself, at its own timeout, or because it was told to.                *)
EngineEnds ==
  /\ supervisor.phase = "live"
  /\ supervisor' = [supervisor EXCEPT !.phase = "terminal"]
  /\ UNCHANGED session
  /\ OnlySupervisor

(* Killed, or nobody came in time.                                          *)
SupervisorGone ==
  /\ Listening
  /\ supervisor' = [supervisor EXCEPT !.phase = "gone"]
  /\ IF session.open THEN RunnerLeaves ELSE UNCHANGED <<call, stray, runner, session>>
  /\ UNCHANGED <<clock, lease, journal>>

(* A timer of the supervisor that is due fires before time goes on.         *)
Due ==
  /\ supervisor.phase = "live"
  /\ \/ clock >= supervisor.timer /\ ~supervisor.expired
     \/ clock >= supervisor.endsAt

Tick ==
  /\ clock < MaxClock /\ ~Due
  /\ clock' = clock + 1
  /\ UNCHANGED <<lease, call, stray, journal, runner, session, supervisor>>

-----------------------------------------------------------------------------
ServerNext == RenewRunLease \/ RenewForNobody \/ CancelRequested \/ LeaseClosed

LoopNext ==
  \/ RunnerEnds \/ Prepare \/ Resume
  \/ SendRenewal \/ RenewalFails \/ RenewLater \/ Unrenewable \/ RenewalOutlasted
  \/ TakeDenial \/ TakeRenewal \/ TakePreparedRenewal
  \/ CommitTooLate \/ CommitSpawning

DriveNext ==
  \/ AuthorizeSpawn \/ RecordStarted \/ ExtendLease \/ PropagationOutlasted
  \/ LeaseAcknowledged \/ Wake \/ SendTerminate \/ RecordResult \/ SessionLost

SupervisorNext ==
  \/ TakeSpawn \/ TakeExtension \/ RefuseExtension \/ TakeTerminate
  \/ EnforceLeaseHorizon \/ EngineEnds \/ SupervisorGone

HorizonNext == ServerNext \/ LoopNext \/ DriveNext \/ SupervisorNext \/ Tick

HorizonSpec == HorizonInit /\ [][HorizonNext]_hvars

-----------------------------------------------------------------------------
(* Properties *)

(* An engine that was not told to stop has a timer ahead of it, armed at an *)
(* expiry the server granted, whatever became of the runner, of the         *)
(* connection and of renewals whose answers were lost or late.              *)
HorizonKept ==
  supervisor.phase = "live" /\ ~supervisor.aborted =>
    /\ clock <= supervisor.timer
    /\ supervisor.timer = supervisor.expiresAt
    /\ supervisor.expiresAt <= lease.expiresAt

(* What the runner holds for the expiry of its lease while an engine runs,  *)
(* the supervisor has acknowledged (the release note: "requires an exact    *)
(* lease_ack before the parent adopts a renewed horizon").                  *)
AdoptedWhenAcked ==
  runner.pc = "wait" \/ (runner.pc = "renewing" /\ runner.round = "running") =>
    runner.expiresAt <= supervisor.expiresAt

LeaseAuthority == HorizonKept /\ AdoptedWhenAcked

(* A runner that comes back while the horizon in its journal is live can    *)
(* take the supervisor over again (the release note: "a new controller may  *)
(* reconnect to the same supervisor without launching a second provider     *)
(* while the journaled horizon remains live").                              *)
ReconnectsWhileLive ==
  Receives("extend_lease") /\ runner.pc = "await_ack" /\ clock < journal.claimExpiry
    /\ supervisor.phase = "live" /\ ~supervisor.expired => Extends(Asked.expiresAt)

=============================================================================
