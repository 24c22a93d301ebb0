------------------------------ MODULE Presence ------------------------------
(***************************************************************************)
(* The presence lease of one person and the tabs that publish it: the row  *)
(* and its two handlers (presence-repository.ts, domain/presence), and the *)
(* writer of each tab (app/presence-client.tsx). A write is read, decided  *)
(* and persisted in separate statements; answers get lost; the row is      *)
(* deleted when a tab is hidden or the row is cleaned up. Status and room  *)
(* do not decide who holds the lease and are left out.                     *)
(***************************************************************************)
EXTENDS Naturals, FiniteSets

CONSTANTS
  Tabs,          \* tabs; each has a session key of its own
  PresenceTtl,   \* seconds a write lasts
  LastEpoch,     \* the last second
  MaxFence,      \* bound of the fencing token
  MaxHides       \* times a tab is hidden

ASSUME PresenceAssumption ==
  PresenceTtl \in Nat \ {0} /\ {LastEpoch, MaxFence, MaxHides} \subseteq Nat

VARIABLES
  epoch,    \* the server's clock
  session,  \* presence_sessions: the row of this person
  tab,      \* the state of each tab
  put,      \* the write each tab has under way
  leaving,  \* tokens of the releases each tab has sent
  hides,    \* hides so far
  ousted    \* how a live lease of another tab was ended, if nobody took over

pvars == <<epoch, session, tab, put, leaving, hides, ousted>>

-----------------------------------------------------------------------------

NoSession == [key |-> {}, fence |-> 0, expires |-> 0]
Sessions == [key : SUBSET Tabs, fence : 0..MaxFence, expires : 0..LastEpoch + PresenceTtl]
SessionOf(t) == session.key = {t}
LiveLease(row, now) == row # NoSession /\ row.expires > now

(* fencingTokenRef (0 for null), what the tab shows, a write that is wanted *)
(* and a takeover that is wanted.                                           *)
TabStates == [token : 0..MaxFence, shows : {"nothing", "holding", "failed", "passive"},
              pending : BOOLEAN, force : BOOLEAN]
NewTab == [token |-> 0, shows |-> "nothing", pending |-> FALSE, force |-> FALSE]

NoPut == [step |-> "none", token |-> 0, takeover |-> FALSE, at |-> 0, loaded |-> NoSession, fence |-> 0]
Puts == [step : {"none", "sent", "decided", "granted", "refused"}, token : 0..MaxFence,
         takeover : BOOLEAN, at : 0..LastEpoch, loaded : Sessions, fence : 0..MaxFence]

-----------------------------------------------------------------------------
(* The tab: runPresenceWrite *)

(* A token goes along unless the person takes over.                         *)
Sent(t) ==
  [NoPut EXCEPT !.step = "sent", !.takeover = tab[t].force,
     !.token = IF tab[t].force THEN 0 ELSE tab[t].token]

(* A heartbeat, a retry after a failure, a change of status: only a tab     *)
(* that is not passive. takeOver: any tab, when the person says so.         *)
WantWrite(t, force) ==
  /\ force \/ tab[t].shows # "passive"
  /\ IF put[t].step = "none"
     THEN /\ put' = [put EXCEPT ![t] = [Sent(t) EXCEPT !.takeover = force \/ tab[t].force,
                                          !.token = IF force \/ tab[t].force THEN 0 ELSE tab[t].token]]
          /\ tab' = [tab EXCEPT ![t].pending = FALSE, ![t].force = FALSE]
     ELSE /\ tab' = [tab EXCEPT ![t].pending = TRUE, ![t].force = @ \/ force]
          /\ UNCHANGED put
  /\ UNCHANGED <<epoch, session, leaving, hides, ousted>>

(* The answer: the next write follows at once if one became wanted.         *)
Granted(t) ==
  /\ put[t].step = "granted"
  /\ tab' = [tab EXCEPT ![t] = [token |-> put[t].fence, shows |-> "holding",
                                pending |-> FALSE, force |-> FALSE]]
  /\ put' = [put EXCEPT ![t] =
       IF tab[t].pending
       THEN [NoPut EXCEPT !.step = "sent", !.takeover = tab[t].force,
               !.token = IF tab[t].force THEN 0 ELSE put[t].fence]
       ELSE NoPut]
  /\ UNCHANGED <<epoch, session, leaving, hides, ousted>>

Refused(t) ==
  /\ put[t].step = "refused"
  /\ tab' = [tab EXCEPT ![t].shows = "passive"]
  /\ put' = [put EXCEPT ![t] = NoPut]
  /\ UNCHANGED <<epoch, session, leaving, hides, ousted>>

(* The answer, or the write itself, is lost.                                *)
PutLost(t) ==
  /\ put[t].step \in {"sent", "granted", "refused"}
  /\ tab' = [tab EXCEPT ![t].shows = IF @ = "passive" THEN @ ELSE "failed"]
  /\ put' = [put EXCEPT ![t] = NoPut]
  /\ UNCHANGED <<epoch, session, leaving, hides, ousted>>

(* pagehide: a release is sent on its way; the page may come back from the  *)
(* browser's cache as it was.                                               *)
Hide(t) ==
  /\ hides < MaxHides /\ hides' = hides + 1
  /\ tab[t].token # 0 /\ leaving' = [leaving EXCEPT ![t] = @ \cup {tab[t].token}]
  /\ UNCHANGED <<epoch, session, tab, put, ousted>>

-----------------------------------------------------------------------------
(* The handlers *)

(* updatePresenceSession: decidePresenceLease on the row it loads.          *)
Decided(t) ==
  LET row == session
      fence == IF row = NoSession THEN 1 ELSE row.fence + 1
      grant(token) == [put[t] EXCEPT !.step = "decided", !.at = epoch, !.loaded = row, !.fence = token] IN
  IF ~LiveLease(row, epoch) THEN grant(fence)
  ELSE IF put[t].token = row.fence /\ SessionOf(t) THEN grant(row.fence)
  ELSE IF put[t].takeover THEN grant(fence)
  ELSE [put[t] EXCEPT !.step = "refused"]

ReadSession(t) ==
  /\ put[t].step = "sent" /\ Decided(t).fence <= MaxFence
  /\ put' = [put EXCEPT ![t] = Decided(t)]
  /\ UNCHANGED <<epoch, session, tab, leaving, hides, ousted>>

Renews(t) == put[t].loaded.key = {t} /\ put[t].fence = put[t].loaded.fence

(* persistLease: the row that was loaded is updated, whatever it expires at *)
(* by now; where there is none a row is inserted, unless a renewal lost it. *)
Finds(t) ==
  /\ put[t].loaded # NoSession
  /\ session.fence = put[t].loaded.fence /\ session.key = put[t].loaded.key
Inserts(t) == session = NoSession /\ (put[t].loaded = NoSession \/ ~Renews(t))

Ousts(t, how) ==
  ousted' = IF LiveLease(session, epoch) /\ ~SessionOf(t) THEN ousted \cup {how} ELSE ousted

PersistLease(t) ==
  /\ put[t].step = "decided"
  /\ IF Finds(t) \/ Inserts(t)
     THEN /\ session' = [key |-> {t}, fence |-> put[t].fence, expires |-> put[t].at + PresenceTtl]
          /\ IF put[t].takeover THEN UNCHANGED ousted
             ELSE Ousts(t, IF Renews(t) THEN "renewal" ELSE "claim")
          /\ put' = [put EXCEPT ![t].step = "granted"]
     ELSE put' = [put EXCEPT ![t].step = "refused"] /\ UNCHANGED <<session, ousted>>
  /\ UNCHANGED <<epoch, tab, leaving, hides>>

(* releasePresenceSession: the row goes if it is the one named.             *)
\* bug: the token alone names the row
NamesByToken(t, token) == session.fence = token
Names(t, token) == session.fence = token /\ SessionOf(t)
Release(t, token) ==
  /\ token \in leaving[t] /\ leaving' = [leaving EXCEPT ![t] = @ \ {token}]
  /\ IF Names(t, token) THEN session' = NoSession /\ Ousts(t, "release")
     ELSE UNCHANGED <<session, ousted>>
  /\ UNCHANGED <<epoch, tab, put, hides>>

(* cleanupExpiredPresence, by whoever reads the roster.                     *)
CleanUp ==
  /\ session # NoSession /\ ~LiveLease(session, epoch) /\ session' = NoSession
  /\ UNCHANGED <<epoch, tab, put, leaving, hides, ousted>>

NextEpoch ==
  /\ epoch < LastEpoch /\ epoch' = epoch + 1
  /\ UNCHANGED <<session, tab, put, leaving, hides, ousted>>

PresenceInit ==
  /\ epoch = 0 /\ session = NoSession /\ hides = 0 /\ ousted = {}
  /\ tab = [t \in Tabs |-> NewTab] /\ put = [t \in Tabs |-> NoPut] /\ leaving = [t \in Tabs |-> {}]

PresenceNext ==
  \/ \E t \in Tabs :
       \/ \E force \in BOOLEAN : WantWrite(t, force)
       \/ Granted(t) \/ Refused(t) \/ PutLost(t) \/ Hide(t)
       \/ ReadSession(t) \/ PersistLease(t)
       \/ \E token \in 1..MaxFence : Release(t, token)
  \/ CleanUp \/ NextEpoch

PresenceSpec == PresenceInit /\ [][PresenceNext]_pvars

-----------------------------------------------------------------------------
(* Properties *)

PresenceTypeOK ==
  /\ epoch \in 0..LastEpoch /\ session \in Sessions /\ hides \in 0..MaxHides
  /\ tab \in [Tabs -> TabStates] /\ put \in [Tabs -> Puts]
  /\ leaving \in [Tabs -> SUBSET (1..MaxFence)]
  /\ ousted \subseteq {"claim", "renewal", "release"}

(* docs/BUSINESS-RULES.md:73, "A stale presence fencing token cannot renew  *)
(* or delete the current lease", although tokens start again at 1 once the  *)
(* row is gone: no renewal and no release, however late, ends the live      *)
(* lease of another tab.                                                    *)
StaleTokenHarmless == ousted \cap {"renewal", "release"} = {}
=============================================================================
