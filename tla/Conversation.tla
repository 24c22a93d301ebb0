---------------------------- MODULE Conversation ----------------------------
(***************************************************************************)
(* One conversation: its members and their roles, archive and reopen, pins *)
(* (collaboration-lifecycle-repository.ts, membership.ts), its messages    *)
(* (collaboration-repository.ts) and the files they carry                  *)
(* (message-file-repository.ts). A handler reads first (Start...) and then *)
(* sends one statement or one batch (Commit...), which finds the rows as   *)
(* they are by then: the versions it compares, its EXISTS clauses and the  *)
(* triggers of drizzle/0003, 0005 and 0032 decide.                         *)
(***************************************************************************)
EXTENDS Naturals, Sequences, FiniteSets

CONSTANTS
  Members,     \* humans of the workspace
  Uploads,       \* ids of uploads
  Calls,       \* calls that may be under way together
  MaxMessages, \* bound of the messages
  MaxPins,     \* active pins a conversation may have (20 in the code)
  MaxEdits,    \* changes of members and of the conversation
  NoOne

ASSUME ConversationAssumption ==
  /\ {MaxMessages, MaxPins, MaxEdits} \subseteq Nat
  /\ NoOne \notin Members \cup Uploads

VARIABLES
  chat,     \* conversations: kind, status, version, next_sequence
  member,   \* conversation_members
  humans,   \* members with an active workspace membership
  messages, \* messages, in the order of their insertion
  file,     \* message_attachments and the object of each
  pins,     \* conversation_pins: message and author of the active ones
  edits,    \* changes so far
  call      \* the calls under way

cvars == <<chat, member, humans, messages, file, pins, edits, call>>

-----------------------------------------------------------------------------
(* Rows *)

ChatRoles == {"owner", "member", "observer"}
MemberRows == [role : ChatRoles, status : {"none", "active", "left", "removed"}, version : 0..MaxEdits + 1]
NotMember == [role |-> "member", status |-> "none", version |-> 0]
Chats == [kind : {"direct", "room"}, status : {"active", "archived"}, version : 1..MaxEdits + 1,
          next : 1..MaxMessages + 1]

Active(p) == member[p].status = "active"
Owner(p) == Active(p) /\ member[p].role = "owner"
Writes(p) == Active(p) /\ member[p].role # "observer"
Open == chat.status = "active"
OtherOwner(p) == \E o \in Members \ {p} : Owner(o)

Message == [sequence : 1..MaxMessages, sender : Members, files : SUBSET Uploads]
FileRows == [status : {"none", "stored", "staged", "attached"}, by : Members \cup {NoOne},
             message : 0..MaxMessages]   \* the sequence of its message, 0 for none
NoUpload == [status |-> "none", by |-> NoOne, message |-> 0]

NoCall == [kind |-> "none", by |-> NoOne, of |-> NoOne, role |-> "member", version |-> 0,
         files |-> {}, next |-> 0]
CallRows ==
  [kind : {"none", "add", "role", "remove", "archive", "reopen", "send", "stage", "pin"},
   by : Members \cup {NoOne}, of : Members \cup {NoOne}, role : ChatRoles,
   version : 0..MaxEdits + 1, files : SUBSET Uploads, next : 0..MaxMessages + 1]

(* requireWorkspaceMember comes first.                                      *)
Begins(c, row) == call[c] = NoCall /\ row.by \in humans /\ call' = [call EXCEPT ![c] = row]
EndCall(c) == call' = [call EXCEPT ![c] = NoCall]
Edit == edits < MaxEdits /\ edits' = edits + 1

-----------------------------------------------------------------------------
(* Members *)

(* addConversationMember: assertCanAddConversationMember, who is to be      *)
(* added must be eligible and must not be active.                           *)
StartAdd(c, p, of, role) ==
  /\ Open /\ chat.kind # "direct" /\ Owner(p) /\ role # "owner"
  /\ of \in humans /\ ~Active(of)
  /\ Begins(c, [NoCall EXCEPT !.kind = "add", !.by = p, !.of = of, !.role = role,
                  !.version = member[of].version])
  /\ UNCHANGED <<chat, member, humans, messages, file, pins, edits>>

CommitAdd(c) ==
  LET q == call[c]
      commits == /\ Open /\ chat.kind # "direct" /\ Owner(q.by) /\ q.of \in humans
                 /\ member[q.of].version = q.version IN
  /\ q.kind = "add" /\ EndCall(c)
  /\ IF commits
     THEN Edit /\ member' = [member EXCEPT ![q.of] =
                                [role |-> q.role, status |-> "active", version |-> @.version + 1]]
     ELSE UNCHANGED <<member, edits>>
  /\ UNCHANGED <<chat, humans, messages, file, pins>>

(* assertCanChangeConversationMember, on what was read: who leaves alone    *)
(* needs no ownership; the last owner cannot stop being one.                *)
ActiveOwners == {p \in humans : Owner(p)}
MayChange(p, of, leaves, demotes) ==
  /\ Open /\ chat.kind # "direct" /\ Active(p) /\ Active(of)
  /\ Owner(p) \/ (leaves /\ p = of)
  /\ Owner(of) /\ (leaves \/ demotes) => Cardinality(ActiveOwners) > 1

(* updateConversationMember and removeConversationMember. The client sends  *)
(* the version it knows, which may be an old one: then nothing changes.     *)
StartRole(c, p, of, role) ==
  /\ MayChange(p, of, FALSE, role # "owner") /\ (role = "owner" => of \in humans)
  /\ Begins(c, [NoCall EXCEPT !.kind = "role", !.by = p, !.of = of, !.role = role,
                  !.version = member[of].version])
  /\ UNCHANGED <<chat, member, humans, messages, file, pins, edits>>

StartRemove(c, p, of) ==
  /\ MayChange(p, of, TRUE, FALSE)
  /\ Begins(c, [NoCall EXCEPT !.kind = "remove", !.by = p, !.of = of, !.version = member[of].version])
  /\ UNCHANGED <<chat, member, humans, messages, file, pins, edits>>

(* conversation_members_require_owner: an owner row stops being one only if *)
(* another is left.                                                         *)
\* bug: the owners were counted when the call began, and that is enough
OwnerCounted(of, row) == TRUE
OwnerLeft(of, row) ==
  Owner(of) /\ (row.role # "owner" \/ row.status # "active") => OtherOwner(of)

Updates(of, row) ==
  IF OwnerLeft(of, row) THEN Edit /\ member' = [member EXCEPT ![of] = row] ELSE UNCHANGED <<member, edits>>

CommitRole(c) ==
  LET q == call[c]
      finds == /\ Open /\ chat.kind # "direct" /\ Owner(q.by)
               /\ Active(q.of) /\ member[q.of].version = q.version
               /\ (q.role = "owner" => q.of \in humans) IN
  /\ q.kind = "role" /\ EndCall(c)
  /\ IF finds
     THEN Updates(q.of, [member[q.of] EXCEPT !.role = q.role, !.version = @ + 1])
     ELSE UNCHANGED <<member, edits>>
  /\ UNCHANGED <<chat, humans, messages, file, pins>>

CommitRemove(c) ==
  LET q == call[c]
      finds == /\ Open /\ chat.kind # "direct" /\ Active(q.by) /\ (Owner(q.by) \/ q.by = q.of)
               /\ Active(q.of) /\ member[q.of].version = q.version IN
  /\ q.kind = "remove" /\ EndCall(c)
  /\ IF finds
     THEN Updates(q.of, [member[q.of] EXCEPT !.status = IF q.by = q.of THEN "left" ELSE "removed",
                                             !.version = @ + 1])
     ELSE UNCHANGED <<member, edits>>
  /\ UNCHANGED <<chat, humans, messages, file, pins>>

(* changeConversationStatus.                                                *)
StartStatus(c, p, kind) ==
  /\ Owner(p) /\ kind \in {"archive", "reopen"} /\ (kind = "archive" <=> Open)
  /\ Begins(c, [NoCall EXCEPT !.kind = kind, !.by = p, !.version = chat.version])
  /\ UNCHANGED <<chat, member, humans, messages, file, pins, edits>>

CommitStatus(c) ==
  LET q == call[c]
      finds == Owner(q.by) /\ chat.version = q.version /\ (q.kind = "archive" <=> Open) IN
  /\ q.kind \in {"archive", "reopen"} /\ EndCall(c)
  /\ IF finds
     THEN Edit /\ chat' = [chat EXCEPT !.status = IF q.kind = "archive" THEN "archived" ELSE "active",
                                       !.version = @ + 1]
     ELSE UNCHANGED <<chat, edits>>
  /\ UNCHANGED <<member, humans, messages, file, pins>>

-----------------------------------------------------------------------------
(* Uploads and messages *)

(* stageConversationFile: the object is stored first, then the row; when    *)
(* the row is refused the object is deleted again.                          *)
StartStage(c, p, f) ==
  /\ Open /\ Writes(p) /\ file[f].status = "none" /\ \A d \in Calls : f \notin call[d].files
  /\ Begins(c, [NoCall EXCEPT !.kind = "stage", !.by = p, !.files = {f}])
  /\ file' = [file EXCEPT ![f] = [NoUpload EXCEPT !.status = "stored", !.by = p]]
  /\ UNCHANGED <<chat, member, humans, messages, pins, edits>>

CommitStage(c) ==
  LET q == call[c] IN
  /\ q.kind = "stage" /\ EndCall(c)
  /\ \E f \in q.files :
       file' = [file EXCEPT ![f] =
         IF Open /\ Writes(q.by) THEN [@ EXCEPT !.status = "staged"] ELSE NoUpload]
  /\ UNCHANGED <<chat, member, humans, messages, pins, edits>>

(* sendMessage up to the batch: stagedMessageAttachments finds every file   *)
(* staged by the sender and free.                                           *)
Unattached(f, p) == file[f].status = "staged" /\ file[f].by = p /\ file[f].message = 0
StartSend(c, p, fs) ==
  /\ Open /\ Writes(p) /\ \A f \in fs : Unattached(f, p)
  /\ Begins(c, [NoCall EXCEPT !.kind = "send", !.by = p, !.files = fs, !.next = chat.next])
  /\ UNCHANGED <<chat, member, humans, messages, file, pins, edits>>

(* messages_validate_before_insert and messages_validate_attachments.       *)
\* bug: the files were free when the call began, and that is enough
AcceptsFilesRead(q) == Open /\ Writes(q.by)
AcceptsMessage(q) == Open /\ Writes(q.by) /\ \A f \in q.files : Unattached(f, q.by)

CommitSend(c) ==
  LET q == call[c] IN
  /\ q.kind = "send" /\ EndCall(c) /\ chat.next <= MaxMessages
  /\ IF AcceptsMessage(q)
     THEN /\ messages' = Append(messages, [sequence |-> chat.next, sender |-> q.by, files |-> q.files])
          /\ file' = [f \in Uploads |->
               IF f \in q.files /\ file[f].status = "staged" /\ file[f].message = 0
               THEN [file[f] EXCEPT !.status = "attached", !.message = chat.next] ELSE file[f]]
          /\ chat' = [chat EXCEPT !.next = @ + 1]
     ELSE UNCHANGED <<messages, file, chat>>
  /\ UNCHANGED <<member, humans, pins, edits>>

-----------------------------------------------------------------------------
(* Pins *)

StartPin(c, p, m) ==
  /\ Open /\ Writes(p) /\ m \in DOMAIN messages /\ Cardinality(pins) < MaxPins
  /\ Begins(c, [NoCall EXCEPT !.kind = "pin", !.by = p, !.next = m])
  /\ UNCHANGED <<chat, member, humans, messages, file, pins, edits>>

(* createConversationPin counts again in its insert; a message is pinned    *)
(* once at a time; conversation_pins_validate_before_insert.                *)
AcceptsPin(q) ==
  /\ Open /\ Writes(q.by) /\ Cardinality(pins) < MaxPins
  /\ \A pin \in pins : pin.message # q.next

CommitPin(c) ==
  LET q == call[c] IN
  /\ q.kind = "pin" /\ EndCall(c)
  /\ pins' = IF AcceptsPin(q) THEN pins \cup {[message |-> q.next, by |-> q.by]} ELSE pins
  /\ UNCHANGED <<chat, member, humans, messages, file, edits>>

(* removeConversationPin: its UPDATE repeats what was checked.              *)
Unpin(p, pin) ==
  /\ p \in humans /\ Open /\ Writes(p) /\ pin \in pins /\ (Owner(p) \/ pin.by = p) /\ Edit
  /\ pins' = pins \ {pin}
  /\ UNCHANGED <<chat, member, humans, messages, file, call>>

-----------------------------------------------------------------------------

(* The worker stops between the steps of a call: an object that was stored  *)
(* by then stays, without a row.                                            *)
LoseCall(c) ==
  /\ call[c] # NoCall /\ EndCall(c)
  /\ UNCHANGED <<chat, member, humans, messages, file, pins, edits>>

(* A workspace membership ends or is restored.                              *)
ChangeMembership(p) ==
  /\ Edit /\ humans' = IF p \in humans THEN humans \ {p} ELSE humans \cup {p}
  /\ UNCHANGED <<chat, member, messages, file, pins, call>>

(* createConversation: who creates it owns it.                              *)
ConversationInit ==
  /\ chat \in [kind : {"direct", "room"}, status : {"active"}, version : {1}, next : {1}]
  /\ \E creator \in Members, others \in SUBSET Members :
       /\ creator \notin others /\ others # {} /\ (chat.kind = "direct" => Cardinality(others) = 1)
       /\ member = [p \in Members |->
            IF p = creator THEN [role |-> "owner", status |-> "active", version |-> 1]
            ELSE IF p \in others THEN [role |-> "member", status |-> "active", version |-> 1]
            ELSE NotMember]
  /\ humans = Members /\ messages = <<>> /\ file = [f \in Uploads |-> NoUpload] /\ pins = {}
  /\ edits = 0
  /\ call = [c \in Calls |-> NoCall]

ConversationNext ==
  \/ \E c \in Calls :
       \/ LoseCall(c) \/ CommitAdd(c) \/ CommitRole(c) \/ CommitRemove(c) \/ CommitStatus(c)
       \/ CommitStage(c) \/ CommitSend(c) \/ CommitPin(c)
       \/ \E p, of \in Members :
            \/ StartRemove(c, p, of)
            \/ \E role \in ChatRoles : StartAdd(c, p, of, role) \/ StartRole(c, p, of, role)
       \/ \E p \in Members :
            \/ \E kind \in {"archive", "reopen"} : StartStatus(c, p, kind)
            \/ \E f \in Uploads : StartStage(c, p, f)
            \/ \E fs \in SUBSET Uploads : StartSend(c, p, fs)
            \/ \E m \in 1..MaxMessages : StartPin(c, p, m)
  \/ \E p \in Members :
       \/ ChangeMembership(p)
       \/ \E pin \in pins : Unpin(p, pin)

ConversationSpec == ConversationInit /\ [][ConversationNext]_cvars

-----------------------------------------------------------------------------
(* Properties *)

ConversationTypeOK ==
  /\ chat \in Chats /\ member \in [Members -> MemberRows] /\ humans \subseteq Members
  /\ messages \in Seq(Message) /\ file \in [Uploads -> FileRows]
  /\ pins \subseteq [message : 1..MaxMessages, by : Members] /\ Cardinality(pins) <= MaxPins
  /\ edits \in 0..MaxEdits /\ call \in [Calls -> CallRows]

(* docs/BUSINESS-RULES.md:62, "A room or handoff always retains at least    *)
(* one active owner", although owners leave, are removed and are demoted by *)
(* calls that each counted the others.                                      *)
OwnerRemains == \E p \in Members : Owner(p)

(* What a message says it carries is what its reader finds: its files are   *)
(* attached to it, to no other message, and no other file is. A file of no  *)
(* message stays with who uploaded it.                                      *)
FilesOfMessage ==
  /\ \A m \in DOMAIN messages :
       messages[m].files = {f \in Uploads : file[f].message = messages[m].sequence}
  /\ \A f \in Uploads : file[f].message # 0 <=> file[f].status = "attached"

=============================================================================
