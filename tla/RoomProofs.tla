---------------------------- MODULE RoomProofs ----------------------------
(***************************************************************************)
(* What Conversation, Presence, Custody and Publication keep for every set *)
(* of members, calls, tabs, runs, requests and passes.                     *)
(***************************************************************************)
EXTENDS Conversation, Presence, Publication, SequenceTheorems, FiniteSetTheorems, TLAPS

(* Conversation *)

(* What a call carries from what it read to its batch.                      *)
CallShaped(q) ==
  /\ q.kind # "none" => q.by \in Members
  /\ q.kind \in {"add", "role", "remove"} => q.of \in Members
  /\ q.kind = "add" => q.role # "owner"
  /\ q.kind = "pin" => q.next \in 1..Len(messages)
CallsShaped == \A c \in Calls : CallShaped(call[c])

(* Each change of a row counts as an edit and raises its version.           *)
VersionsCounted ==
  /\ chat.version <= edits + 1
  /\ \A p \in Members : member[p].version <= edits + 1

MessagesNumbered ==
  /\ Len(messages) + 1 = chat.next
  /\ \A m \in 1..Len(messages) : messages[m].sequence = m

(* Who is added was no active member when the call read the row, so is      *)
(* none as long as the row has the version that was read.                   *)
AddsAreNew ==
  \A c \in Calls : call[c].kind = "add" =>
    /\ call[c].version <= member[call[c].of].version
    /\ call[c].version = member[call[c].of].version => ~Active(call[c].of)

(* The object of an upload that is being staged has no row yet, and one     *)
(* call stages it.                                                          *)
StagesAlone ==
  \A c \in Calls : call[c].kind = "stage" =>
    /\ \A f \in call[c].files : file[f].status = "stored"
    /\ \A d \in Calls \ {c} : call[c].files \cap call[d].files = {}

FilesBehind == \A f \in Uploads : file[f].message < chat.next

ConversationTyped ==
  /\ ConversationTypeOK /\ IsFiniteSet(pins)
  /\ CallsShaped /\ VersionsCounted /\ MessagesNumbered
FilesInv == StagesAlone /\ FilesBehind /\ FilesOfMessage
ConversationInv == ConversationTyped /\ AddsAreNew /\ FilesInv /\ OwnerRemains

-----------------------------------------------------------------------------

LEMMA ConversationBounds ==
  /\ MaxMessages \in Nat /\ MaxPins \in Nat /\ MaxEdits \in Nat
  /\ NoOne \notin Members /\ NoOne \notin Uploads
  BY ConversationAssumption

LEMMA NoCallTyped == NoCall \in CallRows /\ CallShaped(NoCall) /\ NoUpload \in FileRows /\ NotMember \in MemberRows
  BY ConversationBounds DEF NoCall, CallRows, CallShaped, NoUpload, FileRows, NotMember, MemberRows, ChatRoles

LEMMA ConversationStarts == ConversationInit => ConversationInv
<1> SUFFICES ASSUME ConversationInit PROVE ConversationInv
  OBVIOUS
<1>1. PICK creator \in Members, others \in SUBSET Members :
        /\ creator \notin others
        /\ member = [p \in Members |->
             IF p = creator THEN [role |-> "owner", status |-> "active", version |-> 1]
             ELSE IF p \in others THEN [role |-> "member", status |-> "active", version |-> 1]
             ELSE NotMember]
  BY DEF ConversationInit
<1>2. /\ [role |-> "owner", status |-> "active", version |-> 1] \in MemberRows
      /\ [role |-> "member", status |-> "active", version |-> 1] \in MemberRows
  BY ConversationBounds DEF MemberRows, ChatRoles
<1>3. member \in [Members -> MemberRows] /\ \A p \in Members : member[p].version <= 1
  BY <1>1, <1>2, NoCallTyped DEF NotMember
<1>4. chat \in Chats /\ chat.next = 1 /\ chat.version = 1
  BY ConversationBounds DEF ConversationInit, Chats
<1>5. /\ messages = <<>> /\ messages \in Seq(Message) /\ Len(messages) = 0 /\ edits = 0
      /\ pins = {} /\ file = [f \in Uploads |-> NoUpload] /\ call = [c \in Calls |-> NoCall]
      /\ humans = Members
  BY EmptySeq DEF ConversationInit
<1>6. IsFiniteSet(pins) /\ Cardinality(pins) = 0
  BY <1>5, FS_EmptySet
<1>7. ConversationTyped
  BY <1>3, <1>4, <1>5, <1>6, NoCallTyped, ConversationBounds
     DEF ConversationTyped, ConversationTypeOK, CallsShaped, VersionsCounted, MessagesNumbered
<1>8. AddsAreNew /\ FilesInv
  BY <1>4, <1>5 DEF AddsAreNew, FilesInv, StagesAlone, FilesBehind, FilesOfMessage, NoCall, NoUpload
<1>9. OwnerRemains
  BY <1>1 DEF OwnerRemains, Owner, Active
<1>10. QED
  BY <1>7, <1>8, <1>9 DEF ConversationInv

-----------------------------------------------------------------------------
(* Types *)

LEMMA EditTyped == ASSUME edits \in 0..MaxEdits, Edit PROVE edits' \in 0..MaxEdits /\ edits' = edits + 1
  BY ConversationBounds DEF Edit

LEMMA EndCallTyped ==
  ASSUME ConversationTyped, NEW c \in Calls, EndCall(c), Len(messages') >= Len(messages), Len(messages') \in Nat
  PROVE  call' \in [Calls -> CallRows] /\ CallsShaped'
<1>1. call' \in [Calls -> CallRows] /\ \A d \in Calls : call'[d] \in {call[d], NoCall}
  BY NoCallTyped DEF EndCall, ConversationTyped, ConversationTypeOK
<1>2. Len(messages) \in Nat
  BY LenProperties DEF ConversationTyped, ConversationTypeOK
<1>3. QED
  BY <1>1, <1>2 DEF CallsShaped, CallShaped, ConversationTyped, NoCall

\* a call that begins reads only
LEMMA BeginsTyped ==
  ASSUME ConversationTyped, NEW c \in Calls, NEW entry \in CallRows, Begins(c, entry), CallShaped(entry),
         UNCHANGED <<chat, member, humans, messages, pins, edits>>, file' \in [Uploads -> FileRows]
  PROVE  ConversationTyped'
<1>1. call' \in [Calls -> CallRows] /\ \A d \in Calls : call'[d] \in {call[d], entry}
  BY DEF Begins, ConversationTyped, ConversationTypeOK
<1>2. CallsShaped'
  BY <1>1 DEF CallsShaped, CallShaped, ConversationTyped
<1>3. QED
  BY <1>1, <1>2 DEF ConversationTyped, ConversationTypeOK, VersionsCounted, MessagesNumbered

\* the rows a call may begin with
LEMMA StartRowsTyped ==
  ASSUME NEW p \in Members, NEW of \in Members, NEW role \in ChatRoles,
         NEW v \in 0..MaxEdits + 1, NEW fs \in SUBSET Uploads, NEW n \in 0..MaxMessages + 1
  PROVE  /\ \A kind \in {"add", "role"} :
              [NoCall EXCEPT !.kind = kind, !.by = p, !.of = of, !.role = role, !.version = v] \in CallRows
         /\ [NoCall EXCEPT !.kind = "remove", !.by = p, !.of = of, !.version = v] \in CallRows
         /\ \A kind \in {"archive", "reopen"} :
              [NoCall EXCEPT !.kind = kind, !.by = p, !.version = v] \in CallRows
         /\ [NoCall EXCEPT !.kind = "stage", !.by = p, !.files = fs] \in CallRows
         /\ [NoCall EXCEPT !.kind = "send", !.by = p, !.files = fs, !.next = n] \in CallRows
         /\ [NoCall EXCEPT !.kind = "pin", !.by = p, !.next = n] \in CallRows
  BY NoCallTyped DEF CallRows

LEMMA StartsTyped ==
  ASSUME ConversationTyped, NEW c \in Calls, NEW p \in Members
  PROVE  /\ \A of \in Members, role \in ChatRoles :
              StartAdd(c, p, of, role) \/ StartRole(c, p, of, role) \/ StartRemove(c, p, of) => ConversationTyped'
         /\ \A kind \in {"archive", "reopen"} : StartStatus(c, p, kind) => ConversationTyped'
         /\ \A f \in Uploads : StartStage(c, p, f) => ConversationTyped'
         /\ \A fs \in SUBSET Uploads : StartSend(c, p, fs) => ConversationTyped'
         /\ \A m \in 1..MaxMessages : StartPin(c, p, m) => ConversationTyped'
<1>1. /\ \A q \in Members : member[q].version \in 0..MaxEdits + 1
      /\ chat.version \in 0..MaxEdits + 1 /\ chat.next \in 0..MaxMessages + 1
      /\ file \in [Uploads -> FileRows] /\ Len(messages) \in Nat /\ DOMAIN messages = 1..Len(messages)
  BY LenProperties, ConversationBounds DEF ConversationTyped, ConversationTypeOK, MemberRows, Chats
<1>2. "member" \in ChatRoles /\ 0 \in 0..MaxEdits + 1 /\ 0 \in 0..MaxMessages + 1 /\ {} \in SUBSET Uploads
  BY ConversationBounds DEF ChatRoles
<1>3. ASSUME NEW of \in Members, NEW role \in ChatRoles, StartAdd(c, p, of, role) PROVE ConversationTyped'
  <2> DEFINE entry == [NoCall EXCEPT !.kind = "add", !.by = p, !.of = of, !.role = role,
                                !.version = member[of].version]
  <2>1. entry \in CallRows
    BY <1>1, <1>2, StartRowsTyped
  <2>2. CallShaped(entry)
    BY <1>1, <1>2, <1>3, NoCallTyped DEF CallShaped, CallRows, StartAdd
  <2> HIDE DEF entry
  <2>3. Begins(c, entry) /\ UNCHANGED <<chat, member, humans, messages, pins, edits, file>>
    BY <1>3 DEF StartAdd, entry
  <2>4. QED
    BY <1>1, <2>1, <2>2, <2>3, BeginsTyped
<1>4. ASSUME NEW of \in Members, NEW role \in ChatRoles, StartRole(c, p, of, role) PROVE ConversationTyped'
  <2> DEFINE entry == [NoCall EXCEPT !.kind = "role", !.by = p, !.of = of, !.role = role,
                                !.version = member[of].version]
  <2>1. entry \in CallRows
    BY <1>1, <1>2, StartRowsTyped
  <2>2. CallShaped(entry)
    BY <1>1, <1>2, <1>4, NoCallTyped DEF CallShaped, CallRows, StartRole
  <2> HIDE DEF entry
  <2>3. Begins(c, entry) /\ UNCHANGED <<chat, member, humans, messages, pins, edits, file>>
    BY <1>4 DEF StartRole, entry
  <2>4. QED
    BY <1>1, <2>1, <2>2, <2>3, BeginsTyped
<1>5. ASSUME NEW of \in Members, StartRemove(c, p, of) PROVE ConversationTyped'
  <2> DEFINE entry == [NoCall EXCEPT !.kind = "remove", !.by = p, !.of = of, !.version = member[of].version]
  <2>1. entry \in CallRows
    BY <1>1, <1>2, StartRowsTyped
  <2>2. CallShaped(entry)
    BY <1>1, <1>2, <1>5, NoCallTyped DEF CallShaped, CallRows, StartRemove
  <2> HIDE DEF entry
  <2>3. Begins(c, entry) /\ UNCHANGED <<chat, member, humans, messages, pins, edits, file>>
    BY <1>5 DEF StartRemove, entry
  <2>4. QED
    BY <1>1, <2>1, <2>2, <2>3, BeginsTyped
<1>6. ASSUME NEW kind \in {"archive", "reopen"}, StartStatus(c, p, kind) PROVE ConversationTyped'
  <2> DEFINE entry == [NoCall EXCEPT !.kind = kind, !.by = p, !.version = chat.version]
  <2>1. entry \in CallRows
    BY <1>1, <1>2, StartRowsTyped
  <2>2. CallShaped(entry)
    BY <1>1, <1>2, <1>6, NoCallTyped DEF CallShaped, CallRows, StartStatus
  <2> HIDE DEF entry
  <2>3. Begins(c, entry) /\ UNCHANGED <<chat, member, humans, messages, pins, edits, file>>
    BY <1>6 DEF StartStatus, entry
  <2>4. QED
    BY <1>1, <2>1, <2>2, <2>3, BeginsTyped
<1>7. ASSUME NEW f \in Uploads, StartStage(c, p, f) PROVE ConversationTyped'
  <2> DEFINE entry == [NoCall EXCEPT !.kind = "stage", !.by = p, !.files = {f}]
  <2>1. entry \in CallRows
    BY <1>1, <1>2, StartRowsTyped
  <2>2. CallShaped(entry)
    BY <1>1, <1>2, <1>7, NoCallTyped DEF CallShaped, CallRows, StartStage
  <2> HIDE DEF entry
  <2>3. Begins(c, entry) /\ UNCHANGED <<chat, member, humans, messages, pins, edits>>
    BY <1>7 DEF StartStage, entry
  <2>4. [NoUpload EXCEPT !.status = "stored", !.by = p] \in FileRows
    BY ConversationBounds, NoCallTyped DEF FileRows
  <2>5. file' \in [Uploads -> FileRows]
    BY <1>1, <1>7, <2>4 DEF StartStage
  <2>6. QED
    BY <2>1, <2>2, <2>3, <2>5, BeginsTyped
<1>8. ASSUME NEW fs \in SUBSET Uploads, StartSend(c, p, fs) PROVE ConversationTyped'
  <2> DEFINE entry == [NoCall EXCEPT !.kind = "send", !.by = p, !.files = fs, !.next = chat.next]
  <2>1. entry \in CallRows
    BY <1>1, <1>2, StartRowsTyped
  <2>2. CallShaped(entry)
    BY <1>1, <1>2, <1>8, NoCallTyped DEF CallShaped, CallRows, StartSend
  <2> HIDE DEF entry
  <2>3. Begins(c, entry) /\ UNCHANGED <<chat, member, humans, messages, pins, edits, file>>
    BY <1>8 DEF StartSend, entry
  <2>4. QED
    BY <1>1, <2>1, <2>2, <2>3, BeginsTyped
<1>9. ASSUME NEW m \in 1..MaxMessages, StartPin(c, p, m) PROVE ConversationTyped'
  <2> DEFINE entry == [NoCall EXCEPT !.kind = "pin", !.by = p, !.next = m]
  <2>1. entry \in CallRows
    <3>1. m \in 0..MaxMessages + 1
      BY ConversationBounds
    <3>2. QED
      BY <3>1, <1>2, StartRowsTyped
  <2>2. CallShaped(entry)
    BY <1>1, <1>2, <1>9, NoCallTyped DEF CallShaped, CallRows, StartPin
  <2> HIDE DEF entry
  <2>3. Begins(c, entry) /\ UNCHANGED <<chat, member, humans, messages, pins, edits, file>>
    BY <1>9 DEF StartPin, entry
  <2>4. QED
    BY <1>1, <2>1, <2>2, <2>3, BeginsTyped
<1>10. QED
  BY <1>3, <1>4, <1>5, <1>6, <1>7, <1>8, <1>9

\* the effect of a commit on the members, one entry at most
LEMMA MemberSteps ==
  ASSUME ConversationTyped, NEW c \in Calls, CommitAdd(c) \/ CommitRole(c) \/ CommitRemove(c)
  PROVE  \/ UNCHANGED <<member, edits>>
         \/ /\ Edit
            /\ \E of \in Members, entry \in MemberRows :
                 /\ of = call[c].of /\ member' = [member EXCEPT ![of] = entry]
                 /\ entry.version = member[of].version + 1
                 /\ \/ OwnerLeft(of, entry)
                    \/ call[c].kind = "add" /\ call[c].version = member[of].version
<1> DEFINE q == call[c]
           of == q.of
<1>1. q \in CallRows /\ q.kind \in {"add", "role", "remove"} /\ of \in Members /\ member[of] \in MemberRows
  BY DEF CommitAdd, CommitRole, CommitRemove, ConversationTyped, ConversationTypeOK, CallsShaped, CallShaped
<1>2. CASE Edit
  <2>1. member[of].version + 1 \in 0..MaxEdits + 1
    <3>1. member[of].version <= edits + 1 /\ edits \in Nat /\ edits < MaxEdits /\ member[of].version \in Nat
      BY <1>1, <1>2 DEF Edit, ConversationTyped, ConversationTypeOK, VersionsCounted, MemberRows
    <3>2. QED
      BY <3>1, ConversationBounds
  <2> DEFINE v == member[of].version + 1
             row1 == [role |-> q.role, status |-> "active", version |-> v]
             row2 == [member[of] EXCEPT !.role = q.role, !.version = v]
             row3(st) == [member[of] EXCEPT !.status = st, !.version = v]
  <2>2. /\ row1 \in MemberRows /\ row1.version = v
        /\ row2 \in MemberRows /\ row2.version = v
        /\ \A st \in {"left", "removed"} : row3(st) \in MemberRows /\ row3(st).version = v
    <3> HIDE DEF v, of, q
    <3>1. q.role \in ChatRoles
      BY <1>1 DEF CallRows
    <3>2. v \in 0..MaxEdits + 1
      BY <2>1 DEF v
    <3>3. QED
      BY <1>1, <3>1, <3>2 DEF MemberRows
  <2>3. CASE CommitAdd(c)
    <3>1. UNCHANGED <<member, edits>> \/ (member' = [member EXCEPT ![of] = row1] /\ q.kind = "add" /\ q.version = member[of].version)
      BY <2>3 DEF CommitAdd
    <3> HIDE DEF row1
    <3>2. QED
      BY <1>1, <1>2, <2>2, <3>1
  <2>4. CASE CommitRole(c)
    <3>1. UNCHANGED <<member, edits>> \/ (member' = [member EXCEPT ![of] = row2] /\ OwnerLeft(of, row2))
      BY <2>4 DEF CommitRole, Updates
    <3> HIDE DEF row2
    <3>2. QED
      BY <1>1, <1>2, <2>2, <3>1
  <2>5. CASE CommitRemove(c)
    <3>1. \/ UNCHANGED <<member, edits>>
          \/ \E st \in {"left", "removed"} : member' = [member EXCEPT ![of] = row3(st)] /\ OwnerLeft(of, row3(st))
      BY <2>5 DEF CommitRemove, Updates
    <3> HIDE DEF row3
    <3>2. QED
      BY <1>1, <1>2, <2>2, <3>1
  <2>6. QED
    BY <2>3, <2>4, <2>5
<1>3. CASE ~Edit
  BY <1>3 DEF CommitAdd, CommitRole, CommitRemove, Updates
<1>4. QED
  BY <1>2, <1>3

LEMMA MemberCommitsTyped ==
  ASSUME ConversationTyped, NEW c \in Calls, CommitAdd(c) \/ CommitRole(c) \/ CommitRemove(c)
  PROVE  ConversationTyped'
<1>1. UNCHANGED <<chat, humans, messages, file, pins>> /\ EndCall(c)
  BY DEF CommitAdd, CommitRole, CommitRemove
<1>2. call' \in [Calls -> CallRows] /\ CallsShaped'
  <2>1. Len(messages) \in Nat /\ Len(messages) >= Len(messages)
    BY LenProperties DEF ConversationTyped, ConversationTypeOK
  <2>2. QED
    BY <1>1, <2>1, EndCallTyped
<1>3. CASE UNCHANGED <<member, edits>>
  BY <1>1, <1>2, <1>3 DEF ConversationTyped, ConversationTypeOK, VersionsCounted, MessagesNumbered
<1>4. ASSUME Edit, NEW of \in Members, NEW entry \in MemberRows, member' = [member EXCEPT ![of] = entry],
             entry.version = member[of].version + 1
      PROVE  ConversationTyped'
  <2>1. edits' \in 0..MaxEdits /\ edits' = edits + 1 /\ edits \in Nat
    BY <1>4, EditTyped DEF ConversationTyped, ConversationTypeOK
  <2>2. member' \in [Members -> MemberRows]
    BY <1>4 DEF ConversationTyped, ConversationTypeOK
  <2>3. VersionsCounted'
    <3>1. chat.version \in Nat /\ \A p \in Members : member[p].version \in Nat
      BY ConversationBounds DEF ConversationTyped, ConversationTypeOK, Chats, MemberRows
    <3>2. chat.version <= edits + 1 /\ \A p \in Members : member[p].version <= edits + 1
      BY DEF ConversationTyped, VersionsCounted
    <3>3. \A p \in Members : member'[p].version <= edits + 2
      BY <1>4, <2>1, <3>1, <3>2 DEF ConversationTyped, ConversationTypeOK
    <3>4. QED
      BY <1>1, <2>1, <3>1, <3>2, <3>3 DEF VersionsCounted
  <2>4. QED
    BY <1>1, <1>2, <2>1, <2>2, <2>3 DEF ConversationTyped, ConversationTypeOK, MessagesNumbered
<1>5. QED
  BY <1>3, <1>4, MemberSteps

LEMMA StatusTyped == ASSUME ConversationTyped, NEW c \in Calls, CommitStatus(c) PROVE ConversationTyped'
<1>1. UNCHANGED <<member, humans, messages, file, pins>> /\ EndCall(c)
  BY DEF CommitStatus
<1>2. call' \in [Calls -> CallRows] /\ CallsShaped'
  <2>1. Len(messages) \in Nat /\ Len(messages) >= Len(messages)
    BY LenProperties DEF ConversationTyped, ConversationTypeOK
  <2>2. QED
    BY <1>1, <2>1, EndCallTyped
<1>3. CASE UNCHANGED <<chat, edits>>
  BY <1>1, <1>2, <1>3 DEF ConversationTyped, ConversationTypeOK, VersionsCounted, MessagesNumbered
<1>4. ASSUME Edit, NEW st \in {"active", "archived"},
             chat' = [chat EXCEPT !.status = st, !.version = @ + 1]
      PROVE  ConversationTyped'
  <2>1. edits' \in 0..MaxEdits /\ edits' = edits + 1 /\ edits \in Nat /\ edits < MaxEdits
    BY <1>4, EditTyped DEF ConversationTyped, ConversationTypeOK, Edit
  <2>2. chat.version \in Nat /\ chat.version >= 1 /\ chat.version <= edits + 1
    BY ConversationBounds DEF ConversationTyped, ConversationTypeOK, VersionsCounted, Chats
  <2>3. chat.version + 1 \in 1..MaxEdits + 1
    BY <2>1, <2>2, ConversationBounds
  <2>4. chat' \in Chats /\ chat'.version = chat.version + 1 /\ chat'.next = chat.next
    BY <1>4, <2>3 DEF ConversationTyped, ConversationTypeOK, Chats
  <2>5. VersionsCounted'
    <3>1. \A p \in Members : member[p].version \in Nat /\ member[p].version <= edits + 1
      BY ConversationBounds DEF ConversationTyped, ConversationTypeOK, MemberRows, VersionsCounted
    <3>2. QED
      BY <1>1, <2>1, <2>2, <2>4, <3>1 DEF VersionsCounted
  <2>6. QED
    BY <1>1, <1>2, <2>1, <2>4, <2>5 DEF ConversationTyped, ConversationTypeOK, MessagesNumbered
<1>5. QED
  BY <1>3, <1>4 DEF CommitStatus

LEMMA StageTyped == ASSUME ConversationTyped, NEW c \in Calls, CommitStage(c) PROVE ConversationTyped'
<1>1. UNCHANGED <<chat, member, humans, messages, pins, edits>> /\ EndCall(c)
  BY DEF CommitStage
<1>2. call' \in [Calls -> CallRows] /\ CallsShaped'
  <2>1. Len(messages) \in Nat /\ Len(messages) >= Len(messages)
    BY LenProperties DEF ConversationTyped, ConversationTypeOK
  <2>2. QED
    BY <1>1, <2>1, EndCallTyped
<1>3. file' \in [Uploads -> FileRows]
  <2>1. PICK f \in call[c].files, entry \in FileRows : file' = [file EXCEPT ![f] = entry]
    <3>1. PICK f \in call[c].files :
            file' = [file EXCEPT ![f] = IF Open /\ Writes(call[c].by) THEN [@ EXCEPT !.status = "staged"] ELSE NoUpload]
      BY DEF CommitStage
    <3>2. f \in Uploads /\ file[f] \in FileRows
      BY <3>1 DEF ConversationTyped, ConversationTypeOK, CallRows
    <3>3. [file[f] EXCEPT !.status = "staged"] \in FileRows /\ NoUpload \in FileRows
      BY <3>2, NoCallTyped DEF FileRows
    <3>4. QED
      BY <3>1, <3>2, <3>3 DEF ConversationTyped, ConversationTypeOK
  <2>2. QED
    BY <2>1 DEF ConversationTyped, ConversationTypeOK
<1>4. QED
  BY <1>1, <1>2, <1>3 DEF ConversationTyped, ConversationTypeOK, VersionsCounted, MessagesNumbered

LEMMA SendTyped == ASSUME ConversationTyped, NEW c \in Calls, CommitSend(c) PROVE ConversationTyped'
<1> DEFINE q == call[c]
           new == [sequence |-> chat.next, sender |-> q.by, files |-> q.files]
<1>1. UNCHANGED <<member, humans, pins, edits>> /\ EndCall(c) /\ chat.next <= MaxMessages /\ q.kind = "send"
  BY DEF CommitSend
<1>2. /\ messages \in Seq(Message) /\ Len(messages) \in Nat /\ Len(messages) + 1 = chat.next
      /\ chat.next \in 1..MaxMessages /\ chat.next + 1 \in 1..MaxMessages + 1
  BY <1>1, LenProperties, ConversationBounds
     DEF ConversationTyped, ConversationTypeOK, MessagesNumbered, Chats
<1>3. q \in CallRows /\ q.by \in Members /\ q.files \subseteq Uploads
  BY <1>1 DEF ConversationTyped, ConversationTypeOK, CallsShaped, CallShaped, CallRows
<1>4. new \in Message
  BY <1>2, <1>3 DEF Message
<1>5. CASE UNCHANGED <<messages, file, chat>>
  <2>1. call' \in [Calls -> CallRows] /\ CallsShaped'
    <3>1. Len(messages) >= Len(messages)
      BY <1>2
    <3>2. QED
      BY <1>1, <1>2, <1>5, <3>1, EndCallTyped
  <2>2. QED
    BY <1>1, <1>5, <2>1 DEF ConversationTyped, ConversationTypeOK, VersionsCounted, MessagesNumbered
<1>6. ASSUME messages' = Append(messages, new),
             file' = [f \in Uploads |->
               IF f \in q.files /\ file[f].status = "staged" /\ file[f].message = 0
               THEN [file[f] EXCEPT !.status = "attached", !.message = chat.next] ELSE file[f]],
             chat' = [chat EXCEPT !.next = @ + 1]
      PROVE  ConversationTyped'
  <2>1. messages' \in Seq(Message) /\ Len(messages') = Len(messages) + 1
    <3> HIDE DEF new
    <3>1. QED
      BY <1>2, <1>4, <1>6, AppendProperties
  <2>2. call' \in [Calls -> CallRows] /\ CallsShaped'
    <3>1. Len(messages') >= Len(messages) /\ Len(messages') \in Nat
      BY <1>2, <2>1
    <3>2. QED
      BY <1>1, <3>1, EndCallTyped
  <2>3. file' \in [Uploads -> FileRows]
    <3>1. ASSUME NEW f \in Uploads PROVE [file[f] EXCEPT !.status = "attached", !.message = chat.next] \in FileRows
      <4>1. file[f] \in FileRows /\ chat.next \in 0..MaxMessages
        BY <1>2 DEF ConversationTyped, ConversationTypeOK
      <4>2. QED
        BY <4>1 DEF FileRows
    <3>2. QED
      BY <1>6, <3>1 DEF ConversationTyped, ConversationTypeOK
  <2>4. chat' \in Chats /\ chat'.next = chat.next + 1 /\ chat'.version = chat.version
    BY <1>2, <1>6 DEF ConversationTyped, ConversationTypeOK, Chats
  <2>5. MessagesNumbered'
    <3>1. Len(messages') + 1 = chat'.next
      BY <1>2, <2>1, <2>4
    <3>2. ASSUME NEW m \in 1..Len(messages') PROVE messages'[m].sequence = m
      <4>1. CASE m \in 1..Len(messages)
        <5>1. messages'[m] = messages[m]
          <6> HIDE DEF new
          <6>1. \A i \in 1..Len(messages) : Append(messages, new)[i] = messages[i]
            BY <1>2, <1>4, AppendProperties
          <6>2. QED
            BY <1>6, <4>1, <6>1
        <5>2. QED
          BY <4>1, <5>1 DEF ConversationTyped, MessagesNumbered
      <4>2. CASE m = Len(messages) + 1
        <5>1. messages'[m] = new
          <6> HIDE DEF new
          <6>1. QED
            BY <1>2, <1>4, <1>6, <4>2, AppendProperties
        <5>2. QED
          BY <1>2, <4>2, <5>1
      <4>3. QED
        BY <1>2, <2>1, <4>1, <4>2
    <3>3. QED
      BY <3>1, <3>2 DEF MessagesNumbered
  <2>6. QED
    BY <1>1, <2>1, <2>2, <2>3, <2>4, <2>5 DEF ConversationTyped, ConversationTypeOK, VersionsCounted
<1>7. QED
  BY <1>5, <1>6 DEF CommitSend

LEMMA PinsTyped ==
  ASSUME ConversationTyped,
         \/ \E c \in Calls : CommitPin(c)
         \/ \E p \in Members, pin \in pins : Unpin(p, pin)
  PROVE  ConversationTyped'
<1>1. Len(messages) \in Nat /\ Len(messages) >= Len(messages) /\ IsFiniteSet(pins) /\ Cardinality(pins) \in Nat
      /\ Len(messages) <= MaxMessages
  <2>1. Len(messages) \in Nat /\ IsFiniteSet(pins) /\ Cardinality(pins) \in Nat
    BY LenProperties, FS_CardinalityType DEF ConversationTyped, ConversationTypeOK
  <2>2. chat.next \in 1..MaxMessages + 1 /\ Len(messages) + 1 = chat.next
    BY DEF ConversationTyped, ConversationTypeOK, MessagesNumbered, Chats
  <2>3. QED
    BY <2>1, <2>2, ConversationBounds
<1>2. ASSUME NEW c \in Calls, CommitPin(c) PROVE ConversationTyped'
  <2>1. UNCHANGED <<chat, member, humans, messages, file, edits>> /\ EndCall(c) /\ call[c].kind = "pin"
    BY <1>2 DEF CommitPin
  <2>2. call' \in [Calls -> CallRows] /\ CallsShaped'
    BY <1>1, <2>1, EndCallTyped
  <2>3. CASE UNCHANGED pins
    BY <2>1, <2>2, <2>3 DEF ConversationTyped, ConversationTypeOK, VersionsCounted, MessagesNumbered
  <2>4. CASE AcceptsPin(call[c])
    <3> DEFINE new == [message |-> call[c].next, by |-> call[c].by]
    <3>1. new \in [message : 1..MaxMessages, by : Members]
      <4>1. call[c].by \in Members /\ call[c].next \in 1..Len(messages)
        BY <2>1 DEF ConversationTyped, CallsShaped, CallShaped
      <4>2. call[c].next \in 1..MaxMessages
        BY <1>1, <4>1, ConversationBounds
      <4>3. QED
        BY <4>1, <4>2
    <3> HIDE DEF new
    <3>2. pins' = pins \cup {new}
      BY <1>2, <2>4 DEF CommitPin, new
    <3>3. IsFiniteSet(pins') /\ Cardinality(pins') <= Cardinality(pins) + 1 /\ Cardinality(pins') \in Nat
      <4>1. CASE new \in pins
        <5>1. pins' = pins
          BY <3>2, <4>1
        <5>2. QED
          BY <1>1, <5>1
      <4>2. CASE new \notin pins
        <5>1. IsFiniteSet(pins') /\ Cardinality(pins') = Cardinality(pins) + 1
          BY <1>1, <3>2, <4>2, FS_AddElement
        <5>2. QED
          BY <1>1, <5>1
      <4>3. QED
        BY <4>1, <4>2
    <3>4. Cardinality(pins') <= MaxPins
      BY <1>1, <2>4, <3>3, ConversationBounds DEF AcceptsPin
    <3>5. QED
      BY <2>1, <2>2, <3>1, <3>2, <3>3, <3>4
         DEF ConversationTyped, ConversationTypeOK, VersionsCounted, MessagesNumbered
  <2>5. QED
    BY <1>2, <2>3, <2>4 DEF CommitPin
<1>3. ASSUME NEW p \in Members, NEW pin \in pins, Unpin(p, pin) PROVE ConversationTyped'
  <2>1. UNCHANGED <<chat, member, humans, messages, file, call>> /\ Edit /\ pins' = pins \ {pin}
    BY <1>3 DEF Unpin
  <2>2. IsFiniteSet(pins') /\ Cardinality(pins') <= Cardinality(pins) /\ Cardinality(pins') \in Nat
    <3>1. pins' \subseteq pins
      BY <2>1
    <3>2. QED
      BY <1>1, <3>1, FS_Subset, FS_CardinalityType
  <2>3. pins' \subseteq [message : 1..MaxMessages, by : Members] /\ Cardinality(pins') <= MaxPins
    <3>1. Cardinality(pins) <= MaxPins
      BY DEF ConversationTyped, ConversationTypeOK
    <3>2. Cardinality(pins') <= MaxPins
      BY <1>1, <2>2, <3>1, ConversationBounds
    <3>3. QED
      BY <2>1, <3>2 DEF ConversationTyped, ConversationTypeOK
  <2>4. edits' \in 0..MaxEdits /\ edits' = edits + 1 /\ edits \in Nat
    BY <2>1, EditTyped DEF ConversationTyped, ConversationTypeOK
  <2>5. VersionsCounted'
    <3>1. chat.version \in Nat /\ \A o \in Members : member[o].version \in Nat
      BY ConversationBounds DEF ConversationTyped, ConversationTypeOK, Chats, MemberRows
    <3>2. QED
      BY <2>1, <2>4, <3>1 DEF ConversationTyped, VersionsCounted
  <2>6. QED
    BY <2>1, <2>2, <2>3, <2>4, <2>5
       DEF ConversationTyped, ConversationTypeOK, CallsShaped, CallShaped, MessagesNumbered
<1>4. QED
  BY <1>2, <1>3

LEMMA OutsideTyped ==
  ASSUME ConversationTyped,
         \/ \E c \in Calls : LoseCall(c)
         \/ \E p \in Members : ChangeMembership(p)
  PROVE  ConversationTyped'
<1>1. ASSUME NEW c \in Calls, LoseCall(c) PROVE ConversationTyped'
  <2>1. UNCHANGED <<chat, member, humans, messages, file, pins, edits>> /\ EndCall(c)
    BY <1>1 DEF LoseCall
  <2>2. Len(messages) \in Nat /\ Len(messages) >= Len(messages)
    BY LenProperties DEF ConversationTyped, ConversationTypeOK
  <2>3. call' \in [Calls -> CallRows] /\ CallsShaped'
    BY <2>1, <2>2, EndCallTyped
  <2>4. QED
    BY <2>1, <2>3 DEF ConversationTyped, ConversationTypeOK, VersionsCounted, MessagesNumbered
<1>2. ASSUME NEW p \in Members, ChangeMembership(p) PROVE ConversationTyped'
  <2>1. UNCHANGED <<chat, member, messages, file, pins, call>> /\ Edit /\ humans' \subseteq Members
    BY <1>2 DEF ChangeMembership, ConversationTyped, ConversationTypeOK
  <2>2. edits' \in 0..MaxEdits /\ edits' = edits + 1 /\ edits \in Nat
    BY <2>1, EditTyped DEF ConversationTyped, ConversationTypeOK
  <2>3. chat.version \in Nat /\ \A o \in Members : member[o].version \in Nat
    BY ConversationBounds DEF ConversationTyped, ConversationTypeOK, Chats, MemberRows
  <2>4. VersionsCounted'
    BY <2>1, <2>2, <2>3 DEF ConversationTyped, VersionsCounted
  <2>5. QED
    BY <2>1, <2>2, <2>4 DEF ConversationTyped, ConversationTypeOK, CallsShaped, CallShaped, MessagesNumbered
<1>3. QED
  BY <1>1, <1>2

LEMMA ConversationStepTyped ==
  ASSUME ConversationTyped, [ConversationNext]_cvars PROVE ConversationTyped'
<1>1. CASE UNCHANGED cvars
  BY <1>1 DEF cvars, ConversationTyped, ConversationTypeOK, CallsShaped, CallShaped, VersionsCounted, MessagesNumbered
<1>2. CASE ConversationNext
  <2>1. CASE \E c \in Calls : \/ LoseCall(c) \/ CommitAdd(c) \/ CommitRole(c) \/ CommitRemove(c) \/ CommitStatus(c)
                            \/ CommitStage(c) \/ CommitSend(c) \/ CommitPin(c)
    BY <2>1, OutsideTyped, PinsTyped, SendTyped, StageTyped, StatusTyped, MemberCommitsTyped
  <2>2. CASE \E c \in Calls : \E p, of \in Members :
               StartRemove(c, p, of) \/ \E role \in ChatRoles : StartAdd(c, p, of, role) \/ StartRole(c, p, of, role)
    <3>1. PICK c \in Calls, p \in Members, of \in Members, role \in ChatRoles :
            StartAdd(c, p, of, role) \/ StartRole(c, p, of, role) \/ StartRemove(c, p, of)
      BY <2>2 DEF ChatRoles
    <3>2. QED
      BY <3>1, StartsTyped
  <2>3. CASE \E c \in Calls, p \in Members :
               \/ \E kind \in {"archive", "reopen"} : StartStatus(c, p, kind)
               \/ \E f \in Uploads : StartStage(c, p, f)
               \/ \E fs \in SUBSET Uploads : StartSend(c, p, fs)
               \/ \E m \in 1..MaxMessages : StartPin(c, p, m)
    BY <2>3, StartsTyped
  <2>4. CASE \E p \in Members : ChangeMembership(p) \/ \E pin \in pins : Unpin(p, pin)
    BY <2>4, OutsideTyped, PinsTyped
  <2>5. QED
    BY <1>2, <2>1, <2>2, <2>3, <2>4 DEF ConversationNext
<1>3. QED
  BY <1>1, <1>2

-----------------------------------------------------------------------------
(* Owners *)

\* a commit changes one member at most; a version never falls, and a entry
\* that keeps its version is the entry it was
LEMMA OwnersStep ==
  ASSUME ConversationTyped, AddsAreNew, [ConversationNext]_cvars
  PROVE  \/ UNCHANGED member
         \/ \E of \in Members, entry \in MemberRows :
              /\ member' = [member EXCEPT ![of] = entry] /\ entry.version = member[of].version + 1
              /\ OwnerLeft(of, entry) \/ ~Active(of)
<1>1. ASSUME NEW c \in Calls, CommitAdd(c) \/ CommitRole(c) \/ CommitRemove(c)
      PROVE  \/ UNCHANGED member
             \/ \E of \in Members, entry \in MemberRows :
                  /\ member' = [member EXCEPT ![of] = entry] /\ entry.version = member[of].version + 1
                  /\ OwnerLeft(of, entry) \/ ~Active(of)
  BY <1>1, MemberSteps DEF AddsAreNew
<1>2. CASE UNCHANGED cvars
  BY <1>2 DEF cvars
<1>3. CASE ConversationNext
  <2>1. ASSUME NEW c \in Calls, LoseCall(c) \/ CommitStatus(c) \/ CommitStage(c) \/ CommitSend(c) \/ CommitPin(c)
        PROVE  UNCHANGED member
    BY <2>1 DEF LoseCall, CommitStatus, CommitStage, CommitSend, CommitPin
  <2>2. ASSUME NEW c \in Calls, NEW p \in Members, NEW of \in Members, NEW role,
               StartRemove(c, p, of) \/ StartAdd(c, p, of, role) \/ StartRole(c, p, of, role)
        PROVE  UNCHANGED member
    BY <2>2 DEF StartRemove, StartAdd, StartRole
  <2>3. ASSUME NEW c \in Calls, NEW p \in Members, NEW x,
               StartStatus(c, p, x) \/ StartStage(c, p, x) \/ StartSend(c, p, x) \/ StartPin(c, p, x)
        PROVE  UNCHANGED member
    BY <2>3 DEF StartStatus, StartStage, StartSend, StartPin
  <2>4. ASSUME NEW p \in Members, ChangeMembership(p) \/ \E pin \in pins : Unpin(p, pin)
        PROVE  UNCHANGED member
    BY <2>4 DEF ChangeMembership, Unpin
  <2>5. QED
    BY <1>1, <1>3, <2>1, <2>2, <2>3, <2>4 DEF ConversationNext
<1>4. QED
  BY <1>2, <1>3

LEMMA OwnersStay ==
  ASSUME ConversationTyped, AddsAreNew, OwnerRemains, [ConversationNext]_cvars PROVE OwnerRemains'
<1>1. CASE UNCHANGED member
  BY <1>1 DEF OwnerRemains, Owner, Active
<1>2. ASSUME NEW of \in Members, NEW entry \in MemberRows, member' = [member EXCEPT ![of] = entry],
             OwnerLeft(of, entry) \/ ~Active(of)
      PROVE  OwnerRemains'
  <2>1. member' \in [Members -> MemberRows] /\ member'[of] = entry /\ \A p \in Members \ {of} : member'[p] = member[p]
    BY <1>2 DEF ConversationTyped, ConversationTypeOK
  <2>2. PICK o \in Members : Owner(o)
    BY DEF OwnerRemains
  <2>3. CASE o # of
    BY <2>1, <2>2, <2>3 DEF OwnerRemains, Owner, Active
  <2>4. CASE o = of
    BY <1>2, <2>1, <2>2, <2>4 DEF OwnerRemains, OwnerLeft, OtherOwner, Owner, Active
  <2>5. QED
    BY <2>3, <2>4
<1>3. QED
  BY <1>1, <1>2, OwnersStep

\* an addition under way is the one it was, or begins on the entry as it is
LEMMA AddsStep ==
  ASSUME ConversationTyped, [ConversationNext]_cvars, NEW d \in Calls, call'[d].kind = "add"
  PROVE  \/ call'[d] = call[d]
         \/ /\ UNCHANGED member
            /\ call'[d].of \in Members /\ ~Active(call'[d].of) /\ call'[d].version = member[call'[d].of].version
<1>0. call \in [Calls -> CallRows]
  BY DEF ConversationTyped, ConversationTypeOK
<1>1. CASE call' = call
  BY <1>1
<1>2. ASSUME NEW c \in Calls, EndCall(c) PROVE call'[d] = call[d]
  BY <1>0, <1>2 DEF EndCall, NoCall
<1>3. ASSUME NEW c \in Calls, NEW entry, Begins(c, entry), entry.kind # "add" PROVE call'[d] = call[d]
  BY <1>0, <1>3 DEF Begins
<1>4. ASSUME NEW c \in Calls, NEW p \in Members, NEW of \in Members, NEW role \in ChatRoles,
             StartAdd(c, p, of, role)
      PROVE  \/ call'[d] = call[d]
             \/ /\ UNCHANGED member
                /\ call'[d].of \in Members /\ ~Active(call'[d].of) /\ call'[d].version = member[call'[d].of].version
  <2> DEFINE entry == [NoCall EXCEPT !.kind = "add", !.by = p, !.of = of, !.role = role,
                                !.version = member[of].version]
  <2>1. entry.of = of /\ entry.version = member[of].version
    BY DEF NoCall
  <2>2. Begins(c, entry) /\ ~Active(of) /\ UNCHANGED member
    BY <1>4 DEF StartAdd
  <2> HIDE DEF entry
  <2>3. call'[d] = call[d] \/ call'[d] = entry
    BY <1>0, <2>2 DEF Begins
  <2>4. QED
    BY <2>1, <2>2, <2>3
<1>5. ASSUME NEW c \in Calls, NEW p \in Members, NEW of \in Members, NEW role, StartRole(c, p, of, role)
      PROVE  call'[d] = call[d]
  <2>1. [NoCall EXCEPT !.kind = "role", !.by = p, !.of = of, !.role = role, !.version = member[of].version].kind # "add"
    BY DEF NoCall
  <2>2. QED
    BY <1>3, <1>5, <2>1 DEF StartRole
<1>6. ASSUME NEW c \in Calls, NEW p \in Members, NEW of \in Members, StartRemove(c, p, of) PROVE call'[d] = call[d]
  <2>1. [NoCall EXCEPT !.kind = "remove", !.by = p, !.of = of, !.version = member[of].version].kind # "add"
    BY DEF NoCall
  <2>2. QED
    BY <1>3, <1>6, <2>1 DEF StartRemove
<1>7. ASSUME NEW c \in Calls, NEW p \in Members, NEW x,
             StartStatus(c, p, x) \/ StartStage(c, p, x) \/ StartSend(c, p, x) \/ StartPin(c, p, x)
      PROVE  call'[d] = call[d]
  <2>1. /\ x \in {"archive", "reopen"} => [NoCall EXCEPT !.kind = x, !.by = p, !.version = chat.version].kind # "add"
        /\ [NoCall EXCEPT !.kind = "stage", !.by = p, !.files = {x}].kind # "add"
        /\ [NoCall EXCEPT !.kind = "send", !.by = p, !.files = x, !.next = chat.next].kind # "add"
        /\ [NoCall EXCEPT !.kind = "pin", !.by = p, !.next = x].kind # "add"
    BY DEF NoCall
  <2>2. CASE StartStatus(c, p, x)
    BY <1>3, <2>1, <2>2 DEF StartStatus
  <2>3. CASE StartStage(c, p, x)
    BY <1>3, <2>1, <2>3 DEF StartStage
  <2>4. CASE StartSend(c, p, x)
    BY <1>3, <2>1, <2>4 DEF StartSend
  <2>5. CASE StartPin(c, p, x)
    BY <1>3, <2>1, <2>5 DEF StartPin
  <2>6. QED
    BY <1>7, <2>2, <2>3, <2>4, <2>5
<1>8. ASSUME NEW c \in Calls, \/ LoseCall(c) \/ CommitAdd(c) \/ CommitRole(c) \/ CommitRemove(c) \/ CommitStatus(c)
                              \/ CommitStage(c) \/ CommitSend(c) \/ CommitPin(c)
      PROVE  call'[d] = call[d]
  BY <1>2, <1>8 DEF LoseCall, CommitAdd, CommitRole, CommitRemove, CommitStatus, CommitStage, CommitSend, CommitPin
<1>9. ASSUME NEW p \in Members, ChangeMembership(p) \/ \E pin \in pins : Unpin(p, pin) PROVE call' = call
  BY <1>9 DEF ChangeMembership, Unpin
<1>10. CASE UNCHANGED cvars
  BY <1>10 DEF cvars
<1>11. QED
  BY <1>1, <1>4, <1>5, <1>6, <1>7, <1>8, <1>9, <1>10 DEF ConversationNext, ChatRoles

LEMMA AddsStayNew ==
  ASSUME ConversationTyped, AddsAreNew, [ConversationNext]_cvars PROVE AddsAreNew'
<1> SUFFICES ASSUME NEW d \in Calls, call'[d].kind = "add"
             PROVE  /\ call'[d].version <= member'[call'[d].of].version
                    /\ call'[d].version = member'[call'[d].of].version =>
                         member'[call'[d].of].status # "active"
  BY DEF AddsAreNew, Active
<1> DEFINE of == call'[d].of
           v == call'[d].version
<1>1. /\ member \in [Members -> MemberRows] /\ of \in Members /\ v <= member[of].version
      /\ v = member[of].version => ~Active(of)
      /\ v \in Nat
  <2>1. CASE call'[d] = call[d]
    BY <2>1, ConversationBounds
       DEF ConversationTyped, ConversationTypeOK, CallsShaped, CallShaped, AddsAreNew, CallRows
  <2>2. CASE call'[d] # call[d]
    BY <2>2, AddsStep, ConversationBounds DEF ConversationTyped, ConversationTypeOK, MemberRows
  <2>3. QED
    BY <2>1, <2>2
<1>2. CASE UNCHANGED member
  BY <1>1, <1>2 DEF Active
<1>3. ASSUME NEW m \in Members, NEW entry \in MemberRows, member' = [member EXCEPT ![m] = entry],
             entry.version = member[m].version + 1
      PROVE  v <= member'[of].version /\ (v = member'[of].version => member'[of].status # "active")
  <2>1. member[of].version \in Nat
    BY <1>1, ConversationBounds DEF MemberRows
  <2>2. CASE of = m
    BY <1>1, <1>3, <2>1, <2>2
  <2>3. CASE of # m
    BY <1>1, <1>3, <2>1, <2>3 DEF Active
  <2>4. QED
    BY <2>2, <2>3
<1>4. QED
  BY <1>2, <1>3, OwnersStep DEF Active

-----------------------------------------------------------------------------
(* Files *)

\* the steps that leave the files where they are begin no upload, and what
\* they begin carries staged files only
LEMMA FilesKept ==
  ASSUME ConversationTyped, FilesInv, UNCHANGED <<messages, file>>, chat'.next = chat.next,
         \A d \in Calls : \/ call'[d] = call[d]
                          \/ /\ call'[d].kind # "stage"
                             /\ \A f \in call'[d].files : file[f].status = "staged"
  PROVE  FilesInv'
<1>1. FilesBehind' /\ FilesOfMessage'
  BY DEF FilesInv, FilesBehind, FilesOfMessage
<1>2. StagesAlone'
  <2> SUFFICES ASSUME NEW c \in Calls, call'[c].kind = "stage"
               PROVE  /\ \A f \in call'[c].files : file'[f].status = "stored"
                      /\ \A d \in Calls \ {c} : call'[c].files \cap call'[d].files = {}
    BY DEF StagesAlone
  <2>1. call'[c] = call[c] /\ \A f \in call[c].files : file[f].status = "stored"
    BY DEF FilesInv, StagesAlone
  <2>2. ASSUME NEW d \in Calls \ {c} PROVE call'[c].files \cap call'[d].files = {}
    <3>1. CASE call'[d] = call[d]
      BY <2>1, <3>1 DEF FilesInv, StagesAlone
    <3>2. CASE \A f \in call'[d].files : file[f].status = "staged"
      BY <2>1, <3>2
    <3>3. QED
      BY <3>1, <3>2
  <2>3. QED
    BY <2>1, <2>2
<1>3. QED
  BY <1>1, <1>2 DEF FilesInv

\* a call that begins reading only, and one that ends leaving the files alone
LEMMA ReadsKeepFiles ==
  ASSUME ConversationTyped, FilesInv, NEW c \in Calls, UNCHANGED <<messages, file>>, chat'.next = chat.next,
         \/ EndCall(c)
         \/ \E entry : /\ Begins(c, entry) /\ entry.kind # "stage"
                     /\ \A f \in entry.files : file[f].status = "staged"
  PROVE  FilesInv'
<1>1. call \in [Calls -> CallRows]
  BY DEF ConversationTyped, ConversationTypeOK
<1>2. NoCall.kind # "stage" /\ NoCall.files = {}
  BY DEF NoCall
<1>3. \A d \in Calls : \/ call'[d] = call[d]
                       \/ call'[d].kind # "stage" /\ \A f \in call'[d].files : file[f].status = "staged"
  BY <1>1, <1>2 DEF EndCall, Begins
<1>4. QED
  BY <1>3, FilesKept

LEMMA StartsKeepFiles ==
  ASSUME ConversationTyped, FilesInv, NEW c \in Calls, NEW p \in Members
  PROVE  /\ \A of \in Members, role \in ChatRoles :
              StartAdd(c, p, of, role) \/ StartRole(c, p, of, role) \/ StartRemove(c, p, of) => FilesInv'
         /\ \A kind \in {"archive", "reopen"} : StartStatus(c, p, kind) => FilesInv'
         /\ \A fs \in SUBSET Uploads : StartSend(c, p, fs) => FilesInv'
         /\ \A m \in 1..MaxMessages : StartPin(c, p, m) => FilesInv'
<1>1. ASSUME NEW of \in Members, NEW role \in ChatRoles, StartAdd(c, p, of, role) PROVE FilesInv'
  <2> DEFINE entry == [NoCall EXCEPT !.kind = "add", !.by = p, !.of = of, !.role = role,
                                !.version = member[of].version]
  <2>1. entry.kind # "stage" /\ entry.files = {}
    BY DEF NoCall
  <2> HIDE DEF entry
  <2>2. Begins(c, entry) /\ UNCHANGED <<chat, messages, file>>
    BY <1>1 DEF StartAdd, entry
  <2>3. QED
    BY <2>1, <2>2, ReadsKeepFiles
<1>2. ASSUME NEW of \in Members, NEW role \in ChatRoles, StartRole(c, p, of, role) PROVE FilesInv'
  <2> DEFINE entry == [NoCall EXCEPT !.kind = "role", !.by = p, !.of = of, !.role = role,
                                !.version = member[of].version]
  <2>1. entry.kind # "stage" /\ entry.files = {}
    BY DEF NoCall
  <2> HIDE DEF entry
  <2>2. Begins(c, entry) /\ UNCHANGED <<chat, messages, file>>
    BY <1>2 DEF StartRole, entry
  <2>3. QED
    BY <2>1, <2>2, ReadsKeepFiles
<1>3. ASSUME NEW of \in Members, StartRemove(c, p, of) PROVE FilesInv'
  <2> DEFINE entry == [NoCall EXCEPT !.kind = "remove", !.by = p, !.of = of, !.version = member[of].version]
  <2>1. entry.kind # "stage" /\ entry.files = {}
    BY DEF NoCall
  <2> HIDE DEF entry
  <2>2. Begins(c, entry) /\ UNCHANGED <<chat, messages, file>>
    BY <1>3 DEF StartRemove, entry
  <2>3. QED
    BY <2>1, <2>2, ReadsKeepFiles
<1>4. ASSUME NEW kind \in {"archive", "reopen"}, StartStatus(c, p, kind) PROVE FilesInv'
  <2> DEFINE entry == [NoCall EXCEPT !.kind = kind, !.by = p, !.version = chat.version]
  <2>1. entry.kind # "stage" /\ entry.files = {}
    BY DEF NoCall
  <2> HIDE DEF entry
  <2>2. Begins(c, entry) /\ UNCHANGED <<chat, messages, file>>
    BY <1>4 DEF StartStatus, entry
  <2>3. QED
    BY <2>1, <2>2, ReadsKeepFiles
<1>5. ASSUME NEW fs \in SUBSET Uploads, StartSend(c, p, fs) PROVE FilesInv'
  <2> DEFINE entry == [NoCall EXCEPT !.kind = "send", !.by = p, !.files = fs, !.next = chat.next]
  <2>1. entry.kind # "stage" /\ entry.files = fs
    BY DEF NoCall
  <2> HIDE DEF entry
  <2>2. Begins(c, entry) /\ UNCHANGED <<chat, messages, file>> /\ \A f \in fs : file[f].status = "staged"
    BY <1>5 DEF StartSend, Unattached, entry
  <2>3. QED
    BY <2>1, <2>2, ReadsKeepFiles
<1>6. ASSUME NEW m \in 1..MaxMessages, StartPin(c, p, m) PROVE FilesInv'
  <2> DEFINE entry == [NoCall EXCEPT !.kind = "pin", !.by = p, !.next = m]
  <2>1. entry.kind # "stage" /\ entry.files = {}
    BY DEF NoCall
  <2> HIDE DEF entry
  <2>2. Begins(c, entry) /\ UNCHANGED <<chat, messages, file>>
    BY <1>6 DEF StartPin, entry
  <2>3. QED
    BY <2>1, <2>2, ReadsKeepFiles
<1>7. QED
  BY <1>1, <1>2, <1>3, <1>4, <1>5, <1>6

\* the object is stored before the entry, under an id no call carries
LEMMA StartStageKeepsFiles ==
  ASSUME ConversationTyped, FilesInv, NEW c \in Calls, NEW p \in Members, NEW f \in Uploads, StartStage(c, p, f)
  PROVE  FilesInv'
<1> DEFINE entry == [NoCall EXCEPT !.kind = "stage", !.by = p, !.files = {f}]
           stored == [NoUpload EXCEPT !.status = "stored", !.by = p]
<1>1. entry.kind = "stage" /\ entry.files = {f} /\ stored.status = "stored" /\ stored.message = 0
  BY DEF NoCall, NoUpload
<1> HIDE DEF entry, stored
<1>2. /\ Begins(c, entry) /\ file' = [file EXCEPT ![f] = stored] /\ UNCHANGED <<chat, messages>>
      /\ file[f].status = "none" /\ \A d \in Calls : f \notin call[d].files
  BY DEF StartStage, entry, stored
<1>3. /\ call'[c] = entry /\ \A d \in Calls \ {c} : call'[d] = call[d]
      /\ file'[f] = stored /\ \A g \in Uploads \ {f} : file'[g] = file[g]
      /\ \A d \in Calls : call[d].files \subseteq Uploads
  BY <1>2 DEF Begins, ConversationTyped, ConversationTypeOK, CallRows
<1>4. file[f].message = 0
  BY <1>2 DEF FilesInv, FilesOfMessage
<1>5. StagesAlone'
  BY <1>1, <1>2, <1>3 DEF FilesInv, StagesAlone
<1>6. FilesBehind' /\ FilesOfMessage'
  <2>1. \A g \in Uploads : file'[g].message = file[g].message /\
           (file'[g].status = "attached" <=> file[g].status = "attached")
    BY <1>1, <1>2, <1>3, <1>4
  <2>2. QED
    BY <1>2, <2>1 DEF FilesInv, FilesBehind, FilesOfMessage
<1>7. QED
  BY <1>5, <1>6 DEF FilesInv

\* the entry that follows, or the object's deletion
LEMMA CommitStageKeepsFiles ==
  ASSUME ConversationTyped, FilesInv, NEW c \in Calls, CommitStage(c) PROVE FilesInv'
<1>1. PICK f \in call[c].files : file' = [file EXCEPT ![f] =
         IF Open /\ Writes(call[c].by) THEN [@ EXCEPT !.status = "staged"] ELSE NoUpload]
  BY DEF CommitStage
<1>2. EndCall(c) /\ call[c].kind = "stage" /\ UNCHANGED <<chat, messages>>
  BY DEF CommitStage
<1>3. f \in Uploads /\ file[f] \in FileRows /\ file[f].status = "stored"
      /\ \A d \in Calls \ {c} : f \notin call[d].files
  BY <1>1, <1>2 DEF ConversationTyped, ConversationTypeOK, CallRows, FilesInv, StagesAlone
<1>4. file[f].message = 0
  BY <1>3 DEF FilesInv, FilesOfMessage
<1>5. /\ file'[f].message = 0 /\ file'[f].status # "attached"
      /\ \A g \in Uploads \ {f} : file'[g] = file[g]
  BY <1>1, <1>3, <1>4 DEF ConversationTyped, ConversationTypeOK, NoUpload, FileRows
<1>6. /\ \A d \in Calls \ {c} : call'[d] = call[d]
      /\ call'[c] = NoCall /\ NoCall.kind # "stage" /\ NoCall.files = {}
      /\ \A d \in Calls : call[d].files \subseteq Uploads
  BY <1>2 DEF EndCall, ConversationTyped, ConversationTypeOK, CallRows, NoCall
<1>7. StagesAlone'
  BY <1>3, <1>5, <1>6 DEF FilesInv, StagesAlone
<1>8. FilesBehind' /\ FilesOfMessage'
  <2>1. \A g \in Uploads : file'[g].message = file[g].message /\
           (file'[g].status = "attached" <=> file[g].status = "attached")
    BY <1>3, <1>4, <1>5
  <2>2. QED
    BY <1>2, <2>1 DEF FilesInv, FilesBehind, FilesOfMessage
<1>9. QED
  BY <1>7, <1>8 DEF FilesInv

\* the trigger attaches the files of an accepted message, all of them free
LEMMA CommitSendKeepsFiles ==
  ASSUME ConversationTyped, FilesInv, NEW c \in Calls, CommitSend(c) PROVE FilesInv'
<1> DEFINE q == call[c]
           n == chat.next
           new == [sequence |-> n, sender |-> q.by, files |-> q.files]
<1>1. EndCall(c) /\ q.kind = "send" /\ q \in CallRows /\ q.files \subseteq Uploads
  BY DEF CommitSend, ConversationTyped, ConversationTypeOK, CallRows
<1>2. CASE UNCHANGED <<messages, file, chat>>
  BY <1>1, <1>2, ReadsKeepFiles
<1>3. ASSUME AcceptsMessage(q), messages' = Append(messages, new),
             file' = [f \in Uploads |->
               IF f \in q.files /\ file[f].status = "staged" /\ file[f].message = 0
               THEN [file[f] EXCEPT !.status = "attached", !.message = n] ELSE file[f]],
             chat' = [chat EXCEPT !.next = @ + 1]
      PROVE  FilesInv'
  <2>1. /\ messages \in Seq(Message) /\ Len(messages) \in Nat /\ Len(messages) + 1 = n
        /\ n \in Nat /\ n >= 1 /\ chat'.next = n + 1 /\ DOMAIN messages = 1..Len(messages)
        /\ \A m \in 1..Len(messages) : messages[m].sequence = m
    <3>1. messages \in Seq(Message) /\ chat \in Chats /\ MessagesNumbered
      BY DEF ConversationTyped, ConversationTypeOK
    <3>2. /\ Len(messages) \in Nat /\ DOMAIN messages = 1..Len(messages)
          /\ n \in Nat /\ n >= 1
      BY <3>1, LenProperties, ConversationBounds DEF Chats
    <3>3. chat'.next = n + 1
      BY <1>3, <3>1 DEF Chats
    <3>4. QED
      BY <3>1, <3>2, <3>3 DEF MessagesNumbered
  <2>2. new \in Message
    <3>1. q.by \in Members
      BY <1>1 DEF ConversationTyped, CallsShaped, CallShaped
    <3>2. n \in 1..MaxMessages
      <4>1. n <= MaxMessages
        BY DEF CommitSend
      <4>2. QED
        BY <2>1, <4>1, ConversationBounds
    <3>3. QED
      BY <1>1, <3>1, <3>2 DEF Message
  <2>3. \A f \in q.files : file[f].status = "staged" /\ file[f].message = 0
    BY <1>3 DEF AcceptsMessage, Unattached
  <2>4. /\ \A f \in q.files : file'[f].status = "attached" /\ file'[f].message = n
        /\ \A f \in Uploads \ q.files : file'[f] = file[f]
    <3> HIDE DEF q, n, new
    <3>1. ASSUME NEW f \in q.files PROVE file'[f].status = "attached" /\ file'[f].message = n
      <4>1. file[f] \in FileRows /\ f \in Uploads
        BY <1>1 DEF ConversationTyped, ConversationTypeOK
      <4>2. file'[f] = [file[f] EXCEPT !.status = "attached", !.message = n]
        BY <1>3, <2>3, <4>1
      <4>3. QED
        BY <4>1, <4>2 DEF FileRows
    <3>2. QED
      BY <1>3, <3>1
  <2>5. \A f \in Uploads : file[f].message < n /\ file[f].message \in Nat
    BY ConversationBounds DEF FilesInv, FilesBehind, ConversationTyped, ConversationTypeOK, FileRows
  <2>6. /\ DOMAIN messages' = 1..n /\ messages'[n] = new
        /\ \A m \in 1..Len(messages) : messages'[m] = messages[m]
    <3> HIDE DEF new
    <3>1. /\ Append(messages, new) \in Seq(Message) /\ Len(Append(messages, new)) = Len(messages) + 1
          /\ Append(messages, new)[Len(messages) + 1] = new
          /\ \A i \in 1..Len(messages) : Append(messages, new)[i] = messages[i]
      BY <2>1, <2>2, AppendProperties
    <3>2. QED
      BY <1>3, <2>1, <3>1, LenProperties
  <2>7. FilesBehind'
    BY <1>1, <2>1, <2>4, <2>5 DEF FilesBehind
  <2>8. FilesOfMessage'
    <3>1. ASSUME NEW m \in 1..n
          PROVE  messages'[m].files = {f \in Uploads : file'[f].message = messages'[m].sequence}
      <4>1. CASE m = n
        <5>1. \A f \in Uploads : file'[f].message = n <=> f \in q.files
          BY <2>1, <2>4, <2>5
        <5>2. messages'[m].files = q.files /\ messages'[m].sequence = n
          BY <2>6, <4>1
        <5>3. QED
          BY <1>1, <5>1, <5>2
      <4>2. CASE m # n
        <5>1. m \in 1..Len(messages) /\ messages'[m] = messages[m] /\ messages[m].sequence = m /\ m # 0
          BY <2>1, <2>6, <4>2
        <5>2. messages[m].files = {f \in Uploads : file[f].message = m}
          BY <2>1, <5>1 DEF FilesInv, FilesOfMessage
        <5>3. \A f \in Uploads : file'[f].message = m <=> file[f].message = m
          BY <2>3, <2>4, <4>2, <5>1
        <5>4. QED
          BY <5>1, <5>2, <5>3
      <4>3. QED
        BY <4>1, <4>2
    <3>2. \A f \in Uploads : file'[f].message # 0 <=> file'[f].status = "attached"
      BY <2>1, <2>4 DEF FilesInv, FilesOfMessage
    <3>3. QED
      BY <2>6, <3>1, <3>2 DEF FilesOfMessage
  <2>9. StagesAlone'
    <3>1. /\ \A d \in Calls \ {c} : call'[d] = call[d]
          /\ call'[c].kind # "stage" /\ call'[c].files = {}
          /\ \A d \in Calls : call[d].files \subseteq Uploads
      BY <1>1 DEF EndCall, ConversationTyped, ConversationTypeOK, CallRows, NoCall
    <3>2. \A d \in Calls : call[d].kind = "stage" =>
             \A f \in call[d].files : file'[f].status = "stored"
      BY <2>3, <2>4, <3>1 DEF FilesInv, StagesAlone
    <3>3. QED
      BY <3>1, <3>2 DEF FilesInv, StagesAlone
  <2>10. QED
    BY <2>7, <2>8, <2>9 DEF FilesInv
<1>4. QED
  BY <1>2, <1>3 DEF CommitSend

LEMMA FilesStay ==
  ASSUME ConversationTyped, FilesInv, [ConversationNext]_cvars PROVE FilesInv'
<1>1. CASE UNCHANGED cvars
  BY <1>1, FilesKept DEF cvars
<1>2. ASSUME NEW c \in Calls, \/ LoseCall(c) \/ CommitAdd(c) \/ CommitRole(c) \/ CommitRemove(c)
                              \/ CommitStatus(c) \/ CommitPin(c)
      PROVE  FilesInv'
  <2>1. EndCall(c) /\ UNCHANGED <<messages, file>>
    BY <1>2 DEF LoseCall, CommitAdd, CommitRole, CommitRemove, CommitStatus, CommitPin
  <2>2. chat'.next = chat.next
    <3>1. CASE CommitStatus(c)
      BY <3>1 DEF CommitStatus, ConversationTyped, ConversationTypeOK, Chats
    <3>2. CASE UNCHANGED chat
      BY <3>2
    <3>3. QED
      BY <1>2, <3>1, <3>2 DEF LoseCall, CommitAdd, CommitRole, CommitRemove, CommitPin
  <2>3. QED
    BY <2>1, <2>2, ReadsKeepFiles
<1>3. ASSUME NEW p \in Members, ChangeMembership(p) \/ \E pin \in pins : Unpin(p, pin) PROVE FilesInv'
  <2>1. UNCHANGED <<call, messages, file, chat>>
    BY <1>3 DEF ChangeMembership, Unpin
  <2>2. QED
    BY <2>1, FilesKept
<1>4. ASSUME NEW c \in Calls, NEW p \in Members, NEW of \in Members,
             \/ StartRemove(c, p, of)
             \/ \E role \in ChatRoles : StartAdd(c, p, of, role) \/ StartRole(c, p, of, role)
      PROVE  FilesInv'
  <2>1. PICK role \in ChatRoles : StartAdd(c, p, of, role) \/ StartRole(c, p, of, role) \/ StartRemove(c, p, of)
    BY <1>4 DEF ChatRoles
  <2>2. QED
    BY <2>1, StartsKeepFiles
<1>5. CASE ConversationNext
  BY <1>2, <1>3, <1>4, <1>5, StartsKeepFiles, StartStageKeepsFiles, CommitStageKeepsFiles, CommitSendKeepsFiles
     DEF ConversationNext
<1>6. QED
  BY <1>1, <1>5

-----------------------------------------------------------------------------

LEMMA ConversationKept == ASSUME ConversationInv, [ConversationNext]_cvars PROVE ConversationInv'
  BY ConversationStepTyped, AddsStayNew, OwnersStay, FilesStay DEF ConversationInv

LEMMA ConversationAlways == ConversationSpec => []ConversationInv
<1>1. ConversationInv /\ [ConversationNext]_cvars => ConversationInv'
  BY ConversationKept
<1>2. QED
  BY ConversationStarts, <1>1, PTL DEF ConversationSpec

(* The rows, calls and counters of a conversation are what the schema and   *)
(* its bounds say, in every state, the number of pins included.             *)
THEOREM ConversationTypes == ConversationSpec => []ConversationTypeOK
<1>1. ConversationInv => ConversationTypeOK
  BY DEF ConversationInv, ConversationTyped
<1>2. QED
  BY <1>1, ConversationAlways, PTL

(* A conversation never loses its last active owner, whichever calls leave, *)
(* remove and demote owners together (drizzle/0005, the trigger that counts *)
(* them again).                                                             *)
THEOREM AnOwnerRemains == ConversationSpec => []OwnerRemains
<1>1. ConversationInv => OwnerRemains
  BY DEF ConversationInv
<1>2. QED
  BY <1>1, ConversationAlways, PTL

(* The files of a message are those it was accepted with (drizzle/0032), in *)
(* whatever order messages are sent and uploads staged, refused and lost.   *)
THEOREM MessageFiles == ConversationSpec => []FilesOfMessage
<1>1. ConversationInv => FilesOfMessage
  BY DEF ConversationInv, FilesInv
<1>2. QED
  BY <1>1, ConversationAlways, PTL

-----------------------------------------------------------------------------

(* Presence *)

LEMMA PresenceBounds ==
  LastEpoch \in Nat /\ MaxFence \in Nat /\ MaxHides \in Nat /\ PresenceTtl \in Nat
  BY PresenceAssumption

LEMMA NoSessionTyped == NoSession \in Sessions /\ NoPut \in Puts /\ NewTab \in TabStates
  BY PresenceBounds DEF NoSession, Sessions, NoPut, Puts, NewTab, TabStates

LEMMA PresenceInitTyped == PresenceInit => PresenceTypeOK /\ StaleTokenHarmless
  BY NoSessionTyped, PresenceBounds DEF PresenceInit, PresenceTypeOK, StaleTokenHarmless

\* a write goes out with the token it is given
LEMMA SentTyped ==
  ASSUME NEW token \in 0..MaxFence, NEW takeover \in BOOLEAN
  PROVE  [NoPut EXCEPT !.step = "sent", !.takeover = takeover, !.token = token] \in Puts
  BY NoSessionTyped DEF Puts

LEMMA DecidedTyped ==
  ASSUME PresenceTypeOK, NEW t \in Tabs, Decided(t).fence <= MaxFence
  PROVE  Decided(t) \in Puts
<1>1. /\ session \in Sessions /\ put[t] \in Puts /\ epoch \in 0..LastEpoch
      /\ session.fence \in 0..MaxFence
  BY DEF PresenceTypeOK, Sessions
<1> DEFINE grant(n) == [put[t] EXCEPT !.step = "decided", !.at = epoch, !.loaded = session, !.fence = n]
<1>2. ASSUME NEW n \in 0..MaxFence PROVE grant(n) \in Puts
  BY <1>1 DEF Puts
<1>3. \A n : grant(n).fence = n
  BY <1>1 DEF Puts
<1>4. \/ Decided(t) = grant(IF session = NoSession THEN 1 ELSE session.fence + 1)
      \/ Decided(t) = grant(session.fence)
      \/ Decided(t) = [put[t] EXCEPT !.step = "refused"]
  BY DEF Decided
<1>5. [put[t] EXCEPT !.step = "refused"] \in Puts
  BY <1>1 DEF Puts
<1> DEFINE n == IF session = NoSession THEN 1 ELSE session.fence + 1
<1>6. n \in Nat
  BY <1>1, PresenceBounds
<1>7. CASE Decided(t) = grant(n)
  <2>1. n <= MaxFence
    BY <1>3, <1>7
  <2>2. n \in 0..MaxFence
    BY <2>1, <1>6, PresenceBounds
  <2> HIDE DEF n, grant
  <2>3. QED
    BY <2>2, <1>2, <1>7
<1> HIDE DEF grant, n
<1>8. QED
  BY <1>1, <1>2, <1>4, <1>5, <1>7 DEF n

(* Each step of a tab, of a handler or of the clock keeps the types.        *)
LEMMA PresenceStepTyped ==
  ASSUME PresenceTypeOK, [PresenceNext]_pvars
  PROVE  PresenceTypeOK'
<1> USE PresenceBounds
<1>1. ASSUME NEW t \in Tabs, NEW force \in BOOLEAN, WantWrite(t, force) PROVE PresenceTypeOK'
  <2> DEFINE wanted == tab[t].force \/ force
             token == IF force \/ tab[t].force THEN 0 ELSE tab[t].token
             takeover == force \/ tab[t].force
  <2>1. tab[t] \in TabStates
    BY DEF PresenceTypeOK
  <2>2. wanted \in BOOLEAN /\ token \in 0..MaxFence /\ takeover \in BOOLEAN
    BY <2>1 DEF TabStates
  <2>3. \/ tab' = [tab EXCEPT ![t].pending = FALSE, ![t].force = FALSE]
        \/ tab' = [tab EXCEPT ![t].pending = TRUE, ![t].force = wanted]
    BY <1>1, <2>1 DEF WantWrite, PresenceTypeOK, TabStates
  <2>4. \/ put' = put
        \/ put' = [put EXCEPT ![t] = [NoPut EXCEPT !.step = "sent", !.takeover = takeover, !.token = token]]
    BY ZenonT(60), <1>1 DEF WantWrite, Sent, NoPut
  <2> HIDE DEF wanted, token, takeover
  <2>5. /\ [tab[t] EXCEPT !.pending = FALSE, !.force = FALSE] \in TabStates
        /\ [tab[t] EXCEPT !.pending = TRUE, !.force = wanted] \in TabStates
    BY <2>1, <2>2 DEF TabStates
  <2>6. tab' \in [Tabs -> TabStates]
    BY <2>3, <2>5 DEF PresenceTypeOK
  <2>7. put' \in [Tabs -> Puts]
    BY <2>2, <2>4, SentTyped DEF PresenceTypeOK
  <2>8. QED
    BY <1>1, <2>6, <2>7 DEF WantWrite, PresenceTypeOK
<1>2. ASSUME NEW t \in Tabs, Granted(t) PROVE PresenceTypeOK'
  <2>1. tab[t] \in TabStates /\ put[t] \in Puts /\ put[t].fence \in 0..MaxFence
    BY DEF PresenceTypeOK, Puts
  <2>2. tab' \in [Tabs -> TabStates]
    BY <1>2, <2>1 DEF Granted, PresenceTypeOK, TabStates
  <2> DEFINE token == IF tab[t].force THEN 0 ELSE put[t].fence
             takeover == tab[t].force
  <2>3. token \in 0..MaxFence /\ takeover \in BOOLEAN
    BY <2>1 DEF TabStates
  <2>4. \/ put' = [put EXCEPT ![t] = NoPut]
        \/ put' = [put EXCEPT ![t] = [NoPut EXCEPT !.step = "sent", !.takeover = takeover, !.token = token]]
    BY <1>2 DEF Granted
  <2> HIDE DEF token, takeover
  <2>5. put' \in [Tabs -> Puts]
    BY <2>3, <2>4, SentTyped, NoSessionTyped DEF PresenceTypeOK
  <2>6. QED
    BY <1>2, <2>2, <2>5 DEF Granted, PresenceTypeOK
<1>3. ASSUME NEW t \in Tabs, Refused(t) \/ PutLost(t) PROVE PresenceTypeOK'
  <2>1. tab[t] \in TabStates
    BY DEF PresenceTypeOK
  <2>2. tab' \in [Tabs -> TabStates]
    BY <1>3, <2>1 DEF Refused, PutLost, PresenceTypeOK, TabStates
  <2>3. QED
    BY <1>3, <2>2, NoSessionTyped DEF Refused, PutLost, PresenceTypeOK
<1>4. ASSUME NEW t \in Tabs, Hide(t) PROVE PresenceTypeOK'
  <2>1. tab[t].token \in 1..MaxFence
    BY <1>4 DEF Hide, PresenceTypeOK, TabStates
  <2>2. leaving' \in [Tabs -> SUBSET (1..MaxFence)]
    BY <1>4, <2>1 DEF Hide, PresenceTypeOK
  <2>3. hides' \in 0..MaxHides
    BY <1>4 DEF Hide, PresenceTypeOK
  <2>4. QED
    BY <1>4, <2>2, <2>3 DEF Hide, PresenceTypeOK
<1>5. ASSUME NEW t \in Tabs, ReadSession(t) PROVE PresenceTypeOK'
  <2>1. Decided(t) \in Puts
    BY <1>5, DecidedTyped DEF ReadSession
  <2>2. QED
    BY <1>5, <2>1 DEF ReadSession, PresenceTypeOK
<1>6. ASSUME NEW t \in Tabs, PersistLease(t) PROVE PresenceTypeOK'
  <2>1. put[t] \in Puts /\ put[t].fence \in 0..MaxFence /\ put[t].at \in 0..LastEpoch
    BY DEF PresenceTypeOK, Puts
  <2>2. put' \in [Tabs -> Puts]
    BY <1>6, <2>1 DEF PersistLease, PresenceTypeOK, Puts
  <2>3. [key |-> {t}, fence |-> put[t].fence, expires |-> put[t].at + PresenceTtl] \in Sessions
    BY <2>1 DEF Sessions
  <2>4. session' \in Sessions
    BY <1>6, <2>3 DEF PersistLease, PresenceTypeOK
  <2>5. ousted' \subseteq {"claim", "renewal", "release"}
    BY <1>6 DEF PersistLease, Ousts, PresenceTypeOK
  <2>6. QED
    BY <1>6, <2>2, <2>4, <2>5 DEF PersistLease, PresenceTypeOK
<1>7. ASSUME NEW t \in Tabs, NEW token \in 1..MaxFence, Release(t, token) PROVE PresenceTypeOK'
  <2>1. leaving' \in [Tabs -> SUBSET (1..MaxFence)]
    BY <1>7 DEF Release, PresenceTypeOK
  <2>2. session' \in Sessions
    BY <1>7, NoSessionTyped DEF Release, PresenceTypeOK
  <2>3. ousted' \subseteq {"claim", "renewal", "release"}
    BY <1>7 DEF Release, Ousts, PresenceTypeOK
  <2>4. QED
    BY <1>7, <2>1, <2>2, <2>3 DEF Release, PresenceTypeOK
<1>8. ASSUME CleanUp \/ NextEpoch PROVE PresenceTypeOK'
  <2>1. CASE CleanUp
    BY <2>1, NoSessionTyped DEF CleanUp, PresenceTypeOK
  <2>2. CASE NextEpoch
    BY <2>2 DEF NextEpoch, PresenceTypeOK
  <2>3. QED
    BY <1>8, <2>1, <2>2
<1>9. ASSUME UNCHANGED pvars PROVE PresenceTypeOK'
  BY <1>9 DEF pvars, PresenceTypeOK
<1>10. QED
  BY <1>1, <1>2, <1>3, <1>4, <1>5, <1>6, <1>7, <1>8, <1>9 DEF PresenceNext

(* A write decided as a renewal finds its row only if the row is still its  *)
(* own, and inserts none: whatever the row has become, it ousts nobody.     *)
LEMMA RenewalOustsNobody ==
  ASSUME NEW t \in Tabs, PersistLease(t), StaleTokenHarmless
  PROVE  StaleTokenHarmless'
<1>1. CASE UNCHANGED ousted
  BY <1>1 DEF StaleTokenHarmless
<1>2. CASE (Finds(t) \/ Inserts(t)) /\ Renews(t) /\ Ousts(t, "renewal")
  <2>1. CASE Finds(t)
    BY <1>2, <2>1 DEF Finds, Renews, Ousts, SessionOf, StaleTokenHarmless
  <2>2. CASE Inserts(t)
    BY <1>2, <2>2 DEF Inserts, LiveLease, Ousts, StaleTokenHarmless
  <2>3. QED
    BY <1>2, <2>1, <2>2
<1>3. CASE Ousts(t, "claim")
  BY <1>3 DEF Ousts, StaleTokenHarmless
<1>4. QED
  BY <1>1, <1>2, <1>3 DEF PersistLease

(* docs/BUSINESS-RULES.md:73: a renewal or a release with a stale token     *)
(* never ends the live lease of another tab, whatever writes, answers and   *)
(* cleanups came in between.                                                *)
THEOREM StaleTokensHarmless == PresenceSpec => []StaleTokenHarmless
<1>1. ASSUME StaleTokenHarmless, [PresenceNext]_pvars PROVE StaleTokenHarmless'
  <2>1. ASSUME NEW t \in Tabs, PersistLease(t) PROVE StaleTokenHarmless'
    BY <1>1, <2>1, RenewalOustsNobody
  <2>2. ASSUME NEW t \in Tabs, NEW token \in 1..MaxFence, Release(t, token) PROVE StaleTokenHarmless'
    BY <1>1, <2>2 DEF Release, Names, Ousts, StaleTokenHarmless
  <2>3. CASE UNCHANGED ousted
    BY <1>1, <2>3 DEF StaleTokenHarmless
  <2>4. QED
    BY <1>1, <2>1, <2>2, <2>3 DEF PresenceNext, pvars, WantWrite, Granted, Refused, PutLost, Hide,
       ReadSession, CleanUp, NextEpoch
<1>2. QED
  BY <1>1, PresenceInitTyped, PTL DEF PresenceSpec

(* Every variable keeps its type; the bounds on fence and clock are kept by *)
(* the handlers themselves.                                                 *)
THEOREM PresenceTyped == PresenceSpec => []PresenceTypeOK
  BY PresenceInitTyped, PresenceStepTyped, PTL DEF PresenceSpec

-----------------------------------------------------------------------------
(* Payloads *)

(* A creation that has its cipher is of a run that is not there yet.        *)
CreatesAnew == making.run # Absent => row[making.run].status = "absent"
(* An excerpt is written once, with what the engine wrote.                  *)
ExcerptsFilled == \A r \in Runs : excerpt[r].state = "none" <=> excerpt[r].output = "none"
(* A request under way names its nonce, run and fence.                      *)
ReadSteps == {"find", "read", "failed", "replay", "denied", "answered"}
LiveReads == [step : ReadSteps, nonce : ReadNonces, run : Runs, fence : Fences, now : Hours,
              tries : 0..ReadRetries, keys : SUBSET KeyIds, answer : ReadErrors \cup {"none", "prompt", "replayed"}]
ReadsNamed == \A q \in Reads : reading[q] \in LiveReads \cup {IdleRead}
CustodyInv == CustodyTypeOK /\ ReadsNamed /\ CreatesAnew /\ ExcerptsFilled /\ ErasedOnce

LEMMA CustodyBounds ==
  /\ ReadRetries \in Nat /\ ReadRetries > 0 /\ PassLimit \in Nat /\ PassLimit > 0
  /\ LeaseFor \in Nat /\ LeaseFor > 0 /\ RetainFor \in Nat /\ RetainFor > 0
  /\ NonceFor \in Nat /\ NonceFor > 0 /\ FenceMax \in Nat /\ FenceMax > 0
  /\ LastHour \in Nat /\ Absent \notin KeyIds /\ Absent \notin ReadNonces /\ Absent \notin Runs
  BY CustodyAssumption

LEMMA CustodyStarts == CustodyInit => CustodyInv
<1> SUFFICES ASSUME CustodyInit PROVE CustodyInv
  OBVIOUS
<1> USE CustodyBounds DEF CustodyInit
<1>1. NoRow \in RowRecords /\ NoPayload \in PayloadRecords /\ IdleRead \in ReadRecords
  BY DEF NoRow, RowRecords, NoPayload, PayloadRecords, IdleRead, ReadRecords, Closed, Hours, Outputs
<1>2. IdlePass \in PassRecords
  BY EmptySeq DEF IdlePass, PassRecords, Hours
<1>3. CustodyTypeOK
  BY <1>1, <1>2 DEF CustodyTypeOK, ReadRowRecords, Rings, Hours
<1>4. CreatesAnew /\ ExcerptsFilled /\ ReadsNamed
  BY DEF CreatesAnew, ExcerptsFilled, NoPayload, ReadsNamed
<1>5. ErasedOnce
  BY DEF ErasedOnce, NoRow, NoPayload, Payload, Closed, Protected
<1> QED
  BY <1>3, <1>4, <1>5 DEF CustodyInv

(* The records of a row after each change of it.                            *)
LEMMA RowsTyped ==
  ASSUME CustodyTypeOK
  PROVE /\ \A S \in SUBSET Runs : Requeued(S) \in [Runs -> RowRecords]
        /\ \A r \in Runs, status \in Closed : Close(r, status) \in RowRecords
        /\ LeaseEnds \subseteq 0..LastHour + LeaseFor
<1> USE CustodyBounds DEF CustodyTypeOK
<1>1. LeaseEnds \subseteq 0..LastHour + LeaseFor
  BY DEF Hours, LeaseEnds
<1>2. ASSUME NEW S \in SUBSET Runs PROVE Requeued(S) \in [Runs -> RowRecords]
  <2>1. ASSUME NEW r \in Runs PROVE [row[r] EXCEPT !.status = "queued", !.lease = "ended"] \in RowRecords
    <3>1. row[r] \in RowRecords
      OBVIOUS
    <3> QED
      BY <3>1 DEF RowRecords
  <2> QED
    BY <2>1 DEF Requeued
<1>3. ASSUME NEW r \in Runs, NEW status \in Closed PROVE Close(r, status) \in RowRecords
  <2>1. row[r] \in RowRecords /\ hour \in Hours
    OBVIOUS
  <2>2. row[r].lease \in {"none", "active", "ended"}
    BY <2>1 DEF RowRecords
  <2> QED
    BY <2>1, <2>2 DEF Close, RowRecords
<1> QED
  BY <1>1, <1>2, <1>3

(* What each step leaves alone, and what it does to a row that is closed.   *)
LEMMA RowStepTyped ==
  ASSUME CustodyTypeOK, RowStep
  PROVE CustodyTypeOK'
<1> USE CustodyBounds DEF custodyVars, kept, runRows, deployed, retention
<1>1. CASE Rotate
  BY <1>1 DEF CustodyTypeOK, Rotate
<1>2. CASE WriteRun
  <2>1. making.run \in Runs /\ making.ring.active \in KeyIds
    BY <1>2 DEF CustodyTypeOK, WriteRun, Rings
  <2>2. [NoRow EXCEPT !.status = "queued"] \in RowRecords
    <3>1. NoRow \in RowRecords
      BY DEF NoRow, RowRecords, Closed, Hours
    <3> QED
      BY <3>1 DEF RowRecords
  <2>3. Encrypted(making.ring.active, "none") \in PayloadRecords
    BY <2>1 DEF Encrypted, PayloadRecords, Hours, Outputs
  <2>4. [making EXCEPT !.run = Absent] \in [run : Runs \cup {Absent}, ring : Rings]
    BY DEF CustodyTypeOK
  <2> QED
    BY <1>2, <2>1, <2>2, <2>3, <2>4 DEF CustodyTypeOK, WriteRun
<1>3. CASE DropCreation
  BY <1>3 DEF CustodyTypeOK, DropCreation
<1>4. CASE RevokeRunner
  <2>1. Requeued(Leased) \in [Runs -> RowRecords]
    BY RowsTyped DEF Leased
  <2> QED
    BY <1>4, <2>1 DEF CustodyTypeOK, RevokeRunner
<1>5. CASE NextHour
  BY <1>5 DEF CustodyTypeOK, NextHour, Hours
<1>6. ASSUME NEW r \in Runs, AskCipher(r) PROVE CustodyTypeOK'
  BY <1>6 DEF CustodyTypeOK, AskCipher
<1>7. ASSUME NEW to \in [Runs -> RowRecords], Moved(to) PROVE CustodyTypeOK'
  BY <1>7 DEF CustodyTypeOK, Moved
<1>8. ASSUME NEW r \in Runs, NEW until \in LeaseEnds, Claim(r, until) PROVE CustodyTypeOK'
  <2> DEFINE to == [Requeued(Leased) EXCEPT ![r].status = "leased", ![r].fence = @ + 1, ![r].lease = "active",
                                            ![r].until = until]
  <2>1. Requeued(Leased) \in [Runs -> RowRecords]
    BY RowsTyped DEF Leased
  <2>2. Requeued(Leased)[r].fence \in 0..FenceMax /\ Requeued(Leased)[r].fence < FenceMax
    BY <1>8 DEF CustodyTypeOK, RowRecords, Requeued, Leased, Claim
  <2>3. to \in [Runs -> RowRecords]
    <3> DEFINE s == Requeued(Leased)[r]
    <3>1. s \in RowRecords /\ s.fence + 1 \in 0..FenceMax
      BY <2>1, <2>2
    <3>2. [s EXCEPT !.status = "leased", !.fence = @ + 1, !.lease = "active", !.until = until] \in RowRecords
      BY <2>1, <3>1, RowsTyped DEF RowRecords
    <3> QED
      BY <2>1, <3>2
  <2> QED
    BY <1>7, <1>8, <2>3 DEF Claim
<1>9. ASSUME NEW r \in Runs, NEW until \in LeaseEnds, Renew(r, until) PROVE CustodyTypeOK'
  <2>1. [row EXCEPT ![r].until = until] \in [Runs -> RowRecords]
    BY RowsTyped DEF CustodyTypeOK, RowRecords
  <2> QED
    BY <1>7, <1>9, <2>1 DEF Renew
<1>11. ASSUME NEW r \in Runs, ExpireRun(r) PROVE CustodyTypeOK'
  <2>1. [row EXCEPT ![r] = Close(r, "expired")] \in [Runs -> RowRecords]
    BY RowsTyped DEF CustodyTypeOK, Closed
  <2> QED
    BY <1>7, <1>11, <2>1 DEF ExpireRun
<1>12. ASSUME NEW r \in Runs, NEW outcome \in {"succeeded", "failed"}, NEW output \in Outputs, NEW key \in KeyIds,
              CompleteEngine(r, outcome, output, key)
       PROVE CustodyTypeOK'
  <2>1. Close(r, "completed") \in RowRecords
    BY RowsTyped DEF Closed
  <2>2. [Close(r, "completed") EXCEPT !.outcome = outcome] \in RowRecords
    BY <2>1 DEF RowRecords
  <2>3. Encrypted(key, output) \in PayloadRecords
    BY DEF Encrypted, PayloadRecords, Hours
  <2> QED
    BY <1>12, <2>2, <2>3 DEF CustodyTypeOK, CompleteEngine
<1> QED
  BY <1>1, <1>2, <1>3, <1>4, <1>5, <1>6, <1>8, <1>9, <1>11, <1>12 DEF RowStep

LEMMA LiveReadsTyped == LiveReads \cup {IdleRead} \subseteq ReadRecords
  BY CustodyBounds DEF LiveReads, IdleRead, ReadRecords, ReadSteps, Fences, Hours

LEMMA ReadStepTyped ==
  ASSUME CustodyTypeOK, ReadsNamed, ReadStep
  PROVE CustodyTypeOK' /\ ReadsNamed'
<1> USE CustodyBounds DEF kept, runRows, deployed, retention
<1> DEFINE Answers == ReadErrors \cup {"none", "prompt", "replayed"}
<1>1. reading \in [Reads -> ReadRecords] /\ \A q \in Reads : reading[q].step # "none" => reading[q] \in LiveReads
  BY DEF CustodyTypeOK, ReadsNamed, IdleRead
<1>2. ASSUME NEW q \in Reads, NEW next \in LiveReads \cup {IdleRead}, reading' = [reading EXCEPT ![q] = next],
             UNCHANGED <<row, excerpt, runnerUp, prompt, ring, making, pass, erasures, hour>>,
             readRows' \in [ReadNonces -> ReadRowRecords]
      PROVE CustodyTypeOK' /\ ReadsNamed'
  <2>1. CustodyTypeOK'
    BY <1>2, LiveReadsTyped DEF CustodyTypeOK
  <2>2. ReadsNamed'
    BY <1>1, <1>2 DEF ReadsNamed
  <2> QED
    BY <2>1, <2>2
<1>3. CASE DropReadRows
  <2>1. NoReadRow \in ReadRowRecords
    BY DEF ReadRowRecords
  <2>2. readRows' \in [ReadNonces -> ReadRowRecords]
    BY <1>3, <2>1 DEF DropReadRows, CustodyTypeOK
  <2> QED
    BY <1>3, <2>2 DEF DropReadRows, CustodyTypeOK, ReadsNamed
<1>4. ASSUME NEW q \in Reads, NEW n \in ReadNonces, NEW r \in Runs, NEW f \in Fences, Receive(q, n, r, f)
      PROVE CustodyTypeOK' /\ ReadsNamed'
  <2> DEFINE next == [IdleRead EXCEPT !.step = "find", !.nonce = n, !.run = r, !.fence = f, !.now = hour, !.keys = ring.keys]
  <2>1. ring.keys \in SUBSET KeyIds /\ hour \in Hours
    BY DEF CustodyTypeOK, Rings
  <2>2. next \in LiveReads
    <3>1. IdleRead \in ReadRecords /\ f \in 0..FenceMax
      BY LiveReadsTyped DEF Fences
    <3>2. next \in ReadRecords
      BY <2>1, <3>1 DEF ReadRecords
    <3>3. next.step = "find" /\ next.nonce = n /\ next.run = r /\ next.fence = f
      BY <3>1 DEF ReadRecords
    <3> QED
      BY <3>2, <3>3 DEF ReadRecords, LiveReads, ReadSteps
  <2> QED
    BY <1>2, <1>4, <2>2 DEF Receive, CustodyTypeOK
<1>5. ASSUME NEW q \in Reads, reading[q].step # "none", NEW answer \in Answers, NEW step \in ReadSteps
      PROVE /\ [reading[q] EXCEPT !.step = step] \in LiveReads
            /\ [reading[q] EXCEPT !.step = step, !.answer = answer] \in LiveReads
  BY <1>1, <1>5 DEF LiveReads
<1>6. ASSUME NEW q \in Reads, reading[q].step # "none", NEW answer \in Answers, Say(q, answer)
      PROVE \E next \in LiveReads : reading' = [reading EXCEPT ![q] = next]
  <2>1. reading' = [reading EXCEPT ![q] = [reading[q] EXCEPT !.step = "answered", !.answer = answer]]
    BY <1>6, <1>1 DEF Say
  <2> QED
    BY <1>5, <1>6, <2>1 DEF ReadSteps
<1>7. ASSUME NEW q \in Reads, reading[q].step # "none", NEW step \in ReadSteps, Step(q, step)
      PROVE \E next \in LiveReads : reading' = [reading EXCEPT ![q] = next]
  <2>1. reading' = [reading EXCEPT ![q] = [reading[q] EXCEPT !.step = step]]
    BY <1>7, <1>1 DEF Step
  <2> QED
    BY <1>5, <1>7, <2>1
<1>8. ASSUME NEW q \in Reads, reading[q].step # "none", NEW as \in {"prompt", "replayed"}, Hand(q, as)
      PROVE \E next \in LiveReads : reading' = [reading EXCEPT ![q] = next]
  BY <1>6, <1>8 DEF Hand, ReadErrors
<1>9. ASSUME NEW q \in Reads, FindRead(q) PROVE CustodyTypeOK' /\ ReadsNamed'
  <2>1. \E next \in LiveReads : reading' = [reading EXCEPT ![q] = next]
    BY <1>6, <1>7, <1>9 DEF FindRead, ReadErrors, ReadSteps
  <2> QED
    BY <1>2, <1>9, <2>1 DEF FindRead, CustodyTypeOK
<1>10. ASSUME NEW q \in Reads, ReadPrompt(q) PROVE CustodyTypeOK' /\ ReadsNamed'
  <2> DEFINE new == [run |-> reading[q].run, fence |-> reading[q].fence, at |-> reading[q].now]
  <2>1. reading[q] \in LiveReads
    BY <1>1, <1>10 DEF ReadPrompt
  <2>2. \E next \in LiveReads : reading' = [reading EXCEPT ![q] = next]
    BY <1>7, <1>8, <1>10 DEF ReadPrompt, ReadSteps
  <2>3. new \in ReadRowRecords
    BY <2>1 DEF ReadRowRecords, LiveReads
  <2>4. readRows' \in [ReadNonces -> ReadRowRecords]
    BY <1>10, <2>3 DEF ReadPrompt, CustodyTypeOK
  <2> QED
    BY <1>2, <1>10, <2>2, <2>4 DEF ReadPrompt
<1>11. ASSUME NEW q \in Reads, FailRead(q) PROVE CustodyTypeOK' /\ ReadsNamed'
  <2>1. \E next \in LiveReads : reading' = [reading EXCEPT ![q] = next]
    BY <1>6, <1>7, <1>11 DEF FailRead, ReadErrors, ReadSteps
  <2> QED
    BY <1>2, <1>11, <2>1 DEF FailRead, CustodyTypeOK
<1>12. ASSUME NEW r \in Runs, NEW f \in Fences, NEW now \in Hours PROVE Denial(r, f, now) \in Denials \cup {"none"}
  BY DEF Denial, Denials
<1>13. ASSUME NEW q \in Reads, Replay(q) PROVE CustodyTypeOK' /\ ReadsNamed'
  <2>1. reading[q] \in LiveReads
    BY <1>1, <1>13 DEF Replay
  <2>2. Denial(reading[q].run, reading[q].fence, reading[q].now) \in Denials \cup {"none"}
    BY <1>12, <2>1 DEF LiveReads
  <2>3. \E next \in LiveReads : reading' = [reading EXCEPT ![q] = next]
    BY <1>6, <1>8, <1>13, <2>2 DEF Replay, ReadErrors
  <2> QED
    BY <1>2, <1>13, <2>3 DEF Replay, CustodyTypeOK
<1>14. ASSUME NEW q \in Reads, Explain(q) PROVE CustodyTypeOK' /\ ReadsNamed'
  <2> DEFINE denied == Denial(reading[q].run, reading[q].fence, reading[q].now)
             again == [reading[q] EXCEPT !.step = "read", !.tries = @ + 1]
  <2>1. reading[q] \in LiveReads
    BY <1>1, <1>14 DEF Explain
  <2>2. denied \in Denials \cup {"none"}
    BY <1>12, <2>1 DEF LiveReads
  <2>3. ASSUME reading' = [reading EXCEPT ![q].step = "read", ![q].tries = @ + 1], reading[q].tries + 1 < ReadRetries
        PROVE \E next \in LiveReads : reading' = [reading EXCEPT ![q] = next]
    <3>1. again \in LiveReads
      <4>1. reading[q].tries \in 0..ReadRetries
        BY <2>1 DEF LiveReads
      <4>2. reading[q].tries + 1 \in 0..ReadRetries /\ "read" \in ReadSteps
        BY <2>3, <4>1 DEF ReadSteps
      <4> QED
        BY <2>1, <4>2 DEF LiveReads
    <3>2. reading' = [reading EXCEPT ![q] = again]
      BY <1>1, <2>1, <2>3 DEF LiveReads
    <3> QED
      BY <3>1, <3>2
  <2>4. ASSUME \E answer \in Answers : Say(q, answer)
        PROVE \E next \in LiveReads : reading' = [reading EXCEPT ![q] = next]
    <3>1. PICK answer \in Answers : Say(q, answer)
      BY <2>4
    <3>2. \E next \in LiveReads : reading' = [reading EXCEPT ![q] = next]
      BY <1>6, <1>14, <3>1 DEF Explain
    <3> QED
      BY <3>2
  <2>5. \E next \in LiveReads : reading' = [reading EXCEPT ![q] = next]
    <3>1. CASE denied # "none"
      BY <1>14, <2>2, <2>4, <3>1 DEF Explain, ReadErrors
    <3>2. CASE denied = "none" /\ reading[q].tries + 1 < ReadRetries
      BY <1>14, <2>3, <3>2 DEF Explain
    <3>3. CASE denied = "none" /\ ~(reading[q].tries + 1 < ReadRetries)
      BY <1>14, <2>4, <3>3 DEF Explain, ReadErrors
    <3> QED
      BY <3>1, <3>2, <3>3
  <2> QED
    BY <1>2, <1>14, <2>5 DEF Explain, CustodyTypeOK
<1>15. ASSUME NEW q \in Reads, TakeAnswer(q) PROVE CustodyTypeOK' /\ ReadsNamed'
  BY <1>2, <1>15 DEF TakeAnswer, CustodyTypeOK
<1> QED
  BY <1>3, <1>4, <1>9, <1>10, <1>11, <1>13, <1>14, <1>15 DEF ReadStep

LEMMA PassStepTyped ==
  ASSUME CustodyTypeOK, PassStep
  PROVE CustodyTypeOK'
<1> USE CustodyBounds DEF kept, runRows, deployed, retention
<1> PICK p \in Passes : StartPass(p) \/ ListDue(p) \/ EraseDue(p) \/ PassOver(p) \/ EndPass(p)
  BY DEF PassStep
<1>1. pass \in [Passes -> PassRecords] /\ pass[p] \in PassRecords /\ hour \in Hours
  BY DEF CustodyTypeOK
<1>2. pass[p].due \in Seq(Protected) /\ pass[p].now \in Hours
  BY <1>1 DEF PassRecords
<1>3. IdlePass \in PassRecords
  BY EmptySeq DEF IdlePass, PassRecords, Hours
<1>4. CASE StartPass(p)
  <2>1. [IdlePass EXCEPT !.step = "prompts", !.now = hour] \in PassRecords
    BY <1>1, <1>3 DEF PassRecords
  <2> QED
    BY <1>4, <2>1 DEF StartPass, CustodyTypeOK
<1>5. CASE ListDue(p)
  <2>1. PICK s \in Listing(pass[p].now, IF pass[p].step = "prompts" THEN "prompt" ELSE "excerpt") :
          pass' = [pass EXCEPT ![p].due = @ \o s, ![p].step = IF @ = "prompts" THEN "excerpts" ELSE "erase"]
    BY <1>5 DEF ListDue
  <2>2. s \in Seq(Protected)
    BY DEF Listing
  <2>3. pass[p].due \o s \in Seq(Protected)
    BY <1>2, <2>2, ConcatProperties
  <2>4. [pass[p] EXCEPT !.due = @ \o s, !.step = IF @ = "prompts" THEN "excerpts" ELSE "erase"] \in PassRecords
    BY <1>1, <2>3 DEF PassRecords
  <2>5. pass' = [pass EXCEPT ![p] = [pass[p] EXCEPT !.due = @ \o s, !.step = IF @ = "prompts" THEN "excerpts" ELSE "erase"]]
    BY <1>1, <2>1
  <2> QED
    BY <1>5, <2>4, <2>5 DEF ListDue, CustodyTypeOK
<1>6. pass[p].due # <<>> => [pass[p] EXCEPT !.due = Tail(@)] \in PassRecords /\ Head(pass[p].due) \in Protected
  BY <1>1, <1>2, HeadTailProperties DEF PassRecords
<1>7. CASE EraseDue(p)
  <2> DEFINE x == Head(pass[p].due)
             now == pass[p].now
  <2>1. pass' \in [Passes -> PassRecords] /\ x \in Protected
    BY <1>1, <1>6, <1>7 DEF EraseDue
  <2>2. x[1] \in Runs
    BY <2>1 DEF Protected
  <2>3. EraseRow(prompt[x[1]], now) \in PayloadRecords /\ EraseRow(excerpt[x[1]], now) \in PayloadRecords
    <3>1. ASSUME NEW payload \in PayloadRecords PROVE EraseRow(payload, now) \in PayloadRecords
      BY <1>2 DEF EraseRow, PayloadRecords
    <3> QED
      BY <2>2, <3>1 DEF CustodyTypeOK
  <2>4. prompt' \in [Runs -> PayloadRecords] /\ excerpt' \in [Runs -> PayloadRecords]
    <3>1. prompt \in [Runs -> PayloadRecords] /\ excerpt \in [Runs -> PayloadRecords]
      BY DEF CustodyTypeOK
    <3>2. /\ prompt' \in {prompt, [prompt EXCEPT ![x[1]] = EraseRow(@, now)]}
          /\ excerpt' \in {excerpt, [excerpt EXCEPT ![x[1]] = EraseRow(@, now)]}
      BY <1>7 DEF EraseDue
    <3> QED
      BY <2>2, <2>3, <3>1, <3>2
  <2>5. erasures' \in [Protected -> Nat]
    BY <1>7, <2>1 DEF EraseDue, CustodyTypeOK
  <2> QED
    BY <1>7, <2>1, <2>4, <2>5 DEF EraseDue, CustodyTypeOK
<1>8. CASE PassOver(p)
  BY <1>1, <1>6, <1>8 DEF PassOver, CustodyTypeOK
<1>9. CASE EndPass(p)
  BY <1>3, <1>9 DEF EndPass, CustodyTypeOK
<1> QED
  BY <1>4, <1>5, <1>7, <1>8, <1>9

(* An open run goes on or ends without a completion, a closed one stays.    *)
OpenStates == {"queued", "leased"}
GoesOn(r) ==
  \/ row'[r] = row[r]
  \/ row[r].status \in OpenStates /\ row'[r].status \in OpenStates \cup {"expired"}
Completes(r) ==
  \E outcome \in {"succeeded", "failed"}, output \in Outputs, key \in KeyIds : CompleteEngine(r, outcome, output, key)

LEMMA RowsGoOn ==
  ASSUME CustodyTypeOK, RowStep
  PROVE \/ WriteRun
        \/ \E r \in Runs : Completes(r)
        \/ (\A r \in Runs : GoesOn(r)) /\ UNCHANGED <<prompt, excerpt, erasures>>
<1> USE DEF kept, runRows, deployed, retention, GoesOn
<1>1. row \in [Runs -> RowRecords]
  BY DEF CustodyTypeOK
<1>2. CASE Rotate \/ DropCreation \/ NextHour \/ \E r \in Runs : AskCipher(r)
  BY <1>2 DEF Rotate, DropCreation, NextHour, AskCipher
<1>3. ASSUME NEW S \in SUBSET Leased, NEW r \in Runs
      PROVE Requeued(S)[r] = row[r] \/ (row[r].status \in OpenStates /\ Requeued(S)[r].status = "queued")
  BY <1>1 DEF Requeued, Leased, OpenStates, RowRecords
<1>4. CASE RevokeRunner
  BY <1>3, <1>4 DEF RevokeRunner, OpenStates, Leased
<1>5. ASSUME NEW s \in Runs, NEW until \in LeaseEnds, Claim(s, until) \/ Renew(s, until) \/ ExpireRun(s), NEW r \in Runs
      PROVE GoesOn(r)
  <2>1. CASE Claim(s, until)
    <3>1. row'[r] = IF r = s THEN [Requeued(Leased)[s] EXCEPT !.status = "leased", !.fence = @ + 1, !.lease = "active",
                                                            !.until = until]
                    ELSE Requeued(Leased)[r]
      BY <2>1 DEF Claim, Moved, Requeued
    <3>2. row[s].status \in OpenStates
      BY <2>1 DEF Claim, OpenStates, Leased
    <3>3. CASE r = s
      <4>1. Requeued(Leased)[s] \in RowRecords
        BY RowsTyped DEF Leased
      <4>2. row'[r].status = "leased"
        BY <3>1, <3>3, <4>1 DEF RowRecords
      <4> QED
        BY <3>2, <3>3, <4>2 DEF OpenStates
    <3>4. CASE r # s
      BY <1>3, <3>1, <3>4 DEF OpenStates
    <3> QED
      BY <3>3, <3>4
  <2>2. CASE Renew(s, until)
    <3>1. row[s].status \in OpenStates
      BY <2>2 DEF Renew, Holds, OpenStates
    <3>2. row' = [row EXCEPT ![s].until = until]
      BY <2>2 DEF Renew, Moved
    <3> QED
      BY <1>1, <3>1, <3>2 DEF RowRecords
  <2>3. Close(s, "expired").status = "expired"
    BY <1>1 DEF Close, RowRecords
  <2>4. CASE ExpireRun(s)
    BY <1>1, <2>3, <2>4 DEF ExpireRun, Moved, OpenStates, Leased
  <2> QED
    BY <1>5, <2>1, <2>2, <2>4
<1>6. ASSUME NEW s \in Runs, NEW until \in LeaseEnds, Claim(s, until) \/ Renew(s, until) \/ ExpireRun(s)
      PROVE UNCHANGED <<prompt, excerpt, erasures>>
  BY <1>6 DEF Claim, Renew, ExpireRun, Moved
<1>7. hour + 1 \in LeaseEnds
  BY CustodyBounds DEF LeaseEnds, CustodyTypeOK, Hours
<1> QED
  BY <1>2, <1>4, <1>5, <1>6, <1>7 DEF RowStep, Completes, RevokeRunner

(* A run is completed once, with an excerpt that stays as it was written    *)
(* but for its erasure.                                                     *)
LEMMA CompletedStays ==
  ASSUME CustodyInv, [CustodyNext]_custodyVars, NEW r \in Runs
  PROVE /\ row[r].status = "completed" => row'[r] = row[r]
        /\ excerpt[r].output # "none" => excerpt'[r].output = excerpt[r].output
<1> USE DEF custodyVars, kept, runRows, deployed, retention
<1>1. CASE WriteRun
  BY <1>1 DEF WriteRun, CustodyInv, CreatesAnew, CustodyTypeOK
<1>2. ASSUME NEW s \in Runs, Completes(s)
      PROVE /\ row[r].status = "completed" => row'[r] = row[r]
            /\ excerpt[r].output # "none" => excerpt'[r].output = excerpt[r].output
  <2>1. row[s].status = "leased" /\ \A q \in Runs \ {s} : row'[q] = row[q] /\ excerpt'[q] = excerpt[q]
    BY <1>2 DEF Completes, CompleteEngine, Holds, CustodyInv, CustodyTypeOK
  <2>2. excerpt[s].output = "none"
    BY <2>1 DEF CustodyInv, ErasedOnce, ExcerptsFilled
  <2> QED
    BY <2>1, <2>2
<1>3. CASE (\A q \in Runs : GoesOn(q)) /\ UNCHANGED <<prompt, excerpt, erasures>>
  BY <1>3 DEF GoesOn, OpenStates
<1>4. CASE ReadStep
  BY <1>4 DEF ReadStep, DropReadRows, FindRead, ReadPrompt, FailRead, Replay, Explain, TakeAnswer, Receive
<1>5. CASE PassStep
  <2> PICK p \in Passes : StartPass(p) \/ ListDue(p) \/ EraseDue(p) \/ PassOver(p) \/ EndPass(p)
    BY <1>5 DEF PassStep
  <2>1. CASE EraseDue(p)
    <3>1. row' = row
      BY <2>1 DEF EraseDue
    <3>2. excerpt' \in {excerpt, [excerpt EXCEPT ![Head(pass[p].due)[1]] = EraseRow(@, pass[p].now)]}
      BY <2>1 DEF EraseDue
    <3>3. EraseRow(excerpt[r], pass[p].now).output = excerpt[r].output
      BY DEF EraseRow, CustodyInv, CustodyTypeOK, PayloadRecords
    <3> QED
      BY <3>1, <3>2, <3>3 DEF CustodyInv, CustodyTypeOK
  <2> QED
    BY <2>1 DEF StartPass, ListDue, PassOver, EndPass
<1>6. CASE UNCHANGED custodyVars
  BY <1>6
<1> QED
  BY <1>1, <1>2, <1>3, <1>4, <1>5, <1>6, RowsGoOn DEF CustodyNext, CustodyInv

LEMMA CreatesStayNew == ASSUME CustodyInv, [CustodyNext]_custodyVars PROVE CreatesAnew'
<1> USE DEF custodyVars, kept, runRows, deployed, retention
<1>1. making \in [run : Runs \cup {Absent}, ring : Rings]
  BY DEF CustodyInv, CustodyTypeOK
<1>2. CASE WriteRun \/ DropCreation
  BY <1>1, <1>2 DEF WriteRun, DropCreation, CreatesAnew
<1>3. ASSUME NEW r \in Runs, AskCipher(r) PROVE CreatesAnew'
  BY <1>3 DEF AskCipher, CreatesAnew
<1>4. ASSUME UNCHANGED making, \A r \in Runs : row[r].status = "absent" => row'[r] = row[r] PROVE CreatesAnew'
  BY <1>1, <1>4 DEF CustodyInv, CreatesAnew
<1>5. ASSUME \A r \in Runs : GoesOn(r), UNCHANGED making PROVE CreatesAnew'
  BY <1>4, <1>5 DEF GoesOn, OpenStates
<1>6. ASSUME NEW r \in Runs, Completes(r) PROVE CreatesAnew'
  BY <1>4, <1>6 DEF Completes, CompleteEngine, Holds, CustodyInv, CustodyTypeOK
<1>7. CASE RowStep
  <2>1. ASSUME NEW r \in Runs, ExpireRun(r) \/ \E until \in LeaseEnds : Claim(r, until) \/ Renew(r, until)
        PROVE UNCHANGED making
    BY <2>1 DEF Claim, Renew, ExpireRun, Moved
  <2>2. Rotate \/ RevokeRunner \/ NextHour => UNCHANGED making
    BY DEF Rotate, RevokeRunner, NextHour
  <2>3. UNCHANGED making \/ WriteRun \/ DropCreation \/ (\E r \in Runs : AskCipher(r)) \/ \E r \in Runs : Completes(r)
    BY <1>7, <2>1, <2>2 DEF RowStep, Completes
  <2> QED
    BY <1>2, <1>3, <1>5, <1>6, <1>7, <2>3, RowsGoOn DEF CustodyInv
<1>8. CASE ReadStep
  BY <1>4, <1>8 DEF ReadStep, DropReadRows, FindRead, ReadPrompt, FailRead, Replay, Explain, TakeAnswer, Receive
<1>9. CASE PassStep
  BY <1>4, <1>9 DEF PassStep, StartPass, ListDue, EraseDue, PassOver, EndPass
<1> QED
  BY <1>4, <1>7, <1>8, <1>9 DEF CustodyNext

LEMMA ErasedStep ==
  ASSUME CustodyInv, [CustodyNext]_custodyVars, CustodyTypeOK'
  PROVE ExcerptsFilled' /\ ErasedOnce'
<1> USE CustodyBounds DEF custodyVars, kept, runRows, deployed, retention
<1>1. /\ row \in [Runs -> RowRecords] /\ prompt \in [Runs -> PayloadRecords] /\ excerpt \in [Runs -> PayloadRecords]
      /\ erasures \in [Protected -> Nat]
  BY DEF CustodyInv, CustodyTypeOK
<1>2. ASSUME NEW x \in Protected PROVE x[1] \in Runs /\ x[2] \in {"prompt", "excerpt"}
  BY DEF Protected
<1>3. ASSUME \A r \in Runs : GoesOn(r), UNCHANGED <<prompt, excerpt, erasures>> PROVE ExcerptsFilled' /\ ErasedOnce'
  <2>1. \A x \in Protected : Payload(x)' = Payload(x)
    BY <1>3 DEF Payload
  <2>2. ASSUME NEW r \in Runs
        PROVE /\ row'[r].status \in OpenStates => row[r].status \in OpenStates
              /\ row'[r].status = "completed" <=> row[r].status = "completed"
              /\ row[r].status \in Closed => row'[r] = row[r]
    BY <1>3 DEF GoesOn, OpenStates, Closed
  <2>3. ExcerptsFilled'
    BY <1>3 DEF CustodyInv, ExcerptsFilled
  <2>4. ErasedOnce'
    BY <1>2, <1>3, <2>1, <2>2 DEF CustodyInv, ErasedOnce, OpenStates
  <2> QED
    BY <2>3, <2>4
<1>4. CASE WriteRun
  <2> DEFINE m == making.run
             written == Encrypted(making.ring.active, "none")
  <2>1. m \in Runs /\ row[m].status = "absent" /\ making.ring.active \in KeyIds
    BY <1>4 DEF WriteRun, CustodyInv, CreatesAnew, CustodyTypeOK, Rings
  <2>2. /\ row' = [row EXCEPT ![m] = [NoRow EXCEPT !.status = "queued"]]
        /\ prompt' = [prompt EXCEPT ![m] = written] /\ UNCHANGED <<excerpt, erasures>>
    BY <1>4 DEF WriteRun
  <2>3. row'[m].status = "queued" /\ prompt'[m].state = "stored" /\ prompt'[m].key # Absent
    BY <1>1, <2>1, <2>2 DEF NoRow, Encrypted
  <2>4. ASSUME NEW x \in Protected, x[1] = m PROVE erasures[x] = 0 /\ Payload(x).state # "erased"
    BY <1>1, <2>1, <2>4 DEF CustodyInv, ErasedOnce, Closed
  <2>5. ASSUME NEW r \in Runs \ {m} PROVE row'[r] = row[r] /\ prompt'[r] = prompt[r]
    BY <2>2, <1>1
  <2>6. \A r \in Runs :
          /\ row'[r].status \in {"queued", "leased"} => prompt'[r].state = "stored"
          /\ excerpt'[r].state # "none" <=> row'[r].status = "completed"
    BY <2>1, <2>2, <2>3, <2>5 DEF CustodyInv, ErasedOnce
  <2>7. ASSUME NEW x \in Protected
        PROVE /\ Payload(x)'.key = Absent <=> Payload(x)'.state # "stored"
              /\ erasures'[x] > 0 => Payload(x)'.state = "erased" /\ erasures'[x] = 1
              /\ Payload(x)'.state = "erased" =>
                   row'[x[1]].status \in Closed /\ row'[x[1]].recorded + RetainFor <= Payload(x)'.erased
    <3>1. CASE x[1] # m
      <4>1. Payload(x)' = Payload(x) /\ row'[x[1]] = row[x[1]]
        BY <1>2, <2>2, <2>5, <3>1 DEF Payload
      <4> QED
        BY <2>2, <4>1 DEF CustodyInv, ErasedOnce
    <3>2. CASE x[1] = m /\ x[2] = "prompt"
      BY <2>2, <2>3, <2>4, <3>2 DEF Payload
    <3>3. CASE x[1] = m /\ x[2] = "excerpt"
      <4>1. Payload(x)' = Payload(x)
        BY <2>2, <3>3 DEF Payload
      <4> QED
        BY <2>2, <2>4, <3>3, <4>1 DEF CustodyInv, ErasedOnce
    <3> QED
      BY <1>2, <3>1, <3>2, <3>3
  <2> QED
    BY <2>2, <2>6, <2>7 DEF CustodyInv, ExcerptsFilled, ErasedOnce
<1>5. ASSUME NEW r \in Runs, Completes(r) PROVE ExcerptsFilled' /\ ErasedOnce'
  <2>1. PICK outcome \in {"succeeded", "failed"}, output \in Outputs, key \in KeyIds : CompleteEngine(r, outcome, output, key)
    BY <1>5 DEF Completes
  <2>2. /\ row' = [row EXCEPT ![r] = [Close(r, "completed") EXCEPT !.outcome = outcome]]
        /\ excerpt' = [excerpt EXCEPT ![r] = Encrypted(key, output)] /\ UNCHANGED <<prompt, erasures>>
        /\ row[r].status = "leased"
    BY <2>1 DEF CompleteEngine, Holds
  <2>3. row'[r].status = "completed"
    <3>1. Close(r, "completed") \in RowRecords
      BY RowsTyped DEF Closed, CustodyInv
    <3>2. Close(r, "completed").status = "completed"
      BY <1>1 DEF Close, RowRecords
    <3> QED
      BY <1>1, <2>2, <3>1, <3>2 DEF RowRecords
  <2>4. excerpt'[r].state = "stored" /\ excerpt'[r].key # Absent /\ excerpt'[r].output # "none"
    BY <1>1, <2>2 DEF Encrypted, Outputs
  <2>5. ASSUME NEW x \in Protected, x[1] = r PROVE erasures[x] = 0 /\ Payload(x).state # "erased"
    BY <1>1, <2>2, <2>5 DEF CustodyInv, ErasedOnce, Closed
  <2>6. ASSUME NEW s \in Runs \ {r} PROVE row'[s] = row[s] /\ excerpt'[s] = excerpt[s]
    BY <1>1, <2>2
  <2>7. \A s \in Runs :
          /\ row'[s].status \in {"queued", "leased"} => prompt'[s].state = "stored"
          /\ excerpt'[s].state # "none" <=> row'[s].status = "completed"
    BY <2>2, <2>3, <2>4, <2>6 DEF CustodyInv, ErasedOnce
  <2>8. ASSUME NEW x \in Protected
        PROVE /\ Payload(x)'.key = Absent <=> Payload(x)'.state # "stored"
              /\ erasures'[x] > 0 => Payload(x)'.state = "erased" /\ erasures'[x] = 1
              /\ Payload(x)'.state = "erased" =>
                   row'[x[1]].status \in Closed /\ row'[x[1]].recorded + RetainFor <= Payload(x)'.erased
    <3>1. CASE x[1] # r
      <4>1. Payload(x)' = Payload(x) /\ row'[x[1]] = row[x[1]]
        BY <1>2, <2>2, <2>6, <3>1 DEF Payload
      <4> QED
        BY <2>2, <4>1 DEF CustodyInv, ErasedOnce
    <3>2. CASE x[1] = r /\ x[2] = "excerpt"
      BY <2>2, <2>4, <2>5, <3>2 DEF Payload
    <3>3. CASE x[1] = r /\ x[2] = "prompt"
      <4>1. Payload(x)' = Payload(x)
        BY <2>2, <3>3 DEF Payload
      <4> QED
        BY <2>2, <2>5, <3>3, <4>1 DEF CustodyInv, ErasedOnce
    <3> QED
      BY <1>2, <3>1, <3>2, <3>3
  <2>9. ExcerptsFilled'
    BY <2>4, <2>6 DEF CustodyInv, ExcerptsFilled
  <2> QED
    BY <2>7, <2>8, <2>9 DEF ErasedOnce
<1>6. CASE ReadStep
  <2>1. UNCHANGED <<row, prompt, excerpt, erasures>>
    BY <1>6 DEF ReadStep, DropReadRows, FindRead, ReadPrompt, FailRead, Replay, Explain, TakeAnswer, Receive
  <2> QED
    BY <1>3, <2>1 DEF GoesOn
<1>7. CASE PassStep
  <2> PICK p \in Passes : StartPass(p) \/ ListDue(p) \/ EraseDue(p) \/ PassOver(p) \/ EndPass(p)
    BY <1>7 DEF PassStep
  <2>1. CASE StartPass(p) \/ ListDue(p) \/ PassOver(p) \/ EndPass(p)
    <3>1. UNCHANGED <<row, prompt, excerpt, erasures>>
      BY <2>1 DEF StartPass, ListDue, PassOver, EndPass
    <3> QED
      BY <1>3, <3>1 DEF GoesOn
  <2>2. CASE EraseDue(p)
    <3> DEFINE x == Head(pass[p].due)
               now == pass[p].now
    <3>1. x \in Protected /\ now \in Hours
      BY <2>2, HeadTailProperties DEF EraseDue, CustodyInv, CustodyTypeOK, PassRecords
    <3>2. CASE ~StillDue(x, now)
      BY <1>3, <2>2, <3>2 DEF EraseDue, GoesOn
    <3>3. CASE StillDue(x, now)
      <4>1. row' = row /\ erasures' \in {erasures, [erasures EXCEPT ![x] = @ + 1]}
        BY <2>2, <3>3 DEF EraseDue
      <4>2. row[x[1]].status \in Closed /\ row[x[1]].recorded + RetainFor <= now /\ Payload(x).state = "stored"
        BY <3>3 DEF StillDue, DueAt
      <4>3. erasures[x] = 0
        BY <1>1, <3>1, <4>2 DEF CustodyInv, ErasedOnce
      <4>4. ASSUME NEW y \in Protected PROVE Payload(y)' = IF y = x THEN EraseRow(Payload(x), now) ELSE Payload(y)
        <5>1. x = <<x[1], x[2]>> /\ y = <<y[1], y[2]>>
          BY <3>1 DEF Protected
        <5>2. /\ prompt' = IF x[2] = "prompt" THEN [prompt EXCEPT ![x[1]] = EraseRow(@, now)] ELSE prompt
              /\ excerpt' = IF x[2] = "excerpt" THEN [excerpt EXCEPT ![x[1]] = EraseRow(@, now)] ELSE excerpt
          BY <2>2, <3>3 DEF EraseDue
        <5> QED
          BY <1>1, <1>2, <3>1, <5>1, <5>2 DEF Payload
      <4>5. EraseRow(Payload(x), now).state = "erased" /\ EraseRow(Payload(x), now).key = Absent /\ EraseRow(Payload(x), now).erased = now
        BY <1>1, <1>2, <3>1 DEF EraseRow, Payload, PayloadRecords
      <4>6. ASSUME NEW y \in Protected
            PROVE /\ Payload(y)'.key = Absent <=> Payload(y)'.state # "stored"
                  /\ erasures'[y] > 0 => Payload(y)'.state = "erased" /\ erasures'[y] = 1
                  /\ Payload(y)'.state = "erased" =>
                       row'[y[1]].status \in Closed /\ row'[y[1]].recorded + RetainFor <= Payload(y)'.erased
        <5>1. CASE y = x
          BY <1>1, <3>1, <4>1, <4>2, <4>3, <4>4, <4>5, <5>1
        <5>2. CASE y # x
          <6>1. Payload(y)' = Payload(y) /\ erasures'[y] = erasures[y]
            BY <1>1, <4>1, <4>4, <5>2
          <6> QED
            BY <4>1, <6>1 DEF CustodyInv, ErasedOnce
        <5> QED
          BY <5>1, <5>2
      <4>7. ASSUME NEW r \in Runs
            PROVE /\ row'[r].status \in {"queued", "leased"} => prompt'[r].state = "stored"
                  /\ excerpt'[r].state # "none" <=> row'[r].status = "completed"
                  /\ excerpt'[r].output = excerpt[r].output /\ (excerpt'[r].state = "none" <=> excerpt[r].state = "none")
        <5>1. <<r, "prompt">> \in Protected /\ <<r, "excerpt">> \in Protected
          BY DEF Protected
        <5>2. prompt'[r] = IF <<r, "prompt">> = x THEN EraseRow(Payload(x), now) ELSE prompt[r]
          BY <4>4, <5>1 DEF Payload
        <5>3. excerpt'[r] = IF <<r, "excerpt">> = x THEN EraseRow(Payload(x), now) ELSE excerpt[r]
          BY <4>4, <5>1 DEF Payload
        <5>4. EraseRow(Payload(x), now).output = Payload(x).output
          BY <1>1, <1>2, <3>1 DEF EraseRow, Payload, PayloadRecords
        <5>5. x = <<r, "excerpt">> => Payload(x) = excerpt[r]
          BY DEF Payload
        <5>6. x = <<r, "prompt">> => row[r].status \in Closed
          BY <4>2
        <5> QED
          BY <4>1, <4>2, <4>5, <5>2, <5>3, <5>4, <5>5, <5>6 DEF CustodyInv, ErasedOnce, Closed
      <4> QED
        BY <4>6, <4>7 DEF CustodyInv, ExcerptsFilled, ErasedOnce
    <3> QED
      BY <3>2, <3>3
  <2> QED
    BY <2>1, <2>2
<1>8. CASE UNCHANGED custodyVars
  BY <1>3, <1>8 DEF GoesOn
<1> QED
  BY <1>3, <1>4, <1>5, <1>6, <1>7, <1>8, RowsGoOn DEF CustodyNext, CustodyInv

LEMMA CustodyKept == CustodyInv /\ [CustodyNext]_custodyVars => CustodyInv'
<1> SUFFICES ASSUME CustodyInv, [CustodyNext]_custodyVars PROVE CustodyInv'
  OBVIOUS
<1>1. CustodyTypeOK' /\ ReadsNamed'
  <2>1. CASE RowStep
    <3>1. reading' = reading
      BY <2>1 DEF RowStep, Rotate, WriteRun, DropCreation, RevokeRunner, NextHour, AskCipher, Claim, Renew,
                  ExpireRun, CompleteEngine, Moved
    <3> QED
      BY <2>1, <3>1, RowStepTyped DEF CustodyInv, ReadsNamed
  <2>2. CASE PassStep
    <3>1. reading' = reading
      BY <2>2 DEF PassStep, StartPass, ListDue, EraseDue, PassOver, EndPass
    <3> QED
      BY <2>2, <3>1, PassStepTyped DEF CustodyInv, ReadsNamed
  <2>3. CASE UNCHANGED custodyVars
    BY <2>3 DEF CustodyInv, CustodyTypeOK, ReadsNamed, custodyVars, kept, runRows, deployed, retention
  <2> QED
    BY <2>1, <2>2, <2>3, ReadStepTyped DEF CustodyInv, CustodyNext
<1> QED
  BY <1>1, CreatesStayNew, ErasedStep DEF CustodyInv

(* The inductive invariant of custody: what is stored, erased and written,  *)
(* and what a creation and a read under way have of it.                     *)
THEOREM CustodyInvariant == CustodySpec => []CustodyInv
<1>1. CustodyInit => CustodyInv
  BY CustodyStarts
<1>2. CustodyInv /\ [CustodyNext]_custodyVars => CustodyInv'
  BY CustodyKept
<1> QED
  BY <1>1, <1>2, PTL DEF CustodySpec

(* The types of what the server keeps of runs, and of requests under way.   *)
THEOREM CustodyTypes == CustodySpec => []CustodyTypeOK
<1>1. CustodyInv => CustodyTypeOK
  BY DEF CustodyInv
<1> QED
  BY <1>1, CustodyInvariant, PTL

(* Every prompt and every excerpt is there while its run needs it, and is  *)
(* erased once, late enough, by whichever pass of retention comes first    *)
(* (prompt-retention-repository.ts).                                       *)
THEOREM PayloadsErasedOnce == CustodySpec => []ErasedOnce
<1>1. CustodyInv => ErasedOnce
  BY DEF CustodyInv
<1> QED
  BY <1>1, CustodyInvariant, PTL

(* What the statements of the batch ask is what evaluateEnginePromptRead    *)
(* denies: a request is authorized exactly when it is denied for nothing.   *)
LEMMA AuthorizedUnlessDenied ==
  ASSUME CustodyTypeOK, NEW r \in Runs, NEW fence \in Fences, NEW now \in Hours
  PROVE Authorized(r, fence, now) <=> Denial(r, fence, now) = "none"
<1>1. row[r].until \in Int /\ now \in Int /\ prompt[r].state \in {"none", "stored", "erased"}
  BY CustodyBounds DEF CustodyTypeOK, RowRecords, PayloadRecords, Hours
<1> QED
  BY <1>1 DEF Authorized, Denial, Holds

(* A prompt is handed out to the holder of the current lease only, also to *)
(* a copy of a request (authorizeEnginePromptRead of run-repository.ts).   *)
THEOREM PromptsToHolders == CustodySpec => PromptToHolder
<1>1. ASSUME CustodyInv, [CustodyNext]_custodyVars, NEW q \in Reads, Given(q)', ~Given(q)
      PROVE runnerUp /\ Holds(reading[q].run, reading[q].fence, reading[q].now)
  <2> USE DEF custodyVars, kept, runRows, deployed, retention
  <2>1. reading \in [Reads -> ReadRecords] /\ \A p \in Reads : reading[p].step # "none" => reading[p] \in LiveReads
    BY <1>1 DEF CustodyInv, CustodyTypeOK, ReadsNamed, IdleRead
  <2>2. reading'[q].answer # reading[q].answer
    BY <1>1 DEF Given
  <2>3. CASE RowStep
    BY <2>2, <2>3 DEF RowStep, Rotate, WriteRun, DropCreation, RevokeRunner, NextHour, AskCipher, Claim, Renew,
                ExpireRun, CompleteEngine, Moved
  <2>4. CASE PassStep
    BY <2>2, <2>4 DEF PassStep, StartPass, ListDue, EraseDue, PassOver, EndPass
  <2>5. ASSUME NEW p \in Reads, NEW n \in ReadNonces, NEW r \in Runs, NEW f \in Fences, Receive(p, n, r, f) PROVE FALSE
    <3>1. [IdleRead EXCEPT !.step = "find", !.nonce = n, !.run = r, !.fence = f, !.now = hour, !.keys = ring.keys].answer = "none"
      BY DEF IdleRead
    <3> QED
      BY <1>1, <2>1, <2>5, <3>1 DEF Receive, Given
  <2>6. ASSUME NEW p \in Reads, NEW answer, Say(p, answer), answer \notin {"prompt", "replayed"} PROVE FALSE
    <3>1. p = q => reading'[q].answer = answer
      BY <2>1, <2>6 DEF Say, ReadRecords
    <3>2. p # q => reading'[q] = reading[q]
      BY <2>1, <2>6 DEF Say
    <3> QED
      BY <1>1, <2>2, <2>6, <3>1, <3>2 DEF Given
  <2>7. ASSUME NEW p \in Reads, NEW step, Step(p, step) PROVE FALSE
    BY <2>1, <2>2, <2>7 DEF Step, ReadRecords
  <2>8. ASSUME NEW p \in Reads, NEW as, Hand(p, as) PROVE p = q
    BY <2>1, <2>2, <2>8 DEF Hand, Say
  <2>10. ASSUME NEW p \in Reads, FindRead(p) PROVE FALSE
    BY <2>6, <2>7, <2>10 DEF FindRead
  <2>11. ASSUME NEW p \in Reads, FailRead(p) PROVE FALSE
    BY <2>6, <2>7, <2>11 DEF FailRead
  <2>12. ASSUME NEW p \in Reads, TakeAnswer(p) PROVE FALSE
    <3>1. reading'[q].answer \in {"none", reading[q].answer}
      BY <2>1, <2>12 DEF TakeAnswer, IdleRead
    <3> QED
      BY <1>1, <2>2, <3>1 DEF Given
  <2>14. ASSUME NEW p \in Reads, Explain(p) PROVE FALSE
    <3> DEFINE denied == Denial(reading[p].run, reading[p].fence, reading[p].now)
    <3>1. denied \notin {"prompt", "replayed"}
      BY DEF Denial
    <3>2. CASE reading' = [reading EXCEPT ![p].step = "read", ![p].tries = @ + 1]
      BY <2>1, <2>2, <3>2 DEF ReadRecords
    <3> QED
      BY <2>6, <2>14, <3>1, <3>2 DEF Explain
  <2>15. ASSUME NEW p \in Reads, ReadPrompt(p)
         PROVE p = q /\ Authorized(reading[p].run, reading[p].fence, reading[p].now)
    BY <2>7, <2>8, <2>15 DEF ReadPrompt
  <2>16. ASSUME NEW p \in Reads, Replay(p)
         PROVE p = q /\ Authorized(reading[p].run, reading[p].fence, reading[p].now)
    <3> DEFINE denied == Denial(reading[p].run, reading[p].fence, reading[p].now)
    <3>1. denied \notin {"prompt", "replayed"}
      BY DEF Denial
    <3>2. denied = "none" /\ p = q
      BY <2>6, <2>8, <2>16, <3>1 DEF Replay
    <3>3. reading[p] \in LiveReads
      BY <2>1, <2>16 DEF Replay
    <3> QED
      BY <1>1, <3>2, <3>3, AuthorizedUnlessDenied DEF CustodyInv, LiveReads
  <2>17. CASE DropReadRows
    BY <2>2, <2>17 DEF DropReadRows
  <2>18. CASE UNCHANGED custodyVars
    BY <2>2, <2>18
  <2> QED
    BY <1>1, <2>3, <2>4, <2>5, <2>10, <2>11, <2>12, <2>14, <2>15, <2>16, <2>17, <2>18
       DEF CustodyNext, ReadStep, Authorized
<1>2. CustodyInv /\ [CustodyNext]_custodyVars =>
        [\A q \in Reads : Given(q)' /\ ~Given(q) =>
           LET asked == reading[q] IN
           runnerUp /\ Holds(asked.run, asked.fence, asked.now)]_custodyVars
  BY <1>1
<1> QED
  BY <1>2, CustodyInvariant, PTL DEF CustodySpec, PromptToHolder

(* Publication *)

(* A request names its run, and answers at its end only.                    *)
RequestsNamed ==
  \A q \in Publishers : publisher[q].step # "none" =>
    publisher[q].run \in Runs /\ (publisher[q].step # "answered" => publisher[q].answer = "none")

(* One whose batch went through and who has not heard of it is the only     *)
(* one, and will be told so.                                                *)
Published(q) == publisher[q].phase = "done" /\ publisher[q].step = "row"
PublishedAlone ==
  \A q \in Publishers : Published(q) =>
    /\ publisher[q].run \in publication /\ told[publisher[q].run] = 0
    /\ \A p \in Publishers \ {q} : Published(p) => publisher[p].run # publisher[q].run

(* Behind the first reading there is a text; the batch comes after it.      *)
TextRead ==
  \A q \in Publishers :
    /\ publisher[q].step # "none" /\ publisher[q].phase # "first" => excerpt[publisher[q].run].output = "text"
    /\ publisher[q].step \in {"head", "batch"} => publisher[q].phase = "raced"
    /\ publisher[q].phase = "done" => publisher[q].step \in {"row", "answered"}

(* Whatever a request is told of, or a list shows as published, is so.      *)
SaidPublished ==
  /\ \A q \in Publishers : publisher[q].answer \in {"new", "known"} => publisher[q].run \in publication
  /\ \A r \in Runs : listing.seen[r] = "published" => r \in publication

PublishedRuns == \A r \in publication : row[r].status = "completed"

PublicationInv ==
  /\ PublicationTypeOK /\ RequestsNamed /\ PublishedAlone /\ TextRead /\ SaidPublished /\ PublishedRuns
  /\ PublishedOnce

LEMMA PublicationBounds == PublishTries \in Nat /\ PublishTries > 0 /\ MaxHead \in Nat
  BY PublicationAssumption

LEMMA PublicationStarts == CustodyInit /\ PublicationInit => PublicationInv
<1> SUFFICES ASSUME CustodyInit, PublicationInit PROVE PublicationInv
  OBVIOUS
<1> USE PublicationBounds DEF PublicationInit, IdlePublisher, NoListing
<1>1. PublicationTypeOK
  BY DEF PublicationTypeOK, PublisherRecords, Phases, States
<1>2. RequestsNamed /\ PublishedAlone /\ TextRead /\ SaidPublished /\ PublishedRuns
  BY DEF RequestsNamed, PublishedAlone, Published, TextRead, SaidPublished, PublishedRuns
<1>3. PublishedOnce
  BY DEF PublishedOnce
<1> QED
  BY <1>1, <1>2, <1>3 DEF PublicationInv

LEMMA CustodyLeavesPublished ==
  ASSUME CustodyInv, PublicationInv, [CustodyNext]_custodyVars, UNCHANGED publicationVars
  PROVE PublicationInv'
<1> USE DEF publicationVars, registered, tabVars
<1>1. ASSUME NEW r \in Runs
      PROVE /\ row[r].status = "completed" => row'[r] = row[r]
            /\ excerpt[r].output = "text" => excerpt'[r].output = "text"
  BY CompletedStays
<1>2. PublicationTypeOK'
  BY DEF PublicationInv, PublicationTypeOK
<1>3. RequestsNamed' /\ PublishedAlone' /\ SaidPublished'
  BY DEF PublicationInv, RequestsNamed, PublishedAlone, Published, SaidPublished
<1>4. TextRead'
  <2>1. ASSUME NEW q \in Publishers, publisher[q].step # "none", publisher[q].phase # "first"
        PROVE excerpt'[publisher[q].run].output = "text"
    <3>1. publisher[q].run \in Runs /\ excerpt[publisher[q].run].output = "text"
      BY <2>1 DEF PublicationInv, TextRead, RequestsNamed
    <3> QED
      BY <1>1, <3>1
  <2> QED
    BY <2>1 DEF PublicationInv, TextRead
<1>5. ASSUME NEW r \in publication
      PROVE r \in Runs /\ row[r].status = "completed" /\ row'[r] = row[r] /\ row[r].outcome = "succeeded"
            /\ excerpt[r].output = "text" /\ excerpt'[r].output = "text"
  <2>1. r \in Runs /\ row[r].status = "completed" /\ row[r].outcome = "succeeded" /\ excerpt[r].output = "text"
    BY <1>5 DEF PublicationInv, PublicationTypeOK, PublishedRuns, PublishedOnce
  <2> QED
    BY <1>1, <2>1
<1>6. PublishedRuns'
  BY <1>5 DEF PublishedRuns
<1>7. PublishedOnce'
  BY <1>5 DEF PublicationInv, PublishedOnce
<1> QED
  BY <1>2, <1>3, <1>4, <1>6, <1>7 DEF PublicationInv

(* What a request may become when nothing is committed and nobody is told.  *)
Fits(q, next) ==
  /\ next \in PublisherRecords
  /\ next.step # "none" => next.run \in Runs /\ (next.step # "answered" => next.answer = "none")
  /\ next.phase = "done" => next.step = "answered"
  /\ next.step # "none" /\ next.phase # "first" => excerpt[next.run].output = "text"
  /\ next.step \in {"head", "batch"} => next.phase = "raced"
  /\ next.answer \in {"new", "known"} => next.run \in publication

LEMMA RequestGoesOn ==
  ASSUME PublicationInv, NEW q \in Publishers, NEW next, Fits(q, next), publisher' = [publisher EXCEPT ![q] = next],
         UNCHANGED <<publication, shelf, told, listing>>, UNCHANGED custodyVars,
         head' \in 0..MaxHead, ownerIn' \in BOOLEAN, shown' \in [Runs -> States],
         \A r \in Runs : shown'[r] = "published" => shown[r] = "published" \/ r \in publication
  PROVE PublicationInv'
<1> USE DEF custodyVars, kept, runRows, deployed, retention
<1>1. publisher \in [Publishers -> PublisherRecords]
  BY DEF PublicationInv, PublicationTypeOK
<1>2. publisher'[q] = next /\ \A p \in Publishers \ {q} : publisher'[p] = publisher[p]
  BY <1>1
<1>3. PublicationTypeOK'
  BY <1>1 DEF PublicationInv, PublicationTypeOK, Fits
<1>4. RequestsNamed'
  BY <1>2 DEF PublicationInv, RequestsNamed, Fits
<1>5. PublishedAlone'
  <2>1. \A p \in Publishers : Published(p)' => Published(p) /\ publisher'[p].run = publisher[p].run
    BY <1>2 DEF Published, Fits
  <2> QED
    BY <2>1 DEF PublicationInv, PublishedAlone
<1>6. TextRead'
  BY <1>2 DEF PublicationInv, TextRead, Fits
<1>7. SaidPublished'
  BY <1>2 DEF PublicationInv, SaidPublished, Fits
<1>8. PublishedRuns' /\ PublishedOnce'
  BY DEF PublicationInv, PublishedRuns, PublishedOnce, PublicationTypeOK
<1> QED
  BY <1>3, <1>4, <1>5, <1>6, <1>7, <1>8 DEF PublicationInv

(* Its state is read as published, and it was the one whose batch did it.   *)
LEMMA RequestIsTold ==
  ASSUME PublicationInv, NEW q \in Publishers, Published(q), Reached(q, "published"),
         UNCHANGED <<registered, ownerIn, tabVars>>, UNCHANGED custodyVars
  PROVE PublicationInv'
<1> USE DEF custodyVars, kept, runRows, deployed, retention, registered, tabVars
<1> DEFINE r == publisher[q].run
           next == [publisher[q] EXCEPT !.step = "answered", !.answer = "new"]
<1>1. publisher[q] \in PublisherRecords /\ publisher \in [Publishers -> PublisherRecords] /\ told \in [Runs -> Nat]
  BY DEF PublicationInv, PublicationTypeOK
<1>2. publisher' = [publisher EXCEPT ![q] = next] /\ told' = [told EXCEPT ![r] = @ + 1]
  BY <1>1 DEF Reached, Concluded, Says, Published, PublisherRecords
<1>3. next \in PublisherRecords /\ next.step = "answered" /\ next.answer = "new" /\ next.run = r /\ next.phase = "done"
  BY <1>1 DEF PublisherRecords, Published
<1>4. r \in Runs /\ r \in publication /\ told[r] = 0
  BY DEF PublicationInv, RequestsNamed, PublishedAlone, Published
<1>5. publisher'[q] = next /\ \A p \in Publishers \ {q} : publisher'[p] = publisher[p]
  BY <1>1, <1>2
<1> HIDE DEF next
<1>6. PublicationTypeOK'
  BY <1>1, <1>2, <1>3, <1>4, <1>5 DEF PublicationInv, PublicationTypeOK
<1>7. RequestsNamed' /\ SaidPublished' /\ PublishedRuns'
  BY <1>3, <1>4, <1>5 DEF PublicationInv, RequestsNamed, SaidPublished, PublishedRuns
<1>8. TextRead'
  <2>1. excerpt[r].output = "text"
    BY DEF PublicationInv, TextRead, Published
  <2> QED
    BY <1>3, <1>5, <2>1 DEF PublicationInv, TextRead
<1>9. PublishedAlone'
  <2>1. ASSUME NEW p \in Publishers, Published(p)'
        PROVE p # q /\ Published(p) /\ publisher'[p] = publisher[p] /\ publisher[p].run # r
    <3>1. p # q
      BY <1>3, <1>5, <2>1 DEF Published
    <3>2. publisher'[p] = publisher[p] /\ Published(p)
      BY <1>5, <2>1, <3>1 DEF Published
    <3> QED
      BY <3>1, <3>2 DEF PublicationInv, PublishedAlone
  <2> QED
    BY <1>1, <1>2, <2>1 DEF PublicationInv, PublishedAlone
<1>10. PublishedOnce'
  BY <1>1, <1>2, <1>4 DEF PublicationInv, PublishedOnce
<1> QED
  BY <1>6, <1>7, <1>8, <1>9, <1>10 DEF PublicationInv

LEMMA CommitPublishes ==
  ASSUME CustodyInv, PublicationInv, NEW q \in Publishers, CommitPublication(q), UNCHANGED custodyVars
  PROVE PublicationInv'
<1> USE PublicationBounds DEF custodyVars, kept, runRows, deployed, retention, registered, tabVars
<1> DEFINE r == publisher[q].run
<1>1. publisher[q] \in PublisherRecords /\ publisher \in [Publishers -> PublisherRecords]
      /\ shelf \in [Runs -> Nat] /\ told \in [Runs -> Nat] /\ head \in 0..MaxHead
  BY DEF PublicationInv, PublicationTypeOK
<1>2. PICK phase \in {"done", "after"} : publisher' = [publisher EXCEPT ![q] = [publisher[q] EXCEPT !.step = "row", !.phase = phase]]
  BY DEF CommitPublication, Phase
<1> DEFINE next == [publisher[q] EXCEPT !.step = "row", !.phase = phase]
<1>3. next \in PublisherRecords /\ next.step = "row" /\ next.phase = phase /\ next.run = r /\ next.answer = publisher[q].answer
  BY <1>1 DEF PublisherRecords, Phases
<1>4. publisher'[q] = next /\ \A p \in Publishers \ {q} : publisher'[p] = publisher[p]
  BY <1>1, <1>2
<1>5. /\ r \in Runs /\ r \notin publication /\ publisher[q].answer = "none" /\ excerpt[r].output = "text"
      /\ row[r].status = "completed" /\ row[r].outcome = "succeeded"
  <2>1. publisher[q].step = "batch" /\ Publishable(q)
    BY DEF CommitPublication
  <2>2. r \in Runs /\ publisher[q].answer = "none" /\ publisher[q].phase = "raced" /\ excerpt[r].output = "text"
    BY <2>1 DEF PublicationInv, RequestsNamed, TextRead
  <2> QED
    BY <2>1, <2>2 DEF Publishable
<1>6. told[r] = 0 /\ shelf[r] = 0 /\ \A p \in Publishers : Published(p) => publisher[p].run # r
  BY <1>1, <1>5 DEF PublicationInv, PublishedOnce, PublishedAlone
<1>7. /\ publication' = publication \cup {r} /\ shelf' = [shelf EXCEPT ![r] = @ + 1] /\ head' = head + 1 /\ head < MaxHead
      /\ UNCHANGED <<told, ownerIn, tabVars>>
  BY DEF CommitPublication
<1>8. PublicationTypeOK'
  BY <1>1, <1>2, <1>3, <1>5, <1>7 DEF PublicationInv, PublicationTypeOK
<1> HIDE DEF next
<1>9. RequestsNamed' /\ PublishedRuns'
  BY <1>3, <1>4, <1>5, <1>7 DEF PublicationInv, RequestsNamed, PublishedRuns
<1>10. TextRead'
  BY <1>3, <1>4, <1>5 DEF PublicationInv, TextRead
<1>11. SaidPublished'
  BY <1>3, <1>4, <1>5, <1>7 DEF PublicationInv, SaidPublished
<1>12. PublishedAlone'
  <2>1. \A p \in Publishers \ {q} : Published(p)' => Published(p) /\ publisher'[p] = publisher[p] /\ publisher[p].run # r
    BY <1>4, <1>6 DEF Published
  <2>2. publisher'[q].run = r
    BY <1>3, <1>4
  <2> QED
    BY <1>5, <1>6, <1>7, <2>1, <2>2 DEF PublicationInv, PublishedAlone
<1>13. PublishedOnce'
  BY <1>1, <1>5, <1>6, <1>7 DEF PublicationInv, PublishedOnce
<1> QED
  BY <1>8, <1>9, <1>10, <1>11, <1>12, <1>13 DEF PublicationInv

(* What follows from a state that was read, but for the one who is told.    *)
LEMMA ReachedGoesOn ==
  ASSUME PublicationInv, NEW q \in Publishers, NEW state, ~Published(q), publisher[q].step \in {"row", "excerpt"},
         Reached(q, state), state = "published" => publisher[q].run \in publication,
         UNCHANGED <<registered, ownerIn, tabVars>>, UNCHANGED custodyVars
  PROVE PublicationInv'
<1> USE PublicationBounds DEF registered, tabVars
<1> DEFINE mine == publisher[q]
           next == Concluded(q, state)
<1>1. /\ mine \in PublisherRecords /\ mine.run \in Runs /\ mine.answer = "none" /\ mine.phase \in {"first", "raced", "after"}
      /\ mine.phase # "first" => excerpt[mine.run].output = "text"
  BY DEF PublicationInv, PublicationTypeOK, RequestsNamed, TextRead, Published, PublisherRecords, Phases
<1>2. ASSUME NEW answer \in {"known", "error"}, answer = "known" => mine.run \in publication, next = Says(q, answer)
      PROVE Fits(q, next)
  <2>1. Says(q, answer) \in PublisherRecords
    BY <1>1 DEF Says, PublisherRecords
  <2>2. Says(q, answer).step = "answered" /\ Says(q, answer).answer = answer /\ Says(q, answer).run = mine.run
        /\ Says(q, answer).phase = mine.phase
    BY <1>1 DEF Says, PublisherRecords
  <2> QED
    BY <1>1, <1>2, <2>1, <2>2 DEF Fits
<1>3. ASSUME NEW step \in {"content", "head"}, next = [mine EXCEPT !.step = step], step = "head" => mine.phase = "raced"
      PROVE Fits(q, next)
  <2>1. [mine EXCEPT !.step = step] \in PublisherRecords
    BY <1>1 DEF PublisherRecords
  <2>2. /\ [mine EXCEPT !.step = step].step = step /\ [mine EXCEPT !.step = step].run = mine.run
        /\ [mine EXCEPT !.step = step].phase = mine.phase /\ [mine EXCEPT !.step = step].answer = mine.answer
    BY <1>1 DEF PublisherRecords
  <2> QED
    BY <1>1, <1>3, <2>1, <2>2 DEF Fits
<1>4. ASSUME mine.phase = "after", mine.tries + 1 < PublishTries, next = [Phase(q, "raced") EXCEPT !.tries = @ + 1]
      PROVE Fits(q, next)
  <2> DEFINE phased == [mine EXCEPT !.step = "row", !.phase = "raced"]
  <2>1. phased \in PublisherRecords /\ phased.tries = mine.tries /\ mine.tries \in 0..PublishTries
    BY <1>1 DEF PublisherRecords, Phases
  <2>2. next = [phased EXCEPT !.tries = mine.tries + 1]
    BY <1>4, <2>1 DEF Phase
  <2>3. phased.step = "row" /\ phased.phase = "raced" /\ phased.run = mine.run /\ phased.answer = mine.answer
    BY <1>1 DEF PublisherRecords
  <2> HIDE DEF phased, next
  <2>4. next \in PublisherRecords
    BY <1>4, <2>1, <2>2 DEF PublisherRecords
  <2>5. next.step = "row" /\ next.phase = "raced" /\ next.run = mine.run /\ next.answer = mine.answer
    BY <2>1, <2>2, <2>3 DEF PublisherRecords
  <2> QED
    BY <1>1, <1>4, <2>4, <2>5 DEF Fits
<1>5. Fits(q, next)
  <2>1. CASE state = "published"
    <3>1. next = Says(q, "known")
      BY <1>1, <2>1 DEF Concluded
    <3> QED
      BY <1>2, <2>1, <3>1
  <2>2. CASE state # "published"
    BY <1>1, <1>2, <1>3, <1>4, <2>2 DEF Concluded
  <2> QED
    BY <2>1, <2>2
<1>6. next.answer # "new"
  BY <1>1, <1>5 DEF Concluded, Fits, Says, Phase, PublisherRecords
<1>7. publisher' = [publisher EXCEPT ![q] = next] /\ UNCHANGED told
  BY <1>6 DEF Reached
<1> HIDE DEF next
<1>8. shown' \in [Runs -> States] /\ head' \in 0..MaxHead /\ ownerIn' \in BOOLEAN
  BY DEF PublicationInv, PublicationTypeOK
<1> QED
  BY <1>5, <1>7, <1>8, RequestGoesOn

LEMMA RequestSteps ==
  ASSUME CustodyInv, PublicationInv, NEW q \in Publishers, UNCHANGED custodyVars,
         \/ ReadRow(q) \/ ReadExcerpt(q) \/ ReadFails(q) \/ ReadContent(q) \/ ReadLedgerHead(q)
         \/ CommitPublication(q) \/ FailPublication(q) \/ TakePublished(q) \/ LosePublished(q)
         \/ \E r \in Runs, own \in BOOLEAN : Publish(q, r, own)
  PROVE PublicationInv'
<1> USE PublicationBounds DEF registered, tabVars
<1> DEFINE mine == publisher[q]
<1>1. /\ publisher \in [Publishers -> PublisherRecords] /\ mine \in PublisherRecords
      /\ head \in 0..MaxHead /\ ownerIn \in BOOLEAN /\ shown \in [Runs -> States]
  BY DEF PublicationInv, PublicationTypeOK
<1>2. mine.step # "none" => /\ mine.run \in Runs /\ (mine.step # "answered" => mine.answer = "none")
                           /\ (mine.phase # "first" => excerpt[mine.run].output = "text")
                           /\ (mine.phase = "done" => mine.step \in {"row", "answered"})
                           /\ (mine.step \in {"head", "batch"} => mine.phase = "raced")
  BY DEF PublicationInv, RequestsNamed, TextRead
<1>3. ASSUME NEW next, Fits(q, next), publisher' = [publisher EXCEPT ![q] = next],
             UNCHANGED <<registered, told, ownerIn, tabVars>>
      PROVE PublicationInv'
  BY <1>1, <1>3, RequestGoesOn
<1>4. ASSUME mine.step # "none", mine.step # "answered" PROVE Fits(q, Says(q, "error"))
  <2>1. Says(q, "error") \in PublisherRecords
    BY <1>1 DEF Says, PublisherRecords
  <2>2. Says(q, "error").step = "answered" /\ Says(q, "error").answer = "error" /\ Says(q, "error").run = mine.run
        /\ Says(q, "error").phase = mine.phase
    BY <1>1 DEF Says, PublisherRecords
  <2> QED
    BY <1>2, <1>4, <2>1, <2>2 DEF Fits
<1>5. ASSUME NEW phase \in {"raced", "after"}, mine.step # "none", mine.step # "answered", excerpt[mine.run].output = "text"
      PROVE Fits(q, Phase(q, phase))
  <2>1. Phase(q, phase) \in PublisherRecords
    BY <1>1 DEF Phase, PublisherRecords, Phases
  <2>2. Phase(q, phase).step = "row" /\ Phase(q, phase).phase = phase /\ Phase(q, phase).run = mine.run
        /\ Phase(q, phase).answer = mine.answer
    BY <1>1 DEF Phase, PublisherRecords
  <2> QED
    BY <1>2, <1>5, <2>1, <2>2 DEF Fits
<1>6. CASE ReadRow(q)
  <2> DEFINE state == RowState(mine.run)
             next == [mine EXCEPT !.step = "excerpt"]
  <2>1. mine.step = "row" /\ (state = "published" <=> mine.run \in publication)
    BY <1>6 DEF ReadRow, RowState
  <2>2. CASE Published(q)
    <3>1. state = "published"
      BY <2>1, <2>2 DEF PublicationInv, PublishedAlone
    <3> QED
      BY <1>6, <2>2, <3>1, RequestIsTold DEF ReadRow
  <2>3. CASE ~Published(q) /\ state # "eligible"
    <3> HIDE DEF state
    <3> QED
      BY <1>6, <2>1, <2>3, ReachedGoesOn DEF ReadRow, state
  <2>4. CASE ~Published(q) /\ state = "eligible"
    <3>1. next \in PublisherRecords /\ next.step = "excerpt" /\ next.run = mine.run /\ next.phase = mine.phase /\ next.answer = mine.answer
      BY <1>1 DEF PublisherRecords
    <3>2. mine.phase # "done"
      BY <2>1, <2>4 DEF Published
    <3> HIDE DEF next
    <3>3. Fits(q, next)
      BY <1>2, <2>1, <3>1, <3>2 DEF Fits
    <3>4. publisher' = [publisher EXCEPT ![q] = next] /\ UNCHANGED <<registered, told, ownerIn, tabVars>>
      BY <1>1, <1>6, <2>4 DEF ReadRow, next
    <3> QED
      BY <1>3, <3>3, <3>4
  <2> QED
    BY <2>2, <2>3, <2>4
<1>7. CASE ReadExcerpt(q)
  <2>1. mine.step = "excerpt" /\ ~Published(q)
    BY <1>7 DEF ReadExcerpt, Published
  <2>2. PICK state \in {ExcerptState(mine.run), "blocked"} : Reached(q, state)
    BY <1>7 DEF ReadExcerpt
  <2>3. state # "published"
    BY <2>2 DEF ExcerptState
  <2> QED
    BY <1>7, <2>1, <2>2, <2>3, ReachedGoesOn DEF ReadExcerpt
<1>8. CASE ReadFails(q)
  <2>1. mine.step \in {"row", "content", "head"} /\ UNCHANGED <<registered, told, ownerIn, tabVars>>
    BY <1>8 DEF ReadFails
  <2>2. CASE mine.phase = "done"
    BY <1>2, <1>3, <1>5, <1>8, <2>1, <2>2 DEF ReadFails
  <2>3. CASE mine.phase # "done"
    BY <1>3, <1>4, <1>8, <2>1, <2>3 DEF ReadFails
  <2> QED
    BY <2>2, <2>3
<1>9. CASE ReadContent(q)
  <2>1. mine.step = "content" /\ UNCHANGED <<registered, told, ownerIn, tabVars>>
    BY <1>9 DEF ReadContent
  <2>2. CASE HasText(mine.run)
    <3>1. excerpt[mine.run].output = "text"
      BY <2>2 DEF HasText
    <3> QED
      BY <1>3, <1>5, <1>9, <2>1, <2>2, <3>1 DEF ReadContent
  <2>3. CASE ~HasText(mine.run)
    BY <1>3, <1>4, <1>9, <2>1, <2>3 DEF ReadContent
  <2> QED
    BY <2>2, <2>3
<1>10. CASE ReadLedgerHead(q)
  <2> DEFINE next == [mine EXCEPT !.step = "batch", !.at = head]
  <2>1. mine.step = "head" /\ UNCHANGED <<registered, told, ownerIn, tabVars>>
    BY <1>10 DEF ReadLedgerHead
  <2>2. next \in PublisherRecords /\ next.step = "batch" /\ next.run = mine.run /\ next.phase = mine.phase /\ next.answer = mine.answer
    BY <1>1 DEF PublisherRecords
  <2>3. publisher' = [publisher EXCEPT ![q] = next]
    BY <1>1, <1>10 DEF ReadLedgerHead
  <2> HIDE DEF next
  <2>4. Fits(q, next)
    BY <1>2, <2>1, <2>2 DEF Fits
  <2> QED
    BY <1>3, <2>1, <2>3, <2>4
<1>11. CASE CommitPublication(q)
  BY <1>11, CommitPublishes
<1>12. CASE FailPublication(q)
  BY <1>2, <1>3, <1>5, <1>12 DEF FailPublication
<1>13. Fits(q, IdlePublisher)
  BY PublicationBounds DEF Fits, IdlePublisher, PublisherRecords, Phases
<1>14. CASE LosePublished(q)
  BY <1>3, <1>13, <1>14 DEF LosePublished, Answered
<1>15. CASE TakePublished(q)
  <2>1. mine.step = "answered" /\ (mine.answer \in {"new", "known"} => mine.run \in publication)
    BY <1>15 DEF TakePublished, Answered, PublicationInv, SaidPublished
  <2>2. shown' \in [Runs -> States] /\ \A r \in Runs : shown'[r] = "published" => shown[r] = "published" \/ r \in publication
    BY <1>1, <1>2, <1>15, <2>1 DEF TakePublished, States
  <2> QED
    BY <1>1, <1>13, <1>15, <2>2, RequestGoesOn DEF TakePublished, Answered
<1>16. ASSUME NEW r \in Runs, NEW own \in BOOLEAN, Publish(q, r, own) PROVE PublicationInv'
  <2> DEFINE next == [IdlePublisher EXCEPT !.step = "row", !.run = r, !.tab = own]
  <2>1. next.step = "row" /\ next.run = r /\ next.phase = "first" /\ next.answer = "none"
    BY DEF IdlePublisher
  <2>2. next \in PublisherRecords
    BY <1>13 DEF Fits, PublisherRecords
  <2>3. publisher' = [publisher EXCEPT ![q] = next] /\ UNCHANGED <<registered, told, ownerIn, tabVars>>
    BY <1>16 DEF Publish
  <2> HIDE DEF next
  <2>4. Fits(q, next)
    BY <2>1, <2>2 DEF Fits
  <2> QED
    BY <1>3, <2>3, <2>4
<1> QED
  BY <1>6, <1>7, <1>8, <1>9, <1>10, <1>11, <1>12, <1>14, <1>15, <1>16

LEMMA TabSteps ==
  ASSUME PublicationInv, UNCHANGED custodyVars,
         OtherEntries \/ OwnerChanges \/ AskList \/ ListRows \/ ListExcerpts \/ TakeList
  PROVE PublicationInv'
<1> USE PublicationBounds DEF registered, tabVars, custodyVars, kept, runRows, deployed, retention
<1>1. /\ listing.seen \in [Runs -> States] /\ shown \in [Runs -> States] /\ head \in 0..MaxHead /\ ownerIn \in BOOLEAN
  BY DEF PublicationInv, PublicationTypeOK
<1>2. UNCHANGED <<publication, shelf, told, publisher>>
  BY DEF OtherEntries, OwnerChanges, AskList, ListRows, ListExcerpts, TakeList
<1>3. head' \in 0..MaxHead /\ ownerIn' \in BOOLEAN
  <2>1. head' = head \/ (head' = head + 1 /\ head < MaxHead)
    BY DEF OtherEntries, OwnerChanges, AskList, ListRows, ListExcerpts, TakeList
  <2>2. head' \in 0..MaxHead
    BY <1>1, <2>1
  <2>3. CASE OwnerChanges
    BY <2>2, <2>3, ZenonT(30) DEF OwnerChanges
  <2>4. CASE OtherEntries \/ AskList \/ ListRows \/ ListExcerpts \/ TakeList
    <3>1. ownerIn' = ownerIn
      BY <2>4 DEF OtherEntries, AskList, ListRows, ListExcerpts, TakeList
    <3> QED
      BY <1>1, <2>2, <3>1, ZenonT(30)
  <2> QED
    BY <2>3, <2>4
<1>4. /\ listing' \in [step : {"none", "rows", "excerpts", "answered"}, seen : [Runs -> States]]
      /\ \A r \in Runs : listing'.seen[r] = "published" => r \in publication
  <2>1. CASE AskList \/ TakeList
    BY <2>1 DEF AskList, TakeList, NoListing, States
  <2>2. CASE ListRows
    <3>1. \A r \in Runs : Listed(r) \in States /\ (Listed(r) = "published" => r \in publication)
      BY DEF Listed, RowState, States
    <3> QED
      BY <2>2, <3>1 DEF ListRows
  <2>3. CASE ListExcerpts
    <3>1. \A r \in Runs : ExcerptState(r) \in {"eligible", "blocked"}
      BY DEF ExcerptState
    <3> QED
      BY <1>1, <2>3, <3>1 DEF ListExcerpts, States, PublicationInv, SaidPublished
  <2>4. CASE OtherEntries \/ OwnerChanges
    BY <2>4 DEF OtherEntries, OwnerChanges, PublicationInv, PublicationTypeOK, SaidPublished
  <2> QED
    BY <2>1, <2>2, <2>3, <2>4
<1>5. shown' \in {shown, listing.seen}
  BY DEF OtherEntries, OwnerChanges, AskList, ListRows, ListExcerpts, TakeList
<1>6. PublicationTypeOK'
  BY <1>1, <1>2, <1>3, <1>4, <1>5 DEF PublicationInv, PublicationTypeOK
<1>7. RequestsNamed' /\ PublishedAlone' /\ TextRead' /\ PublishedRuns' /\ SaidPublished'
  BY <1>2, <1>4 DEF PublicationInv, RequestsNamed, PublishedAlone, Published, TextRead, PublishedRuns, SaidPublished
<1>8. PublishedOnce'
  BY <1>2, <1>5 DEF PublicationInv, PublishedOnce, SaidPublished
<1> QED
  BY <1>6, <1>7, <1>8 DEF PublicationInv

(* The inductive invariant of publication: what a request under way has     *)
(* read of its operation, who is the one that published it, and what a list *)
(* under way shows.                                                         *)
THEOREM PublicationInvariant == PublicationSpec => [](CustodyInv /\ PublicationInv)
<1> DEFINE all == <<custodyVars, publicationVars>>
<1>1. CustodyInit /\ PublicationInit => CustodyInv /\ PublicationInv
  BY CustodyStarts, PublicationStarts
<1>2. CustodyInv /\ PublicationInv /\ [PublicationNext]_all => CustodyInv' /\ PublicationInv'
  <2> SUFFICES ASSUME CustodyInv, PublicationInv, [PublicationNext]_all PROVE CustodyInv' /\ PublicationInv'
    OBVIOUS
  <2>1. [CustodyNext]_custodyVars
    BY DEF PublicationNext
  <2>2. CustodyInv'
    BY <2>1, CustodyKept
  <2>3. CASE UNCHANGED publicationVars
    BY <2>1, <2>2, <2>3, CustodyLeavesPublished
  <2>4. CASE (PublisherStep \/ TabStep) /\ UNCHANGED custodyVars
    <3>1. ASSUME NEW q \in Publishers, NEW r \in Runs, Click(q, r) PROVE Publish(q, r, TRUE)
      BY <3>1 DEF Click
    <3>2. CASE OtherEntries \/ OwnerChanges \/ AskList \/ ListRows \/ ListExcerpts \/ TakeList
      BY <2>2, <2>4, <3>2, TabSteps
    <3>3. ASSUME NEW q \in Publishers, NEW r \in Runs, NEW own \in BOOLEAN, Publish(q, r, own) PROVE PublicationInv'
      BY <2>4, <3>3, RequestSteps
    <3>4. ASSUME NEW q \in Publishers,
                 \/ ReadRow(q) \/ ReadExcerpt(q) \/ ReadFails(q) \/ ReadContent(q) \/ ReadLedgerHead(q)
                 \/ CommitPublication(q) \/ FailPublication(q) \/ TakePublished(q) \/ LosePublished(q)
          PROVE PublicationInv'
      BY <2>4, <3>4, RequestSteps
    <3> QED
      BY <2>2, <2>4, <3>1, <3>2, <3>3, <3>4 DEF PublisherStep, TabStep
  <2> QED
    BY <2>2, <2>3, <2>4 DEF PublicationNext
<1> QED
  BY <1>1, <1>2, PTL DEF PublicationSpec

(* The types of what requests to publish and the tab have.                 *)
THEOREM PublicationTypes == PublicationSpec => []PublicationTypeOK
<1>1. PublicationInv => PublicationTypeOK
  BY DEF PublicationInv
<1> QED
  BY <1>1, PublicationInvariant, PTL

(* An operation makes one artifact however many publish it, retry and lose *)
(* their answers, and no list shows it before (publishOperation of         *)
(* operation-repository.ts, operations-view.tsx).                          *)
THEOREM OperationsPublishedOnce == PublicationSpec => []PublishedOnce
<1>1. PublicationInv => PublishedOnce
  BY DEF PublicationInv
<1> QED
  BY <1>1, PublicationInvariant, PTL
=============================================================================
