-------------------------- MODULE CreationProofs --------------------------
(***************************************************************************)
(* What RunCreation keeps for every set of keys, bodies and requests. The  *)
(* row of a key, its run and the operation of the run are one (RowsSound); *)
(* a key the tab has let go of is closed or created, and no creation of it *)
(* can come (KeysSound). Each handler has one of a few effects on the rows *)
(* and answers what they say.                                              *)
(***************************************************************************)
EXTENDS RunCreation, SequenceTheorems, FiniteSetTheorems, TLAPS

Made == [key : Keys, body : Bodies]
CreationTyped == CreationTypeOK /\ made \in Seq(Made)

(* A request carries a key, and is of the kind its step belongs to.         *)
PostSound(p) ==
  /\ p.step = "none" => p = IdlePost
  /\ p.step # "none" =>
       /\ p.key \in Keys
       /\ p.kind = "operate" <=> (p.key \in OperationKeys /\ p.kind # "reconcile")
       /\ p.kind # "reconcile" => p.body \in Bodies
       /\ p.from = "tab" => p.key \in TabKeys
  /\ p.step \in {"lookup", "again"} => p.kind = "operate"
  /\ p.step = "insert" => p.kind = "reconcile"
  /\ p.step \in {"head", "commit"} => p.kind # "reconcile"
PostsSound == \A q \in Posts : PostSound(post[q])

(* The row of a key, its run and the operation of the run are one.          *)
RowSound(key) ==
  RunsOf(key) = IF creations[key].state = "created" THEN {creations[key].run} ELSE {}
RowsSound ==
  /\ \A key \in Keys : RowSound(key)
  /\ \A key \in OperationKeys :
       bound[key] = IF creations[key].state = "created" THEN creations[key].run ELSE 0

AnswerSound(a) ==
  /\ a.state = "created" => creations[a.key].state = "created" /\ creations[a.key].run = a.run
  /\ a.state = "confirmed_not_created" =>
       creations[a.key].state = "confirmed_not_created" \/ day >= RetainDays
AnswersSound == \A a \in answers : AnswerSound(a)

(* The tab waits for one request at most, and that is about its key.        *)
TabSound ==
  /\ \A q \in Posts : post[q].from = "tab" =>
       /\ page.pending = post[q].key /\ page.phase \in {"submitting", "reconciling"}
       /\ \A x \in Posts : post[x].from = "tab" => x = q
  /\ page.pending = Missing <=> page.phase = "idle"

(* What holds of a key of the tab. It is used once; from the creation of    *)
(* its run or the proof that there is none, no creation of it can come; and *)
(* the answers to the tab say which of the two it is.                       *)
Creates(p, key) == p.key = key /\ p.kind = "create"
Live(p, key) == Creates(p, key) /\ p.step \in {"read", "head", "commit"}
Unused(key) ==
  creations[key].state = "none" /\ page.stored # key /\ page.pending # key /\ \A q \in Posts : post[q].key # key
Closed(key) ==
  \/ creations[key].state = "confirmed_not_created"
  \/ creations[key].state = "none" /\ \A q \in Posts : ~Live(post[q], key)
KeySound(key) ==
  /\ \A q, x \in Posts : Creates(post[q], key) /\ Creates(post[x], key) => q = x
  /\ \A q \in Posts : Live(post[q], key) =>
       /\ creations[key].state # "created"
       /\ creations[key].state = "confirmed_not_created" => creations[key].day = day
  /\ told[key] = "nothing" => (page.pending = key /\ page.stored = key) \/ Unused(key)
  /\ told[key] = "created" => creations[key].state = "created"
  /\ told[key] = "not created" => Closed(key)
  /\ \A q \in Posts : post[q].key = key /\ post[q].step = "answered" =>
       /\ post[q].answer.state = "created" => creations[key].state = "created"
       /\ post[q].answer.state \notin {"created", "failed"} => Closed(key)
KeysSound == \A key \in TabKeys : KeySound(key)

CreationInv ==
  CreationTyped /\ PostsSound /\ RowsSound /\ AnswersSound /\ TabSound /\ KeysSound

-----------------------------------------------------------------------------
(* What a handler does to its request, and to the rows.                     *)

Same(p, x) == x.key = p.key /\ x.kind = p.kind /\ x.body = p.body /\ x.from = p.from
Underway == {"lookup", "read", "head", "commit", "insert", "again"}

(* An answer says what the row says, or nothing for sure, or is the error   *)
(* of a creation.                                                           *)
Tells(p, x) ==
  \/ x.answer.state = "failed"
  \/ x.answer.state \in {"created", "confirmed_not_created"} /\ creations'[p.key].state = x.answer.state
  \/ p.kind # "reconcile" /\ x.answer.state # "created" /\ UNCHANGED creationRows
PostMoves(q) ==
  \E x \in PostRecords :
    LET p == post[q] IN
    /\ p.step \in Underway /\ x.step # "none" /\ PostSound(x) /\ Same(p, x)
    /\ post' = [post EXCEPT ![q] = x]
    /\ x.step = "answered" /\ p.kind # "operate" => Tells(p, x)
    /\ x.step \in {"read", "head", "commit"} /\ p.kind = "create" => p.step \in {"read", "head", "commit"}
AnswerGiven(q) ==
  \/ answers' = answers
  \/ \E s \in {"created", "confirmed_not_created"}, r \in 0..MaxEntries :
       LET key == post[q].key IN
       /\ answers' = answers \cup {[key |-> key, state |-> s, run |-> r]}
       /\ creations'[key].state = s
       /\ s = "created" => creations'[key].run = r

RunMade(q) ==
  LET p == post[q]
      run == Len(made) + 1 IN
  /\ p.step = "commit" /\ creations[p.key].state = "none" /\ entries < MaxEntries
  /\ post'[q].step \in {"again", "answered"}
  /\ entries' = entries + 1
  /\ made' = Append(made, [key |-> p.key, body |-> p.body])
  /\ bound' = IF p.kind = "operate" THEN [bound EXCEPT ![p.key] = run] ELSE bound
  /\ creations' = [creations EXCEPT ![p.key] = [state |-> "created", body |-> p.body, run |-> run, day |-> day]]
ProofMade(q) ==
  LET p == post[q] IN
  /\ p.step = "insert" /\ creations[p.key].state = "none"
  /\ creations' = [creations EXCEPT ![p.key] =
       [state |-> "confirmed_not_created", body |-> Missing, run |-> 0, day |-> day]]
  /\ UNCHANGED <<made, bound, entries>>
Effect(q) ==
  /\ PostMoves(q) /\ AnswerGiven(q) /\ UNCHANGED client
  /\ UNCHANGED creationRows \/ RunMade(q) \/ ProofMade(q)

-----------------------------------------------------------------------------

LEMMA KindsOfKeys == Missing \notin Keys /\ TabKeys \subseteq Keys /\ ApiKeys \subseteq Keys /\ OperationKeys \subseteq Keys
                     /\ TabKeys \cap OperationKeys = {}
  BY CreationAssumption DEF Keys

LEMMA IdlePostTyped == IdlePost \in PostRecords /\ PostSound(IdlePost)
  BY CreationAssumption DEF IdlePost, PostRecords, Steps, NoAnswer, Error, Answers, PostSound

LEMMA CreationStarts == CreationInit => CreationInv
<1> SUFFICES ASSUME CreationInit PROVE CreationInv
  OBVIOUS
<1>1. NoCreation \in Creations
  BY CreationAssumption DEF NoCreation, Creations
<1>2. made \in Seq(Made) /\ Len(made) = 0 /\ DOMAIN made = {}
  BY EmptySeq DEF CreationInit
<1>3. CreationTyped
  BY <1>1, <1>2, IdlePostTyped, CreationAssumption
  DEF CreationInit, CreationTyped, CreationTypeOK, IdlePage, Pages
<1>4. PostsSound
  BY IdlePostTyped DEF CreationInit, PostsSound
<1>5. RowsSound
  BY <1>2, KindsOfKeys DEF CreationInit, RowsSound, RowSound, RunsOf, NoCreation
<1>6. AnswersSound
  BY DEF CreationInit, AnswersSound
<1>7. TabSound
  BY DEF CreationInit, TabSound, IdlePage, IdlePost
<1>8. KeysSound
  BY KindsOfKeys DEF CreationInit, KeysSound, KeySound, Unused, Creates, Live, IdlePost, IdlePage, NoCreation
<1> QED
  BY <1>3, <1>4, <1>5, <1>6, <1>7, <1>8 DEF CreationInv

-----------------------------------------------------------------------------
(* Every handler has such an effect.                                        *)

LEMMA FailsMoves ==
  ASSUME CreationInv, NEW q \in Posts, post[q].step \in Underway, NEW answer \in Answers, Fails(q, answer),
         \/ answer.state = "failed"
         \/ post[q].kind # "reconcile" /\ answer.state # "created" /\ UNCHANGED creationRows
  PROVE  PostMoves(q)
<1> DEFINE p == post[q]
           step == IF p.step # "again" /\ p.kind = "operate" THEN "again" ELSE "answered"
           x == [p EXCEPT !.answer = answer, !.step = step]
<1>1. p \in PostRecords /\ PostSound(p) /\ post \in [Posts -> PostRecords]
  BY DEF CreationInv, CreationTyped, CreationTypeOK, PostsSound
<1>2. step \in {"again", "answered"} /\ (step = "again" => p.kind = "operate")
  OBVIOUS
<1>3. post' = [post EXCEPT ![q] = x]
  BY <1>1 DEF Fails
<1> HIDE DEF step
<1>4. x \in PostRecords /\ x.step = step /\ x.answer = answer /\ Same(p, x)
  BY <1>1, <1>2 DEF PostRecords, Steps, Same
<1>5. PostSound(x)
  BY <1>1, <1>2, <1>4 DEF PostSound, Same, Underway
<1> HIDE DEF x
<1>6. x.step = "answered" /\ p.kind # "operate" => Tells(p, x)
  BY <1>4 DEF Tells
<1> QED
  BY <1>1, <1>2, <1>3, <1>4, <1>5, <1>6 DEF PostMoves

LEMMA AnswersMove ==
  ASSUME CreationInv, NEW q \in Posts, post[q].step \in Underway, NEW answer \in Answers,
         post' = [post EXCEPT ![q].answer = answer, ![q].step = "answered"],
         post[q].kind # "operate" => Tells(post[q], [post[q] EXCEPT !.answer = answer, !.step = "answered"])
  PROVE  PostMoves(q)
<1> DEFINE p == post[q]
           x == [p EXCEPT !.answer = answer, !.step = "answered"]
<1>1. p \in PostRecords /\ PostSound(p) /\ post \in [Posts -> PostRecords]
  BY DEF CreationInv, CreationTyped, CreationTypeOK, PostsSound
<1>2. post' = [post EXCEPT ![q] = x]
  BY <1>1
<1>3. x \in PostRecords /\ x.step = "answered" /\ x.answer = answer /\ Same(p, x)
  BY <1>1 DEF PostRecords, Steps, Same
<1>4. PostSound(x)
  BY <1>1, <1>3 DEF PostSound, Same, Underway
<1> QED
  BY <1>1, <1>2, <1>3, <1>4 DEF PostMoves

LEMMA StepsMove ==
  ASSUME CreationInv, NEW q \in Posts, post[q].step \in Underway, NEW x \in PostRecords,
         post' = [post EXCEPT ![q] = x], x.step \in {"read", "head", "commit", "insert"}, Same(post[q], x), PostSound(x)
  PROVE  PostMoves(q)
<1>1. PostSound(post[q])
  BY DEF CreationInv, PostsSound
<1> QED
  BY <1>1 DEF PostMoves, Underway, PostSound

LEMMA ErrorsTyped ==
  /\ \A code \in ErrorCodes \cup {"none"} : Error(code) \in Answers /\ Error(code).state = code
  /\ Resolutions \subseteq Answers
  /\ \A answer \in Answers :
       answer \in Resolutions \/ \E code \in ErrorCodes \cup {"none"} : answer.state = code
  /\ \A answer \in Resolutions : answer.state \in {"created", "confirmed_not_created"} /\ answer.run \in 0..MaxEntries
  BY DEF Answers, Error, Resolutions

LEMMA RepliesMove ==
  ASSUME CreationInv, NEW q \in Posts, post[q].step \in Underway, NEW answer \in Answers, Replies(q, answer),
         post[q].kind = "operate" => UNCHANGED creationRows,
         \/ /\ answer \in Resolutions /\ creations'[post[q].key].state = answer.state
            /\ answer.state = "created" => creations'[post[q].key].run = answer.run
         \/ answer.state = "key_reused" /\ post[q].kind # "reconcile" /\ UNCHANGED creationRows
  PROVE  PostMoves(q) /\ AnswerGiven(q)
<1> DEFINE p == post[q]
<1>1. CASE p.kind = "operate"
  <2> DEFINE code == IF answer.state \in ErrorCodes THEN answer.state ELSE "binding_conflict"
  <2>1. code \in ErrorCodes
    BY DEF ErrorCodes
  <2>2. Fails(q, Error(code)) /\ answers' = answers
    BY <1>1 DEF Replies
  <2> HIDE DEF code
  <2>3. Error(code) \in Answers /\ Error(code).state # "created"
    BY <2>1, ErrorsTyped DEF ErrorCodes
  <2>4. PostMoves(q)
    BY <1>1, <2>2, <2>3, FailsMoves
  <2> QED
    BY <2>2, <2>4 DEF AnswerGiven
<1>2. CASE p.kind # "operate"
  <2>1. post' = [post EXCEPT ![q].answer = answer, ![q].step = "answered"]
    BY <1>2 DEF Replies
  <2>2. p \in PostRecords
    BY DEF CreationInv, CreationTyped, CreationTypeOK
  <2>3. Tells(p, [p EXCEPT !.answer = answer, !.step = "answered"])
    BY <2>2, ErrorsTyped DEF Tells, PostRecords
  <2>4. PostMoves(q)
    BY <2>1, <2>3, AnswersMove
  <2>5. CASE answer \in Resolutions
    <3>1. answers' = answers \cup {[key |-> p.key, state |-> answer.state, run |-> answer.run]}
      BY <1>2, <2>5 DEF Replies
    <3>2. answer.state \in {"created", "confirmed_not_created"} /\ answer.run \in 0..MaxEntries
      BY <2>5, ErrorsTyped
    <3> QED
      BY <2>4, <2>5, <3>1, <3>2 DEF AnswerGiven, Resolutions
  <2>6. CASE answer \notin Resolutions
    BY <1>2, <2>4, <2>6 DEF Replies, AnswerGiven
  <2> QED
    BY <2>5, <2>6
<1> QED
  BY <1>1, <1>2

(* An operation answers for itself.                                         *)
LEMMA OperationsMove ==
  ASSUME CreationInv, NEW q \in Posts, post[q].step \in Underway, post[q].kind = "operate", NEW answer \in Answers,
         AnswerOperation(q, answer), answer.run \in 0..MaxEntries,
         answer.state = "created" =>
           creations'[post[q].key].state = "created" /\ creations'[post[q].key].run = answer.run
  PROVE  PostMoves(q) /\ AnswerGiven(q)
<1>1. PostMoves(q)
  BY AnswersMove DEF AnswerOperation
<1>2. AnswerGiven(q)
  BY DEF AnswerOperation, AnswerGiven
<1> QED
  BY <1>1, <1>2

(* What CreateBatch and InsertProof leave in the row of the key.            *)
LEMMA RowMade ==
  ASSUME CreationInv, NEW q \in Posts, post[q].step \in Underway
  PROVE  /\ RunMade(q) =>
              /\ creations'[post[q].key].state = "created"
              /\ creations'[post[q].key].run = Len(made) + 1
              /\ Len(made) + 1 \in 0..MaxEntries /\ Len(made) + 1 \in Nat \ {0}
         /\ ProofMade(q) => creations'[post[q].key].state = "confirmed_not_created"
<1>1. /\ post[q].key \in Keys /\ creations \in [Keys -> Creations] /\ Len(made) \in Nat /\ Len(made) <= entries
      /\ entries \in Nat /\ MaxEntries \in Nat
  <2>1. post[q].key \in Keys
    BY DEF CreationInv, PostsSound, PostSound, Underway
  <2>2. creations \in [Keys -> Creations] /\ Len(made) <= entries /\ entries \in 0..MaxEntries
    BY DEF CreationInv, CreationTyped, CreationTypeOK
  <2>3. Len(made) \in Nat
    BY LenProperties DEF CreationInv, CreationTyped
  <2> QED
    BY <2>1, <2>2, <2>3, CreationAssumption
<1> QED
  BY <1>1 DEF RunMade, ProofMade

LEMMA PostHandled == ASSUME CreationInv, NEW q \in Posts, HandlePost(q) PROVE Effect(q)
<1> DEFINE p == post[q]
           row == creations[p.key]
<1>1. /\ p \in PostRecords /\ PostSound(p) /\ post \in [Posts -> PostRecords] /\ p.step \in Underway
      /\ p.key \in Keys /\ entries \in 0..MaxEntries /\ row \in Creations
  <2>1. p \in PostRecords /\ PostSound(p) /\ post \in [Posts -> PostRecords] /\ creations \in [Keys -> Creations]
        /\ entries \in 0..MaxEntries
    BY DEF CreationInv, CreationTyped, CreationTypeOK, PostsSound
  <2>2. p.step \in Underway
    BY DEF HandlePost, LookUp, ReadCreation, RefusePost, ReadLedger, CommitCreation, InsertProof, FailPost, Underway
  <2> QED
    BY <2>1, <2>2 DEF PostSound, Underway
<1>2. UNCHANGED client
  BY DEF HandlePost, LookUp, ReadCreation, RefusePost, ReadLedger, CommitCreation, InsertProof, FailPost
<1>3. ASSUME NEW step \in {"read", "head", "commit", "insert"}, Go(q, step),
             step = "insert" => p.kind = "reconcile", step \in {"head", "commit"} => p.kind # "reconcile"
      PROVE  PostMoves(q)
  <2> DEFINE x == [p EXCEPT !.step = step]
  <2>1. x \in PostRecords /\ x.step = step /\ Same(p, x)
    BY <1>1 DEF PostRecords, Steps, Same
  <2>2. PostSound(x)
    BY <1>1, <1>3, <2>1 DEF PostSound, Same, Underway
  <2>3. post' = [post EXCEPT ![q] = x]
    BY <1>3 DEF Go
  <2> HIDE DEF x
  <2> QED
    BY <1>1, <2>1, <2>2, <2>3, StepsMove
<1>4. ASSUME NEW code \in ErrorCodes, Fails(q, Error(code)), code = "failed" \/ p.kind # "reconcile",
             UNCHANGED creationRows
      PROVE  PostMoves(q)
  BY <1>1, <1>4, FailsMoves, ErrorsTyped DEF ErrorCodes
<1>5. row.state # "none" => /\ Settled(row) \in Resolutions /\ Settled(row).state = row.state
                            /\ Settled(row).run = row.run
  BY <1>1 DEF Settled, Resolutions, Creations
<1>6. ASSUME row.state # "none", UNCHANGED creationRows, Replies(q, Resolved(q, row)) PROVE PostMoves(q) /\ AnswerGiven(q)
  <2>1. CASE Resolved(q, row) = Settled(row)
    BY <1>1, <1>5, <1>6, <2>1, RepliesMove, ErrorsTyped DEF creationRows
  <2>2. CASE Resolved(q, row) # Settled(row)
    <3>1. p.kind # "reconcile" /\ Resolved(q, row) = Error("key_reused")
      BY <2>2 DEF Resolved
    <3>2. Error("key_reused") \in Answers /\ Error("key_reused").state = "key_reused"
      BY ErrorsTyped DEF ErrorCodes
    <3> QED
      BY <1>1, <1>6, <3>1, <3>2, RepliesMove
  <2> QED
    BY <2>1, <2>2
<1>7. CASE LookUp(q)
  <2>1. p.kind = "operate" /\ p.key \in OperationKeys /\ UNCHANGED creationRows
    BY <1>1, <1>7 DEF LookUp, PostSound
  <2>2. CASE bound[p.key] # 0
    <3>1. row.state = "created" /\ bound[p.key] = row.run /\ row.run \in 0..MaxEntries
      BY <1>1, <2>1, <2>2 DEF CreationInv, RowsSound, Creations
    <3>2. AnswerOperation(q, OperationAnswer(q))
      BY <1>7, <2>2 DEF LookUp
    <3>3. \/ OperationAnswer(q) = Error("key_reused")
          \/ OperationAnswer(q) = [state |-> "created", run |-> row.run]
      BY <3>1 DEF OperationAnswer
    <3>4. OperationAnswer(q) \in Answers /\ OperationAnswer(q).run \in 0..MaxEntries
          /\ (OperationAnswer(q).state = "created" => OperationAnswer(q).run = row.run)
      <4>1. CASE OperationAnswer(q) = Error("key_reused")
        BY <4>1, <1>1, CreationAssumption, ErrorsTyped DEF ErrorCodes, Error
      <4>2. CASE OperationAnswer(q) = [state |-> "created", run |-> row.run]
        BY <4>2, <3>1, ErrorsTyped DEF Resolutions
      <4> QED
        BY <3>3, <4>1, <4>2
    <3>5. PostMoves(q) /\ AnswerGiven(q)
      BY <1>1, <2>1, <3>1, <3>2, <3>4, OperationsMove DEF creationRows
    <3> QED
      BY <1>2, <2>1, <3>5 DEF Effect
  <2>3. CASE bound[p.key] = 0
    <3>1. UNCHANGED answers /\ (Go(q, "answered") \/ Go(q, "read"))
      BY <1>7, <2>3 DEF LookUp
    <3>2. ASSUME Go(q, "answered") PROVE PostMoves(q)
      <4> DEFINE x == [p EXCEPT !.step = "answered"]
      <4>1. x \in PostRecords /\ x.step = "answered" /\ Same(p, x)
        BY <1>1 DEF PostRecords, Steps, Same
      <4>2. PostSound(x)
        BY <1>1, <4>1 DEF PostSound, Same, Underway
      <4> QED
        BY <1>1, <2>1, <3>2, <4>1, <4>2 DEF PostMoves, Go
    <3>3. PostMoves(q)
      BY <1>3, <3>1, <3>2
    <3> QED
      BY <1>2, <2>1, <3>1, <3>3 DEF Effect, AnswerGiven
  <2> QED
    BY <2>2, <2>3
<1>8. CASE ReadCreation(q)
  <2>1. UNCHANGED creationRows
    BY <1>8 DEF ReadCreation
  <2>2. CASE row.state # "none"
    BY <1>2, <1>6, <1>8, <2>1, <2>2 DEF ReadCreation, Effect
  <2>3. CASE row.state = "none"
    <3>1. UNCHANGED answers /\ Go(q, IF p.kind = "reconcile" THEN "insert" ELSE "head")
      BY <1>8, <2>3 DEF ReadCreation
    <3>2. PostMoves(q)
      BY <1>3, <3>1
    <3> QED
      BY <1>2, <2>1, <3>1, <3>2 DEF Effect, AnswerGiven
  <2> QED
    BY <2>2, <2>3
<1>9. CASE RefusePost(q)
  <2>1. PostMoves(q)
    BY <1>4, <1>9 DEF RefusePost, ErrorCodes
  <2> QED
    BY <1>2, <1>9, <2>1 DEF RefusePost, Effect, AnswerGiven
<1>10. CASE ReadLedger(q)
  <2> DEFINE x == [p EXCEPT !.head = entries, !.step = "commit"]
  <2>1. x \in PostRecords /\ x.step = "commit" /\ Same(p, x)
    BY <1>1 DEF PostRecords, Steps, Same
  <2>2. PostSound(x)
    BY <1>1, <1>10, <2>1 DEF PostSound, Same, Underway, ReadLedger
  <2>3. PostMoves(q)
    BY <1>1, <1>10, <2>1, <2>2, StepsMove DEF ReadLedger
  <2> QED
    BY <1>2, <1>10, <2>3 DEF ReadLedger, Effect, AnswerGiven
<1>11. CASE FailPost(q)
  <2>1. PostMoves(q)
    BY <1>4, <1>11 DEF FailPost, ErrorCodes
  <2> QED
    BY <1>2, <1>11, <2>1 DEF FailPost, Effect, AnswerGiven
<1>12. CASE InsertProof(q)
  <2>1. CASE Taken(p.key)
    <3>1. row.state # "none" /\ UNCHANGED creationRows /\ Replies(q, Settled(row))
      BY <1>12, <2>1 DEF InsertProof, Taken
    <3>2. PostMoves(q) /\ AnswerGiven(q)
      BY <1>1, <1>5, <3>1, RepliesMove, ErrorsTyped DEF creationRows
    <3> QED
      BY <1>2, <3>1, <3>2 DEF Effect
  <2>2. CASE ~Taken(p.key)
    <3>1. ProofMade(q)
      BY <1>12, <2>2 DEF InsertProof, Taken, ProofMade
    <3>2. creations'[p.key] = [state |-> "confirmed_not_created", body |-> Missing, run |-> 0, day |-> day]
      BY <1>1, <3>1 DEF ProofMade, CreationInv, CreationTyped, CreationTypeOK
    <3> DEFINE answer == Settled(creations'[p.key])
    <3>3. answer = [state |-> "confirmed_not_created", run |-> 0]
      BY <3>2 DEF Settled
    <3>4. answer \in Resolutions /\ answer.state = "confirmed_not_created"
      BY <3>3, CreationAssumption DEF Resolutions
    <3>5. p.kind = "reconcile"
      BY <1>1, <1>12 DEF InsertProof, PostSound
    <3>6. ASSUME Replies(q, answer) PROVE PostMoves(q) /\ AnswerGiven(q)
      BY <1>1, <3>2, <3>4, <3>5, <3>6, RepliesMove, ErrorsTyped
    <3>7. ASSUME Fails(q, Error("failed")), UNCHANGED answers PROVE PostMoves(q) /\ AnswerGiven(q)
      BY <1>1, <3>7, FailsMoves, ErrorsTyped DEF ErrorCodes, AnswerGiven
    <3> QED
      BY <1>2, <1>12, <2>2, <3>1, <3>6, <3>7 DEF InsertProof, Effect
  <2> QED
    BY <2>1, <2>2
<1>13. CASE CommitCreation(q)
  <2>1. p.step = "commit" /\ p.kind # "reconcile"
    BY <1>1, <1>13 DEF CommitCreation, PostSound
  <2>2. ASSUME UNCHANGED <<creationRows, answers>>, NEW code \in ErrorCodes, Fails(q, Error(code))
        PROVE  Effect(q)
    BY <1>2, <1>4, <2>1, <2>2 DEF Effect, AnswerGiven
  <2>3. CASE p.head # entries
    <3>1. CASE p.tries + 1 < CreateRetries
      <4> DEFINE x == [p EXCEPT !.tries = @ + 1, !.step = "read"]
      <4>1. p.tries + 1 \in 0..CreateRetries
        BY <1>1, <3>1, CreationAssumption DEF PostRecords
      <4>2. x \in PostRecords /\ x.step = "read" /\ Same(p, x)
        BY <1>1, <4>1 DEF PostRecords, Steps, Same
      <4>3. PostSound(x)
        BY <1>1, <4>2 DEF PostSound, Same, Underway
      <4>4. post' = [post EXCEPT ![q] = x] /\ UNCHANGED <<creationRows, answers>>
        BY <1>1, <1>13, <2>3, <3>1 DEF CommitCreation
      <4> HIDE DEF x
      <4>5. PostMoves(q)
        BY <1>1, <4>2, <4>3, <4>4, StepsMove
      <4> QED
        BY <1>2, <4>4, <4>5 DEF Effect, AnswerGiven
    <3>2. CASE ~(p.tries + 1 < CreateRetries)
      BY <1>13, <2>2, <2>3, <3>2 DEF CommitCreation, ErrorCodes
    <3> QED
      BY <3>1, <3>2
  <2>4. CASE p.head = entries /\ p.kind = "operate" /\ bound[p.key] # 0
    <3>1. \/ Fails(q, Error("failed")) /\ UNCHANGED <<creationRows, answers>>
          \/ Replies(q, Resolved(q, row)) /\ UNCHANGED creationRows /\ Taken(p.key)
      BY <1>13, <2>4 DEF CommitCreation
    <3> QED
      BY <1>2, <1>6, <2>2, <3>1 DEF ErrorCodes, Effect, Taken
  <2>5. CASE p.head = entries /\ ~(p.kind = "operate" /\ bound[p.key] # 0) /\ Taken(p.key)
    BY <1>2, <1>6, <1>13, <2>5 DEF CommitCreation, Effect, Taken
  <2>6. CASE p.head = entries /\ ~(p.kind = "operate" /\ bound[p.key] # 0) /\ ~Taken(p.key)
    <3>1. CreateBatch(q)
      BY <1>13, <2>6 DEF CommitCreation
    <3> DEFINE run == Len(made) + 1
    <3>2. Len(made') = run
      BY <3>1, AppendProperties DEF CreateBatch, CreationInv, CreationTyped, Made, PostSound
    <3> DEFINE tried == post'[q].step \in {"again", "answered"}
    <3>a. ASSUME NEW answer, Fails(q, answer) PROVE tried
      BY <1>1, <3>a DEF Fails
    <3>b. ASSUME NEW answer, AnswerOperation(q, answer) PROVE tried
      BY <1>1, <3>b DEF AnswerOperation
    <3>c. ASSUME NEW answer, Replies(q, answer) PROVE tried
      <4>1. CASE p.kind = "operate"
        <5>1. \E e : Fails(q, e)
          BY <3>c, <4>1 DEF Replies
        <5> QED
          BY <3>a, <5>1
      <4>2. CASE p.kind # "operate"
        <5>1. post' = [post EXCEPT ![q].answer = answer, ![q].step = "answered"]
          BY <3>c, <4>2 DEF Replies
        <5> QED
          BY <1>1, <5>1
      <4> QED
        BY <4>1, <4>2
    <3>d. tried
      BY <3>1, <3>a, <3>b, <3>c DEF CreateBatch
    <3>3. RunMade(q)
      BY <1>1, <2>1, <2>6, <3>1, <3>2, <3>d DEF CreateBatch, RunMade, Taken
    <3>4. /\ creations'[p.key].state = "created" /\ creations'[p.key].run = run
          /\ run \in 0..MaxEntries
      BY <1>1, <3>3, RowMade
    <3> DEFINE created == [state |-> "created", run |-> run]
    <3>5. created \in Resolutions /\ created \in Answers /\ created.state = "created" /\ created.run = run
      BY <3>4, ErrorsTyped DEF Resolutions
    <3> HIDE DEF created, run
    <3>6. ASSUME p.kind = "operate", AnswerOperation(q, created) PROVE PostMoves(q) /\ AnswerGiven(q)
      BY <1>1, <3>4, <3>5, <3>6, OperationsMove
    <3>7. ASSUME p.kind # "operate", Replies(q, created) PROVE PostMoves(q) /\ AnswerGiven(q)
      BY <1>1, <3>4, <3>5, <3>7, RepliesMove
    <3>8. ASSUME Fails(q, Error("failed")), UNCHANGED answers PROVE PostMoves(q) /\ AnswerGiven(q)
      BY <1>1, <3>8, FailsMoves, ErrorsTyped DEF ErrorCodes, AnswerGiven
    <3>9. \/ p.kind = "operate" /\ AnswerOperation(q, created)
          \/ p.kind # "operate" /\ Replies(q, created)
          \/ Fails(q, Error("failed")) /\ UNCHANGED answers
      BY <3>1, <3>2 DEF CreateBatch, created
    <3> QED
      BY <1>2, <3>3, <3>6, <3>7, <3>8, <3>9 DEF Effect
  <2> QED
    BY <2>3, <2>4, <2>5, <2>6
<1> QED
  BY <1>7, <1>8, <1>9, <1>10, <1>11, <1>12, <1>13 DEF HandlePost

-----------------------------------------------------------------------------
(* Such an effect keeps the invariant.                                      *)

LEMMA EffectKept ==
  ASSUME CreationInv, NEW q \in Posts, Effect(q)
  PROVE  /\ post[q].key \in Keys /\ post[q].step \in Underway
         /\ \A key \in Keys : key # post[q].key \/ creations[key].state # "none" => creations'[key] = creations[key]
         /\ \A y \in Posts : Same(post[y], post'[y]) /\ (y # q => post'[y] = post[y])
         /\ PostSound(post[q]) /\ PostSound(post[q])'
<1>1. /\ post \in [Posts -> PostRecords] /\ PostSound(post[q]) /\ creations \in [Keys -> Creations]
  BY DEF CreationInv, PostsSound, CreationTyped, CreationTypeOK
<1>2. PICK x \in PostRecords :
        post[q].step \in Underway /\ PostSound(x) /\ Same(post[q], x) /\ post' = [post EXCEPT ![q] = x]
  BY DEF Effect, PostMoves
<1>3. post[q].key \in Keys
  BY <1>1, <1>2 DEF PostSound, Underway
<1>4. \A key \in Keys : key # post[q].key \/ creations[key].state # "none" => creations'[key] = creations[key]
  BY <1>1, <1>3 DEF Effect, RunMade, ProofMade, creationRows
<1>5. \A y \in Posts : Same(post[y], post'[y]) /\ (y # q => post'[y] = post[y])
  BY <1>1, <1>2 DEF Same
<1>6. post'[q] = x
  BY <1>1, <1>2
<1>7. PostSound(post[q])'
  BY <1>2, <1>6 DEF PostSound
<1> QED
  BY <1>1, <1>2, <1>3, <1>4, <1>5, <1>7

LEMMA MadeElements == \A m \in Seq(Made) : \A k \in DOMAIN m : m[k] \in Made
  BY ElementOfSeq, LenProperties

LEMMA EffectTyped == ASSUME CreationInv, NEW q \in Posts, Effect(q) PROVE CreationTyped'
<1> USE CreationAssumption
<1>1. /\ creations \in [Keys -> Creations] /\ entries \in 0..MaxEntries /\ Len(made) <= entries /\ made \in Seq(Made)
      /\ bound \in [OperationKeys -> 0..Len(made)] /\ post \in [Posts -> PostRecords] /\ page \in Pages
      /\ told \in [TabKeys -> {"nothing", "created", "not created"}] /\ day \in 0..LastDay
      /\ answers \subseteq [key : Keys, state : {"created", "confirmed_not_created"}, run : 0..MaxEntries]
  BY DEF CreationInv, CreationTyped, CreationTypeOK
<1>2. post[q].key \in Keys /\ post[q] \in PostRecords /\ PostSound(post[q])
  BY <1>1, EffectKept
<1>3. post' \in [Posts -> PostRecords]
  BY <1>1 DEF Effect, PostMoves
<1>4. answers' \subseteq [key : Keys, state : {"created", "confirmed_not_created"}, run : 0..MaxEntries]
  <2>1. CASE answers' = answers
    BY <1>1, <2>1
  <2>2. CASE answers' # answers
    <3>1. PICK s \in {"created", "confirmed_not_created"}, r \in 0..MaxEntries :
            answers' = answers \cup {[key |-> post[q].key, state |-> s, run |-> r]}
      BY <2>2 DEF Effect, AnswerGiven
    <3> DEFINE a == [key |-> post[q].key, state |-> s, run |-> r]
    <3>2. a \in [key : Keys, state : {"created", "confirmed_not_created"}, run : 0..MaxEntries]
      BY <1>2
    <3> HIDE DEF a
    <3> QED
      BY <1>1, <3>1, <3>2 DEF a
  <2> QED
    BY <2>1, <2>2
<1>5. page' \in Pages /\ told' \in [TabKeys -> {"nothing", "created", "not created"}] /\ day' \in 0..LastDay
  BY <1>1 DEF Effect, client
<1>6. /\ creations' \in [Keys -> Creations] /\ entries' \in 0..MaxEntries /\ Len(made') <= entries'
      /\ made' \in Seq(Made) /\ bound' \in [OperationKeys -> 0..Len(made')]
  <2>1. CASE UNCHANGED creationRows
    BY <1>1, <2>1 DEF creationRows
  <2>2. CASE RunMade(q)
    <3> DEFINE run == Len(made) + 1
               new == [key |-> post[q].key, body |-> post[q].body]
               row == [state |-> "created", body |-> post[q].body, run |-> run, day |-> day]
    <3>1. post[q].body \in Bodies /\ new \in Made
      BY <1>2, <2>2 DEF RunMade, PostSound, Made
    <3>2. made' \in Seq(Made) /\ Len(made') = run
      <4>1. made' = Append(made, new)
        BY <2>2 DEF RunMade
      <4> HIDE DEF new
      <4> QED
        BY <1>1, <3>1, <4>1, AppendProperties
    <3>3. Len(made) \in Nat /\ entries \in Nat /\ run \in 0..MaxEntries /\ run <= entries + 1
      <4>1. Len(made) \in Nat
        BY <1>1, LenProperties
      <4>2. run \in 0..MaxEntries
        BY <2>2, RowMade, EffectKept
      <4>3. entries \in 0..MaxEntries /\ MaxEntries \in Nat /\ Len(made) <= entries
        BY <1>1
      <4> QED
        BY <4>1, <4>2, <4>3
    <3>4. entries' \in 0..MaxEntries /\ Len(made') <= entries'
      <4>1. entries' = entries + 1 /\ entries < MaxEntries
        BY <2>2 DEF RunMade
      <4> HIDE DEF run
      <4>2. entries + 1 \in 0..MaxEntries
        BY <3>3, <4>1
      <4> QED
        BY <3>2, <3>3, <4>1, <4>2
    <3>5. row \in Creations
      BY <1>1, <3>1, <3>3 DEF Creations
    <3>6. creations' \in [Keys -> Creations]
      BY <1>1, <2>2, <3>5 DEF RunMade
    <3>7. bound \in [OperationKeys -> 0..run] /\ run \in 0..run
      <4>1. 0..Len(made) \subseteq 0..run /\ run \in 0..run
        BY <3>3
      <4> HIDE DEF run
      <4> QED
        BY <1>1, <4>1
    <3>8. bound' \in [OperationKeys -> 0..run]
      BY <2>2, <3>7 DEF RunMade
    <3> QED
      BY <3>2, <3>4, <3>6, <3>8
  <2>3. CASE ProofMade(q)
    <3>1. [state |-> "confirmed_not_created", body |-> Missing, run |-> 0, day |-> day] \in Creations
      <4>1. 0 \in 0..MaxEntries
        OBVIOUS
      <4> QED
        BY <1>1, <4>1 DEF Creations
    <3> QED
      BY <1>1, <2>3, <3>1 DEF ProofMade
  <2> QED
    BY <2>1, <2>2, <2>3 DEF Effect
<1>7. \A k \in DOMAIN made' : made'[k] \in [key : Keys, body : Bodies]
  BY <1>6, MadeElements DEF Made
<1> QED
  BY <1>3, <1>4, <1>5, <1>6, <1>7 DEF CreationTyped, CreationTypeOK

LEMMA EffectPosts == ASSUME CreationInv, NEW q \in Posts, Effect(q) PROVE PostsSound'
<1>1. ASSUME NEW y \in Posts PROVE PostSound(post[y])'
  <2>1. CASE y = q
    BY <2>1, EffectKept
  <2>2. CASE y # q
    BY <2>2, EffectKept DEF CreationInv, PostsSound, PostSound
  <2> QED
    BY <2>1, <2>2
<1> QED
  BY <1>1 DEF PostsSound

(* The runs of every key but the one a run is made for stay what they are.  *)
LEMMA RunsKept ==
  ASSUME CreationInv, NEW q \in Posts, Effect(q)
  PROVE  /\ UNCHANGED made => \A key \in Keys : RunsOf(key)' = RunsOf(key)
         /\ RunMade(q) =>
              \A key \in Keys : RunsOf(key)' = IF key = post[q].key THEN RunsOf(key) \cup {Len(made) + 1} ELSE RunsOf(key)
<1>1. UNCHANGED made => \A key \in Keys : RunsOf(key)' = RunsOf(key)
  BY DEF RunsOf
<1>2. ASSUME RunMade(q)
      PROVE  \A key \in Keys : RunsOf(key)' = IF key = post[q].key THEN RunsOf(key) \cup {Len(made) + 1} ELSE RunsOf(key)
  <2> DEFINE run == Len(made) + 1
             new == [key |-> post[q].key, body |-> post[q].body]
  <2>1. new \in Made /\ made \in Seq(Made)
    BY <1>2, EffectKept DEF RunMade, PostSound, Made, CreationInv, CreationTyped
  <2>2. /\ DOMAIN made = 1..Len(made) /\ Len(made) \in Nat /\ DOMAIN made' = 1..run
        /\ made'[run] = new /\ \A k \in 1..Len(made) : made'[k] = made[k]
    BY <1>2, <2>1, AppendProperties, LenProperties DEF RunMade
  <2>3. DOMAIN made' = DOMAIN made \cup {run}
    BY <2>2
  <2>4. ASSUME NEW key \in Keys
        PROVE  RunsOf(key)' = IF key = post[q].key THEN RunsOf(key) \cup {run} ELSE RunsOf(key)
    BY <2>2, <2>3 DEF RunsOf
  <2> QED
    BY <1>2, <2>4
<1> QED
  BY <1>1, <1>2

LEMMA EffectRows == ASSUME CreationInv, NEW q \in Posts, Effect(q) PROVE RowsSound'
<1>1. /\ \A key \in Keys : RowSound(key)
      /\ \A key \in OperationKeys :
            bound[key] = IF creations[key].state = "created" THEN creations[key].run ELSE 0
      /\ creations \in [Keys -> Creations] /\ bound \in [OperationKeys -> 0..Len(made)]
  BY DEF CreationInv, RowsSound, CreationTyped, CreationTypeOK
<1>2. post[q].key \in Keys /\ PostSound(post[q])
  BY EffectKept
<1>3. CASE UNCHANGED creationRows
  BY <1>1, <1>3 DEF creationRows, RowsSound, RowSound, RunsOf
<1>4. CASE ProofMade(q)
  <2> DEFINE row == [state |-> "confirmed_not_created", body |-> Missing, run |-> 0, day |-> day]
  <2>1. /\ creations[post[q].key].state = "none" /\ creations' = [creations EXCEPT ![post[q].key] = row]
        /\ UNCHANGED <<made, bound, entries>> /\ row.state = "confirmed_not_created"
    BY <1>4 DEF ProofMade
  <2> HIDE DEF row
  <2>2. \A key \in Keys : creations'[key].state = "created" <=> creations[key].state = "created"
    BY <1>1, <1>2, <2>1
  <2>3. \A key \in Keys : creations[key].state = "created" => creations'[key] = creations[key]
    BY <1>1, <1>2, <2>1
  <2> QED
    BY <1>1, <2>1, <2>2, <2>3, KindsOfKeys DEF RowsSound, RowSound, RunsOf
<1>5. CASE RunMade(q)
  <2> DEFINE run == Len(made) + 1
             row == [state |-> "created", body |-> post[q].body, run |-> run, day |-> day]
  <2>1. /\ creations[post[q].key].state = "none" /\ creations' = [creations EXCEPT ![post[q].key] = row]
        /\ row.state = "created" /\ row.run = run
        /\ bound' = IF post[q].kind = "operate" THEN [bound EXCEPT ![post[q].key] = run] ELSE bound
    BY <1>5 DEF RunMade
  <2> HIDE DEF row
  <2>2. \A key \in Keys : RunsOf(key)' = IF key = post[q].key THEN RunsOf(key) \cup {run} ELSE RunsOf(key)
    BY <1>5, RunsKept
  <2>3. post[q].kind = "operate" <=> post[q].key \in OperationKeys
    BY <1>2, <1>5 DEF RunMade, PostSound
  <2>4. ASSUME NEW key \in Keys PROVE RowSound(key)'
    <3>1. RunsOf(key) = IF creations[key].state = "created" THEN {creations[key].run} ELSE {}
      BY <1>1 DEF RowSound
    <3>2. RunsOf(key)' = IF creations'[key].state = "created" THEN {creations'[key].run} ELSE {}
      <4> HIDE DEF run
      <4>1. CASE key = post[q].key
        BY <1>1, <2>1, <2>2, <3>1, <4>1
      <4>2. CASE key # post[q].key
        BY <1>1, <2>1, <2>2, <3>1, <4>2
      <4> QED
        BY <4>1, <4>2
    <3> QED
      BY <3>2 DEF RowSound
  <2>5. ASSUME NEW key \in OperationKeys
        PROVE  bound'[key] = IF creations'[key].state = "created" THEN creations'[key].run ELSE 0
    <3> HIDE DEF run
    <3>1. CASE key = post[q].key
      BY <1>1, <2>1, <2>3, <3>1, KindsOfKeys
    <3>2. CASE key # post[q].key
      BY <1>1, <2>1, <2>3, <3>2, KindsOfKeys
    <3> QED
      BY <3>1, <3>2
  <2> QED
    BY <2>4, <2>5 DEF RowsSound
<1> QED
  BY <1>3, <1>4, <1>5 DEF Effect

LEMMA EffectAnswers == ASSUME CreationInv, NEW q \in Posts, Effect(q) PROVE AnswersSound'
<1>1. /\ answers \subseteq [key : Keys, state : {"created", "confirmed_not_created"}, run : 0..MaxEntries]
      /\ \A a \in answers : AnswerSound(a)
  BY DEF CreationInv, AnswersSound, CreationTyped, CreationTypeOK
<1>2. day' = day
  BY DEF Effect, client
<1>3. ASSUME NEW a \in answers PROVE AnswerSound(a)'
  <2>1. a.key \in Keys /\ AnswerSound(a)
    BY <1>1
  <2>2. creations[a.key].state # "none" => creations'[a.key] = creations[a.key]
    BY <2>1, EffectKept
  <2> QED
    BY <1>2, <2>1, <2>2 DEF AnswerSound
<1>4. ASSUME NEW a \in answers', a \notin answers PROVE AnswerSound(a)'
  <2>1. PICK s \in {"created", "confirmed_not_created"}, r \in 0..MaxEntries :
          /\ answers' = answers \cup {[key |-> post[q].key, state |-> s, run |-> r]}
          /\ creations'[post[q].key].state = s
          /\ s = "created" => creations'[post[q].key].run = r
    BY <1>4 DEF Effect, AnswerGiven
  <2>2. a.key = post[q].key /\ a.state = s /\ a.run = r
    BY <1>4, <2>1
  <2> QED
    BY <2>1, <2>2 DEF AnswerSound
<1> QED
  BY <1>3, <1>4 DEF AnswersSound

LEMMA EffectTab == ASSUME CreationInv, NEW q \in Posts, Effect(q) PROVE TabSound'
<1>1. \A y \in Posts : post'[y].from = post[y].from /\ post'[y].key = post[y].key
  BY EffectKept DEF Same
<1>2. page' = page
  BY DEF Effect, client
<1> QED
  BY <1>1, <1>2 DEF CreationInv, TabSound

LEMMA MakerLives ==
  ASSUME CreationInv, NEW q \in Posts, post[q].key \in TabKeys, RunMade(q) PROVE Live(post[q], post[q].key)
<1>1. PostSound(post[q]) /\ post[q] \in PostRecords /\ post[q].step = "commit" /\ post[q].key \notin OperationKeys
  BY KindsOfKeys DEF CreationInv, PostsSound, CreationTyped, CreationTypeOK, RunMade
<1>2. post[q].kind \notin {"reconcile", "operate"}
  BY <1>1 DEF PostSound
<1> QED
  BY <1>1, <1>2 DEF PostRecords, Live, Creates

(* What is closed stays closed, what is created stays created.              *)
LEMMA EffectOnKey ==
  ASSUME CreationInv, NEW q \in Posts, Effect(q), NEW key \in TabKeys
  PROVE  /\ creations[key].state = "created" => creations'[key].state = "created"
         /\ \A y \in Posts : Live(post[y], key)' => Live(post[y], key)
         /\ Closed(key) => Closed(key)'
         /\ Live(post[q], key)' => ~RunMade(q)
<1>1. key \in Keys /\ key \notin OperationKeys
  BY KindsOfKeys
<1>2. PICK x \in PostRecords :
        /\ post[q].step \in Underway /\ Same(post[q], x) /\ post' = [post EXCEPT ![q] = x]
        /\ x.step \in {"read", "head", "commit"} /\ post[q].kind = "create" => post[q].step \in {"read", "head", "commit"}
  BY DEF Effect, PostMoves
<1>3. post' \in [Posts -> PostRecords] /\ post'[q] = x
  BY <1>2 DEF CreationInv, CreationTyped, CreationTypeOK
<1>4. creations[key].state = "created" => creations'[key].state = "created"
  BY <1>1, EffectKept
<1>5. ASSUME NEW y \in Posts, Live(post[y], key)' PROVE Live(post[y], key)
  <2>1. CASE y = q
    BY <1>2, <1>3, <1>5, <2>1 DEF Live, Creates, Same
  <2>2. CASE y # q
    BY <1>5, <2>2, EffectKept DEF Live, Creates
  <2> QED
    BY <2>1, <2>2
<1>6. Live(post[q], key)' => ~RunMade(q)
  BY DEF Live, RunMade
<1>7. ASSUME RunMade(q), key = post[q].key PROVE Live(post[q], key)
  BY <1>7, MakerLives DEF Effect
<1>8. ASSUME Closed(key) PROVE Closed(key)'
  <2>1. CASE creations[key].state = "confirmed_not_created"
    BY <1>1, <2>1, EffectKept DEF Closed
  <2>2. CASE creations[key].state = "none" /\ \A y \in Posts : ~Live(post[y], key)
    <3>1. \A y \in Posts : ~Live(post[y], key)'
      BY <1>5, <2>2
    <3>2. ~(RunMade(q) /\ key = post[q].key)
      BY <1>7, <2>2
    <3>3. creations'[key].state \in {"none", "confirmed_not_created"}
      <4>1. CASE key # post[q].key
        BY <1>1, <2>2, <4>1, EffectKept
      <4>2. CASE key = post[q].key /\ UNCHANGED creationRows
        BY <2>2, <4>2 DEF creationRows
      <4>3. CASE key = post[q].key /\ ProofMade(q)
        BY <1>1, <4>3 DEF ProofMade, CreationInv, CreationTyped, CreationTypeOK
      <4> QED
        BY <3>2, <4>1, <4>2, <4>3 DEF Effect
    <3> QED
      BY <3>1, <3>3 DEF Closed
  <2> QED
    BY <1>8, <2>1, <2>2 DEF Closed
<1> QED
  BY <1>4, <1>5, <1>6, <1>8

LEMMA EffectKeys == ASSUME CreationInv, NEW q \in Posts, Effect(q) PROVE KeysSound'
<1> SUFFICES ASSUME NEW key \in TabKeys PROVE KeySound(key)'
  BY DEF KeysSound
<1>1. key \in Keys /\ key \notin OperationKeys /\ KeySound(key)
  BY KindsOfKeys DEF CreationInv, KeysSound
<1>2. PICK x \in PostRecords :
        /\ post[q].step \in Underway /\ PostSound(x) /\ Same(post[q], x) /\ post' = [post EXCEPT ![q] = x]
        /\ x.step = "answered" /\ post[q].kind # "operate" => Tells(post[q], x)
  BY DEF Effect, PostMoves
<1>3. /\ post \in [Posts -> PostRecords] /\ post' \in [Posts -> PostRecords] /\ post'[q] = x
      /\ creations \in [Keys -> Creations]
  BY <1>2 DEF CreationInv, CreationTyped, CreationTypeOK
<1>4. told' = told /\ page' = page /\ day' = day
  BY DEF Effect, client
<1>5. \A y \in Posts : post'[y].key = post[y].key /\ post'[y].kind = post[y].kind
  BY EffectKept DEF Same
<1>6. /\ creations[key].state = "created" => creations'[key].state = "created"
      /\ \A y \in Posts : Live(post[y], key)' => Live(post[y], key)
      /\ Closed(key) => Closed(key)'
      /\ Live(post[q], key)' => ~RunMade(q)
  BY EffectOnKey
<1>7. \A y, z \in Posts : Creates(post[y], key)' /\ Creates(post[z], key)' => y = z
  BY <1>1, <1>5 DEF KeySound, Creates
<1>8. ASSUME NEW y \in Posts, Live(post[y], key)'
      PROVE  /\ creations'[key].state # "created"
             /\ creations'[key].state = "confirmed_not_created" => creations'[key].day = day'
  <2>1. Live(post[y], key) /\ post[y].kind = "create" /\ post[y].key = key
    BY <1>6, <1>8 DEF Live, Creates
  <2>2. /\ creations[key].state # "created"
        /\ creations[key].state = "confirmed_not_created" => creations[key].day = day
    BY <1>1, <2>1 DEF KeySound
  <2>3. CASE creations'[key] = creations[key]
    BY <1>4, <2>2, <2>3
  <2>4. CASE creations'[key] # creations[key]
    <3>1. key = post[q].key
      BY <1>1, <2>4, EffectKept
    <3>2. CASE RunMade(q)
      <4>1. Live(post[q], key)
        BY <3>1, <3>2, MakerLives
      <4>2. y = q
        BY <1>1, <2>1, <4>1 DEF KeySound, Live
      <4> QED
        BY <1>6, <1>8, <3>2, <4>2
    <3>3. CASE ProofMade(q)
      <4> DEFINE row == [state |-> "confirmed_not_created", body |-> Missing, run |-> 0, day |-> day]
      <4>1. creations'[key] = row
        BY <1>1, <1>3, <3>1, <3>3 DEF ProofMade
      <4> QED
        BY <1>4, <4>1
    <3> QED
      BY <2>4, <3>2, <3>3 DEF Effect, creationRows
  <2> QED
    BY <2>3, <2>4
<1>9. told'[key] = "nothing" => (page'.pending = key /\ page'.stored = key) \/ Unused(key)'
  <2>1. ASSUME Unused(key) PROVE Unused(key)'
    <3>1. key # post[q].key
      BY <2>1 DEF Unused
    <3> QED
      BY <1>1, <1>4, <1>5, <2>1, <3>1, EffectKept DEF Unused
  <2> QED
    BY <1>1, <1>4, <2>1 DEF KeySound
<1>10. told'[key] = "created" => creations'[key].state = "created"
  BY <1>1, <1>4, <1>6 DEF KeySound
<1>11. told'[key] = "not created" => Closed(key)'
  BY <1>1, <1>4, <1>6 DEF KeySound
<1>12. ASSUME NEW y \in Posts, post'[y].key = key, post'[y].step = "answered"
       PROVE  /\ post'[y].answer.state = "created" => creations'[key].state = "created"
              /\ post'[y].answer.state \notin {"created", "failed"} => Closed(key)'
  <2>1. CASE y # q
    BY <1>1, <1>6, <1>12, <2>1, EffectKept DEF KeySound
  <2>2. CASE y = q
    <3>1. post[q].key = key /\ post[q].kind # "operate" /\ x.step = "answered" /\ x.key = key /\ x.kind = post[q].kind
      BY <1>1, <1>2, <1>3, <1>12, <2>2, EffectKept DEF Same, PostSound, Underway
    <3>2. CASE x.answer.state = "failed"
      BY <1>3, <2>2, <3>2
    <3>3. CASE x.answer.state \in {"created", "confirmed_not_created"} /\ creations'[key].state = x.answer.state
      BY <1>3, <2>2, <3>3 DEF Closed
    <3>4. CASE post[q].kind # "reconcile" /\ x.answer.state # "created" /\ UNCHANGED creationRows
      <4>1. post[q].kind = "create" /\ Live(post[q], key)
        BY <1>2, <1>3, <3>1, <3>4, EffectKept DEF PostRecords, Live, Creates, PostSound, Underway
      <4>2. creations[key].state # "created" /\ creations[key] \in Creations /\ creations' = creations
        BY <1>1, <1>3, <3>4, <4>1 DEF KeySound, creationRows
      <4>3. \A z \in Posts : ~Live(post[z], key)'
        <5>1. ASSUME NEW z \in Posts, Live(post[z], key)' PROVE FALSE
          <6>1. z = q
            BY <1>1, <1>6, <4>1, <5>1 DEF KeySound, Live
          <6> QED
            BY <1>3, <3>1, <5>1, <6>1 DEF Live
        <5> QED
          BY <5>1
      <4>4. Closed(key)'
        BY <4>2, <4>3 DEF Closed, Creations
      <4> QED
        BY <1>3, <2>2, <3>4, <4>4
    <3> QED
      BY <1>2, <3>1, <3>2, <3>3, <3>4 DEF Tells
  <2> QED
    BY <2>1, <2>2
<1> QED
  BY <1>7, <1>8, <1>9, <1>10, <1>11, <1>12 DEF KeySound

LEMMA HandlersKeep == ASSUME CreationInv, NEW q \in Posts, HandlePost(q) PROVE CreationInv'
  BY PostHandled, EffectTyped, EffectPosts, EffectRows, EffectAnswers, EffectTab, EffectKeys DEF CreationInv

-----------------------------------------------------------------------------
(* The other actions.                                                       *)

LEMMA RowsStay == ASSUME CreationInv, UNCHANGED <<creations, made, bound>> PROVE RowsSound'
  BY DEF CreationInv, RowsSound, RowSound, RunsOf

LEMMA AnswersStay == ASSUME CreationInv, UNCHANGED <<creations, answers, day>> PROVE AnswersSound'
  BY DEF CreationInv, AnswersSound, AnswerSound

LEMMA TypedFacts ==
  ASSUME CreationInv
  PROVE  /\ post \in [Posts -> PostRecords] /\ page \in Pages /\ creations \in [Keys -> Creations]
         /\ told \in [TabKeys -> {"nothing", "created", "not created"}] /\ day \in 0..LastDay
         /\ \A q \in Posts : PostSound(post[q])
         /\ \A key \in TabKeys : KeySound(key)
         /\ TabSound /\ CreationTyped
  BY DEF CreationInv, CreationTyped, CreationTypeOK, PostsSound, KeysSound

LEMMA KeyStays ==
  ASSUME NEW k \in TabKeys, KeySound(k), UNCHANGED <<creations, day>>,
         \A y \in Posts : post'[y].key = k => post'[y] = post[y],
         told'[k] = "nothing" => (page'.pending = k /\ page'.stored = k) \/ Unused(k)',
         told'[k] = "created" => creations[k].state = "created",
         told'[k] = "not created" => Closed(k)
  PROVE  KeySound(k)'
<1>1. \A y \in Posts : Creates(post[y], k)' => Creates(post[y], k) /\ post'[y] = post[y]
  BY DEF Creates
<1>2. \A y \in Posts : Live(post[y], k)' => Live(post[y], k)
  BY DEF Live, Creates
<1>3. Closed(k) => Closed(k)'
  BY <1>2 DEF Closed
<1> QED
  BY <1>1, <1>2, <1>3 DEF KeySound

LEMMA DaysAreNumbers ==
  /\ MaxEntries \in Nat /\ LastDay \in Nat /\ RetainDays \in Nat \ {0}
  /\ CreationInv => day \in Nat /\ day \in 0..LastDay
<1>1. MaxEntries \in Nat /\ LastDay \in Nat /\ RetainDays \in Nat \ {0}
  BY CreationAssumption
<1>2. CreationInv => day \in 0..LastDay
  BY DEF CreationInv, CreationTyped, CreationTypeOK
<1> QED
  BY <1>1, <1>2

(* Whoever sends or hangs up about a key that is none of the tab's.         *)
LEMMA OthersMove ==
  ASSUME CreationInv, NEW q \in Posts, NEW x \in PostRecords, PostSound(x), x.from # "tab", x.key \notin TabKeys,
         post' = [post EXCEPT ![q] = x], UNCHANGED <<creationRows, client, answers>>
  PROVE  CreationInv'
<1> USE TypedFacts
<1>1. post' \in [Posts -> PostRecords] /\ post'[q] = x /\ \A y \in Posts : y # q => post'[y] = post[y]
  OBVIOUS
<1>2. UNCHANGED <<creations, made, bound, entries, page, told, day, answers>>
  BY DEF creationRows, client
<1>3. CreationTyped'
  BY <1>1, <1>2 DEF CreationTyped, CreationTypeOK
<1>4. PostsSound'
  BY <1>1 DEF PostsSound, PostSound
<1>5. TabSound'
  BY <1>1, <1>2 DEF TabSound
<1>6. ASSUME NEW key \in TabKeys PROVE KeySound(key)'
  <2>1. KeySound(key)
    OBVIOUS
  <2>2. \A y \in Posts : Creates(post[y], key)' => Creates(post[y], key)
    BY <1>1 DEF Creates
  <2>3. \A y \in Posts : Live(post[y], key)' => Live(post[y], key)
    BY <1>1 DEF Creates, Live
  <2>4. Closed(key) => Closed(key)'
    BY <1>2, <2>3 DEF Closed
  <2>5. Unused(key) => Unused(key)'
    BY <1>1, <1>2 DEF Unused
  <2>6. \A y \in Posts : post'[y].key = key => post'[y] = post[y]
    BY <1>1
  <2> QED
    BY <1>2, <2>1, <2>2, <2>3, <2>4, <2>5, <2>6 DEF KeySound
<1> QED
  BY <1>2, <1>3, <1>4, <1>5, <1>6, RowsStay, AnswersStay DEF CreationInv, KeysSound

LEMMA HangUpKeeps == ASSUME CreationInv, NEW q \in Posts, HangUp(q) PROVE CreationInv'
<1>1. IdlePost.from # "tab" /\ IdlePost.key \notin TabKeys
  BY KindsOfKeys DEF IdlePost
<1> QED
  BY <1>1, IdlePostTyped, OthersMove DEF HangUp

(* The request that Send begins.                                            *)
Begun(kind, key, body, from) ==
  [IdlePost EXCEPT !.kind = kind, !.key = key, !.body = body, !.from = from,
                   !.step = IF kind = "operate" THEN "lookup" ELSE "read"]

LEMMA BegunTyped ==
  ASSUME NEW kind \in {"create", "operate", "reconcile"}, NEW key \in Keys, NEW body \in Bodies \cup {Missing},
         NEW from \in {"tab", "other"}, NEW q \in Posts, Send(q, kind, key, body, from),
         kind = "operate" <=> key \in OperationKeys /\ kind # "reconcile",
         kind # "reconcile" => body \in Bodies, from = "tab" => key \in TabKeys
  PROVE  /\ Begun(kind, key, body, from) \in PostRecords /\ PostSound(Begun(kind, key, body, from))
         /\ post' = [post EXCEPT ![q] = Begun(kind, key, body, from)]
<1>1. post' = [post EXCEPT ![q] = Begun(kind, key, body, from)]
  BY DEF Send, Begun
<1>2. 0 \in 0..CreateRetries /\ 0 \in 0..MaxEntries /\ NoAnswer \in Answers
  BY CreationAssumption, ErrorsTyped DEF NoAnswer
<1>3. Begun(kind, key, body, from) \in PostRecords
  BY <1>2, IdlePostTyped DEF Begun, PostRecords, Steps
<1>4. PostSound(Begun(kind, key, body, from))
  BY DEF Begun, PostSound, IdlePost
<1> QED
  BY <1>1, <1>3, <1>4

LEMMA OtherSendsKeeps ==
  ASSUME CreationInv, NEW q \in Posts, NEW kind \in {"create", "operate", "reconcile"}, NEW key \in ApiKeys,
         NEW body \in Bodies \cup {Missing}, OtherSends(q, kind, key, body)
  PROVE  CreationInv'
<1> DEFINE x == Begun(kind, key, body, "other")
<1>1. key \in Keys /\ key \notin TabKeys
  BY KindsOfKeys, CreationAssumption
<1>2. x.from # "tab" /\ x.key \notin TabKeys
  BY <1>1 DEF Begun, IdlePost
<1>3. x \in PostRecords /\ PostSound(x) /\ post' = [post EXCEPT ![q] = x]
  BY <1>1, BegunTyped DEF OtherSends
<1> HIDE DEF x
<1> QED
  BY <1>2, <1>3, OthersMove DEF OtherSends

LEMMA CreateKeeps ==
  ASSUME CreationInv, NEW q \in Posts, NEW key \in TabKeys, NEW body \in Bodies, Create(q, key, body)
  PROVE  CreationInv'
<1> USE TypedFacts
<1> DEFINE x == Begun("create", key, body, "tab")
<1>1. key \in Keys /\ key \notin OperationKeys /\ key # Missing
  BY KindsOfKeys
<1>2. x \in PostRecords /\ PostSound(x) /\ post' = [post EXCEPT ![q] = x]
  BY <1>1, BegunTyped, ZenonT(40) DEF Create
<1>3. x.from = "tab" /\ x.key = key /\ x.kind = "create" /\ x.step = "read"
  BY DEF Begun, IdlePost
<1> HIDE DEF x
<1>4. post' \in [Posts -> PostRecords] /\ post'[q] = x /\ \A y \in Posts : y # q => post'[y] = post[y]
  BY <1>2
<1>5. /\ UNCHANGED <<creations, made, bound, entries, told, day, answers>>
      /\ page' = [pending |-> key, stored |-> key, phase |-> "submitting"]
      /\ page.pending = Missing /\ told[key] = "nothing"
  BY DEF Create, creationRows
<1>6. Unused(key) /\ \A y \in Posts : post[y].from # "tab"
  <2>1. KeySound(key) /\ page.pending # key
    BY <1>1, <1>5
  <2>2. Unused(key)
    BY <1>5, <2>1 DEF KeySound
  <2> QED
    BY <1>5, <2>2 DEF TabSound
<1>7. CreationTyped'
  <2>1. page' \in Pages
    BY <1>5 DEF Pages
  <2> QED
    BY <1>4, <1>5, <2>1 DEF CreationTyped, CreationTypeOK
<1>8. PostsSound'
  BY <1>2, <1>4 DEF PostsSound, PostSound
<1>9. TabSound'
  BY <1>1, <1>3, <1>4, <1>5, <1>6 DEF TabSound
<1>10. KeySound(key)'
  <2>1. \A y \in Posts : y # q => post'[y].key # key
    BY <1>4, <1>6 DEF Unused
  <2>2. creations'[key].state = "none" /\ told'[key] = "nothing" /\ page'.pending = key /\ page'.stored = key
    BY <1>5, <1>6 DEF Unused
  <2>3. post'[q].step # "answered"
    BY <1>3, <1>4
  <2> QED
    BY <2>1, <2>2, <2>3 DEF KeySound, Creates, Live
<1>11. ASSUME NEW k \in TabKeys, k # key PROVE KeySound(k)'
  <2>1. KeySound(k) /\ k # Missing
    BY KindsOfKeys
  <2>2. \A y \in Posts : post'[y].key = k => post'[y] = post[y]
    BY <1>3, <1>4, <1>11
  <2>3. Closed(k) => Closed(k)'
    BY <1>5, <2>2 DEF Closed, Live, Creates
  <2>4. told[k] = "nothing" => Unused(k)'
    <3>1. told[k] = "nothing" => Unused(k)
      BY <1>5, <2>1 DEF KeySound
    <3>2. Unused(k) => Unused(k)'
      BY <1>3, <1>4, <1>5, <1>11 DEF Unused
    <3> QED
      BY <3>1, <3>2
  <2> QED
    BY <1>5, <2>1, <2>2, <2>3, <2>4, ZenonT(40) DEF KeySound, Live, Creates
<1> QED
  BY <1>5, <1>7, <1>8, <1>9, <1>10, <1>11, RowsStay, AnswersStay DEF CreationInv, KeysSound

LEMMA ReconcileKeeps == ASSUME CreationInv, NEW q \in Posts, Reconcile(q) PROVE CreationInv'
<1> USE TypedFacts
<1> DEFINE key == page.pending
           x == Begun("reconcile", key, Missing, "tab")
<1>1. key \in TabKeys /\ key \in Keys /\ page.phase = "unknown"
  BY KindsOfKeys DEF Reconcile, TabSound, Pages
<1>2. x \in PostRecords /\ PostSound(x) /\ post' = [post EXCEPT ![q] = x]
  BY <1>1, BegunTyped DEF Reconcile
<1>3. x.from = "tab" /\ x.key = key /\ x.kind = "reconcile" /\ x.step = "read"
  BY DEF Begun, IdlePost
<1> HIDE DEF x
<1>4. post' \in [Posts -> PostRecords] /\ post'[q] = x /\ \A y \in Posts : y # q => post'[y] = post[y]
  BY <1>2
<1>5. /\ UNCHANGED <<creations, made, bound, entries, told, day, answers>> /\ page' \in Pages
      /\ page'.pending = key /\ page'.stored = page.stored /\ page'.phase = "reconciling"
  BY DEF Reconcile, creationRows, Pages
<1> HIDE DEF key
<1>6. CreationTyped'
  BY <1>4, <1>5 DEF CreationTyped, CreationTypeOK
<1>7. PostsSound'
  BY <1>2, <1>4 DEF PostsSound, PostSound
<1>8. TabSound'
  <2>1. \A y \in Posts : post[y].from # "tab"
    BY <1>1 DEF TabSound
  <2>2. key # Missing
    BY <1>1, KindsOfKeys
  <2> QED
    BY <1>3, <1>4, <1>5, <2>1, <2>2 DEF TabSound
<1>9. ASSUME NEW k \in TabKeys PROVE KeySound(k)'
  <2>1. KeySound(k)
    OBVIOUS
  <2>2. \A y \in Posts : Creates(post[y], k)' => Creates(post[y], k) /\ post'[y] = post[y]
    BY <1>3, <1>4 DEF Creates
  <2>3. \A y \in Posts : post'[y].step = "answered" => post'[y] = post[y]
    BY <1>3, <1>4
  <2>4. Closed(k) => Closed(k)'
    BY <1>5, <2>2 DEF Closed, Live
  <2>5. Unused(k) => Unused(k)'
    BY <1>3, <1>4, <1>5 DEF Unused, key
  <2> QED
    BY <1>5, <2>1, <2>2, <2>3, <2>4, <2>5 DEF KeySound, Live, key
<1> QED
  BY <1>5, <1>6, <1>7, <1>8, <1>9, RowsStay, AnswersStay DEF CreationInv, KeysSound

LEMMA HearKeeps == ASSUME CreationInv, NEW q \in Posts, Hear(q) PROVE CreationInv'
<1> USE TypedFacts
<1>1. /\ post[q].step = "answered" /\ post[q].from = "tab" /\ post' = [post EXCEPT ![q] = IdlePost]
      /\ UNCHANGED <<creations, made, bound, entries, day, answers>>
  BY DEF Hear, creationRows
<1>2. PICK key \in TabKeys : page.pending = key /\ post[q].key = key /\ page.phase # "idle" /\ key # Missing
  <2>1. post[q].key \in TabKeys /\ page.pending = post[q].key /\ page.phase # "idle"
    BY <1>1 DEF PostSound, TabSound
  <2> QED
    BY <2>1, KindsOfKeys
<1>3. post' \in [Posts -> PostRecords] /\ post'[q] = IdlePost /\ \A y \in Posts : y # q => post'[y] = post[y]
  BY <1>1, IdlePostTyped
<1>4. IdlePost.from # "tab" /\ IdlePost.key \notin TabKeys
  BY KindsOfKeys DEF IdlePost
<1>5. PostsSound'
  <2>1. ASSUME NEW y \in Posts PROVE PostSound(post[y])'
    <3>1. PostSound(post'[y])
      BY <1>3, IdlePostTyped
    <3> QED
      BY <3>1 DEF PostSound
  <2> QED
    BY <2>1 DEF PostsSound
<1>6. \A y \in Posts : post'[y].from # "tab"
  BY <1>1, <1>3, <1>4 DEF TabSound
<1>7. ASSUME NEW k \in TabKeys
      PROVE  /\ \A y \in Posts : post'[y].key = k => post'[y] = post[y]
             /\ \A y \in Posts : Live(post[y], k)' => Live(post[y], k)
             /\ Closed(k) => Closed(k)'
  BY <1>1, <1>3, <1>4 DEF Closed, Live, Creates
<1>8. CASE Conclusion(q) = "unknown"
  <2>1. /\ told' = told /\ page' \in Pages /\ page'.pending = page.pending /\ page'.stored = page.stored
        /\ page'.phase = "unknown"
    BY <1>8 DEF Hear, Pages
  <2>2. CreationTyped'
    BY <1>1, <1>3, <2>1 DEF CreationTyped, CreationTypeOK
  <2>3. TabSound'
    BY <1>2, <1>6, <2>1 DEF TabSound
  <2>4. ASSUME NEW k \in TabKeys PROVE KeySound(k)'
    <3>1. Unused(k) => Unused(k)'
      BY <1>1, <1>3, <1>4, <2>1 DEF Unused
    <3>2. KeySound(k) /\ (told[k] = "nothing" => (page'.pending = k /\ page'.stored = k) \/ Unused(k)')
      BY <2>1, <3>1 DEF KeySound
    <3>3. /\ told'[k] = "created" => creations[k].state = "created"
          /\ told'[k] = "not created" => Closed(k)
      BY <2>1, <3>2 DEF KeySound
    <3> QED
      BY <1>1, <1>7, <2>1, <3>2, <3>3, KeyStays
  <2> QED
    BY <1>1, <1>5, <2>2, <2>3, <2>4, RowsStay, AnswersStay DEF CreationInv, KeysSound
<1>9. CASE Conclusion(q) # "unknown"
  <2>1. PICK left \in {Missing, page.stored} : page' = [IdlePage EXCEPT !.stored = left]
    BY <1>9 DEF Hear
  <2>2. told' = [told EXCEPT ![key] = Conclusion(q)]
    BY <1>2, <1>9 DEF Hear
  <2>3. page' = [pending |-> Missing, stored |-> left, phase |-> "idle"]
    BY <2>1 DEF IdlePage
  <2>4. page' \in Pages
    <3>1. left \in TabKeys \cup {Missing}
      BY <2>1 DEF Pages
    <3> QED
      BY <2>3, <3>1 DEF Pages
  <2>5. \/ Conclusion(q) = "created" /\ post[q].answer.state = "created"
        \/ Conclusion(q) = "not created" /\ post[q].answer.state \notin {"created", "failed"}
    BY <1>9 DEF Conclusion
  <2>6. told' \in [TabKeys -> {"nothing", "created", "not created"}]
    BY <2>2, <2>5
  <2>7. CreationTyped'
    BY <1>1, <1>3, <2>4, <2>6 DEF CreationTyped, CreationTypeOK
  <2>8. TabSound'
    BY <1>6, <2>3 DEF TabSound
  <2>9. KeySound(key)'
    <3>1. \/ told'[key] = "created" /\ creations[key].state = "created"
          \/ told'[key] = "not created" /\ Closed(key)
      BY <1>1, <1>2, <2>2, <2>5 DEF KeySound
    <3>2. KeySound(key) /\ told'[key] # "nothing"
      BY <1>2, <3>1
    <3> QED
      BY <1>1, <1>2, <1>7, <3>1, <3>2, KeyStays
  <2>10. ASSUME NEW k \in TabKeys, k # key PROVE KeySound(k)'
    <3>1. told'[k] = told[k] /\ KeySound(k)
      BY <2>2, <2>10
    <3>2. told[k] = "nothing" => Unused(k)'
      <4>1. told[k] = "nothing" => Unused(k)
        BY <1>2, <2>10, <3>1 DEF KeySound
      <4>2. Unused(k) => Unused(k)'
        <5>1. \A y \in Posts : post'[y].key = k => post[y].key = k
          BY <1>3, <1>4
        <5>2. k # Missing /\ page'.pending = Missing /\ page'.stored \in {Missing, page.stored}
          <6>1. page'.pending = Missing /\ page'.stored = left
            BY <2>3
          <6> QED
            BY <2>1, <6>1, KindsOfKeys
        <5> QED
          BY <1>1, <5>1, <5>2 DEF Unused
      <4> QED
        BY <4>1, <4>2
    <3>3. /\ told'[k] = "created" => creations[k].state = "created"
          /\ told'[k] = "not created" => Closed(k)
      BY <3>1 DEF KeySound
    <3> QED
      BY <1>1, <1>7, <3>1, <3>2, <3>3, KeyStays
  <2> QED
    <3>1. KeysSound'
      BY <2>9, <2>10 DEF KeysSound
    <3>2. RowsSound' /\ AnswersSound'
      BY <1>1, RowsStay, AnswersStay
    <3> QED
      BY <1>5, <2>7, <2>8, <3>1, <3>2 DEF CreationInv
<1> QED
  BY <1>8, <1>9

(* The tab stops listening.                                                 *)
LEMMA AbandonKeeps ==
  ASSUME CreationInv, post' = Abandoned, UNCHANGED <<creationRows, told, answers, day>>, page' \in Pages,
         page'.pending = Missing <=> page'.phase = "idle", page'.stored = page.stored,
         page'.pending \in {page.pending, page.stored}
  PROVE  CreationInv'
<1> USE TypedFacts
<1>1. UNCHANGED <<creations, made, bound, entries, told, day, answers>>
  BY DEF creationRows
<1>2. ASSUME NEW y \in Posts
      PROVE  /\ post'[y] \in PostRecords /\ PostSound(post[y])' /\ post'[y].from # "tab"
             /\ post'[y].key = post[y].key /\ post'[y].kind = post[y].kind /\ post'[y].step = post[y].step
             /\ post'[y].answer = post[y].answer
  <2>1. CASE post[y].from = "tab"
    <3>1. post'[y] = [post[y] EXCEPT !.from = "nobody"]
      BY <2>1 DEF Abandoned
    <3>2. post[y] \in PostRecords /\ PostSound(post[y]) /\ post[y].step # "none"
      <4>1. IdlePost.from # "tab"
        BY DEF IdlePost
      <4>2. PostSound(post[y])
        OBVIOUS
      <4>3. post[y].step = "none" => post[y] = IdlePost
        BY <4>2 DEF PostSound
      <4> QED
        BY <2>1, <4>1, <4>2, <4>3
    <3> QED
      BY <3>1, <3>2 DEF PostRecords, PostSound
  <2>2. CASE post[y].from # "tab"
    BY <2>2 DEF Abandoned, PostSound
  <2> QED
    BY <2>1, <2>2
<1>3. post' \in [Posts -> PostRecords]
  BY <1>2 DEF Abandoned
<1>4. CreationTyped'
  BY <1>1, <1>3 DEF CreationTyped, CreationTypeOK
<1>5. PostsSound' /\ TabSound'
  BY <1>2 DEF PostsSound, TabSound
<1>6. ASSUME NEW k \in TabKeys PROVE KeySound(k)'
  <2>1. KeySound(k)
    OBVIOUS
  <2>2. /\ \A y \in Posts : Live(post[y], k)' <=> Live(post[y], k)
        /\ \A y \in Posts : Creates(post[y], k)' <=> Creates(post[y], k)
    BY <1>2 DEF Live, Creates
  <2>3. Closed(k) => Closed(k)'
    BY <1>1, <2>2 DEF Closed
  <2>4. told[k] = "nothing" => (page'.pending = k /\ page'.stored = k) \/ Unused(k)'
    <3>1. CASE page.pending = k /\ page.stored = k
      BY <3>1
    <3>2. CASE Unused(k)
      BY <1>1, <1>2, <3>2 DEF Unused
    <3> QED
      BY <2>1, <3>1, <3>2 DEF KeySound
  <2>5. \A y, z \in Posts : Creates(post[y], k)' /\ Creates(post[z], k)' => y = z
    BY <2>1, <2>2 DEF KeySound
  <2>6. \A y \in Posts : Live(post[y], k)' =>
          /\ creations'[k].state # "created"
          /\ creations'[k].state = "confirmed_not_created" => creations'[k].day = day'
    BY <1>1, <2>1, <2>2 DEF KeySound
  <2>7. /\ told'[k] = "created" => creations'[k].state = "created"
        /\ told'[k] = "not created" => Closed(k)'
    BY <1>1, <2>1, <2>3 DEF KeySound
  <2>8. \A y \in Posts : post'[y].key = k /\ post'[y].step = "answered" =>
          /\ post'[y].answer.state = "created" => creations'[k].state = "created"
          /\ post'[y].answer.state \notin {"created", "failed"} => Closed(k)'
    BY <1>1, <1>2, <2>1, <2>3 DEF KeySound
  <2> QED
    BY <1>1, <2>4, <2>5, <2>6, <2>7, <2>8 DEF KeySound
<1> QED
  BY <1>1, <1>4, <1>5, <1>6, RowsStay, AnswersStay DEF CreationInv, KeysSound

LEMMA GiveUpKeeps == ASSUME CreationInv, GiveUp PROVE CreationInv'
<1>1. /\ page' \in Pages /\ page'.pending = page.pending /\ page'.stored = page.stored /\ page'.phase = "unknown"
      /\ page.phase # "idle"
  BY TypedFacts DEF GiveUp, Pages
<1>2. page.pending # Missing
  BY <1>1, TypedFacts DEF TabSound
<1> QED
  BY <1>1, <1>2, AbandonKeeps DEF GiveUp

LEMMA ReloadKeeps == ASSUME CreationInv, Reload PROVE CreationInv'
<1>1. /\ page' \in Pages /\ page'.pending = page.stored /\ page'.stored = page.stored
      /\ page'.phase = IF page.stored = Missing THEN "idle" ELSE "unknown"
  BY TypedFacts DEF Reload, Pages
<1> QED
  BY <1>1, AbandonKeeps DEF Reload

LEMMA NextDayKeeps == ASSUME CreationInv, NextDay PROVE CreationInv'
<1>1. /\ UNCHANGED <<creations, made, bound, entries, post, page, told, answers>> /\ day' = day + 1 /\ day < LastDay
      /\ \A y \in Posts : post[y] = IdlePost
  BY DEF NextDay, creationRows
<1>2. day \in Nat /\ day \in 0..LastDay /\ RetainDays \in Nat /\ LastDay \in Nat
  BY DaysAreNumbers
<1>7. day' \in 0..LastDay /\ (day >= RetainDays => day' >= RetainDays)
  BY <1>1, <1>2
<1> USE TypedFacts
<1>3. CreationTyped'
  BY <1>1, <1>7 DEF CreationTyped, CreationTypeOK
<1>4. PostsSound' /\ TabSound'
  BY <1>1 DEF PostsSound, PostSound, TabSound
<1>5. AnswersSound'
  <2>1. ASSUME NEW a \in answers PROVE AnswerSound(a)'
    <3>1. AnswerSound(a)
      BY DEF CreationInv, AnswersSound
    <3> QED
      BY <1>1, <1>7, <3>1 DEF AnswerSound
  <2> QED
    BY <1>1, <2>1 DEF AnswersSound
<1>6. ASSUME NEW k \in TabKeys PROVE KeySound(k)'
  <2>1. \A y \in Posts : ~Live(post[y], k) /\ ~Live(post[y], k)'
    <3>1. IdlePost.step = "none" /\ post' = post
      BY <1>1 DEF IdlePost
    <3> QED
      BY <1>1, <3>1 DEF Live
  <2>2. (Unused(k) => Unused(k)') /\ (Closed(k) => Closed(k)')
    BY <1>1, <2>1 DEF Unused, Closed
  <2> QED
    BY <1>1, <2>1, <2>2 DEF KeySound, Creates
<1> QED
  BY <1>1, <1>3, <1>4, <1>5, <1>6, RowsStay DEF CreationInv, KeysSound

LEMMA CollectProofsKeeps == ASSUME CreationInv, CollectProofs PROVE CreationInv'
<1>1. /\ UNCHANGED <<made, bound, entries, post, page, told, day, answers>>
      /\ creations' = [key \in Keys |-> IF key \in DueProofs THEN NoCreation ELSE creations[key]]
  BY DEF CollectProofs, client
<1>2. day \in Nat /\ RetainDays \in Nat \ {0} /\ LastDay \in Nat /\ MaxEntries \in Nat
  BY DaysAreNumbers
<1>3. ASSUME NEW key \in Keys
      PROVE  \/ creations'[key] = creations[key]
             \/ /\ creations[key].state = "confirmed_not_created" /\ creations'[key].state = "none"
                /\ day >= RetainDays /\ creations[key].day # day
  <2>1. CASE key \in DueProofs
    <3>1. creations[key].state = "confirmed_not_created" /\ creations[key].day + RetainDays <= day
      BY <2>1 DEF DueProofs
    <3>2. creations[key].day \in Nat
      <4>1. creations[key] \in Creations
        BY TypedFacts
      <4> QED
        BY <1>2, <4>1 DEF Creations
    <3>3. creations'[key].state = "none"
      BY <1>1, <2>1 DEF NoCreation
    <3> QED
      BY <1>2, <3>1, <3>2, <3>3
  <2>2. CASE key \notin DueProofs
    BY <1>1, <2>2
  <2> QED
    BY <2>1, <2>2
<1>9. NoCreation \in Creations
  <2>1. 0 \in 0..MaxEntries /\ 0 \in 0..LastDay
    BY <1>2
  <2> QED
    BY <2>1 DEF NoCreation, Creations
<1> USE TypedFacts
<1>4. CreationTyped'
  <2>1. creations' \in [Keys -> Creations]
    BY <1>1, <1>9
  <2> QED
    BY <1>1, <2>1 DEF CreationTyped, CreationTypeOK
<1>5. PostsSound' /\ TabSound'
  BY <1>1 DEF PostsSound, PostSound, TabSound
<1>6. RowsSound'
  <2>1. RowsSound
    BY DEF CreationInv
  <2>2. \A key \in Keys : RunsOf(key)' = RunsOf(key)
    BY <1>1 DEF RunsOf
  <2>3. \A key \in Keys : RowSound(key)'
    BY <1>3, <2>1, <2>2 DEF RowsSound, RowSound
  <2>4. ASSUME NEW key \in OperationKeys
        PROVE  bound'[key] = IF creations'[key].state = "created" THEN creations'[key].run ELSE 0
    BY <1>1, <1>3, <2>1, KindsOfKeys DEF RowsSound
  <2> QED
    BY <2>3, <2>4 DEF RowsSound
<1>7. AnswersSound'
  <2>1. ASSUME NEW a \in answers PROVE AnswerSound(a)'
    <3>1. a.key \in Keys /\ AnswerSound(a)
      BY DEF CreationInv, CreationTyped, CreationTypeOK, AnswersSound
    <3> QED
      BY <1>1, <1>3, <3>1 DEF AnswerSound
  <2> QED
    BY <1>1, <2>1 DEF AnswersSound
<1>8. ASSUME NEW k \in TabKeys PROVE KeySound(k)'
  <2>1. KeySound(k) /\ k \in Keys
    BY KindsOfKeys
  <2>2. \A y \in Posts : Live(post[y], k)' <=> Live(post[y], k)
    BY <1>1 DEF Live, Creates
  <2>3. (\E y \in Posts : Live(post[y], k)) => creations'[k] = creations[k]
    BY <1>3, <2>1 DEF KeySound
  <2>4. Closed(k) => Closed(k)'
    BY <1>3, <2>1, <2>2, <2>3 DEF Closed
  <2>5. Unused(k) => Unused(k)'
    BY <1>1, <1>3, <2>1 DEF Unused
  <2>6. creations[k].state = "created" => creations'[k].state = "created"
    BY <1>3, <2>1
  <2> QED
    BY <1>1, <2>1, <2>2, <2>3, <2>4, <2>5, <2>6 DEF KeySound, Creates
<1> QED
  BY <1>4, <1>5, <1>6, <1>7, <1>8 DEF CreationInv, KeysSound

LEMMA SameKeeps ==
  ASSUME CreationInv, UNCHANGED <<creations, made, bound, post, client, answers>>,
         entries' \in 0..MaxEntries, entries' >= entries
  PROVE  CreationInv'
<1>1. UNCHANGED <<creations, made, bound, post, page, told, day, answers>>
  BY DEF client
<1>2. CreationTyped'
  <2>1. Len(made) \in Nat /\ entries \in 0..MaxEntries /\ Len(made) <= entries /\ MaxEntries \in Nat
    BY LenProperties, DaysAreNumbers DEF CreationInv, CreationTyped, CreationTypeOK
  <2>2. Len(made) <= entries'
    BY <2>1
  <2> QED
    BY <1>1, <2>2, TypedFacts DEF CreationTyped, CreationTypeOK
<1> USE TypedFacts
<1>3. PostsSound' /\ TabSound'
  BY <1>1 DEF PostsSound, PostSound, TabSound
<1>4. ASSUME NEW k \in TabKeys PROVE KeySound(k)'
  <2>1. KeySound(k)
    OBVIOUS
  <2>2. Unused(k) => Unused(k)'
    BY <1>1 DEF Unused
  <2>3. /\ told'[k] = "nothing" => (page'.pending = k /\ page'.stored = k) \/ Unused(k)'
        /\ told'[k] = "created" => creations[k].state = "created"
        /\ told'[k] = "not created" => Closed(k)
    BY <1>1, <2>1, <2>2 DEF KeySound
  <2> QED
    BY <1>1, <2>1, <2>3, KeyStays
<1> QED
  BY <1>1, <1>2, <1>3, <1>4, RowsStay, AnswersStay DEF CreationInv, KeysSound

-----------------------------------------------------------------------------

(* What the theorems below rest on, for any number of keys and requests:    *)
(* rows, runs, answers and the tab agree through every interleaving of the  *)
(* handlers (createEngineRun, reconcileEngineRunCreation, createOperation). *)
THEOREM CreationInvariant == CreationSpec => []CreationInv
<1>1. CreationInit => CreationInv
  BY CreationStarts
<1>2. ASSUME CreationInv, [CreationNext]_kvars PROVE CreationInv'
  <2>1. entries \in 0..MaxEntries /\ MaxEntries \in Nat
    BY <1>2, CreationAssumption DEF CreationInv, CreationTyped, CreationTypeOK
  <2>2. ASSUME NEW q \in Posts, HandlePost(q) \/ HangUp(q) \/ Reconcile(q) \/ Hear(q) PROVE CreationInv'
    BY <1>2, <2>2, HandlersKeep, HangUpKeeps, ReconcileKeeps, HearKeeps
  <2>3. ASSUME NEW q \in Posts, NEW key \in TabKeys, NEW body \in Bodies, Create(q, key, body) PROVE CreationInv'
    BY <1>2, <2>3, CreateKeeps
  <2>4. ASSUME NEW q \in Posts, NEW kind \in {"create", "operate", "reconcile"}, NEW key \in ApiKeys,
               NEW body \in Bodies \cup {Missing}, OtherSends(q, kind, key, body)
        PROVE  CreationInv'
    BY <1>2, <2>4, OtherSendsKeeps
  <2>5. CASE GiveUp \/ Reload \/ NextDay \/ CollectProofs
    BY <1>2, <2>5, GiveUpKeeps, ReloadKeeps, NextDayKeeps, CollectProofsKeeps
  <2>6. CASE LedgerGrows
    <3>1. entries' \in 0..MaxEntries /\ entries' >= entries
      BY <2>1, <2>6 DEF LedgerGrows
    <3> QED
      BY <1>2, <2>6, <3>1, SameKeeps DEF LedgerGrows
  <2>7. CASE UNCHANGED kvars
    <3>1. UNCHANGED <<creations, made, bound, post, client, answers>> /\ entries' = entries
      BY <2>7 DEF kvars, client
    <3>2. entries' \in 0..MaxEntries /\ entries' >= entries
      BY <2>1, <3>1
    <3> QED
      BY <1>2, <3>1, <3>2, SameKeeps
  <2> QED
    BY <1>2, <2>2, <2>3, <2>4, <2>5, <2>6, <2>7 DEF CreationNext
<1> QED
  BY <1>1, <1>2, PTL DEF CreationSpec

LEMMA RowTells ==
  ASSUME CreationInv, NEW key \in Keys
  PROVE  /\ creations[key].state = "created" => RunsOf(key) = {creations[key].run} /\ Cardinality(RunsOf(key)) = 1
         /\ creations[key].state # "created" => RunsOf(key) = {} /\ Cardinality(RunsOf(key)) = 0
<1>1. RowSound(key)
  BY DEF CreationInv, RowsSound
<1> QED
  BY <1>1, FS_Singleton, FS_EmptySet DEF RowSound

(* The tab lets go of a key only with an outcome that stays true, though a  *)
(* request for that key may still be under way.                             *)
THEOREM CreationsReleasedOnlyWhenSettled == CreationSpec => []ReleasedOnlyWhenSettled
<1>1. ASSUME CreationInv PROVE ReleasedOnlyWhenSettled
  <2> USE <1>1
  <2>1. ASSUME NEW key \in TabKeys
        PROVE  /\ told[key] = "created" => Cardinality(RunsOf(key)) = 1
               /\ told[key] = "not created" => RunsOf(key) = {}
               /\ RunsOf(key) # {} => told[key] = "created" \/ page.stored = key
    <3>1. key \in Keys /\ KeySound(key) /\ told[key] \in {"nothing", "created", "not created"}
      BY TypedFacts, KindsOfKeys
    <3>2. Closed(key) \/ Unused(key) => creations[key].state # "created"
      BY DEF Closed, Unused
    <3> QED
      BY <3>1, <3>2, RowTells DEF KeySound
  <2> QED
    BY <2>1 DEF ReleasedOnlyWhenSettled
<1> QED
  BY <1>1, CreationInvariant, PTL

(* All answers of the server about a key agree, whoever asked, and a run    *)
(* made for an operation has its operation.                                 *)
THEOREM CreationAnswersAgree == CreationSpec => []AnswersAgree
<1>1. ASSUME CreationInv PROVE AnswersAgree
  <2> USE <1>1
  <2>1. ASSUME NEW a \in answers
        PROVE  /\ a.state = "created" => RunsOf(a.key) = {a.run}
               /\ a.state = "confirmed_not_created" /\ RunsOf(a.key) # {} => day >= RetainDays
    <3>1. a.key \in Keys /\ AnswerSound(a)
      BY DEF CreationInv, CreationTyped, CreationTypeOK, AnswersSound
    <3> QED
      BY <3>1, RowTells DEF AnswerSound
  <2>2. \A key \in Keys : Cardinality(RunsOf(key)) <= 1
    <3>1. \A key \in Keys : Cardinality(RunsOf(key)) \in {0, 1}
      BY RowTells
    <3> QED
      BY <3>1
  <2>3. ASSUME NEW key \in OperationKeys, NEW k \in DOMAIN made, k \in RunsOf(key) PROVE bound[key] = k
    <3>1. key \in Keys
      BY KindsOfKeys
    <3>2. creations[key].state = "created" /\ RunsOf(key) = {creations[key].run}
      BY <2>3, <3>1, RowTells
    <3> QED
      BY <2>3, <3>2 DEF CreationInv, RowsSound
  <2> QED
    BY <2>1, <2>2, <2>3 DEF AnswersAgree
<1> QED
  BY <1>1, CreationInvariant, PTL

(* Every row, request and page of the creation has its type.                *)
THEOREM CreationTypes == CreationSpec => []CreationTypeOK
<1>1. CreationInv => CreationTypeOK
  BY DEF CreationInv, CreationTyped
<1> QED
  BY <1>1, CreationInvariant, PTL
=============================================================================
