--------------------------- MODULE ExamAttemptProofs ---------------------------
(***************************************************************************)
(* Theorems about ExamAttempt for every set of attempts, sessions,         *)
(* questions and answers.                                                  *)
(***************************************************************************)
EXTENDS ExamAttempt, FiniteSetTheorems, TLAPS

(***************************************************************************)
(* Type correctness.                                                       *)
(***************************************************************************)
\* The sheet of a table of responses maps every question to a set of answers.
LEMMA SheetType ==
    ASSUME NEW resp \in [Questions -> Rows \cup {NoResponse}]
    PROVE  SheetOf(resp) \in Sheets
  BY AttemptAssumption DEF SheetOf, Sheets, Rows

\* evaluateScore gives every question one of the marks.
LEMMA MarksType ==
    ASSUME NEW sheet, NEW before
    PROVE  MarksOf(sheet, before) \in [Questions -> Marks]
  BY DEF MarksOf, Marks

\* Only questions of the exam are handed to the grading service.
LEMMA TasksType ==
    ASSUME NEW sheet
    PROVE  WritingTasks(sheet) \subseteq Questions
  BY ScoringAssumption DEF WritingTasks

\* What find(...) ?? a new response yields is a row.
LEMMA LoadedType ==
    ASSUME TypeOK, NEW a \in Attempts, NEW q \in Questions
    PROVE  Loaded(a, q) \in Rows
  <1>1. NewRow \in Rows
    BY DEF NewRow, Rows
  <1>2. responses[a][q] \in Rows \cup {NoResponse}
    BY DEF TypeOK
  <1>3. QED
    BY <1>1, <1>2 DEF Loaded

\* A changed aggregate waiting for its save is a request.
LEMMA PendingType ==
    ASSUME TypeOK, NEW a \in Attempts, NEW q \in Questions, NEW row \in Rows
    PROVE  /\ Pending(a, Changed(a, q, row)) \in Requests
           /\ [Pending(a, NoChange) EXCEPT !.ended = TRUE, !.submits = TRUE] \in Requests
  <1>1. Changed(a, q, row) \in Changes /\ NoChange \in Changes
    BY DEF Changed, Changes
  <1>2. QED
    BY <1>1 DEF Pending, Requests

\* Preparing a save keeps the types.
LEMMA SaveType ==
    ASSUME TypeOK, NEW s \in Sessions, NEW r \in Requests, Save(s, r)
    PROVE  TypeOK'
  BY DEF TypeOK, Save, rows

\* Every variable keeps its type, whatever interleaves, fails or crashes.
THEOREM TypeCorrect == Spec => []TypeOK
  <1>1. Init => TypeOK
    BY DEF Init, TypeOK, Idle, Requests, Messages, Marks
  <1>2. ASSUME TypeOK, [Next]_vars PROVE TypeOK'
    <2>1. CASE \E s \in Sessions : Request(s)
      <3>1. PICK s \in Sessions, a \in Attempts :
              \/ StartAttempt(s, a)
              \/ EndAttempt(s, a)
              \/ \E q \in Questions :
                    \/ \E x \in Answers : Answer(s, a, q, x)
                    \/ \E removed \in SUBSET Answers : RemoveAnswer(s, a, q, removed)
                    \/ \E n \in Notes : AddNote(s, a, q, n)
                    \/ ToggleFlag(s, a, q)
        BY <2>1 DEF Request
      <3>2. CASE StartAttempt(s, a)
        <4>1. PICK k \in {0} \cup {order[b] : b \in Attempts} :
                req' = [req EXCEPT ![s] = [pc |-> "creating", att |-> a, order |-> k + 1]]
          BY <3>2 DEF StartAttempt
        <4>2. k \in Nat
          BY <1>2 DEF TypeOK
        <4>3. [pc |-> "creating", att |-> a, order |-> k + 1] \in Requests
          BY <4>2 DEF Requests
        <4>4. QED
          BY <3>2, <4>1, <4>3, <1>2 DEF StartAttempt, TypeOK, rows
      <3>3. CASE EndAttempt(s, a)
        <4>1. [Pending(a, NoChange) EXCEPT !.ended = TRUE, !.submits = TRUE] \in Requests
          BY DEF Pending, Requests, Changes
        <4>2. QED
          BY <3>3, <4>1, <1>2, SaveType DEF EndAttempt
      <3>4. ASSUME NEW q \in Questions, NEW x \in Answers, Answer(s, a, q, x)
            PROVE  TypeOK'
        <4>1. [Loaded(a, q) EXCEPT !.answers = WithAnswer(q, @, x)] \in Rows
          BY <1>2, LoadedType DEF Rows, WithAnswer
        <4>2. QED
          BY <3>4, <4>1, <1>2, PendingType, SaveType DEF Answer
      <3>5. ASSUME NEW q \in Questions, NEW removed \in SUBSET Answers,
                   RemoveAnswer(s, a, q, removed)
            PROVE  TypeOK'
        <4>1. responses[a][q] \in Rows
          BY <3>5, <1>2 DEF RemoveAnswer, TypeOK
        <4>2. [responses[a][q] EXCEPT !.answers = @ \ removed] \in Rows
          BY <4>1 DEF Rows
        <4>3. QED
          BY <3>5, <4>2, <1>2, PendingType, SaveType DEF RemoveAnswer
      <3>6. ASSUME NEW q \in Questions, NEW n \in Notes, AddNote(s, a, q, n)
            PROVE  TypeOK'
        <4>1. [Loaded(a, q) EXCEPT !.note = n] \in Rows
          BY <1>2, LoadedType DEF Rows
        <4>2. QED
          BY <3>6, <4>1, <1>2, PendingType, SaveType DEF AddNote
      <3>7. ASSUME NEW q \in Questions, ToggleFlag(s, a, q)
            PROVE  TypeOK'
        <4>1. [Loaded(a, q) EXCEPT !.flagged = ~@] \in Rows
          BY <1>2, LoadedType DEF Rows
        <4>2. QED
          BY <3>7, <4>1, <1>2, PendingType, SaveType DEF ToggleFlag
      <3>8. QED
        BY <3>1, <3>2, <3>3, <3>4, <3>5, <3>6, <3>7
    <2>2. ASSUME NEW s \in Sessions, CreateAttempt(s) \/ CreateRefused(s) PROVE TypeOK'
      <3>1. req[s].att \in Attempts /\ req[s].order \in Nat
        BY <2>2, <1>2 DEF CreateAttempt, CreateRefused, TypeOK, Requests, Idle
      <3>2. Idle \in Requests
        BY DEF Requests
      <3>3. CASE CreateAttempt(s)
        BY <3>1, <3>2, <3>3, <1>2 DEF CreateAttempt, TypeOK
      <3>4. CASE CreateRefused(s)
        BY <3>2, <3>4, <1>2 DEF CreateRefused, TypeOK, rows
      <3>5. QED
        BY <2>2, <3>3, <3>4
    <2>3. ASSUME NEW s \in Sessions, SaveAttempt(s) PROVE TypeOK'
      <3> DEFINE r == req[s]
      <3>1. r \in [pc : {"saving"}, att : Attempts, ended : BOOLEAN, submits : BOOLEAN,
                   change : Changes]
        BY <2>3, <1>2 DEF SaveAttempt, TypeOK, Requests, Idle
      <3>2. r.att \in Attempts /\ r.change \in Changes
        BY <3>1
      <3>3. status' \in [Attempts -> {"absent", "open", "ended"}]
        BY <2>3, <3>2, <1>2 DEF SaveAttempt, TypeOK, StatusColumn
      <3>4. responses' \in [Attempts -> [Questions -> Rows \cup {NoResponse}]]
        <4>1. CASE r.change.kind = "none"
          BY <4>1, <2>3, <1>2 DEF SaveAttempt, TypeOK
        <4>2. CASE r.change.kind # "none"
          <5>1. r.change.q \in Questions /\ r.change.row \in Rows
            BY <4>2, <3>2 DEF Changes, NoChange
          <5>2. QED
            BY <4>2, <5>1, <3>2, <2>3, <1>2 DEF SaveAttempt, TypeOK
        <4>3. QED
          BY <4>1, <4>2
      <3>5. /\ req' \in [Sessions -> Requests]
            /\ outbox' \in [Sessions -> SUBSET (Attempts \X Messages)]
            /\ ends' \in [Attempts -> Nat]
        <4>1. CASE r.submits
          <5>1. [pc |-> "submitted", att |-> r.att] \in Requests
            BY <3>2 DEF Requests
          <5>2. {<<r.att, "submitted">>} \in SUBSET (Attempts \X Messages)
            BY <3>2 DEF Messages, Announced
          <5>3. /\ ends' = [ends EXCEPT ![r.att] = @ + 1]
                /\ req' = [req EXCEPT ![s] = [pc |-> "submitted", att |-> r.att]]
                /\ outbox' = [outbox EXCEPT ![s] = {<<r.att, "submitted">>}]
            BY <4>1, <2>3 DEF SaveAttempt
          <5>4. QED
            BY <5>1, <5>2, <5>3, <3>2, <1>2 DEF TypeOK
        <4>2. CASE ~r.submits
          BY <4>2, <2>3, <1>2 DEF SaveAttempt, TypeOK, Requests
        <4>3. QED
          BY <4>1, <4>2
      <3>6. QED
        BY <3>3, <3>4, <3>5, <2>3, <1>2 DEF SaveAttempt, TypeOK
    <2>4. ASSUME NEW s \in Sessions, SaveRefused(s) PROVE TypeOK'
      BY <2>4, <1>2 DEF SaveRefused, TypeOK, Requests, rows
    <2>5. ASSUME NEW s \in Sessions, Evaluate(s) PROVE TypeOK'
      <3> DEFINE a == req[s].att
                 sheet == SheetOf(responses[a])
      <3>1. a \in Attempts
        BY <2>5, <1>2 DEF Evaluate, TypeOK, Requests, Idle
      <3>2. sheet \in Sheets
        BY <3>1, <1>2, SheetType DEF TypeOK
      <3>3. ScoreOf(sheet) \in Scores
        BY <3>2 DEF Scores
      <3>4. MarksOf(sheet, marks[a]) \in [Questions -> Marks]
        BY MarksType
      <3>5. WritingTasks(sheet) \in SUBSET Questions
        BY TasksType
      <3>6. [pc |-> "scored", att |-> a, score |-> ScoreOf(sheet),
             marks |-> MarksOf(sheet, marks[a]), tasks |-> WritingTasks(sheet)] \in Requests
        BY <3>1, <3>3, <3>4, <3>5 DEF Requests
      <3>7. QED
        BY <2>5, <3>6, <1>2 DEF Evaluate, TypeOK, rows
    <2>6. ASSUME NEW s \in Sessions, StoreScore(s) PROVE TypeOK'
      <3> DEFINE r == req[s]
      <3>1. r \in [pc : {"scored"}, att : Attempts, score : Scores,
                   marks : [Questions -> Marks], tasks : SUBSET Questions]
        BY <2>6, <1>2 DEF StoreScore, TypeOK, Requests, Idle
      <3>2. score' \in [Attempts -> Scores \cup {NoScore}]
        BY <2>6, <3>1, <1>2 DEF StoreScore, TypeOK
      <3>3. marks' \in [Attempts -> [Questions -> Marks]]
        <4>1. r.att \in Attempts /\ r.marks \in [Questions -> Marks]
          BY <3>1
        <4>2. marks[r.att] \in [Questions -> Marks]
          BY <4>1, <1>2 DEF TypeOK
        <4>3. [q \in Questions |-> IF r.marks[q] = "none" THEN marks[r.att][q]
                                   ELSE r.marks[q]] \in [Questions -> Marks]
          BY <4>1, <4>2
        <4>4. QED
          BY <2>6, <4>1, <4>3, <1>2 DEF StoreScore, TypeOK
      <3>4. {r.att} \X ({"scored"} \cup r.tasks) \subseteq Attempts \X Messages
        BY <3>1 DEF Messages, Announced
      <3>5. QED
        BY <2>6, <3>1, <3>2, <3>3, <3>4, <1>2 DEF StoreScore, TypeOK, Requests
    <2>7. ASSUME NEW s \in Sessions, Publish(s) PROVE TypeOK'
      <3>1. PICK msg \in outbox[s] :
              /\ outbox' = [outbox EXCEPT ![s] = @ \ {msg}]
              /\ sent' = [sent EXCEPT ![msg[1]][msg[2]] = @ + 1]
        BY <2>7 DEF Publish
      <3>2. msg[1] \in Attempts /\ msg[2] \in Messages
        BY <1>2 DEF TypeOK
      <3>3. sent' \in [Attempts -> [Messages -> Nat]]
        BY <3>1, <3>2, <1>2 DEF TypeOK
      <3>4. QED
        BY <2>7, <3>1, <3>3, <1>2 DEF Publish, TypeOK, rows
    <2>8. ASSUME NEW s \in Sessions, CallFails(s) PROVE TypeOK'
      <3>1. Idle \in Requests
        BY DEF Requests
      <3>2. CASE req[s] # Idle /\ req' = [req EXCEPT ![s] = Idle] /\ UNCHANGED outbox
                 /\ dropped' = IF req[s].pc \in {"submitted", "scored"}
                               THEN [dropped EXCEPT ![req[s].att]["scored"] = @ + 1]
                               ELSE dropped
        <4>1. req[s].pc \in {"submitted", "scored"} => req[s].att \in Attempts
          BY <1>2 DEF TypeOK, Requests, Idle
        <4>2. dropped' \in [Attempts -> [Announced -> Nat]]
          <5> DEFINE b == req[s].att
          <5>1. CASE req[s].pc \in {"submitted", "scored"}
            <6>1. b \in Attempts /\ dropped' = [dropped EXCEPT ![b]["scored"] = @ + 1]
              BY <3>2, <4>1, <5>1
            <6> HIDE DEF b
            <6>2. QED
              BY <6>1, <1>2 DEF TypeOK, Announced
          <5>2. CASE req[s].pc \notin {"submitted", "scored"}
            BY <3>2, <5>2, <1>2 DEF TypeOK
          <5>3. QED
            BY <5>1, <5>2
        <4>3. QED
          BY <2>8, <3>1, <3>2, <4>2, <1>2 DEF CallFails, TypeOK, rows
      <3>3. ASSUME NEW msg \in outbox[s], outbox' = [outbox EXCEPT ![s] = @ \ {msg}],
                   dropped' = IF msg[2] \in Announced
                              THEN [dropped EXCEPT ![msg[1]][msg[2]] = @ + 1] ELSE dropped,
                   UNCHANGED req
            PROVE  TypeOK'
        <4>1. msg[1] \in Attempts
          BY <1>2 DEF TypeOK
        <4>2. dropped' \in [Attempts -> [Announced -> Nat]]
          BY <3>3, <4>1, <1>2 DEF TypeOK
        <4>3. outbox' \in [Sessions -> SUBSET (Attempts \X Messages)]
          BY <3>3, <1>2 DEF TypeOK
        <4>4. QED
          BY <2>8, <3>3, <4>2, <4>3, <1>2 DEF CallFails, TypeOK, rows
      <3>4. QED
        BY <2>8, <3>2, <3>3 DEF CallFails
    <2>9. ASSUME NEW a \in Expiring, TimeExpires(a) PROVE TypeOK'
      BY <2>9, <1>2, AttemptAssumption DEF TimeExpires, TypeOK, rows
    <2>10. CASE Crash
      <3>1. ASSUME NEW a \in Attempts, NEW m \in Announced
            PROVE  dropped[a][m] + Cardinality(Debtors(a, m)) \in Nat
        <4> DEFINE debtors == Debtors(a, m)
        <4>1. debtors \in SUBSET Sessions
          BY DEF Debtors
        <4> HIDE DEF debtors
        <4>2. Cardinality(debtors) \in Nat
          BY <4>1, AttemptAssumption, FS_Subset, FS_CardinalityType
        <4>3. dropped[a][m] \in Nat
          BY <1>2 DEF TypeOK
        <4>4. QED
          BY <4>2, <4>3 DEF debtors
      <3>2. dropped' \in [Attempts -> [Announced -> Nat]]
        BY <2>10, <3>1 DEF Crash
      <3>3. QED
        BY <2>10, <3>2, <1>2 DEF Crash, TypeOK, Requests, rows
    <2>11. CASE UNCHANGED vars
      BY <2>11, <1>2 DEF vars, TypeOK
    <2>12. QED
      BY <1>2, <2>1, <2>2, <2>3, <2>4, <2>5, <2>6, <2>7, <2>8, <2>9, <2>10, <2>11
      DEF Next, Continue
  <1>3. QED
    BY <1>1, <1>2, PTL DEF Spec

--------------------------------------------------------------------------------
(***************************************************************************)
(* What the steps of a request can put into req.                           *)
(***************************************************************************)
\* A save as the commands prepare it: of an existing attempt no other save is in
\* flight for under OnePerAttempt, ended as it was loaded unless it submits.
Prepared(s, r) ==
    /\ r \in Requests
    /\ r.pc = "saving"
    /\ Admitted(s, r.att)
    /\ IF r.submits THEN r.ended /\ status[r.att] = "open" /\ r.change = NoChange
       ELSE r.ended <=> status[r.att] = "ended"
    /\ r.change.kind # "none" =>
         /\ r.change.q \in Questions
         /\ r.change.kind = "create" <=> responses[r.att][r.change.q] = NoResponse
         /\ r.ended => r.change.row.answers = SheetOf(responses[r.att])[r.change.q]

\* Every command on a response prepares such a save.
LEMMA PendingPrepared ==
    ASSUME TypeOK, NEW s \in Sessions, NEW a \in Attempts, NEW q \in Questions,
           NEW row \in Rows, Admitted(s, a),
           status[a] = "ended" => row.answers = SheetOf(responses[a])[q]
    PROVE  Prepared(s, Pending(a, Changed(a, q, row)))
  <1>1. Pending(a, Changed(a, q, row)) \in Requests
    BY PendingType
  <1>2. QED
    BY <1>1 DEF Prepared, Pending, Changed

\* The first step of a request starts an attempt or prepares a save.
LEMMA RequestCases ==
    ASSUME TypeOK, NEW s \in Sessions, Request(s)
    PROVE  \/ \E a \in Attempts : StartAttempt(s, a)
           \/ \E r : Prepared(s, r) /\ Save(s, r)
  <1>1. PICK a \in Attempts :
          \/ StartAttempt(s, a)
          \/ EndAttempt(s, a)
          \/ \E q \in Questions :
                \/ \E x \in Answers : Answer(s, a, q, x)
                \/ \E removed \in SUBSET Answers : RemoveAnswer(s, a, q, removed)
                \/ \E n \in Notes : AddNote(s, a, q, n)
                \/ ToggleFlag(s, a, q)
    BY DEF Request
  <1>2. CASE EndAttempt(s, a)
    <2> DEFINE r == [Pending(a, NoChange) EXCEPT !.ended = TRUE, !.submits = TRUE]
    <2>1. r \in Requests
      BY DEF Pending, Requests, Changes
    <2>2. Prepared(s, r) /\ Save(s, r)
      BY <1>2, <2>1 DEF EndAttempt, MaySubmit, Prepared, Pending, NoChange
    <2>3. QED
      BY <2>2
  <1>3. ASSUME NEW q \in Questions, NEW x \in Answers, Answer(s, a, q, x)
        PROVE  \E r : Prepared(s, r) /\ Save(s, r)
    <2> DEFINE row == [Loaded(a, q) EXCEPT !.answers = WithAnswer(q, @, x)]
    <2>1. row \in Rows
      BY LoadedType DEF Rows, WithAnswer
    <2>2. Prepared(s, Pending(a, Changed(a, q, row)))
      BY <1>3, <2>1, PendingPrepared DEF Answer, Modifiable
    <2>3. QED
      BY <1>3, <2>2 DEF Answer
  <1>4. ASSUME NEW q \in Questions, NEW removed \in SUBSET Answers,
               RemoveAnswer(s, a, q, removed)
        PROVE  \E r : Prepared(s, r) /\ Save(s, r)
    <2> DEFINE row == [responses[a][q] EXCEPT !.answers = @ \ removed]
    <2> HIDE DEF row
    <2>0. responses[a][q] \in Rows
      BY <1>4 DEF RemoveAnswer, TypeOK
    <2>1. row \in Rows
      BY <2>0 DEF Rows, row
    <2>2. Prepared(s, Pending(a, Changed(a, q, row)))
      BY <1>4, <2>1, PendingPrepared DEF RemoveAnswer, Modifiable
    <2>3. QED
      BY <1>4, <2>2 DEF RemoveAnswer, row
  <1>5. ASSUME NEW q \in Questions
        PROVE  Loaded(a, q).answers = SheetOf(responses[a])[q]
    BY DEF Loaded, SheetOf, NewRow
  <1>6. ASSUME NEW q \in Questions, NEW n \in Notes, AddNote(s, a, q, n)
        PROVE  \E r : Prepared(s, r) /\ Save(s, r)
    <2> DEFINE row == [Loaded(a, q) EXCEPT !.note = n]
    <2>1. row \in Rows /\ row.answers = Loaded(a, q).answers
      BY LoadedType DEF Rows
    <2>2. Prepared(s, Pending(a, Changed(a, q, row)))
      BY <1>5, <1>6, <2>1, PendingPrepared DEF AddNote
    <2>3. QED
      BY <1>6, <2>2 DEF AddNote
  <1>7. ASSUME NEW q \in Questions, ToggleFlag(s, a, q)
        PROVE  \E r : Prepared(s, r) /\ Save(s, r)
    <2> DEFINE row == [Loaded(a, q) EXCEPT !.flagged = ~@]
    <2>1. row \in Rows /\ row.answers = Loaded(a, q).answers
      BY LoadedType DEF Rows
    <2>2. Prepared(s, Pending(a, Changed(a, q, row)))
      BY <1>5, <1>7, <2>1, PendingPrepared DEF ToggleFlag
    <2>3. QED
      BY <1>7, <2>2 DEF ToggleFlag
  <1>8. QED
    BY <1>1, <1>2, <1>3, <1>4, <1>6, <1>7

--------------------------------------------------------------------------------
(***************************************************************************)
(* The order column, whatever interleaves, fails or crashes.               *)
(***************************************************************************)
\* Steps that touch neither the attempt rows nor what is about to be written.
LEMMA OrderFrame ==
    ASSUME OrderInv, UNCHANGED <<status, order, ends>>,
           \A t \in Sessions : req'[t] = req[t] \/ req'[t].pc \notin {"creating", "saving"}
    PROVE  OrderInv'
  <1>1. OrdersDense' /\ OlderWereSubmitted' /\ EndedWasSubmitted'
    BY DEF OrderInv, OrdersDense, OlderWereSubmitted, EndedWasSubmitted, Exists
  <1>2. CreationsSound'
    BY DEF OrderInv, CreationsSound, Creating, Exists
  <1>3. SavesSound'
    BY DEF OrderInv, SavesSound, Saving, Exists
  <1>4. QED
    BY <1>1, <1>2, <1>3 DEF OrderInv

\* AttemptCommand reads an order that follows the finished attempts.
LEMMA OrderStart ==
    ASSUME TypeOK, OrderInv, NEW s \in Sessions, NEW a \in Attempts, StartAttempt(s, a)
    PROVE  OrderInv'
  <1>1. PICK k \in {0} \cup {order[b] : b \in Attempts} :
          /\ LastFinished(Owner[a], k)
          /\ req' = [req EXCEPT ![s] = [pc |-> "creating", att |-> a, order |-> k + 1]]
    BY DEF StartAttempt
  <1>2. k \in Nat /\ UNCHANGED <<status, order, ends>> /\ status[a] = "absent"
    BY DEF TypeOK, StartAttempt, rows
  <1>3. OrdersDense' /\ OlderWereSubmitted' /\ EndedWasSubmitted'
    BY <1>2 DEF OrderInv, OrdersDense, OlderWereSubmitted, EndedWasSubmitted, Exists
  <1>4. SavesSound'
    BY <1>1, <1>2 DEF OrderInv, SavesSound, Saving, Exists, TypeOK
  <1>5. k + 1 = 1 \/ \E b \in Attempts : Exists(b) /\ Owner[b] = Owner[a] /\ order[b] = k
    BY <1>1, <1>2 DEF LastFinished, Finished, Exists
  <1>6. ASSUME NEW b \in Attempts, Exists(b), Owner[b] = Owner[a], order[b] < k + 1
        PROVE  ends[b] > 0
    <2>1. order[b] \in Nat /\ order[b] > 0
      BY <1>6 DEF TypeOK, OrderInv, OrdersDense
    <2>2. PICK c \in Finished(Owner[a]) : order[c] = k
      BY <1>1, <1>2, <1>6, <2>1 DEF LastFinished
    <2>3. c \in Attempts /\ Exists(c) /\ Owner[c] = Owner[a] /\ ends[c] > 0
      BY <2>2 DEF Finished, Exists, OrderInv, EndedWasSubmitted
    <2>4. CASE order[b] = k
      BY <2>2, <2>3, <2>4, <1>6 DEF OrderInv, OrdersDense
    <2>5. CASE order[b] < k
      BY <2>2, <2>3, <2>5, <1>6 DEF OrderInv, OlderWereSubmitted
    <2>6. QED
      BY <2>1, <2>4, <2>5, <1>2, <1>6
  <1>7. CreationsSound'
    <2> SUFFICES ASSUME NEW t \in Sessions, Creating(t)'
                 PROVE  /\ status'[req'[t].att] = "absent" /\ req'[t].order > 0
                        /\ \A u \in Sessions :
                             Creating(u)' /\ req'[u].att = req'[t].att => u = t
                        /\ \/ req'[t].order = 1
                           \/ \E b \in Attempts : /\ Exists(b)' /\ Owner[b] = Owner[req'[t].att]
                                                  /\ order'[b] = req'[t].order - 1
                        /\ \A b \in Attempts :
                             (/\ Exists(b)' /\ Owner[b] = Owner[req'[t].att]
                              /\ order'[b] < req'[t].order) => ends'[b] > 0
      BY DEF CreationsSound
    <2>1. \A u \in Sessions : u # s => req'[u] = req[u]
      BY <1>1 DEF TypeOK
    <2>2. req'[s] = [pc |-> "creating", att |-> a, order |-> k + 1]
      BY <1>1 DEF TypeOK
    <2>3. \A u \in Sessions : u # s /\ Creating(u) => req[u].att # a
      BY DEF StartAttempt, Creating, Idle
    <2>4. CASE t = s
      BY <2>1, <2>2, <2>3, <2>4, <1>2, <1>5, <1>6 DEF Creating, Exists
    <2>5. CASE t # s
      BY <2>1, <2>2, <2>3, <2>5, <1>2 DEF OrderInv, CreationsSound, Creating, Exists
    <2>6. QED
      BY <2>4, <2>5
  <1>8. QED
    BY <1>3, <1>4, <1>7 DEF OrderInv

\* A command loads a row whose ended_at, if set, has been submitted.
LEMMA OrderPrepare ==
    ASSUME TypeOK, OrderInv, NEW s \in Sessions, NEW r, Prepared(s, r), Save(s, r)
    PROVE  OrderInv'
  <1>1. UNCHANGED <<status, order, ends>> /\ req' = [req EXCEPT ![s] = r]
    BY DEF Save, rows
  <1>2. r.att \in Attempts /\ Exists(r.att) /\ r.pc = "saving"
    BY DEF Prepared, Admitted, Requests, Idle
  <1>3. r.ended => r.submits \/ ends[r.att] > 0
    BY <1>2 DEF Prepared, OrderInv, EndedWasSubmitted
  <1>4. OrdersDense' /\ OlderWereSubmitted' /\ EndedWasSubmitted'
    BY <1>1 DEF OrderInv, OrdersDense, OlderWereSubmitted, EndedWasSubmitted, Exists
  <1>5. CreationsSound'
    BY <1>1, <1>2 DEF OrderInv, CreationsSound, Creating, Exists, TypeOK
  <1>6. SavesSound'
    BY <1>1, <1>2, <1>3 DEF OrderInv, SavesSound, Saving, Exists, TypeOK
  <1>7. QED
    BY <1>4, <1>5, <1>6 DEF OrderInv

\* What exists of an owner lies below an insertion that the unique index admits,
\* since density would have filled its order, and has been submitted.
LEMMA CreationFollows ==
    ASSUME TypeOK, OrderInv, NEW s \in Sessions, CreateAttempt(s),
           NEW b \in Attempts, Exists(b), Owner[b] = Owner[req[s].att]
    PROVE  order[b] < req[s].order /\ ends[b] > 0
  <1> DEFINE k == req[s].order
  <1>1. Creating(s) /\ req[s].att \in Attempts /\ k \in Nat /\ order[b] \in Nat
    BY DEF CreateAttempt, Creating, TypeOK, Requests, Idle
  <1>2. k > 0 /\ (order[b] < k => ends[b] > 0)
    BY <1>1 DEF OrderInv, CreationsSound
  <1>3. ASSUME ~(order[b] < k) PROVE FALSE
    <2>1. k \in 1 .. order[b]
      BY <1>1, <1>2, <1>3
    <2>2. PICK c \in Attempts : Exists(c) /\ Owner[c] = Owner[b] /\ order[c] = k
      BY <2>1 DEF OrderInv, OrdersDense
    <2>3. QED
      BY <2>2 DEF CreateAttempt, OrderTaken
  <1>4. QED
    BY <1>2, <1>3

\* The insertion takes the next order: the unique index refuses any other.
LEMMA OrderCreate ==
    ASSUME TypeOK, OrderInv, NEW s \in Sessions, CreateAttempt(s)
    PROVE  OrderInv'
  <1> DEFINE a == req[s].att
             k == req[s].order
  <1>1. a \in Attempts /\ k \in Nat /\ Creating(s)
    BY DEF CreateAttempt, TypeOK, Requests, Idle, Creating
  <1>2. /\ status[a] = "absent" /\ k > 0
        /\ \A t \in Sessions : Creating(t) /\ req[t].att = a => t = s
        /\ k = 1 \/ \E b \in Attempts : Exists(b) /\ Owner[b] = Owner[a] /\ order[b] = k - 1
        /\ \A b \in Attempts :
             (Exists(b) /\ Owner[b] = Owner[a] /\ order[b] < k) => ends[b] > 0
    BY <1>1 DEF OrderInv, CreationsSound
  <1>3. \A b \in Attempts : Exists(b) /\ Owner[b] = Owner[a] => order[b] # k
    BY DEF CreateAttempt, OrderTaken
  <1>4. /\ status' = [status EXCEPT ![a] = "open"]
        /\ order' = [order EXCEPT ![a] = k]
        /\ req' = [req EXCEPT ![s] = Idle]
        /\ ends' = ends
    BY DEF CreateAttempt
  <1>5. /\ status'[a] = "open" /\ order'[a] = k
        /\ \A b \in Attempts : b # a => status'[b] = status[b] /\ order'[b] = order[b]
    BY <1>1, <1>4 DEF TypeOK
  <1>6. \A b \in Attempts : Exists(b)' <=> Exists(b) \/ b = a
    BY <1>5 DEF Exists
  <1> HIDE DEF a, k
  <1>7. \A b \in Attempts : order[b] \in Nat
    BY DEF TypeOK
  <1>8. \A i \in 1 .. k : \E b \in Attempts : /\ Exists(b)' /\ Owner[b] = Owner[a]
                                              /\ order'[b] = i
    <2> SUFFICES ASSUME NEW i \in 1 .. k
                 PROVE  \E b \in Attempts : Exists(b)' /\ Owner[b] = Owner[a] /\ order'[b] = i
      OBVIOUS
    <2>1. CASE i = k
      BY <2>1, <1>1, <1>5, <1>6
    <2>2. CASE i < k
      <3>1. PICK c \in Attempts : Exists(c) /\ Owner[c] = Owner[a] /\ order[c] = k - 1
        BY <2>2, <1>1, <1>2
      <3>2. i \in 1 .. order[c]
        BY <2>2, <3>1, <1>1
      <3>3. PICK b \in Attempts : Exists(b) /\ Owner[b] = Owner[c] /\ order[b] = i
        BY <3>1, <3>2 DEF OrderInv, OrdersDense
      <3>4. b # a
        BY <3>3, <1>2 DEF Exists
      <3>5. QED
        BY <3>1, <3>3, <3>4, <1>5, <1>6
    <2>3. QED
      BY <2>1, <2>2, <1>1
  <1>9. OrdersDense'
    <2> SUFFICES ASSUME NEW b \in Attempts, Exists(b)'
                 PROVE  /\ order'[b] > 0
                        /\ \A c \in Attempts :
                             (Exists(c)' /\ Owner[c] = Owner[b] /\ order'[c] = order'[b]) => c = b
                        /\ \A i \in 1 .. order'[b] :
                             \E c \in Attempts : Exists(c)' /\ Owner[c] = Owner[b] /\ order'[c] = i
      BY DEF OrdersDense
    <2>1. CASE b = a
      BY <2>1, <1>2, <1>3, <1>5, <1>6, <1>8
    <2>2. CASE b # a
      <3>1. Exists(b) /\ order'[b] = order[b]
        BY <2>2, <1>5, <1>6
      <3>2. \A i \in 1 .. order[b] :
              \E c \in Attempts : c # a /\ Exists(c) /\ Owner[c] = Owner[b] /\ order[c] = i
        BY <3>1, <1>2 DEF OrderInv, OrdersDense, Exists
      <3>3. \A i \in 1 .. order'[b] :
              \E c \in Attempts : Exists(c)' /\ Owner[c] = Owner[b] /\ order'[c] = i
        BY <3>1, <3>2, <1>5, <1>6
      <3>4. order'[b] > 0
        BY <3>1 DEF OrderInv, OrdersDense
      <3>5. \A c \in Attempts :
              (Exists(c)' /\ Owner[c] = Owner[b] /\ order'[c] = order'[b]) => c = b
        BY <2>2, <3>1, <1>3, <1>5, <1>6 DEF OrderInv, OrdersDense
      <3>6. QED
        BY <3>3, <3>4, <3>5
    <2>3. QED
      BY <2>1, <2>2
  <1>10. \A b \in Attempts : Exists(b) /\ Owner[b] = Owner[a] => order[b] < k
    BY CreationFollows DEF a, k
  <1>11. OlderWereSubmitted'
    <2> SUFFICES ASSUME NEW b \in Attempts, NEW c \in Attempts, Exists(b)', Exists(c)',
                        Owner[b] = Owner[c], order'[b] < order'[c]
                 PROVE  ends[b] > 0
      BY <1>4 DEF OlderWereSubmitted
    <2>1. CASE b = a
      BY <2>1, <1>1, <1>5, <1>6, <1>7, <1>10
    <2>2. CASE b # a /\ c = a
      BY <2>2, <1>2, <1>5, <1>6
    <2>3. CASE b # a /\ c # a
      BY <2>3, <1>5, <1>6 DEF OrderInv, OlderWereSubmitted
    <2>4. QED
      BY <2>1, <2>2, <2>3
  <1>12. EndedWasSubmitted'
    BY <1>4, <1>5 DEF OrderInv, EndedWasSubmitted
  <1>13. SavesSound'
    BY <1>1, <1>4, <1>6 DEF OrderInv, SavesSound, Saving, TypeOK, Idle, Requests
  <1>14. CreationsSound'
    <2> SUFFICES ASSUME NEW t \in Sessions, Creating(t)'
                 PROVE  /\ status'[req'[t].att] = "absent" /\ req'[t].order > 0
                        /\ \A u \in Sessions :
                             Creating(u)' /\ req'[u].att = req'[t].att => u = t
                        /\ \/ req'[t].order = 1
                           \/ \E b \in Attempts : /\ Exists(b)' /\ Owner[b] = Owner[req'[t].att]
                                                  /\ order'[b] = req'[t].order - 1
                        /\ \A b \in Attempts :
                             (/\ Exists(b)' /\ Owner[b] = Owner[req'[t].att]
                              /\ order'[b] < req'[t].order) => ends'[b] > 0
      BY DEF CreationsSound
    <2>1. t # s /\ \A u \in Sessions : u # s => req'[u] = req[u]
      BY <1>4 DEF TypeOK, Creating, Idle
    <2>2. ~Creating(s)'
      BY <1>4 DEF TypeOK, Creating, Idle
    <2> DEFINE at == req[t].att
               kt == req[t].order
    <2>3. at \in Attempts /\ kt \in Nat /\ Creating(t) /\ at # a
      BY <2>1, <1>1, <1>2 DEF TypeOK, Creating, Requests, Idle
    <2>4. /\ status[at] = "absent" /\ kt > 0
          /\ \A u \in Sessions : Creating(u) /\ req[u].att = at => u = t
          /\ kt = 1 \/ \E b \in Attempts : /\ Exists(b) /\ Owner[b] = Owner[at]
                                           /\ order[b] = kt - 1
          /\ \A b \in Attempts :
               (Exists(b) /\ Owner[b] = Owner[at] /\ order[b] < kt) => ends[b] > 0
      BY <2>3 DEF OrderInv, CreationsSound
    <2> HIDE DEF at, kt
    \* The new row is not below what t is about to insert.
    <2>5. Owner[a] = Owner[at] => ~(k < kt)
      <3> SUFFICES ASSUME Owner[a] = Owner[at], k < kt PROVE FALSE
        OBVIOUS
      <3>1. PICK b \in Attempts : Exists(b) /\ Owner[b] = Owner[at] /\ order[b] = kt - 1
        BY <2>3, <2>4, <1>1, <1>2
      <3>2. QED
        BY <3>1, <2>3, <1>1, <1>10
    <2>6. \A b \in Attempts : (Exists(b)' /\ Owner[b] = Owner[at] /\ order'[b] < kt) => ends'[b] > 0
      BY <2>4, <2>5, <1>4, <1>5, <1>6
    <2>7. kt = 1 \/ \E b \in Attempts : Exists(b)' /\ Owner[b] = Owner[at] /\ order'[b] = kt - 1
      BY <2>4, <1>2, <1>5, <1>6 DEF Exists
    <2>8. status'[at] = "absent"
      BY <2>3, <2>4, <1>5
    <2>9. \A u \in Sessions : Creating(u)' /\ req'[u].att = at => u = t
      BY <2>1, <2>2, <2>4 DEF Creating
    <2>10. req'[t].att = at /\ req'[t].order = kt
      BY <2>1 DEF at, kt
    <2>11. QED
      BY <2>4, <2>6, <2>7, <2>8, <2>9, <2>10
  <1>15. QED
    BY <1>9, <1>11, <1>12, <1>13, <1>14 DEF OrderInv

\* A request that waits for its save, and what the save does to the attempt.
LEMMA SavingType ==
    ASSUME TypeOK, NEW s \in Sessions, Saving(s)
    PROVE  /\ req[s].att \in Attempts
           /\ req[s].ended \in BOOLEAN
           /\ req[s].submits \in BOOLEAN
           /\ req[s].change \in Changes
  BY DEF TypeOK, Requests, Idle, Saving

\* The columns a save writes, and where it leaves the request.
LEMMA SaveEffect ==
    ASSUME TypeOK, NEW s \in Sessions, SaveAttempt(s)
    PROVE  /\ Saving(s)
           /\ status' = [status EXCEPT ![req[s].att] = StatusColumn(req[s])]
           /\ UNCHANGED <<order, expired, marks, score, sent>>
           /\ req' = [req EXCEPT ![s] = IF req[s].submits
                                        THEN [pc |-> "submitted", att |-> req[s].att]
                                        ELSE Idle]
           /\ ends' = IF req[s].submits THEN [ends EXCEPT ![req[s].att] = @ + 1] ELSE ends
  BY DEF SaveAttempt, Saving

\* A save changes ended_at of an existing attempt and counts a submission.
LEMMA OrderSave ==
    ASSUME TypeOK, OrderInv, NEW s \in Sessions, SaveAttempt(s)
    PROVE  OrderInv'
  <1> DEFINE r == req[s]
  <1>1. r.att \in Attempts /\ Saving(s)
    BY SaveEffect, SavingType
  <1>2. Exists(r.att) /\ (r.ended => r.submits \/ ends[r.att] > 0)
    BY <1>1 DEF OrderInv, SavesSound
  <1>3. /\ status' = [status EXCEPT ![r.att] = StatusColumn(r)]
        /\ order' = order
        /\ req'[s].pc \notin {"creating", "saving"}
        /\ \A t \in Sessions : t # s => req'[t] = req[t]
    BY SaveEffect DEF TypeOK, Idle
  <1>4. ends' = IF r.submits THEN [ends EXCEPT ![r.att] = @ + 1] ELSE ends
    BY SaveEffect
  <1>5. ends \in [Attempts -> Nat]
    BY DEF TypeOK
  <1>6. \A b \in Attempts : Exists(b)' <=> Exists(b)
    BY <1>1, <1>2, <1>3 DEF TypeOK, Exists, StatusColumn
  <1>7. \A b \in Attempts : ends[b] > 0 => ends'[b] > 0
    BY <1>4, <1>5, <1>1
  <1>8. r.submits => ends'[r.att] > 0
    BY <1>4, <1>5, <1>1
  <1> HIDE DEF r
  <1>9. OrdersDense'
    BY <1>3, <1>6 DEF OrderInv, OrdersDense
  <1>10. OlderWereSubmitted'
    BY <1>3, <1>6, <1>7 DEF OrderInv, OlderWereSubmitted
  <1>11. EndedWasSubmitted'
    <2> SUFFICES ASSUME NEW b \in Attempts, status'[b] = "ended" PROVE ends'[b] > 0
      BY DEF EndedWasSubmitted
    <2>1. CASE b = r.att
      <3>1. r.ended
        BY <2>1, <1>1, <1>3 DEF TypeOK, StatusColumn
      <3>2. QED
        BY <2>1, <3>1, <1>2, <1>8, <1>7
    <2>2. CASE b # r.att
      BY <2>2, <1>3, <1>7 DEF OrderInv, EndedWasSubmitted, TypeOK
    <2>3. QED
      BY <2>1, <2>2
  <1>12. SavesSound'
    <2> SUFFICES ASSUME NEW t \in Sessions, Saving(t)'
                 PROVE  /\ Exists(req[t].att)'
                        /\ req'[t].ended => req'[t].submits \/ ends'[req'[t].att] > 0
      BY DEF SavesSound
    <2>1. t # s /\ req'[t] = req[t] /\ Saving(t)
      BY <1>3 DEF Saving
    <2>2. req[t].att \in Attempts
      BY <2>1, SavingType
    <2>3. Exists(req[t].att)' <=> status'[req[t].att] # "absent"
      BY <2>1 DEF Exists
    <2>4. \A b \in Attempts : Exists(b) => status'[b] # "absent"
      BY <1>6 DEF Exists
    <2>5. QED
      BY <2>1, <2>2, <2>3, <2>4, <1>7 DEF OrderInv, SavesSound
  <1>13. CreationsSound'
    <2>1. \A b \in Attempts : status[b] = "absent" => status'[b] = "absent"
      BY <1>6 DEF Exists
    <2>2. \A t \in Sessions : Creating(t)' => Creating(t) /\ req'[t] = req[t]
      BY <1>3 DEF Creating
    <2>3. \A t \in Sessions : Creating(t) => req[t].att \in Attempts
      BY DEF Creating, TypeOK, Requests, Idle
    <2>4. QED
      BY <2>1, <2>2, <2>3, <1>3, <1>6, <1>7 DEF OrderInv, CreationsSound
  <1>14. QED
    BY <1>9, <1>10, <1>11, <1>12, <1>13 DEF OrderInv

\* Every step keeps the inductive invariant.
LEMMA OrderStep ==
    ASSUME TypeOK, TypeOK', OrderInv, [Next]_vars
    PROVE  OrderInv'
  <1>1. ASSUME NEW s \in Sessions, Request(s) PROVE OrderInv'
    BY <1>1, RequestCases, OrderStart, OrderPrepare
  <1>2. ASSUME NEW s \in Sessions, CreateAttempt(s) PROVE OrderInv'
    BY <1>2, OrderCreate
  <1>3. ASSUME NEW s \in Sessions, SaveAttempt(s) PROVE OrderInv'
    BY <1>3, OrderSave
  <1>4. ASSUME NEW s \in Sessions,
               \/ CreateRefused(s) \/ SaveRefused(s) \/ Evaluate(s) \/ StoreScore(s)
               \/ Publish(s) \/ CallFails(s)
        PROVE  OrderInv'
    <2>1. UNCHANGED <<status, order, ends>>
      BY <1>4 DEF CreateRefused, SaveRefused, Evaluate, StoreScore, Publish, CallFails, rows
    <2>2. \A t \in Sessions : req'[t] = req[t] \/ req'[t].pc \notin {"creating", "saving"}
      <3>1. CASE CreateRefused(s) \/ SaveRefused(s) \/ StoreScore(s)
        BY <3>1 DEF CreateRefused, SaveRefused, StoreScore, TypeOK, Idle
      <3>2. CASE Evaluate(s)
        BY <3>2 DEF Evaluate, TypeOK
      <3>3. CASE Publish(s)
        BY <3>3 DEF Publish
      <3>4. CASE CallFails(s)
        <4>1. req' = [req EXCEPT ![s] = Idle] \/ req' = req
          BY <3>4 DEF CallFails
        <4>2. QED
          BY <4>1 DEF TypeOK, Idle
      <3>5. QED
        BY <1>4, <3>1, <3>2, <3>3, <3>4
    <2>3. QED
      BY <2>1, <2>2, OrderFrame
  <1>5. CASE (\E a \in Expiring : TimeExpires(a)) \/ Crash \/ UNCHANGED vars
    <2>1. UNCHANGED <<status, order, ends>>
      BY <1>5 DEF TimeExpires, Crash, vars, rows
    <2>2. \A t \in Sessions : req'[t] = req[t] \/ req'[t].pc \notin {"creating", "saving"}
      BY <1>5 DEF TimeExpires, Crash, vars, Idle
    <2>3. QED
      BY <2>1, <2>2, OrderFrame
  <1>6. QED
    BY <1>1, <1>2, <1>3, <1>4, <1>5 DEF Next, Continue

\* However requests interleave, fail and crash, the orders of an owner's attempts
\* are 1..n and a later attempt implies that every earlier one was submitted.
THEOREM OrderInvariant == Spec => [](TypeOK /\ OrderInv)
  <1>1. Init => OrderInv
    BY DEF Init, OrderInv, OrdersDense, OlderWereSubmitted, CreationsSound, SavesSound,
           EndedWasSubmitted, Exists, Creating, Saving, Idle
  <1>2. TypeOK /\ TypeOK' /\ OrderInv /\ [Next]_vars => OrderInv'
    BY OrderStep
  <1>3. QED
    BY <1>1, <1>2, TypeCorrect, PTL DEF Spec

\* The orders of an owner's attempts are 1, 2, ..., n, each used once.
THEOREM OrdersAreDense == Spec => []OrdersDense
  <1>1. OrderInv => OrdersDense
    BY DEF OrderInv
  <1>2. QED
    BY <1>1, OrderInvariant, PTL

\* A later attempt is only ever created once the earlier ones were submitted.
THEOREM OlderAreSubmitted == Spec => []OlderWereSubmitted
  <1>1. OrderInv => OlderWereSubmitted
    BY DEF OrderInv
  <1>2. QED
    BY <1>1, OrderInvariant, PTL

--------------------------------------------------------------------------------
(***************************************************************************)
(* What other services are told, whatever interleaves, fails or crashes.   *)
(***************************************************************************)
\* A debt that is dropped or kept stays backed.
LEMMA DebtDropped ==
    ASSUME TypeOK, TypeOK', DebtsBacked, NEW a \in Attempts, NEW m \in Messages,
           Debtors(a, m)' \subseteq Debtors(a, m),
           sent'[a][m] = sent[a][m], ends[a] <= ends'[a]
    PROVE  /\ IsFiniteSet(Debtors(a, m)')
           /\ sent'[a][m] + Cardinality(Debtors(a, m)') <= ends'[a]
  <1> DEFINE before == Debtors(a, m)
             after == Debtors(a, m)'
  <1>1. IsFiniteSet(before) /\ sent[a][m] + Cardinality(before) <= ends[a]
    BY DEF DebtsBacked
  <1>2. after \in SUBSET before
    OBVIOUS
  <1> HIDE DEF before, after
  <1>3. IsFiniteSet(after) /\ Cardinality(after) <= Cardinality(before)
    BY <1>1, <1>2, FS_Subset
  <1>4. Cardinality(after) \in Nat /\ Cardinality(before) \in Nat
    BY <1>1, <1>3, FS_CardinalityType
  <1>5. sent[a][m] \in Nat /\ ends[a] \in Nat /\ ends'[a] \in Nat
    BY DEF TypeOK
  <1>6. sent'[a][m] + Cardinality(after) <= ends'[a]
    BY <1>1, <1>3, <1>4, <1>5
  <1>7. QED
    BY <1>3, <1>6 DEF after

\* Steps that announce nothing and at most forget an announcement or go on scoring.
LEMMA AnnounceFrame ==
    ASSUME TypeOK, TypeOK', AnnounceInv, UNCHANGED <<sent, ends>>,
           \A t \in Sessions :
              /\ outbox'[t] \subseteq outbox[t]
              /\ req'[t].pc \in {"submitted", "scored"} =>
                    req[t].pc \in {"submitted", "scored"} /\ req'[t].att = req[t].att
    PROVE  AnnounceInv'
  <1>1. ASSUME NEW a \in Attempts, NEW m \in Messages
        PROVE  Debtors(a, m)' \subseteq Debtors(a, m)
    BY DEF Debtors, Owes
  <1>2. \A a \in Attempts : ends[a] <= ends'[a]
    BY DEF TypeOK
  <1>3. DebtsBacked'
    BY <1>1, <1>2, DebtDropped DEF AnnounceInv, DebtsBacked
  <1>4. ScoringAlone'
    BY DEF AnnounceInv, ScoringAlone
  <1>5. QED
    BY <1>3, <1>4 DEF AnnounceInv

\* The first step of a request finds nothing in the outbox of its session.
LEMMA AnnounceRequest ==
    ASSUME TypeOK, TypeOK', AnnounceInv, NEW s \in Sessions, Request(s)
    PROVE  AnnounceInv'
  <1>1. ASSUME NEW r, r.pc \notin {"submitted", "scored"}, req' = [req EXCEPT ![s] = r],
               UNCHANGED <<outbox, sent, ends>>
        PROVE  AnnounceInv'
    BY <1>1, AnnounceFrame DEF TypeOK
  <1>2. ASSUME NEW a \in Attempts, StartAttempt(s, a) PROVE AnnounceInv'
    <2>1. PICK k : req' = [req EXCEPT ![s] = [pc |-> "creating", att |-> a, order |-> k + 1]]
      BY <1>2 DEF StartAttempt
    <2>2. UNCHANGED <<outbox, sent, ends>>
      BY <1>2 DEF StartAttempt
    <2>3. QED
      BY <1>1, <2>1, <2>2
  <1>3. ASSUME NEW r, Prepared(s, r), Save(s, r) PROVE AnnounceInv'
    BY <1>1, <1>3 DEF Prepared, Save
  <1>4. QED
    BY <1>2, <1>3, RequestCases

\* A committed submission owes every announcement once more, in one session.
LEMMA AnnounceSave ==
    ASSUME TypeOK, TypeOK', AnnounceInv, NEW s \in Sessions, SaveAttempt(s)
    PROVE  AnnounceInv'
  <1> DEFINE r == req[s]
  <1>1. r.att \in Attempts /\ sent' = sent
    BY SaveEffect, SavingType
  <1>2. CASE ~r.submits
    <2>1. req' = [req EXCEPT ![s] = Idle] /\ UNCHANGED <<outbox, ends, sent>>
      BY <1>2 DEF SaveAttempt
    <2>2. QED
      BY <2>1, AnnounceFrame DEF TypeOK, Idle
  <1>3. CASE r.submits
    <2> PICK b \in Attempts : b = r.att
      BY <1>1
    <2>1. /\ ends' = [ends EXCEPT ![b] = @ + 1]
          /\ req' = [req EXCEPT ![s] = [pc |-> "submitted", att |-> b]]
          /\ outbox' = [outbox EXCEPT ![s] = {<<b, "submitted">>}]
      BY <1>3 DEF SaveAttempt
    <2>2. /\ req'[s] = [pc |-> "submitted", att |-> b]
          /\ outbox'[s] = {<<b, "submitted">>}
          /\ \A t \in Sessions : t # s => req'[t] = req[t] /\ outbox'[t] = outbox[t]
      BY <2>1 DEF TypeOK
    <2>3. ends'[b] = ends[b] + 1 /\ \A a \in Attempts : a # b => ends'[a] = ends[a]
      BY <2>1, <1>1 DEF TypeOK
    <2>4. ScoringAlone'
      BY <2>2 DEF AnnounceInv, ScoringAlone
    <2>5. ASSUME NEW a \in Attempts, NEW m \in Messages, a # b
          PROVE  Debtors(a, m)' \subseteq Debtors(a, m)
      BY <2>2, <2>5 DEF Debtors, Owes
    <2>6. ASSUME NEW m \in Messages
          PROVE  /\ IsFiniteSet(Debtors(b, m)')
                 /\ sent'[b][m] + Cardinality(Debtors(b, m)') <= ends'[b]
      <3> DEFINE before == Debtors(b, m)
                 after == Debtors(b, m)'
      <3>1. IsFiniteSet(before) /\ sent[b][m] + Cardinality(before) <= ends[b]
        BY <1>1 DEF AnnounceInv, DebtsBacked
      <3>2. after \in SUBSET (before \cup {s})
        BY <2>2 DEF Debtors, Owes
      <3> HIDE DEF before, after
      <3>3. /\ IsFiniteSet(before \cup {s})
            /\ Cardinality(before \cup {s}) = IF s \in before THEN Cardinality(before)
                                               ELSE Cardinality(before) + 1
        BY <3>1, FS_AddElement
      <3>4. IsFiniteSet(after) /\ Cardinality(after) <= Cardinality(before \cup {s})
        BY <3>2, <3>3, FS_Subset
      <3>5. Cardinality(after) \in Nat /\ Cardinality(before) \in Nat
        BY <3>1, <3>4, FS_CardinalityType
      <3>6. sent[b][m] \in Nat /\ ends[b] \in Nat
        BY <1>1 DEF TypeOK
      <3>7. sent'[b][m] + Cardinality(after) <= ends'[b]
        BY <3>1, <3>3, <3>4, <3>5, <3>6, <2>3, <1>1
      <3>8. QED
        BY <3>4, <3>7 DEF after
    <2>7. \A a \in Attempts : a # b => ends[a] <= ends'[a]
      BY <2>3 DEF TypeOK
    <2>8. ASSUME NEW a \in Attempts, NEW m \in Messages, a # b
          PROVE  /\ IsFiniteSet(Debtors(a, m)')
                 /\ sent'[a][m] + Cardinality(Debtors(a, m)') <= ends'[a]
      BY <2>5, <2>7, <2>8, <1>1, DebtDropped DEF AnnounceInv
    <2>9. DebtsBacked'
      BY <2>6, <2>8 DEF DebtsBacked
    <2>10. QED
      BY <2>4, <2>9 DEF AnnounceInv
  <1>4. QED
    BY <1>2, <1>3

\* The scoring handler hands its publishers what its session owed already.
LEMMA AnnounceScore ==
    ASSUME TypeOK, TypeOK', AnnounceInv, NEW s \in Sessions, StoreScore(s)
    PROVE  AnnounceInv'
  <1> DEFINE r == req[s]
  <1>1. r.pc = "scored" /\ r.tasks \subseteq Questions
    BY DEF StoreScore, TypeOK, Requests, Idle
  <1>2. /\ req' = [req EXCEPT ![s] = Idle] /\ UNCHANGED <<sent, ends>>
        /\ outbox' = [outbox EXCEPT ![s] = @ \cup ({r.att} \X ({"scored"} \cup r.tasks))]
    BY DEF StoreScore
  <1>3. /\ req'[s] = Idle /\ outbox'[s] = outbox[s] \cup ({r.att} \X ({"scored"} \cup r.tasks))
        /\ \A t \in Sessions : t # s => req'[t] = req[t] /\ outbox'[t] = outbox[t]
    BY <1>2 DEF TypeOK
  <1>4. "submitted" \notin {"scored"} \cup r.tasks
    BY <1>1, AttemptAssumption
  <1> HIDE DEF r
  <1>5. ASSUME NEW a \in Attempts, NEW m \in Messages, Owes(s, a, m)'
        PROVE  Owes(s, a, m)
    <2>1. <<a, m>> \in outbox[s] \/ (a = r.att /\ m \in {"scored"} \cup r.tasks)
      BY <1>3, <1>5 DEF Owes, Idle
    <2>2. QED
      BY <2>1, <1>1, <1>4 DEF Owes, r
  <1>6. ASSUME NEW a \in Attempts, NEW m \in Messages
        PROVE  Debtors(a, m)' \subseteq Debtors(a, m)
    BY <1>3, <1>5 DEF Debtors, Owes
  <1>7. \A a \in Attempts : ends[a] <= ends'[a]
    BY <1>2 DEF TypeOK
  <1>8. DebtsBacked'
    BY <1>2, <1>6, <1>7, DebtDropped DEF AnnounceInv, DebtsBacked
  <1>9. ScoringAlone'
    BY <1>3 DEF AnnounceInv, ScoringAlone, Idle
  <1>10. QED
    BY <1>8, <1>9 DEF AnnounceInv

\* What a publisher hands to the broker its session no longer owes.
LEMMA AnnouncePublish ==
    ASSUME TypeOK, TypeOK', AnnounceInv, NEW s \in Sessions, Publish(s)
    PROVE  AnnounceInv'
  <1>1. PICK msg \in outbox[s] :
          /\ outbox' = [outbox EXCEPT ![s] = @ \ {msg}]
          /\ sent' = [sent EXCEPT ![msg[1]][msg[2]] = @ + 1]
    BY DEF Publish
  <1>2. PICK a \in Attempts, m \in Messages : msg = <<a, m>>
    BY DEF TypeOK
  <1>3. UNCHANGED <<req, ends>>
    BY DEF Publish
  <1>4. /\ outbox'[s] = outbox[s] \ {<<a, m>>}
        /\ \A t \in Sessions : t # s => outbox'[t] = outbox[t]
    BY <1>1, <1>2 DEF TypeOK
  <1>5. /\ sent'[a][m] = sent[a][m] + 1
        /\ \A b \in Attempts, n \in Messages : <<b, n>> # <<a, m>> => sent'[b][n] = sent[b][n]
    BY <1>1, <1>2 DEF TypeOK
  <1>6. <<a, m>> \in outbox[s]
    BY <1>1, <1>2
  <1>7. ~Owes(s, a, m)'
    BY <1>3, <1>4, <1>6 DEF Owes, AnnounceInv, ScoringAlone
  <1>8. ASSUME NEW b \in Attempts, NEW n \in Messages
        PROVE  Debtors(b, n)' \subseteq Debtors(b, n)
    BY <1>3, <1>4 DEF Debtors, Owes
  <1>9. \A b \in Attempts : ends[b] <= ends'[b]
    BY <1>3 DEF TypeOK
  <1>10. /\ IsFiniteSet(Debtors(a, m)')
         /\ sent'[a][m] + Cardinality(Debtors(a, m)') <= ends'[a]
    <2> DEFINE before == Debtors(a, m)
               after == Debtors(a, m)'
    <2>1. IsFiniteSet(before) /\ sent[a][m] + Cardinality(before) <= ends[a]
      BY DEF AnnounceInv, DebtsBacked
    <2>2. s \in before
      BY <1>6 DEF Debtors, Owes
    <2>3. s \notin after
      BY <1>7 DEF Debtors
    <2>4. after \in SUBSET (before \ {s})
      BY <2>3, <1>8
    <2> HIDE DEF before, after
    <2>5. IsFiniteSet(before \ {s}) /\ Cardinality(before \ {s}) = Cardinality(before) - 1
      BY <2>1, <2>2, FS_RemoveElement
    <2>6. IsFiniteSet(after) /\ Cardinality(after) <= Cardinality(before \ {s})
      BY <2>4, <2>5, FS_Subset
    <2>7. Cardinality(after) \in Nat /\ Cardinality(before) \in Nat
      BY <2>1, <2>6, FS_CardinalityType
    <2>8. sent[a][m] \in Nat /\ ends[a] \in Nat
      BY DEF TypeOK
    <2>9. sent'[a][m] + Cardinality(after) <= ends'[a]
      BY <2>1, <2>5, <2>6, <2>7, <2>8, <1>3, <1>5
    <2>10. QED
      BY <2>6, <2>9 DEF after
  <1>11. ASSUME NEW b \in Attempts, NEW n \in Messages
         PROVE  /\ IsFiniteSet(Debtors(b, n)')
                /\ sent'[b][n] + Cardinality(Debtors(b, n)') <= ends'[b]
    <2>1. CASE <<b, n>> = <<a, m>>
      BY <2>1, <1>10
    <2>2. CASE <<b, n>> # <<a, m>>
      BY <2>2, <1>5, <1>8, <1>9, DebtDropped DEF AnnounceInv
    <2>3. QED
      BY <2>1, <2>2
  <1>12. DebtsBacked'
    BY <1>11 DEF DebtsBacked
  <1>13. ScoringAlone'
    BY <1>3, <1>4 DEF AnnounceInv, ScoringAlone
  <1>14. QED
    BY <1>12, <1>13 DEF AnnounceInv

\* Every step keeps the announcements backed.
LEMMA AnnounceStep ==
    ASSUME TypeOK, TypeOK', AnnounceInv, [Next]_vars
    PROVE  AnnounceInv'
  <1>1. ASSUME NEW s \in Sessions, CreateAttempt(s) \/ CreateRefused(s) \/ SaveRefused(s)
        PROVE  AnnounceInv'
    <2>1. req' = [req EXCEPT ![s] = Idle] /\ UNCHANGED <<outbox, sent, ends>>
      BY <1>1 DEF CreateAttempt, CreateRefused, SaveRefused
    <2>2. QED
      BY <2>1, AnnounceFrame DEF TypeOK, Idle
  <1>2. ASSUME NEW s \in Sessions, Evaluate(s) PROVE AnnounceInv'
    <2>1. /\ \A t \in Sessions : t # s => req'[t] = req[t]
          /\ req[s].pc = "submitted" /\ req'[s].att = req[s].att
          /\ UNCHANGED <<outbox, sent, ends>>
      BY <1>2 DEF Evaluate, TypeOK
    <2>2. QED
      BY <2>1, AnnounceFrame
  <1>3. ASSUME NEW s \in Sessions, CallFails(s) PROVE AnnounceInv'
    <2>1. /\ req' = [req EXCEPT ![s] = Idle] \/ req' = req
          /\ outbox' = outbox \/ \E msg \in outbox[s] : outbox' = [outbox EXCEPT ![s] = @ \ {msg}]
          /\ UNCHANGED <<sent, ends>>
      BY <1>3 DEF CallFails
    <2>2. \A t \in Sessions : outbox'[t] \subseteq outbox[t]
      BY <2>1 DEF TypeOK
    <2>3. \A t \in Sessions : req'[t] = req[t] \/ req'[t] = Idle
      BY <2>1 DEF TypeOK
    <2>4. QED
      BY <2>1, <2>2, <2>3, AnnounceFrame DEF Idle
  <1>4. CASE Crash
    BY <1>4, AnnounceFrame DEF Crash, Idle
  <1>5. CASE (\E a \in Expiring : TimeExpires(a)) \/ UNCHANGED vars
    BY <1>5, AnnounceFrame DEF TimeExpires, vars
  <1>6. QED
    BY <1>1, <1>2, <1>3, <1>4, <1>5, AnnounceRequest, AnnounceSave, AnnounceScore,
       AnnouncePublish
    DEF Next, Continue

\* Every announcement made or still owed goes back to a committed submission of its
\* own, through scoring, lost calls and crashes.
THEOREM AnnounceInvariant == Spec => [](TypeOK /\ AnnounceInv)
  <1>1. Init => AnnounceInv
    <2> SUFFICES ASSUME Init PROVE AnnounceInv
      OBVIOUS
    <2>1. \A a \in Attempts : \A m \in Messages : Debtors(a, m) = {}
      BY DEF Init, Debtors, Owes, Idle
    <2>2. \A a \in Attempts : \A m \in Messages : sent[a][m] = 0 /\ ends[a] = 0
      BY DEF Init
    <2>3. \A a \in Attempts : \A m \in Messages :
            /\ IsFiniteSet(Debtors(a, m)) /\ Cardinality(Debtors(a, m)) = 0
            /\ sent[a][m] = 0 /\ ends[a] = 0
      BY <2>1, <2>2, FS_EmptySet
    <2>4. DebtsBacked
      BY <2>3 DEF DebtsBacked
    <2>5. QED
      BY <2>4 DEF Init, AnnounceInv, ScoringAlone, Idle
  <1>2. TypeOK /\ TypeOK' /\ AnnounceInv /\ [Next]_vars => AnnounceInv'
    BY AnnounceStep
  <1>3. QED
    BY <1>1, <1>2, TypeCorrect, PTL DEF Spec

\* No announcement is made more often than there are submissions.
LEMMA SentBacked ==
    ASSUME TypeOK, AnnounceInv, NEW a \in Attempts, NEW m \in Messages
    PROVE  sent[a][m] <= ends[a]
  <1>1. /\ IsFiniteSet(Debtors(a, m))
        /\ sent[a][m] + Cardinality(Debtors(a, m)) <= ends[a]
    BY DEF AnnounceInv, DebtsBacked
  <1>2. Cardinality(Debtors(a, m)) \in Nat
    BY <1>1, FS_CardinalityType
  <1>3. sent[a][m] \in Nat /\ ends[a] \in Nat
    BY DEF TypeOK
  <1>4. QED
    BY <1>1, <1>2, <1>3

--------------------------------------------------------------------------------
(***************************************************************************)
(* For what is announced of every submission the account is exact: only a  *)
(* call that fails and a crash lose an announcement.                       *)
(***************************************************************************)
\* Whom an announcement is owed by, and how often it was made or lost, settles it.
LEMMA SettledKept ==
    ASSUME NEW a \in Attempts, NEW m \in Announced, Settled(a, m),
           Debtors(a, m)' = Debtors(a, m),
           sent'[a][m] = sent[a][m], dropped'[a][m] = dropped[a][m], ends'[a] = ends[a]
    PROVE  Settled(a, m)'
  BY DEF Settled

\* One session stops owing an announcement, which is made or lost in the same step.
LEMMA SettledPaid ==
    ASSUME TypeOK, TypeOK', AnnounceInv, NEW s \in Sessions,
           NEW a \in Attempts, NEW m \in Announced, Settled(a, m), s \in Debtors(a, m),
           Debtors(a, m)' = Debtors(a, m) \ {s}, ends'[a] = ends[a],
           \/ sent'[a][m] = sent[a][m] + 1 /\ dropped'[a][m] = dropped[a][m]
           \/ sent'[a][m] = sent[a][m] /\ dropped'[a][m] = dropped[a][m] + 1
    PROVE  Settled(a, m)'
  <1> DEFINE before == Debtors(a, m)
             after == Debtors(a, m)'
  <1>1. IsFiniteSet(before) /\ s \in before /\ after = before \ {s}
    BY DEF AnnounceInv, DebtsBacked, Messages
  <1>2. sent[a][m] + Cardinality(before) + dropped[a][m] = ends[a]
    BY DEF Settled
  <1>3. sent[a][m] \in Nat /\ dropped[a][m] \in Nat /\ ends[a] \in Nat
    BY DEF TypeOK, Messages
  <1> HIDE DEF before, after
  <1>4. Cardinality(after) = Cardinality(before) - 1 /\ Cardinality(before) \in Nat
    BY <1>1, FS_RemoveElement, FS_CardinalityType
  <1>5. sent'[a][m] + Cardinality(after) + dropped'[a][m] = ends'[a]
    BY <1>2, <1>3, <1>4
  <1>6. QED
    BY <1>5 DEF Settled, after

\* Steps after which the same sessions owe the same.
LEMMA SettleFrame ==
    ASSUME TypeOK, TypeOK', SettleInv, UNCHANGED <<sent, ends, dropped>>,
           \A t \in Sessions : \A a \in Attempts : \A m \in Announced :
              Owes(t, a, m)' <=> Owes(t, a, m),
           \A t \in Sessions : req'[t].pc \in {"creating", "saving"} => outbox'[t] = {}
    PROVE  SettleInv'
  <1>1. ASSUME NEW a \in Attempts, NEW m \in Announced PROVE Settled(a, m)'
    <2>1. Debtors(a, m)' = Debtors(a, m)
      BY DEF Debtors
    <2>2. Settled(a, m)
      BY DEF SettleInv
    <2>3. QED
      BY <2>1, <2>2, SettledKept
  <1>2. SavesOweNothing'
    BY DEF SavesOweNothing
  <1>3. QED
    BY <1>1, <1>2 DEF SettleInv

\* A request begins in a session that owes nothing.
LEMMA SettleRequest ==
    ASSUME TypeOK, TypeOK', SettleInv, NEW s \in Sessions, Request(s)
    PROVE  SettleInv'
  <1>1. ASSUME NEW r, r.pc = "creating" \/ r.pc = "saving", Free(s),
               req' = [req EXCEPT ![s] = r], outbox' = outbox,
               UNCHANGED <<sent, ends, dropped>>
        PROVE  SettleInv'
    <2>1. /\ req'[s] = r /\ req[s].pc = "idle" /\ outbox[s] = {}
          /\ \A t \in Sessions : t # s => req'[t] = req[t]
      BY <1>1 DEF TypeOK, Free, Idle
    <2>2. ASSUME NEW t \in Sessions, NEW a \in Attempts, NEW m \in Announced
          PROVE  Owes(t, a, m)' <=> Owes(t, a, m)
      BY <1>1, <2>1 DEF Owes
    <2>3. \A t \in Sessions : req'[t].pc \in {"creating", "saving"} => outbox'[t] = {}
      BY <1>1, <2>1 DEF SettleInv, SavesOweNothing
    <2>4. QED
      BY <1>1, <2>2, <2>3, SettleFrame
  <1>2. ASSUME NEW a \in Attempts, StartAttempt(s, a) PROVE SettleInv'
    <2>1. PICK k : req' = [req EXCEPT ![s] = [pc |-> "creating", att |-> a, order |-> k + 1]]
      BY <1>2 DEF StartAttempt
    <2>2. Free(s) /\ outbox' = outbox /\ UNCHANGED <<sent, ends, dropped>>
      BY <1>2 DEF StartAttempt
    <2>3. [pc |-> "creating", att |-> a, order |-> k + 1].pc = "creating"
      OBVIOUS
    <2>4. QED
      BY <1>1, <2>1, <2>2, <2>3
  <1>3. ASSUME NEW r, Prepared(s, r), Save(s, r) PROVE SettleInv'
    <2>1. r.pc = "saving" /\ Free(s)
      BY <1>3 DEF Prepared, Admitted
    <2>2. /\ req' = [req EXCEPT ![s] = r] /\ outbox' = outbox
          /\ UNCHANGED <<sent, ends, dropped>>
      BY <1>3 DEF Save
    <2>3. QED
      BY <1>1, <2>1, <2>2
  <1>4. QED
    BY <1>2, <1>3, RequestCases

\* A committed submission is owed once more, by the session that saved it.
LEMMA SettleSave ==
    ASSUME TypeOK, TypeOK', AnnounceInv, SettleInv, NEW s \in Sessions, SaveAttempt(s)
    PROVE  SettleInv'
  <1> DEFINE r == req[s]
  <1>1. r.att \in Attempts /\ sent' = sent /\ dropped' = dropped
    BY SaveEffect, SavingType DEF SaveAttempt
  <1>2. r.pc = "saving" /\ outbox[s] = {}
    BY DEF SaveAttempt, SettleInv, SavesOweNothing
  <1>3. CASE ~r.submits
    <2>1. req' = [req EXCEPT ![s] = Idle] /\ UNCHANGED <<outbox, ends, sent, dropped>>
      BY <1>3 DEF SaveAttempt
    <2>2. req'[s] = Idle /\ \A t \in Sessions : t # s => req'[t] = req[t]
      BY <2>1 DEF TypeOK
    <2>3. ASSUME NEW t \in Sessions, NEW a \in Attempts, NEW m \in Announced
          PROVE  Owes(t, a, m)' <=> Owes(t, a, m)
      BY <1>2, <2>1, <2>2 DEF Owes, Idle
    <2>4. \A t \in Sessions : req'[t].pc \in {"creating", "saving"} => outbox'[t] = {}
      BY <2>1, <2>2 DEF SettleInv, SavesOweNothing, Idle
    <2>5. QED
      BY <2>1, <2>3, <2>4, SettleFrame
  <1>4. CASE r.submits
    <2> PICK b \in Attempts : b = r.att
      BY <1>1
    <2>1. /\ ends' = [ends EXCEPT ![b] = @ + 1]
          /\ req' = [req EXCEPT ![s] = [pc |-> "submitted", att |-> b]]
          /\ outbox' = [outbox EXCEPT ![s] = {<<b, "submitted">>}]
      BY <1>4 DEF SaveAttempt
    <2>2. /\ req'[s] = [pc |-> "submitted", att |-> b]
          /\ outbox'[s] = {<<b, "submitted">>}
          /\ \A t \in Sessions : t # s => req'[t] = req[t] /\ outbox'[t] = outbox[t]
      BY <2>1 DEF TypeOK
    <2>3. ends'[b] = ends[b] + 1 /\ \A a \in Attempts : a # b => ends'[a] = ends[a]
      BY <2>1, <1>1 DEF TypeOK
    <2>4. SavesOweNothing'
      BY <2>2 DEF SettleInv, SavesOweNothing
    <2>5. ASSUME NEW a \in Attempts, NEW m \in Announced, a # b
          PROVE  Settled(a, m)'
      <3>1. Debtors(a, m)' = Debtors(a, m)
        BY <1>2, <2>2, <2>5 DEF Debtors, Owes
      <3>2. Settled(a, m)
        BY DEF SettleInv
      <3>3. QED
        BY <1>1, <2>3, <2>5, <3>1, <3>2, SettledKept
    <2>6. ASSUME NEW m \in Announced
          PROVE  Settled(b, m)'
      <3> DEFINE before == Debtors(b, m)
                 after == Debtors(b, m)'
      <3>1. IsFiniteSet(before)
        BY DEF AnnounceInv, DebtsBacked, Messages
      <3>2. after = before \cup {s} /\ s \notin before
        BY <1>2, <2>2 DEF Debtors, Owes, Announced
      <3>3. sent[b][m] + Cardinality(before) + dropped[b][m] = ends[b]
        BY DEF SettleInv, Settled
      <3>4. sent[b][m] \in Nat /\ dropped[b][m] \in Nat /\ ends[b] \in Nat
        BY DEF TypeOK, Messages
      <3> HIDE DEF before, after
      <3>5. Cardinality(after) = Cardinality(before) + 1 /\ Cardinality(before) \in Nat
        BY <3>1, <3>2, FS_AddElement, FS_CardinalityType
      <3>6. sent'[b][m] + Cardinality(after) + dropped'[b][m] = ends'[b]
        BY <1>1, <2>3, <3>3, <3>4, <3>5
      <3>7. QED
        BY <3>6 DEF Settled, after
    <2>7. QED
      BY <2>4, <2>5, <2>6 DEF SettleInv
  <1>5. QED
    BY <1>3, <1>4

\* The score is owed as before, now by the publishers of the session.
LEMMA SettleScore ==
    ASSUME TypeOK, TypeOK', SettleInv, NEW s \in Sessions, StoreScore(s)
    PROVE  SettleInv'
  <1> DEFINE r == req[s]
  <1>1. r.pc = "scored" /\ r.tasks \subseteq Questions
    BY DEF StoreScore, TypeOK, Requests, Idle
  <1>2. /\ req' = [req EXCEPT ![s] = Idle] /\ UNCHANGED <<sent, ends, dropped>>
        /\ outbox' = [outbox EXCEPT ![s] = @ \cup ({r.att} \X ({"scored"} \cup r.tasks))]
    BY DEF StoreScore
  <1>3. /\ req'[s] = Idle /\ outbox'[s] = outbox[s] \cup ({r.att} \X ({"scored"} \cup r.tasks))
        /\ \A t \in Sessions : t # s => req'[t] = req[t] /\ outbox'[t] = outbox[t]
    BY <1>2 DEF TypeOK
  <1>4. "submitted" \notin r.tasks /\ "scored" \notin r.tasks
    BY <1>1, AttemptAssumption
  <1> HIDE DEF r
  <1>5. ASSUME NEW a \in Attempts, NEW m \in Announced
        PROVE  Owes(s, a, m)' <=> Owes(s, a, m)
    <2>1. Owes(s, a, m)' <=> (<<a, m>> \in outbox[s] \/ (a = r.att /\ m = "scored"))
      BY <1>3, <1>4 DEF Owes, Idle, Announced
    <2>2. Owes(s, a, m) <=> (<<a, m>> \in outbox[s] \/ (a = r.att /\ m = "scored"))
      BY <1>1 DEF Owes, Announced, r
    <2>3. QED
      BY <2>1, <2>2
  <1>6. ASSUME NEW t \in Sessions, NEW a \in Attempts, NEW m \in Announced
        PROVE  Owes(t, a, m)' <=> Owes(t, a, m)
    <2>1. CASE t = s
      BY <1>5, <2>1
    <2>2. CASE t # s
      BY <1>3, <2>2 DEF Owes
    <2>3. QED
      BY <2>1, <2>2
  <1>7. \A t \in Sessions : req'[t].pc \in {"creating", "saving"} => outbox'[t] = {}
    BY <1>3 DEF SettleInv, SavesOweNothing, Idle
  <1>8. QED
    BY <1>2, <1>6, <1>7, SettleFrame

\* A message leaves the outbox: it is sent, or dropped.
LEMMA SettleOutbox ==
    ASSUME TypeOK, TypeOK', AnnounceInv, SettleInv, NEW s \in Sessions,
           NEW a \in Attempts, NEW m \in Messages, <<a, m>> \in outbox[s],
           outbox' = [outbox EXCEPT ![s] = @ \ {<<a, m>>}], UNCHANGED <<req, ends>>,
           m \in Announced =>
              \/ sent'[a][m] = sent[a][m] + 1 /\ dropped'[a][m] = dropped[a][m]
              \/ sent'[a][m] = sent[a][m] /\ dropped'[a][m] = dropped[a][m] + 1,
           \A b \in Attempts : \A n \in Announced : <<b, n>> # <<a, m>> =>
              sent'[b][n] = sent[b][n] /\ dropped'[b][n] = dropped[b][n]
    PROVE  SettleInv'
  <1>1. /\ outbox'[s] = outbox[s] \ {<<a, m>>}
        /\ \A t \in Sessions : t # s => outbox'[t] = outbox[t]
    BY DEF TypeOK
  <1>2. SavesOweNothing'
    BY <1>1 DEF SettleInv, SavesOweNothing
  <1>3. ASSUME NEW b \in Attempts, NEW n \in Announced, <<b, n>> # <<a, m>>
        PROVE  Settled(b, n)'
    <2>1. Debtors(b, n)' = Debtors(b, n)
      BY <1>1, <1>3 DEF Debtors, Owes
    <2>2. Settled(b, n)
      BY DEF SettleInv
    <2>3. QED
      BY <1>3, <2>1, <2>2, SettledKept
  <1>4. ASSUME m \in Announced
        PROVE  Settled(a, m)'
    <2>1. ~Owes(s, a, m)' /\ Owes(s, a, m)
      BY <1>1 DEF Owes, AnnounceInv, ScoringAlone
    <2>2. \A t \in Sessions : t # s => (Owes(t, a, m)' <=> Owes(t, a, m))
      BY <1>1 DEF Owes
    <2>3. Debtors(a, m)' = Debtors(a, m) \ {s} /\ s \in Debtors(a, m)
      BY <2>1, <2>2 DEF Debtors
    <2>4. Settled(a, m) /\ ends'[a] = ends[a]
      BY <1>4 DEF SettleInv
    <2>5. QED
      BY <1>4, <2>3, <2>4, SettledPaid
  <1>5. ASSUME NEW b \in Attempts, NEW n \in Announced PROVE Settled(b, n)'
    <2>1. CASE <<b, n>> = <<a, m>>
      BY <1>4, <1>5, <2>1
    <2>2. CASE <<b, n>> # <<a, m>>
      BY <1>3, <1>5, <2>2
    <2>3. QED
      BY <2>1, <2>2
  <1>6. QED
    BY <1>2, <1>5 DEF SettleInv

LEMMA SettlePublish ==
    ASSUME TypeOK, TypeOK', AnnounceInv, SettleInv, NEW s \in Sessions, Publish(s)
    PROVE  SettleInv'
  <1>1. PICK msg \in outbox[s] :
          /\ outbox' = [outbox EXCEPT ![s] = @ \ {msg}]
          /\ sent' = [sent EXCEPT ![msg[1]][msg[2]] = @ + 1]
    BY DEF Publish
  <1>2. PICK a \in Attempts, m \in Messages : msg = <<a, m>>
    BY DEF TypeOK
  <1>3. UNCHANGED <<req, ends>> /\ dropped' = dropped
    BY DEF Publish
  <1>4. /\ sent'[a][m] = sent[a][m] + 1
        /\ \A b \in Attempts, n \in Messages : <<b, n>> # <<a, m>> => sent'[b][n] = sent[b][n]
    BY <1>1, <1>2 DEF TypeOK
  <1>5. \A b \in Attempts : \A n \in Announced : <<b, n>> # <<a, m>> =>
           sent'[b][n] = sent[b][n] /\ dropped'[b][n] = dropped[b][n]
    BY <1>3, <1>4 DEF Messages
  <1>6. <<a, m>> \in outbox[s] /\ outbox' = [outbox EXCEPT ![s] = @ \ {<<a, m>>}]
    BY <1>1, <1>2
  <1>7. QED
    BY <1>3, <1>4, <1>5, <1>6, SettleOutbox

\* The scoring handler fails: the score it was going to announce is counted as lost.
LEMMA SettleScoringFails ==
    ASSUME TypeOK, TypeOK', AnnounceInv, SettleInv, NEW s \in Sessions,
           req[s].pc \in {"submitted", "scored"}, req' = [req EXCEPT ![s] = Idle],
           dropped' = [dropped EXCEPT ![req[s].att]["scored"] = @ + 1],
           outbox' = outbox, sent' = sent, ends' = ends
    PROVE  SettleInv'
  <1>1. PICK b \in Attempts : b = req[s].att
    BY DEF TypeOK, Requests, Idle
  <1>2. /\ req'[s] = Idle /\ \A t \in Sessions : t # s => req'[t] = req[t]
        /\ outbox[s] \subseteq {<<b, "submitted">>}
    BY <1>1 DEF TypeOK, AnnounceInv, ScoringAlone
  <1>3. /\ dropped'[b]["scored"] = dropped[b]["scored"] + 1
        /\ \A a \in Attempts : \A m \in Announced :
              <<a, m>> # <<b, "scored">> => dropped'[a][m] = dropped[a][m]
    BY <1>1 DEF TypeOK, Announced
  <1>4. SavesOweNothing'
    BY <1>2 DEF SettleInv, SavesOweNothing, Idle
  <1>5. ASSUME NEW a \in Attempts, NEW m \in Announced, <<a, m>> # <<b, "scored">>
        PROVE  Settled(a, m)'
    <2>1. Owes(s, a, m)' <=> Owes(s, a, m)
      BY <1>1, <1>2, <1>5 DEF Owes, Idle, Announced
    <2>2. \A t \in Sessions : t # s => (Owes(t, a, m)' <=> Owes(t, a, m))
      BY <1>2 DEF Owes
    <2>3. Debtors(a, m)' = Debtors(a, m)
      BY <2>1, <2>2 DEF Debtors
    <2>4. Settled(a, m)
      BY DEF SettleInv
    <2>5. QED
      BY <1>3, <1>5, <2>3, <2>4, SettledKept
  <1>6. Settled(b, "scored")'
    <2>1. Owes(s, b, "scored") /\ ~Owes(s, b, "scored")'
      BY <1>1, <1>2 DEF Owes, Idle
    <2>2. \A t \in Sessions : t # s => (Owes(t, b, "scored")' <=> Owes(t, b, "scored"))
      BY <1>2 DEF Owes
    <2>3. /\ Debtors(b, "scored")' = Debtors(b, "scored") \ {s}
          /\ s \in Debtors(b, "scored")
      BY <2>1, <2>2 DEF Debtors
    <2>4. "scored" \in Announced /\ Settled(b, "scored")
      BY DEF SettleInv, Announced
    <2>5. QED
      BY <1>3, <2>3, <2>4, SettledPaid
  <1>7. ASSUME NEW a \in Attempts, NEW m \in Announced PROVE Settled(a, m)'
    BY <1>5, <1>6
  <1>8. QED
    BY <1>4, <1>7 DEF SettleInv

\* A failed call loses at most one announcement of its session.
LEMMA SettleFails ==
    ASSUME TypeOK, TypeOK', AnnounceInv, SettleInv, NEW s \in Sessions, CallFails(s)
    PROVE  SettleInv'
  <1>1. sent' = sent /\ ends' = ends
    BY DEF CallFails
  <1>2. ASSUME req[s] # Idle, req' = [req EXCEPT ![s] = Idle], outbox' = outbox,
               dropped' = IF req[s].pc \in {"submitted", "scored"}
                          THEN [dropped EXCEPT ![req[s].att]["scored"] = @ + 1]
                          ELSE dropped
        PROVE  SettleInv'
    <2>1. CASE req[s].pc \in {"submitted", "scored"}
      BY <1>1, <1>2, <2>1, SettleScoringFails
    <2>2. CASE req[s].pc \notin {"submitted", "scored"}
      <3>1. req'[s] = Idle /\ \A t \in Sessions : t # s => req'[t] = req[t]
        BY <1>2 DEF TypeOK
      <3>2. ASSUME NEW t \in Sessions, NEW a \in Attempts, NEW m \in Announced
            PROVE  Owes(t, a, m)' <=> Owes(t, a, m)
        BY <1>2, <2>2, <3>1 DEF Owes, Idle
      <3>3. \A t \in Sessions : req'[t].pc \in {"creating", "saving"} => outbox'[t] = {}
        BY <1>2, <3>1 DEF SettleInv, SavesOweNothing, Idle
      <3>4. dropped' = dropped
        BY <1>2, <2>2
      <3>5. QED
        BY <1>1, <3>2, <3>3, <3>4, SettleFrame
    <2>3. QED
      BY <2>1, <2>2
  <1>3. ASSUME NEW msg \in outbox[s], outbox' = [outbox EXCEPT ![s] = @ \ {msg}],
               dropped' = IF msg[2] \in Announced
                          THEN [dropped EXCEPT ![msg[1]][msg[2]] = @ + 1] ELSE dropped,
               req' = req
        PROVE  SettleInv'
    <2>1. PICK a \in Attempts, m \in Messages : msg = <<a, m>>
      BY DEF TypeOK
    <2>2. /\ m \in Announced => dropped'[a][m] = dropped[a][m] + 1
          /\ \A b \in Attempts : \A n \in Announced :
                <<b, n>> # <<a, m>> => dropped'[b][n] = dropped[b][n]
      <3>1. CASE m \in Announced
        <4>1. dropped' = [dropped EXCEPT ![a][m] = @ + 1]
          BY <1>3, <2>1, <3>1
        <4>2. QED
          BY <3>1, <4>1 DEF TypeOK
      <3>2. CASE m \notin Announced
        BY <1>3, <2>1, <3>2
      <3>3. QED
        BY <3>1, <3>2
    <2>3. <<a, m>> \in outbox[s] /\ outbox' = [outbox EXCEPT ![s] = @ \ {<<a, m>>}]
      BY <1>3, <2>1
    <2>4. m \in Announced =>
             \/ sent'[a][m] = sent[a][m] + 1 /\ dropped'[a][m] = dropped[a][m]
             \/ sent'[a][m] = sent[a][m] /\ dropped'[a][m] = dropped[a][m] + 1
      BY <1>1, <2>2
    <2>5. \A b \in Attempts : \A n \in Announced : <<b, n>> # <<a, m>> =>
             sent'[b][n] = sent[b][n] /\ dropped'[b][n] = dropped[b][n]
      BY <1>1, <2>2
    <2>6. UNCHANGED <<req, ends>>
      BY <1>1, <1>3
    <2>7. QED
      BY <2>3, <2>4, <2>5, <2>6, SettleOutbox
  <1>4. QED
    BY <1>2, <1>3 DEF CallFails

\* A crash loses what every session owes, and that is what is counted.
LEMMA SettleCrash ==
    ASSUME TypeOK, TypeOK', AnnounceInv, SettleInv, Crash
    PROVE  SettleInv'
  <1>1. /\ req' = [s \in Sessions |-> Idle] /\ outbox' = [s \in Sessions |-> {}]
        /\ sent' = sent /\ ends' = ends
    BY DEF Crash
  <1>2. SavesOweNothing'
    BY <1>1 DEF SavesOweNothing
  <1>3. ASSUME NEW a \in Attempts, NEW m \in Announced PROVE Settled(a, m)'
    <2> DEFINE before == Debtors(a, m)
               after == Debtors(a, m)'
    <2>1. after = {}
      BY <1>1 DEF Debtors, Owes, Idle
    <2>2. IsFiniteSet(before) /\ sent[a][m] + Cardinality(before) + dropped[a][m] = ends[a]
      BY DEF AnnounceInv, DebtsBacked, SettleInv, Settled, Messages
    <2>3. dropped'[a][m] = dropped[a][m] + Cardinality(before)
      BY DEF Crash
    <2>4. sent[a][m] \in Nat /\ dropped[a][m] \in Nat /\ ends[a] \in Nat
      BY DEF TypeOK, Messages
    <2> HIDE DEF before, after
    <2>5. Cardinality(after) = 0 /\ Cardinality(before) \in Nat
      BY <2>1, <2>2, FS_EmptySet, FS_CardinalityType
    <2>6. sent'[a][m] + Cardinality(after) + dropped'[a][m] = ends'[a]
      BY <1>1, <2>2, <2>3, <2>4, <2>5
    <2>7. QED
      BY <2>6 DEF Settled, after
  <1>4. QED
    BY <1>2, <1>3 DEF SettleInv

\* Every step keeps the account exact.
LEMMA SettleStep ==
    ASSUME TypeOK, TypeOK', AnnounceInv, SettleInv, [Next]_vars
    PROVE  SettleInv'
  <1>1. ASSUME NEW s \in Sessions, CreateAttempt(s) \/ CreateRefused(s) \/ SaveRefused(s)
        PROVE  SettleInv'
    <2>1. /\ req[s].pc \in {"creating", "saving"}
          /\ req' = [req EXCEPT ![s] = Idle] /\ UNCHANGED <<outbox, sent, ends, dropped>>
      BY <1>1 DEF CreateAttempt, CreateRefused, SaveRefused
    <2>2. req'[s] = Idle /\ \A t \in Sessions : t # s => req'[t] = req[t]
      BY <2>1 DEF TypeOK
    <2>3. ASSUME NEW t \in Sessions, NEW a \in Attempts, NEW m \in Announced
          PROVE  Owes(t, a, m)' <=> Owes(t, a, m)
      BY <2>1, <2>2 DEF Owes, Idle
    <2>4. \A t \in Sessions : req'[t].pc \in {"creating", "saving"} => outbox'[t] = {}
      BY <2>1, <2>2 DEF SettleInv, SavesOweNothing, Idle
    <2>5. QED
      BY <2>1, <2>3, <2>4, SettleFrame
  <1>2. ASSUME NEW s \in Sessions, Evaluate(s) PROVE SettleInv'
    <2>1. /\ \A t \in Sessions : t # s => req'[t] = req[t]
          /\ req[s].pc = "submitted" /\ req'[s].pc = "scored" /\ req'[s].att = req[s].att
          /\ UNCHANGED <<outbox, sent, ends, dropped>>
      BY <1>2 DEF Evaluate, TypeOK
    <2>2. ASSUME NEW t \in Sessions, NEW a \in Attempts, NEW m \in Announced
          PROVE  Owes(t, a, m)' <=> Owes(t, a, m)
      BY <2>1 DEF Owes
    <2>3. \A t \in Sessions : req'[t].pc \in {"creating", "saving"} => outbox'[t] = {}
      BY <2>1 DEF SettleInv, SavesOweNothing
    <2>4. QED
      BY <2>1, <2>2, <2>3, SettleFrame
  <1>3. CASE (\E a \in Expiring : TimeExpires(a)) \/ UNCHANGED vars
    <2>1. UNCHANGED <<req, outbox, sent, ends, dropped>>
      BY <1>3 DEF TimeExpires, vars
    <2>2. ASSUME NEW t \in Sessions, NEW a \in Attempts, NEW m \in Announced
          PROVE  Owes(t, a, m)' <=> Owes(t, a, m)
      BY <2>1 DEF Owes
    <2>3. \A t \in Sessions : req'[t].pc \in {"creating", "saving"} => outbox'[t] = {}
      BY <2>1 DEF SettleInv, SavesOweNothing
    <2>4. QED
      BY <2>1, <2>2, <2>3, SettleFrame
  <1>4. QED
    BY <1>1, <1>2, <1>3, SettleRequest, SettleSave, SettleScore, SettlePublish, SettleFails,
       SettleCrash
    DEF Next, Continue

\* Every committed submission and its score are announced once, still owed by one session,
\* or counted as lost with a call that failed or a crash; a writing task is handed on at
\* most once per submission.
THEOREM AnnouncementsAreAccounted == Spec => []AnnouncementsAccounted
  <1>1. Init => SettleInv
    <2> SUFFICES ASSUME Init PROVE SettleInv
      OBVIOUS
    <2>1. ASSUME NEW a \in Attempts, NEW m \in Announced PROVE Settled(a, m)
      <3>1. Debtors(a, m) = {}
        BY DEF Init, Debtors, Owes, Idle
      <3>2. sent[a][m] = 0 /\ ends[a] = 0 /\ dropped[a][m] = 0
        BY DEF Init, Messages
      <3>3. Cardinality(Debtors(a, m)) = 0
        BY <3>1, FS_EmptySet
      <3>4. QED
        BY <3>2, <3>3 DEF Settled
    <2>2. SavesOweNothing
      BY DEF Init, SavesOweNothing
    <2>3. QED
      BY <2>1, <2>2 DEF SettleInv
  <1>2. TypeOK /\ TypeOK' /\ AnnounceInv /\ SettleInv /\ [Next]_vars => SettleInv'
    BY SettleStep
  <1>3. TypeOK /\ AnnounceInv /\ SettleInv => AnnouncementsAccounted
    <2> SUFFICES ASSUME TypeOK, AnnounceInv, SettleInv, NEW a \in Attempts
                 PROVE  /\ \A m \in Announced : Settled(a, m)
                        /\ \A q \in Questions : sent[a][q] <= ends[a]
      BY DEF AnnouncementsAccounted
    <2>1. \A m \in Announced : Settled(a, m)
      BY DEF SettleInv
    <2>2. \A q \in Questions : sent[a][q] <= ends[a]
      BY SentBacked DEF Messages
    <2>3. QED
      BY <2>1, <2>2
  <1>4. QED
    BY <1>1, <1>2, <1>3, AnnounceInvariant, PTL DEF Spec
================================================================================
