--------------------------- MODULE ExamAttemptSerial ---------------------------
(***************************************************************************)
(* Theorems about ExamAttempt for clients that send one request per        *)
(* attempt at a time (OnePerAttempt): every save then still finds the row  *)
(* it loaded, which makes submissions final, scores faithful, and the      *)
(* commands an implementation of AttemptBook.                              *)
(***************************************************************************)
EXTENDS ExamAttemptProofs

(***************************************************************************)
(* What a step does to the rows.                                           *)
(***************************************************************************)
\* A request starts by reading: it writes no row before its first await.
LEMMA RequestReads ==
    ASSUME NEW s \in Sessions, Request(s)
    PROVE  UNCHANGED <<rows, ends>>
  <1>1. PICK a \in Attempts :
          \/ StartAttempt(s, a)
          \/ EndAttempt(s, a)
          \/ \E q \in Questions :
                \/ \E x \in Answers : Answer(s, a, q, x)
                \/ \E removed \in SUBSET Answers : RemoveAnswer(s, a, q, removed)
                \/ \E n \in Notes : AddNote(s, a, q, n)
                \/ ToggleFlag(s, a, q)
    BY DEF Request
  <1>2. CASE StartAttempt(s, a)
    BY <1>2 DEF StartAttempt
  <1>3. CASE EndAttempt(s, a)
    BY <1>3 DEF EndAttempt, Save
  <1>4. ASSUME NEW q \in Questions, NEW x \in Answers, Answer(s, a, q, x)
        PROVE  UNCHANGED <<rows, ends>>
    BY <1>4 DEF Answer, Save
  <1>5. ASSUME NEW q \in Questions, NEW removed \in SUBSET Answers,
               RemoveAnswer(s, a, q, removed)
        PROVE  UNCHANGED <<rows, ends>>
    BY <1>5 DEF RemoveAnswer, Save
  <1>6. ASSUME NEW q \in Questions, NEW n \in Notes, AddNote(s, a, q, n)
        PROVE  UNCHANGED <<rows, ends>>
    BY <1>6 DEF AddNote, Save
  <1>7. ASSUME NEW q \in Questions, ToggleFlag(s, a, q)
        PROVE  UNCHANGED <<rows, ends>>
    BY <1>7 DEF ToggleFlag, Save
  <1>8. QED
    BY <1>1, <1>2, <1>3, <1>4, <1>5, <1>6, <1>7

\* Only the insertion of an attempt, the save of one and the scoring handler write.
LEMMA WritesOfRows ==
    ASSUME [Next]_vars
    PROVE  \/ \E s \in Sessions : CreateAttempt(s) \/ SaveAttempt(s) \/ StoreScore(s)
           \/ UNCHANGED <<rows, ends>>
  <1>1. ASSUME NEW s \in Sessions,
               CreateRefused(s) \/ SaveRefused(s) \/ Evaluate(s) \/ Publish(s) \/ CallFails(s)
        PROVE  UNCHANGED <<rows, ends>>
    BY <1>1 DEF CreateRefused, SaveRefused, Evaluate, Publish, CallFails
  <1>2. CASE (\E a \in Expiring : TimeExpires(a)) \/ Crash \/ UNCHANGED vars
    BY <1>2 DEF TimeExpires, Crash, vars, rows
  <1>3. QED
    BY <1>1, <1>2, RequestReads DEF Next, Continue

\* A committed insertion opens an attempt that was absent, and changes nothing else.
LEMMA CreationTarget ==
    ASSUME TypeOK, OrderInv, NEW s \in Sessions, CreateAttempt(s)
    PROVE  /\ req[s].att \in Attempts /\ status[req[s].att] = "absent"
           /\ status' = [status EXCEPT ![req[s].att] = "open"]
           /\ req' = [req EXCEPT ![s] = Idle]
           /\ UNCHANGED <<responses, score, marks, ends>>
  BY DEF CreateAttempt, OrderInv, CreationsSound, Creating, TypeOK, Requests, Idle

\* A committed save changes one attempt, and of a submitted one no answer.
LEMMA SaveTarget ==
    ASSUME OnePerAttempt, TypeOK, OrderInv, SavesFresh, NEW s \in Sessions, SaveAttempt(s)
    PROVE  LET r == req[s] IN
           /\ r.att \in Attempts
           /\ r.submits => status[r.att] = "open" /\ responses' = responses
           /\ status' = [status EXCEPT ![r.att] = IF r.submits THEN "ended" ELSE @]
           /\ \A b \in Attempts : b # r.att => responses'[b] = responses[b]
           /\ status[r.att] = "ended" => SheetOf(responses'[r.att]) = SheetOf(responses[r.att])
  <1> DEFINE r == req[s]
             a == r.att
  <1>1. Saving(s) /\ a \in Attempts /\ r.change \in Changes /\ r.submits \in BOOLEAN
    BY SaveEffect, SavingType
  <1>2. /\ IF r.submits THEN r.ended /\ status[a] = "open" /\ r.change = NoChange
           ELSE r.ended <=> status[a] = "ended"
        /\ r.change.kind # "none" =>
             (r.ended => r.change.row.answers = SheetOf(responses[a])[r.change.q])
    BY <1>1 DEF SavesFresh
  <1>3. status[a] \in {"open", "ended"}
    BY <1>1 DEF OrderInv, SavesSound, Exists, TypeOK
  <1>4. status' = [status EXCEPT ![a] = IF r.submits THEN "ended" ELSE @]
    BY <1>1, <1>2, <1>3, SaveEffect DEF StatusColumn, TypeOK
  <1>5. responses' = IF r.change.kind = "none" THEN responses
                     ELSE [responses EXCEPT ![a][r.change.q] = r.change.row]
    BY DEF SaveAttempt
  <1>6. r.submits => status[a] = "open" /\ responses' = responses
    BY <1>2, <1>5 DEF NoChange
  <1>7. \A b \in Attempts : b # a => responses'[b] = responses[b]
    BY <1>5 DEF TypeOK
  <1>8. status[a] = "ended" => SheetOf(responses'[a]) = SheetOf(responses[a])
    <2> SUFFICES ASSUME status[a] = "ended", r.change.kind # "none"
                 PROVE  SheetOf(responses'[a]) = SheetOf(responses[a])
      BY <1>5
    <2>1. r.change.q \in Questions /\ r.change.row \in Rows
      BY <1>1 DEF Changes, NoChange
    <2>2. r.change.row.answers = SheetOf(responses[a])[r.change.q]
      BY <1>2
    <2>3. r.change.row # NoResponse
      BY <2>1, AttemptAssumption
    <2>4. responses'[a] = [responses[a] EXCEPT ![r.change.q] = r.change.row]
      BY <1>1, <1>5 DEF TypeOK
    <2>5. responses[a] \in [Questions -> Rows \cup {NoResponse}]
      BY <1>1 DEF TypeOK
    <2>6. \A q \in Questions :
            (IF responses'[a][q] = NoResponse THEN {} ELSE responses'[a][q].answers)
              = SheetOf(responses[a])[q]
      BY <2>1, <2>2, <2>3, <2>4, <2>5 DEF SheetOf
    <2>7. QED
      BY <2>6 DEF SheetOf
  <1>9. QED
    BY <1>1, <1>4, <1>6, <1>7, <1>8

\* No step opens a submitted attempt again or changes what was submitted.
LEMMA EndedKept ==
    ASSUME OnePerAttempt, TypeOK, OrderInv, SavesFresh, [Next]_vars,
           NEW a \in Attempts, status[a] = "ended"
    PROVE  status'[a] = "ended" /\ SheetOf(responses'[a]) = SheetOf(responses[a])
  <1>1. ASSUME NEW s \in Sessions, CreateAttempt(s)
        PROVE  status'[a] = "ended" /\ responses' = responses
    BY <1>1, CreationTarget DEF TypeOK
  <1>2. ASSUME NEW s \in Sessions, SaveAttempt(s)
        PROVE  status'[a] = "ended" /\ SheetOf(responses'[a]) = SheetOf(responses[a])
    <2>1. CASE req[s].att = a
      BY <1>2, <2>1, SaveTarget DEF TypeOK
    <2>2. CASE req[s].att # a
      BY <1>2, <2>2, SaveTarget DEF TypeOK
    <2>3. QED
      BY <2>1, <2>2
  <1>3. ASSUME NEW s \in Sessions, StoreScore(s) PROVE UNCHANGED <<status, responses>>
    BY <1>3 DEF StoreScore
  <1>4. QED
    BY <1>1, <1>2, <1>3, WritesOfRows DEF rows

--------------------------------------------------------------------------------
(***************************************************************************)
(* The inductive invariant, part by part.                                  *)
(***************************************************************************)
\* A save in flight stays fresh while nobody else writes its row.
LEMMA FreshFrame ==
    ASSUME SavesFresh,
           \A t \in Sessions : Saving(t)' =>
              /\ Saving(t) /\ req'[t] = req[t]
              /\ status'[req[t].att] = status[req[t].att]
              /\ responses'[req[t].att] = responses[req[t].att]
    PROVE  SavesFresh'
  BY DEF SavesFresh, Saving

\* Preparing a save while its attempt is locked for others leaves no stale save.
LEMMA FreshPrepare ==
    ASSUME OnePerAttempt, TypeOK, SavesFresh, NEW s \in Sessions, NEW r,
           Prepared(s, r), Save(s, r)
    PROVE  SavesFresh'
  <1>1. req' = [req EXCEPT ![s] = r] /\ UNCHANGED <<status, responses>>
    BY DEF Save, rows
  <1>2. \A t \in Sessions : ~(Saving(t) /\ req[t].att = r.att)
    BY DEF Prepared, Admitted, Saving
  <1>3. req'[s] = r /\ \A t \in Sessions : t # s => req'[t] = req[t]
    BY <1>1 DEF TypeOK
  <1> SUFFICES ASSUME NEW t \in Sessions, Saving(t)'
               PROVE  LET p == req'[t] IN
                      /\ \A u \in Sessions : Saving(u)' /\ req'[u].att = p.att => u = t
                      /\ IF p.submits
                         THEN p.ended /\ status'[p.att] = "open" /\ p.change = NoChange
                         ELSE p.ended <=> status'[p.att] = "ended"
                      /\ p.change.kind # "none" =>
                           /\ p.change.kind = "create"
                                <=> responses'[p.att][p.change.q] = NoResponse
                           /\ p.ended => p.change.row.answers
                                           = SheetOf(responses'[p.att])[p.change.q]
    BY DEF SavesFresh
  <1>4. CASE t = s
    <2>1. \A u \in Sessions : Saving(u)' /\ req'[u].att = r.att => u = t
      BY <1>2, <1>3, <1>4 DEF Saving
    <2>2. QED
      BY <2>1, <1>1, <1>3, <1>4 DEF Prepared
  <1>5. CASE t # s
    <2>1. req'[t] = req[t] /\ Saving(t)
      BY <1>3, <1>5 DEF Saving
    <2>2. \A u \in Sessions : Saving(u)' /\ req'[u].att = req[t].att => u = t
      BY <2>1, <1>2, <1>3 DEF Saving, SavesFresh
    <2>3. QED
      BY <2>1, <2>2, <1>1 DEF SavesFresh
  <1>6. QED
    BY <1>4, <1>5

\* No save in flight becomes stale while requests wait for each other.
LEMMA FreshStep ==
    ASSUME OnePerAttempt, TypeOK, OrderInv, SavesFresh, [Next]_vars
    PROVE  SavesFresh'
  <1>1. ASSUME NEW s \in Sessions, Request(s) PROVE SavesFresh'
    <2>1. ASSUME NEW a \in Attempts, StartAttempt(s, a) PROVE SavesFresh'
      <3>1. \A t \in Sessions : Saving(t)' => Saving(t) /\ req'[t] = req[t]
        BY <2>1 DEF StartAttempt, TypeOK, Saving
      <3>2. UNCHANGED <<status, responses>>
        BY <2>1 DEF StartAttempt, rows
      <3>3. QED
        BY <3>1, <3>2, FreshFrame
    <2>2. QED
      BY <1>1, <2>1, RequestCases, FreshPrepare
  <1>2. ASSUME NEW s \in Sessions, CreateAttempt(s) PROVE SavesFresh'
    <2>1. \A t \in Sessions : Saving(t)' => Saving(t) /\ req'[t] = req[t]
      BY <1>2, CreationTarget DEF TypeOK, Saving, Idle
    <2>2. \A t \in Sessions : Saving(t) => req[t].att # req[s].att
      BY <1>2, CreationTarget DEF OrderInv, SavesSound, Exists
    <2>3. \A t \in Sessions : Saving(t) => req[t].att \in Attempts
      BY SavingType
    <2>4. QED
      BY <2>1, <2>2, <2>3, <1>2, CreationTarget, FreshFrame DEF TypeOK
  <1>3. ASSUME NEW s \in Sessions, SaveAttempt(s) PROVE SavesFresh'
    <2>1. \A t \in Sessions : Saving(t)' => Saving(t) /\ req'[t] = req[t] /\ t # s
      BY <1>3, SaveEffect DEF TypeOK, Saving, Idle
    <2>2. \A t \in Sessions : Saving(t) /\ t # s => req[t].att # req[s].att
      BY <1>3, SaveEffect DEF SavesFresh
    <2>3. \A t \in Sessions : Saving(t) => req[t].att \in Attempts
      BY SavingType
    <2>4. QED
      BY <2>1, <2>2, <2>3, <1>3, SaveTarget, FreshFrame DEF TypeOK
  <1>4. ASSUME NEW s \in Sessions,
               \/ CreateRefused(s) \/ SaveRefused(s) \/ Evaluate(s) \/ StoreScore(s)
               \/ Publish(s) \/ CallFails(s)
        PROVE  SavesFresh'
    <2>1. UNCHANGED <<status, responses>>
      BY <1>4 DEF CreateRefused, SaveRefused, Evaluate, StoreScore, Publish, CallFails, rows
    <2>2. \A t \in Sessions : Saving(t)' => Saving(t) /\ req'[t] = req[t]
      <3>1. CASE CreateRefused(s) \/ SaveRefused(s) \/ StoreScore(s)
        BY <3>1 DEF CreateRefused, SaveRefused, StoreScore, TypeOK, Saving, Idle
      <3>2. CASE Evaluate(s)
        BY <3>2 DEF Evaluate, TypeOK, Saving
      <3>3. CASE Publish(s)
        BY <3>3 DEF Publish, Saving
      <3>4. CASE CallFails(s)
        <4>1. req' = [req EXCEPT ![s] = Idle] \/ req' = req
          BY <3>4 DEF CallFails
        <4>2. \A t \in Sessions : req'[t] = req[t] \/ req'[t] = Idle
          BY <4>1 DEF TypeOK
        <4>3. QED
          BY <4>2 DEF Saving, Idle
      <3>5. QED
        BY <1>4, <3>1, <3>2, <3>3, <3>4
    <2>3. QED
      BY <2>1, <2>2, FreshFrame
  <1>5. CASE (\E a \in Expiring : TimeExpires(a)) \/ Crash \/ UNCHANGED vars
    <2>1. UNCHANGED <<status, responses>>
      BY <1>5 DEF TimeExpires, Crash, vars, rows
    <2>2. \A t \in Sessions : Saving(t)' => Saving(t) /\ req'[t] = req[t]
      BY <1>5 DEF TimeExpires, Crash, vars, Saving, Idle
    <2>3. QED
      BY <2>1, <2>2, FreshFrame
  <1>6. QED
    BY <1>1, <1>2, <1>3, <1>4, <1>5 DEF Next, Continue

\* A committed submission stays: its row ends with it and is never opened again.
LEMMA SubmittedStep ==
    ASSUME OnePerAttempt, TypeOK, OrderInv, SavesFresh, SubmittedStays, [Next]_vars
    PROVE  SubmittedStays'
  <1> SUFFICES ASSUME NEW a \in Attempts, ends'[a] > 0 PROVE status'[a] = "ended"
    BY DEF SubmittedStays
  <1>1. CASE ends[a] > 0
    BY <1>1, EndedKept DEF SubmittedStays
  <1>2. CASE ~(ends[a] > 0)
    <2>1. PICK s \in Sessions : SaveAttempt(s)
      BY <1>2, WritesOfRows, CreationTarget DEF StoreScore
    <2>2. req[s].att = a /\ req[s].submits
      BY <2>1, <1>2, SaveEffect, SavingType DEF TypeOK
    <2>3. QED
      BY <2>1, <2>2, SaveTarget DEF TypeOK
  <1>3. QED
    BY <1>1, <1>2

\* Only an open attempt is submitted, which has not been submitted before.
LEMMA OnceStep ==
    ASSUME OnePerAttempt, TypeOK, TypeOK', OrderInv, SavesFresh, SubmittedStays, SubmittedOnce,
           [Next]_vars
    PROVE  SubmittedOnce'
  <1> SUFFICES ASSUME NEW a \in Attempts PROVE ends'[a] <= 1
    BY DEF SubmittedOnce
  <1>1. CASE ends'[a] = ends[a]
    BY <1>1 DEF SubmittedOnce
  <1>2. CASE ends'[a] # ends[a]
    <2>1. PICK s \in Sessions : SaveAttempt(s)
      BY <1>2, WritesOfRows, CreationTarget DEF StoreScore
    <2>2. req[s].att = a /\ req[s].submits
      BY <2>1, <1>2, SaveEffect, SavingType DEF TypeOK
    <2>3. status[a] = "open" /\ ends'[a] = ends[a] + 1 /\ ends[a] \in Nat
      BY <2>1, <2>2, SaveTarget, SaveEffect DEF TypeOK
    <2>4. ~(ends[a] > 0)
      BY <2>3 DEF SubmittedStays
    <2>5. QED
      BY <2>3, <2>4
  <1>3. QED
    BY <1>1, <1>2

\* evaluateScore marks exactly the correct answers of the questions it scores.
LEMMA MarksRight ==
    ASSUME NEW sheet, NEW before, NEW q \in Asked, Type[q] # "Writing"
    PROVE  MarksOf(sheet, before)[q] = "right" <=> Correct(q, sheet[q])
  BY ScoringAssumption DEF MarksOf, Correct

\* What is being scored has been submitted, and is what is stored.
LEMMA ScoresStep ==
    ASSUME OnePerAttempt, TypeOK, OrderInv, SavesFresh, ScoresFresh, [Next]_vars
    PROVE  ScoresFresh'
  <1> DEFINE Sound(r, st, resp) ==
        /\ r.pc \in {"submitted", "scored"} => st[r.att] = "ended"
        /\ r.pc = "scored" =>
             LET sheet == SheetOf(resp[r.att]) IN
             /\ r.score = ScoreOf(sheet)
             /\ \A q \in Asked : Type[q] # "Writing" =>
                   (r.marks[q] = "right" <=> Correct(q, sheet[q]))
  <1>1. \A t \in Sessions : Sound(req[t], status, responses)
    BY DEF ScoresFresh
  <1>2. ASSUME NEW t \in Sessions, req'[t] = req[t] PROVE Sound(req'[t], status', responses')
    <2> SUFFICES ASSUME req[t].pc \in {"submitted", "scored"}
                 PROVE  Sound(req[t], status', responses')
      BY <1>2
    <2>1. req[t].att \in Attempts
      BY DEF TypeOK, Requests, Idle
    <2>2. status[req[t].att] = "ended"
      BY <1>1
    <2>3. /\ status'[req[t].att] = "ended"
          /\ SheetOf(responses'[req[t].att]) = SheetOf(responses[req[t].att])
      BY <2>1, <2>2, EndedKept
    <2>4. QED
      BY <1>1, <2>3
  <1>3. ASSUME NEW t \in Sessions, req'[t].pc \notin {"submitted", "scored"}
        PROVE  Sound(req'[t], status', responses')
    BY <1>3
  <1>4. ASSUME NEW s \in Sessions, SaveAttempt(s), req[s].submits
        PROVE  Sound(req'[s], status', responses')
    <2>1. req'[s] = [pc |-> "submitted", att |-> req[s].att]
      BY <1>4, SaveEffect DEF TypeOK
    <2>2. status'[req[s].att] = "ended"
      BY <1>4, SaveTarget DEF TypeOK
    <2>3. QED
      BY <2>1, <2>2
  <1>5. ASSUME NEW s \in Sessions, Evaluate(s)
        PROVE  Sound(req'[s], status', responses')
    <2> DEFINE a == req[s].att
               sheet == SheetOf(responses[a])
    <2>1. req'[s] = [pc |-> "scored", att |-> a, score |-> ScoreOf(sheet),
                     marks |-> MarksOf(sheet, marks[a]), tasks |-> WritingTasks(sheet)]
      BY <1>5 DEF Evaluate, TypeOK
    <2>2. UNCHANGED <<status, responses>> /\ status[a] = "ended"
      BY <1>1, <1>5 DEF Evaluate, rows
    <2>3. QED
      BY <2>1, <2>2, MarksRight
  <1> HIDE DEF Sound
  <1>6. \A t \in Sessions :
          \/ req'[t] = req[t]
          \/ req'[t].pc \notin {"submitted", "scored"}
          \/ SaveAttempt(t) /\ req[t].submits
          \/ Evaluate(t)
    <2> SUFFICES ASSUME NEW t \in Sessions
                 PROVE  \/ req'[t] = req[t]
                        \/ req'[t].pc \notin {"submitted", "scored"}
                        \/ SaveAttempt(t) /\ req[t].submits
                        \/ Evaluate(t)
      OBVIOUS
    <2>1. ASSUME NEW s \in Sessions, Request(s)
          PROVE  req'[t] = req[t] \/ req'[t].pc \notin {"submitted", "scored"}
      <3>1. ASSUME NEW a \in Attempts, StartAttempt(s, a)
            PROVE  req'[t] = req[t] \/ req'[t].pc \notin {"submitted", "scored"}
        BY <3>1 DEF StartAttempt, TypeOK
      <3>2. ASSUME NEW r, Prepared(s, r), Save(s, r)
            PROVE  req'[t] = req[t] \/ req'[t].pc \notin {"submitted", "scored"}
        BY <3>2 DEF Prepared, Save, TypeOK
      <3>3. QED
        BY <2>1, <3>1, <3>2, RequestCases
    <2>2. ASSUME NEW s \in Sessions,
                 CreateAttempt(s) \/ CreateRefused(s) \/ SaveRefused(s) \/ StoreScore(s)
          PROVE  req'[t] = req[t] \/ req'[t].pc \notin {"submitted", "scored"}
      BY <2>2 DEF CreateAttempt, CreateRefused, SaveRefused, StoreScore, TypeOK, Idle
    <2>3. ASSUME NEW s \in Sessions, SaveAttempt(s)
          PROVE  \/ req'[t] = req[t]
                 \/ req'[t].pc \notin {"submitted", "scored"}
                 \/ SaveAttempt(t) /\ req[t].submits
      BY <2>3, SaveEffect DEF TypeOK, Idle
    <2>4. ASSUME NEW s \in Sessions, Evaluate(s) PROVE req'[t] = req[t] \/ Evaluate(t)
      BY <2>4 DEF Evaluate, TypeOK
    <2>5. ASSUME NEW s \in Sessions, Publish(s) \/ CallFails(s)
          PROVE  req'[t] = req[t] \/ req'[t].pc \notin {"submitted", "scored"}
      <3>1. req' = req \/ req' = [req EXCEPT ![s] = Idle]
        BY <2>5 DEF Publish, CallFails
      <3>2. QED
        BY <3>1 DEF TypeOK, Idle
    <2>6. CASE (\E a \in Expiring : TimeExpires(a)) \/ Crash \/ UNCHANGED vars
      BY <2>6 DEF TimeExpires, Crash, vars, Idle
    <2>7. QED
      BY <2>1, <2>2, <2>3, <2>4, <2>5, <2>6 DEF Next, Continue
  <1>7. \A t \in Sessions : Sound(req'[t], status', responses')
    BY <1>2, <1>3, <1>4, <1>5, <1>6
  <1>8. QED
    BY <1>7 DEF ScoresFresh, Sound

\* The columns the scoring handler writes are those of the stored answers.
LEMMA StoredStep ==
    ASSUME OnePerAttempt, TypeOK, OrderInv, SavesFresh, ScoresFresh, MarksSound, ScoreFaithful,
           [Next]_vars
    PROVE  MarksSound' /\ ScoreFaithful'
  <1>1. ASSUME UNCHANGED <<score, marks>> PROVE MarksSound' /\ ScoreFaithful'
    <2>1. MarksSound'
      BY <1>1, EndedKept, ScoringAssumption DEF MarksSound
    <2>2. ScoreFaithful'
      BY <1>1, EndedKept DEF ScoreFaithful
    <2>3. QED
      BY <2>1, <2>2
  <1>2. ASSUME NEW s \in Sessions, StoreScore(s) PROVE MarksSound' /\ ScoreFaithful'
    <2> DEFINE r == req[s]
               a == r.att
               sheet == SheetOf(responses[a])
    <2>1. /\ a \in Attempts /\ status[a] = "ended" /\ r.score = ScoreOf(sheet)
          /\ \A q \in Asked : Type[q] # "Writing" =>
                (r.marks[q] = "right" <=> Correct(q, sheet[q]))
      BY <1>2 DEF StoreScore, ScoresFresh, TypeOK, Requests, Idle
    <2>2. UNCHANGED <<status, responses>>
      BY <1>2 DEF StoreScore
    <2>3. /\ score'[a] = r.score
          /\ \A b \in Attempts : b # a => score'[b] = score[b] /\ marks'[b] = marks[b]
          /\ \A q \in Asked : marks'[a][q] = IF r.marks[q] = "none" THEN marks[a][q]
                                             ELSE r.marks[q]
      BY <1>2, <2>1, ScoringAssumption DEF StoreScore, TypeOK
    <2>4. \A q \in Asked : Type[q] # "Writing" =>
             (marks'[a][q] = "right" <=> Correct(q, sheet[q]))
      BY <2>1, <2>3 DEF MarksSound
    <2> HIDE DEF a
    <2>5. MarksSound'
      BY <2>1, <2>2, <2>3, <2>4 DEF MarksSound
    <2>6. ScoreFaithful'
      BY <2>1, <2>2, <2>3, <2>4 DEF ScoreFaithful
    <2>7. QED
      BY <2>5, <2>6
  <1>3. CASE \E s \in Sessions : CreateAttempt(s) \/ SaveAttempt(s)
    BY <1>1, <1>3 DEF CreateAttempt, SaveAttempt
  <1>4. CASE UNCHANGED <<rows, ends>>
    BY <1>1, <1>4 DEF rows
  <1>5. QED
    BY <1>2, <1>3, <1>4, WritesOfRows

--------------------------------------------------------------------------------
(***************************************************************************)
(* The theorems.                                                           *)
(***************************************************************************)
\* With one request per attempt at a time no save is stale, a committed submission
\* stays, and what is scored, stored and marked are the answers submitted.
THEOREM SerialInvariant ==
    ASSUME OnePerAttempt
    PROVE  Spec => [](TypeOK /\ OrderInv /\ SerialInv)
  <1>1. Init => SerialInv
    BY ScoringAssumption
    DEF Init, SerialInv, SavesFresh, SubmittedStays, SubmittedOnce, ScoresFresh, MarksSound, ScoreFaithful,
        Saving, Idle
  <1>2. TypeOK /\ TypeOK' /\ OrderInv /\ SerialInv /\ [Next]_vars => SerialInv'
    BY FreshStep, SubmittedStep, OnceStep, ScoresStep, StoredStep DEF SerialInv
  <1>3. QED
    BY <1>1, <1>2, OrderInvariant, PTL DEF Spec

\* Of two attempts of an owner the later one was created once the earlier one had
\* been submitted, which by then is for good.
LEMMA OneIsActive ==
    ASSUME TypeOK, OrderInv, SubmittedStays
    PROVE  OneActive
  <1> SUFFICES ASSUME NEW a \in Attempts, NEW b \in Attempts, status[a] = "open",
                      status[b] = "open", Owner[a] = Owner[b], a # b
               PROVE  FALSE
    BY DEF OneActive
  <1>1. order[a] \in Nat /\ order[b] \in Nat /\ Exists(a) /\ Exists(b)
    BY DEF TypeOK, Exists
  <1>2. order[a] # order[b]
    BY <1>1 DEF OrderInv, OrdersDense
  <1>3. order[a] < order[b] \/ order[b] < order[a]
    BY <1>1, <1>2
  <1>4. ends[a] > 0 \/ ends[b] > 0
    BY <1>1, <1>3 DEF OrderInv, OlderWereSubmitted
  <1>5. QED
    BY <1>4 DEF SubmittedStays

\* No two attempts of a user at an exam are active together.
THEOREM AtMostOneActive ==
    ASSUME OnePerAttempt
    PROVE  Spec => []OneActive
  <1>1. TypeOK /\ OrderInv /\ SerialInv => OneActive
    BY OneIsActive DEF SerialInv
  <1>2. QED
    BY <1>1, SerialInvariant, PTL

\* Other services hear of each submission, score and writing task once: they hear of
\* none more often than the attempt is submitted, which is once.
THEOREM AnnouncementsAreSingle ==
    ASSUME OnePerAttempt
    PROVE  Spec => []AnnouncedOnce
  <1>1. TypeOK /\ AnnounceInv /\ SubmittedOnce => AnnouncedOnce
    <2> SUFFICES ASSUME TypeOK, AnnounceInv, SubmittedOnce,
                        NEW a \in Attempts, NEW m \in Messages
                 PROVE  sent[a][m] <= 1
      BY DEF AnnouncedOnce
    <2>1. sent[a][m] \in Nat /\ ends[a] \in Nat
      BY DEF TypeOK
    <2>2. sent[a][m] <= ends[a] /\ ends[a] <= 1
      BY SentBacked DEF SubmittedOnce
    <2>3. QED
      BY <2>1, <2>2
  <1>2. SerialInv => SubmittedOnce
    BY DEF SerialInv
  <1>3. QED
    BY <1>1, <1>2, SerialInvariant, AnnounceInvariant, PTL

\* A stored score, and the marks beside it, are those of the answers stored.
THEOREM ScoresAreFaithful ==
    ASSUME OnePerAttempt
    PROVE  Spec => []ScoreFaithful
  <1>1. SerialInv => ScoreFaithful
    BY DEF SerialInv
  <1>2. QED
    BY <1>1, SerialInvariant, PTL

\* A submitted attempt is never open again, and its answers never change.
THEOREM SubmissionsAreFinal ==
    ASSUME OnePerAttempt
    PROVE  Spec => SubmissionFinal
  <1>1. TypeOK /\ OrderInv /\ SerialInv /\ [Next]_vars =>
          [\A a \in Attempts : status[a] = "ended" =>
              status'[a] = "ended" /\ SheetOf(responses'[a]) = SheetOf(responses[a])]_vars
    BY EndedKept DEF SerialInv
  <1>2. QED
    BY <1>1, SerialInvariant, PTL DEF Spec, SubmissionFinal

--------------------------------------------------------------------------------
(***************************************************************************)
(* Refinement: each step is a step of the book or changes nothing in it.   *)
(***************************************************************************)
LEMMA CreateIsStart ==
    ASSUME TypeOK, OrderInv, SerialInv, NEW s \in Sessions, CreateAttempt(s)
    PROVE  Book!Next
  <1> DEFINE a == req[s].att
             k == req[s].order
  <1>1. /\ a \in Attempts /\ status[a] = "absent" /\ k \in Nat \ {0} /\ Creating(s)
        /\ order \in [Attempts -> Nat] /\ status \in [Attempts -> {"absent", "open", "ended"}]
    BY CreationTarget DEF CreateAttempt, OrderInv, CreationsSound, Creating, TypeOK, Requests,
                          Idle
  <1>2. \A b \in Attempts : status[b] # "absent" /\ Owner[b] = Owner[a] =>
            order[b] < k /\ status[b] = "ended"
    BY CreationFollows DEF SerialInv, SubmittedStays, Exists
  <1>3. /\ status' = [status EXCEPT ![a] = "open"]
        /\ order' = [order EXCEPT ![a] = k]
        /\ UNCHANGED <<responses, score>>
    BY DEF CreateAttempt
  <1>4. k = 1 \/ \E b \in Attempts : Exists(b) /\ Owner[b] = Owner[a] /\ order[b] = k - 1
    BY <1>1 DEF OrderInv, CreationsSound
  <1> HIDE DEF a, k
  <1>5. \A i \in 1 .. k - 1 :
          \E b \in Attempts : Exists(b) /\ Owner[b] = Owner[a] /\ order[b] = i
    <2> SUFFICES ASSUME NEW i \in 1 .. k - 1
                 PROVE  \E b \in Attempts : Exists(b) /\ Owner[b] = Owner[a] /\ order[b] = i
      OBVIOUS
    <2>1. PICK c \in Attempts : Exists(c) /\ Owner[c] = Owner[a] /\ order[c] = k - 1
      BY <1>1, <1>4
    <2>2. PICK b \in Attempts : Exists(b) /\ Owner[b] = Owner[c] /\ order[b] = i
      BY <2>1 DEF OrderInv, OrdersDense
    <2>3. QED
      BY <2>1, <2>2
  <1>6. Book!Start(a)
    BY <1>1, <1>2, <1>3, <1>5 DEF Book!Start, Book!Existing, Exists
  <1>7. QED
    BY <1>1, <1>6 DEF Book!Next

\* Committing a prepared save is one command of the book.
LEMMA SaveIsEdit ==
    ASSUME OnePerAttempt, TypeOK, OrderInv, SerialInv, NEW s \in Sessions, SaveAttempt(s)
    PROVE  [Book!Next]_<<status, order, responses, score>>
  <1> DEFINE r == req[s]
             a == r.att
  <1>1. /\ a \in Attempts /\ Saving(s) /\ r.change \in Changes /\ Exists(a)
        /\ UNCHANGED <<order, score>>
    BY SaveEffect, SavingType DEF OrderInv, SavesSound
  <1>2. /\ r.submits => status[a] = "open" /\ responses' = responses
        /\ status' = [status EXCEPT ![a] = IF r.submits THEN "ended" ELSE @]
        /\ status[a] = "ended" => SheetOf(responses'[a]) = SheetOf(responses[a])
    BY SaveTarget DEF SerialInv
  <1>3. responses' = IF r.change.kind = "none" THEN responses
                     ELSE [responses EXCEPT ![a][r.change.q] = r.change.row]
    BY DEF SaveAttempt
  <1>4. CASE r.submits
    <2>1. Book!Submit(a)
      BY <1>1, <1>2, <1>4 DEF Book!Submit
    <2>2. QED
      BY <1>1, <2>1 DEF Book!Next
  <1>5. CASE ~r.submits
    <2>1. status' = status
      BY <1>1, <1>2, <1>5 DEF TypeOK
    <2>2. CASE r.change.kind = "none"
      BY <1>1, <1>3, <2>1, <2>2
    <2>3. CASE r.change.kind # "none"
      <3>1. r.change.q \in Questions /\ r.change.row \in Rows
        BY <1>1, <2>3 DEF Changes, NoChange
      <3>2. \E row \in Book!Rows :
              /\ responses' = [responses EXCEPT ![a][r.change.q] = row]
              /\ status[a] = "ended" => Book!SheetOf(responses'[a]) = Book!SheetOf(responses[a])
        BY <1>2, <1>3, <2>3, <3>1 DEF Book!Rows, Rows, Book!SheetOf, SheetOf
      <3>3. Book!Edit(a, r.change.q)
        BY <1>1, <2>1, <3>2 DEF Book!Edit, Exists
      <3>4. QED
        BY <1>1, <3>1, <3>3 DEF Book!Next
    <2>4. QED
      BY <2>2, <2>3
  <1>6. QED
    BY <1>4, <1>5

\* Committing a score is the book's scoring of the submitted answers.
LEMMA StoreIsScore ==
    ASSUME TypeOK, SerialInv, NEW s \in Sessions, StoreScore(s)
    PROVE  Book!Next
  <1> DEFINE a == req[s].att
  <1>1. a \in Attempts /\ status[a] = "ended" /\ req[s].score = ScoreOf(SheetOf(responses[a]))
    BY DEF StoreScore, SerialInv, ScoresFresh, TypeOK, Requests, Idle
  <1>2. Book!Score(a)
    BY <1>1 DEF StoreScore, Book!Score, Book!SheetOf, SheetOf
  <1>3. QED
    BY <1>1, <1>2 DEF Book!Next

\* The commands, cut at their awaits, implement the book of atomic ones.
THEOREM CommandsImplementBook ==
    ASSUME OnePerAttempt
    PROVE  Spec => ImplementsBook
  <1>1. Init => Book!Init
    BY DEF Init, Book!Init
  <1>2. TypeOK /\ OrderInv /\ SerialInv /\ [Next]_vars => [Book!Next]_(Book!bookVars)
    <2> SUFFICES ASSUME TypeOK, OrderInv, SerialInv, [Next]_vars
                 PROVE  [Book!Next]_(Book!bookVars)
      OBVIOUS
    <2>1. CASE \E s \in Sessions : CreateAttempt(s)
      BY <2>1, CreateIsStart
    <2>2. CASE \E s \in Sessions : SaveAttempt(s)
      BY <2>2, SaveIsEdit DEF Book!bookVars
    <2>3. CASE \E s \in Sessions : StoreScore(s)
      BY <2>3, StoreIsScore
    <2>4. CASE UNCHANGED <<rows, ends>>
      BY <2>4 DEF rows, Book!bookVars
    <2>5. QED
      BY <2>1, <2>2, <2>3, <2>4, WritesOfRows
  <1>3. QED
    BY <1>1, <1>2, SerialInvariant, PTL DEF Spec, ImplementsBook, Book!Spec
================================================================================
