------------------------------ MODULE ExamAttempt ------------------------------
(***************************************************************************)
(* The life of exam attempts in apps/exam: the practice command handlers   *)
(* (app/commands/handlers/practice), the Attempt aggregate and its Prisma  *)
(* repository, the in-process AttemptSubmitted handler that scores an      *)
(* attempt, and the publishers that announce it on RabbitMQ.               *)
(*                                                                         *)
(* A handler is cut at its awaits.  It loads the aggregate and changes it  *)
(* in memory (one step: JavaScript runs from one await to the next without *)
(* interruption), then saves it in a READ COMMITTED transaction (a second  *)
(* step); what it publishes after the commit runs later still.  Everything *)
(* between the steps lives in the memory of the process: req and outbox.   *)
(***************************************************************************)
EXTENDS ExamScoring

CONSTANTS
    Attempts, Owners, Owner, Notes, NoNote, NoResponse, NoScore,  \* as in AttemptBook
    Sessions,       \* requests the process works on at the same time
    OnePerAttempt,  \* TRUE: clients send one request per attempt at a time
    Faults,         \* TRUE: database and broker calls may fail, the process may crash
    Expiring,       \* attempts whose time may run out while the model looks
    MaxEnds         \* model bound: no submission starts after this many of an attempt

Rows == [answers : SUBSET Answers, flagged : BOOLEAN, note : Notes \cup {NoNote}]

ASSUME AttemptAssumption ==
    /\ Owner \in [Attempts -> Owners]
    /\ NoResponse \notin Rows
    /\ NoScore \notin Scores
    /\ Questions \cap {"submitted", "scored"} = {}
    /\ IsFiniteSet(Sessions)
    /\ OnePerAttempt \in BOOLEAN
    /\ Faults \in BOOLEAN
    /\ Expiring \subseteq Attempts
    /\ MaxEnds \in Nat \ {0}

VARIABLES
    status,     \* status[a]: "absent", "open" (ended_at null) or "ended"
    order,      \* order[a]: the attempts.order column, 0 while absent
    expired,    \* expired[a]: duration_limit plus network delay have passed
    responses,  \* responses[a][q]: the response row, or NoResponse
    marks,      \* marks[a][q]: its is_correct column
    score,      \* score[a]: the attempts.score column
    req,        \* req[s]: where the handler that runs in session s stands
    outbox,     \* outbox[s]: integration events its publishers still have to send
    sent,       \* sent[a][m]: messages m about a handed to the broker
    ends,       \* ends[a]: submissions of a that were committed
    dropped     \* dropped[a][m]: announcements m that a failed call or a crash has lost

vars == <<status, order, expired, responses, marks, score, req, outbox, sent, ends,
          dropped>>
rows == <<status, order, responses, marks, score>>

\* exam.attempt.submitted, exam.attempt.scored, and exam.writing.submitted for
\* each writing task.
Announced == {"submitted", "scored"}
Messages == Announced \cup Questions

SheetOf(resp) ==
    [q \in Questions |-> IF resp[q] = NoResponse THEN {} ELSE resp[q].answers]

(***************************************************************************)
(* What a save does beyond the attempt row: the uncommitted response event *)
(* of the aggregate, which carries the whole row as it was loaded.         *)
(***************************************************************************)
NoChange == [kind |-> "none"]
Changes == {NoChange} \cup [kind : {"create", "update"}, q : Questions, row : Rows]

Idle == [pc |-> "idle"]
Requests ==
    {Idle}
    \cup [pc : {"creating"}, att : Attempts, order : Nat]
    \cup [pc : {"saving"}, att : Attempts, ended : BOOLEAN, submits : BOOLEAN, change : Changes]
    \cup [pc : {"submitted"}, att : Attempts]
    \cup [pc : {"scored"}, att : Attempts, score : Scores, marks : [Questions -> Marks],
          tasks : SUBSET Questions]

TypeOK ==
    /\ status \in [Attempts -> {"absent", "open", "ended"}]
    /\ order \in [Attempts -> Nat]
    /\ expired \in [Attempts -> BOOLEAN]
    /\ responses \in [Attempts -> [Questions -> Rows \cup {NoResponse}]]
    /\ marks \in [Attempts -> [Questions -> Marks]]
    /\ score \in [Attempts -> Scores \cup {NoScore}]
    /\ req \in [Sessions -> Requests]
    /\ outbox \in [Sessions -> SUBSET (Attempts \X Messages)]
    /\ sent \in [Attempts -> [Messages -> Nat]]
    /\ ends \in [Attempts -> Nat]
    /\ dropped \in [Attempts -> [Announced -> Nat]]

Exists(a) == status[a] # "absent"

Free(s) == req[s] = Idle /\ outbox[s] = {}

\* Under OnePerAttempt a client waits for the answer to its last request.
Admitted(s, a) ==
    /\ Free(s)
    /\ Exists(a)
    /\ OnePerAttempt => \A t \in Sessions : ~(req[t].pc = "saving" /\ req[t].att = a)

Init ==
    /\ status = [a \in Attempts |-> "absent"]
    /\ order = [a \in Attempts |-> 0]
    /\ expired = [a \in Attempts |-> FALSE]
    /\ responses = [a \in Attempts |-> [q \in Questions |-> NoResponse]]
    /\ marks = [a \in Attempts |-> [q \in Questions |-> "none"]]
    /\ score = [a \in Attempts |-> NoScore]
    /\ req = [s \in Sessions |-> Idle]
    /\ outbox = [s \in Sessions |-> {}]
    /\ sent = [a \in Attempts |-> [m \in Messages |-> 0]]
    /\ ends = [a \in Attempts |-> 0]
    /\ dropped = [a \in Attempts |-> [m \in Announced |-> 0]]

--------------------------------------------------------------------------------
(***************************************************************************)
(* AttemptCommand.  The last finished order is read before the transaction *)
(* that inserts the row; the unique index (exam, user, order) decides.     *)
(***************************************************************************)
\* Variant: an attempt counts as finished as soon as it exists.
FinishedOnceStarted(o) == {a \in Attempts : Owner[a] = o /\ Exists(a)}

Finished(o) == {a \in Attempts : Owner[a] = o /\ status[a] = "ended"}

\* k is the highest order among the finished attempts of o, 0 without any.
LastFinished(o, k) ==
    /\ \A b \in Finished(o) : order[b] <= k
    /\ k = 0 \/ \E b \in Finished(o) : order[b] = k

\* findFirst with orderBy order desc, then (lastFinishedAttempt?.order || 0) + 1
StartAttempt(s, a) ==
    /\ Free(s)
    /\ status[a] = "absent"
    /\ \A t \in Sessions : req[t] # Idle => req[t].att # a
    /\ \E k \in {0} \cup {order[b] : b \in Attempts} :
        /\ LastFinished(Owner[a], k)
        /\ req' = [req EXCEPT ![s] = [pc |-> "creating", att |-> a, order |-> k + 1]]
    /\ UNCHANGED <<rows, expired, outbox, sent, ends, dropped>>

\* Variant: a partial index over the attempts not submitted yet.
OrderTakenByOpen(o, k) ==
    \E b \in Attempts : status[b] = "open" /\ Owner[b] = o /\ order[b] = k

OrderTaken(o, k) == \E b \in Attempts : Exists(b) /\ Owner[b] = o /\ order[b] = k

CreateAttempt(s) ==
    /\ req[s].pc = "creating"
    /\ ~OrderTaken(Owner[req[s].att], req[s].order)
    /\ status' = [status EXCEPT ![req[s].att] = "open"]
    /\ order' = [order EXCEPT ![req[s].att] = req[s].order]
    /\ req' = [req EXCEPT ![s] = Idle]
    /\ UNCHANGED <<expired, responses, marks, score, outbox, sent, ends, dropped>>

\* P2002 becomes "Please submit the previous attempt".
CreateRefused(s) ==
    /\ req[s].pc = "creating"
    /\ OrderTaken(Owner[req[s].att], req[s].order)
    /\ req' = [req EXCEPT ![s] = Idle]
    /\ UNCHANGED <<rows, expired, outbox, sent, ends, dropped>>

--------------------------------------------------------------------------------
(***************************************************************************)
(* The commands on an attempt: findOne, then the aggregate's method, up to *)
(* the await of save.  What would throw is a guard: the request ends with  *)
(* an error and no trace.                                                  *)
(***************************************************************************)
WithinAllowedTime(a) == ~expired[a]

\* Variant: assertModifiable without its check of endedAt.
ModifiableInTime(a) == Exists(a) /\ WithinAllowedTime(a)

Modifiable(a) == status[a] = "open" /\ WithinAllowedTime(a)

\* Variant: ended_at is not carried from the loaded row into the saved one.
PendingOpen(a, change) ==
    [pc |-> "saving", att |-> a, ended |-> FALSE, submits |-> FALSE, change |-> change]

\* The aggregate as loaded by findOne and changed in memory, waiting for save.
Pending(a, change) ==
    [pc |-> "saving", att |-> a, ended |-> status[a] = "ended", submits |-> FALSE,
     change |-> change]

Save(s, pending) ==
    /\ req' = [req EXCEPT ![s] = pending]
    /\ UNCHANGED <<rows, expired, outbox, sent, ends, dropped>>

NewRow == [answers |-> {}, flagged |-> FALSE, note |-> NoNote]

\* find(r => r.questionId === questionId): the event for a changed row.
Changed(a, q, row) ==
    [kind |-> IF responses[a][q] = NoResponse THEN "create" ELSE "update",
     q |-> q, row |-> row]

\* Variant: the row of a note or a flag is built anew.
LoadedBlank(a, q) == NewRow

Loaded(a, q) == IF responses[a][q] = NoResponse THEN NewRow ELSE responses[a][q]

\* answerBasedOnQuestionType
WithAnswer(q, given, x) == IF SingleAnswer(q) THEN {x} ELSE given \cup {x}

Answer(s, a, q, x) ==
    /\ Admitted(s, a)
    /\ Modifiable(a)
    /\ q \in Asked
    /\ ~SingleAnswer(q) => x \notin Loaded(a, q).answers
    /\ LET row == [Loaded(a, q) EXCEPT !.answers = WithAnswer(q, @, x)]
       IN  Save(s, Pending(a, Changed(a, q, row)))

\* deleteAnswer, of one answer or of all of them
RemoveAnswer(s, a, q, removed) ==
    /\ Admitted(s, a)
    /\ Modifiable(a)
    /\ responses[a][q] # NoResponse
    /\ \/ \E x \in responses[a][q].answers : removed = {x}
       \/ removed = responses[a][q].answers
    /\ LET row == [responses[a][q] EXCEPT !.answers = @ \ removed]
       IN  Save(s, Pending(a, Changed(a, q, row)))

AddNote(s, a, q, n) ==
    /\ Admitted(s, a)
    /\ Save(s, Pending(a, Changed(a, q, [Loaded(a, q) EXCEPT !.note = n])))

ToggleFlag(s, a, q) ==
    /\ Admitted(s, a)
    /\ Save(s, Pending(a, Changed(a, q, [Loaded(a, q) EXCEPT !.flagged = ~@])))

\* Variant: endAttempt without its check of endedAt.
MaySubmitAgain(a) ==
    /\ Exists(a)
    /\ (Asked # {} /\ \A q \in Questions : responses[a][q] = NoResponse)
         => ~WithinAllowedTime(a)

\* responses.length and questions.size decide, not the answers themselves.
MaySubmit(a) ==
    /\ status[a] = "open"
    /\ (Asked # {} /\ \A q \in Questions : responses[a][q] = NoResponse)
         => ~WithinAllowedTime(a)

EndAttempt(s, a) ==
    /\ Admitted(s, a)
    /\ MaySubmit(a)
    /\ ends[a] < MaxEnds
    /\ Save(s, [Pending(a, NoChange) EXCEPT !.ended = TRUE, !.submits = TRUE])

--------------------------------------------------------------------------------
(***************************************************************************)
(* save of an Attempt: the whole row as loaded, ended_at included, and the *)
(* response event, in one transaction.  The unique index (attempt,         *)
(* question) rolls it back when another request created the row meanwhile. *)
(***************************************************************************)
Violates(r) == r.change.kind = "create" /\ responses[r.att][r.change.q] # NoResponse

\* Variant: the column is given a value of its own for a submission.
StatusColumnNamed(r) == IF r.submits THEN "submitted" ELSE IF r.ended THEN "ended" ELSE "open"

StatusColumn(r) == IF r.ended THEN "ended" ELSE "open"

\* toAttemptOrm carries neither score nor order, toAttemptResponseOrm no is_correct.
SaveAttempt(s) ==
    LET r == req[s] IN
    /\ r.pc = "saving"
    /\ ~Violates(r)
    /\ status' = [status EXCEPT ![r.att] = StatusColumn(r)]
    /\ responses' = IF r.change.kind = "none" THEN responses
                    ELSE [responses EXCEPT ![r.att][r.change.q] = r.change.row]
    /\ IF r.submits
       THEN /\ ends' = [ends EXCEPT ![r.att] = @ + 1]
            /\ req' = [req EXCEPT ![s] = [pc |-> "submitted", att |-> r.att]]
            /\ outbox' = [outbox EXCEPT ![s] = {<<r.att, "submitted">>}]
       ELSE /\ req' = [req EXCEPT ![s] = Idle]
            /\ UNCHANGED <<outbox, ends>>
    /\ UNCHANGED <<order, expired, marks, score, sent, dropped>>

SaveRefused(s) ==
    /\ req[s].pc = "saving"
    /\ Violates(req[s])
    /\ req' = [req EXCEPT ![s] = Idle]
    /\ UNCHANGED <<rows, expired, outbox, sent, ends, dropped>>

--------------------------------------------------------------------------------
(***************************************************************************)
(* The AttemptSubmitted handler: it loads the evaluator, computes, saves   *)
(* the score and the marks in one transaction, and publishes.              *)
(***************************************************************************)
\* Variant: an attempt without an answer is not worth a score.
EvaluateAnswered(s) ==
    LET a == req[s].att
        sheet == SheetOf(responses[a])
    IN
    /\ req[s].pc = "submitted"
    /\ req' = [req EXCEPT ![s] =
                 IF \E q \in Questions : sheet[q] # {}
                 THEN [pc |-> "scored", att |-> a, score |-> ScoreOf(sheet),
                       marks |-> MarksOf(sheet, marks[a]), tasks |-> WritingTasks(sheet)]
                 ELSE Idle]
    /\ UNCHANGED <<rows, expired, outbox, sent, ends, dropped>>

Evaluate(s) ==
    LET a == req[s].att
        sheet == SheetOf(responses[a])
    IN
    /\ req[s].pc = "submitted"
    /\ req' = [req EXCEPT ![s] =
                 [pc |-> "scored", att |-> a, score |-> ScoreOf(sheet),
                  marks |-> MarksOf(sheet, marks[a]), tasks |-> WritingTasks(sheet)]]
    /\ UNCHANGED <<rows, expired, outbox, sent, ends, dropped>>

\* Only the responses the evaluator holds are updated: those with an answer.
StoreScore(s) ==
    LET r == req[s] IN
    /\ r.pc = "scored"
    /\ score' = [score EXCEPT ![r.att] = r.score]
    /\ marks' = [marks EXCEPT ![r.att] =
                    [q \in Questions |-> IF r.marks[q] = "none" THEN @[q] ELSE r.marks[q]]]
    /\ outbox' = [outbox EXCEPT ![s] = @ \cup ({r.att} \X ({"scored"} \cup r.tasks))]
    /\ req' = [req EXCEPT ![s] = Idle]
    /\ UNCHANGED <<status, order, responses, expired, sent, ends, dropped>>

\* The publishers run on their own, in any order.
Publish(s) ==
    \E msg \in outbox[s] :
        /\ outbox' = [outbox EXCEPT ![s] = @ \ {msg}]
        /\ sent' = [sent EXCEPT ![msg[1]][msg[2]] = @ + 1]
        /\ UNCHANGED <<rows, expired, req, ends, dropped>>

--------------------------------------------------------------------------------
TimeExpires(a) ==
    /\ Exists(a)
    /\ ~expired[a]
    /\ expired' = [expired EXCEPT ![a] = TRUE]
    /\ UNCHANGED <<rows, req, outbox, sent, ends, dropped>>

\* Announcements of m about a that session s still owes: those its publishers hold,
\* and those the scoring handler that runs in it is going to hand them.
Owes(s, a, m) ==
    \/ <<a, m>> \in outbox[s]
    \/ /\ req[s].pc \in {"submitted", "scored"}
       /\ req[s].att = a /\ m # "submitted"

Debtors(a, m) == {s \in Sessions : Owes(s, a, m)}

\* A rejected call: a request fails, the scoring handler and the publishers log
\* the error and drop their event.  dropped only counts what is lost with it.
CallFails(s) ==
    /\ Faults
    /\ \/ /\ req[s] # Idle
          /\ req' = [req EXCEPT ![s] = Idle]
          /\ dropped' = IF req[s].pc \in {"submitted", "scored"}
                        THEN [dropped EXCEPT ![req[s].att]["scored"] = @ + 1] ELSE dropped
          /\ UNCHANGED outbox
       \/ \E msg \in outbox[s] :
            /\ outbox' = [outbox EXCEPT ![s] = @ \ {msg}]
            /\ dropped' = IF msg[2] \in Announced
                          THEN [dropped EXCEPT ![msg[1]][msg[2]] = @ + 1] ELSE dropped
            /\ UNCHANGED req
    /\ UNCHANGED <<rows, expired, sent, ends>>

Crash ==
    /\ Faults
    /\ \E s \in Sessions : ~Free(s)
    /\ req' = [s \in Sessions |-> Idle]
    /\ outbox' = [s \in Sessions |-> {}]
    /\ dropped' = [a \in Attempts |-> [m \in Announced |->
                      dropped[a][m] + Cardinality(Debtors(a, m))]]
    /\ UNCHANGED <<rows, expired, sent, ends>>

Request(s) ==
    \E a \in Attempts :
        \/ StartAttempt(s, a)
        \/ EndAttempt(s, a)
        \/ \E q \in Questions :
            \/ \E x \in Answers : Answer(s, a, q, x)
            \/ \E removed \in SUBSET Answers : RemoveAnswer(s, a, q, removed)
            \/ \E n \in Notes : AddNote(s, a, q, n)
            \/ ToggleFlag(s, a, q)

\* The continuations the event loop runs once an awaited call has answered.
Continue(s) ==
    \/ CreateAttempt(s)
    \/ CreateRefused(s)
    \/ SaveAttempt(s)
    \/ SaveRefused(s)
    \/ Evaluate(s)
    \/ StoreScore(s)
    \/ Publish(s)

Next ==
    \/ \E s \in Sessions : Request(s) \/ Continue(s) \/ CallFails(s)
    \/ \E a \in Expiring : TimeExpires(a)
    \/ Crash

Spec == Init /\ [][Next]_vars

FairSpec == Spec /\ \A s \in Sessions : WF_vars(Continue(s))

--------------------------------------------------------------------------------
(***************************************************************************)
(* What holds however requests interleave, fail and crash.                 *)
(***************************************************************************)
\* The orders of an owner's attempts are 1, 2, ..., n, each used once: the number
\* read outside the inserting transaction never skips or repeats one (save,
\* AttemptConfig branch).
OrdersDense ==
    \A a \in Attempts : Exists(a) =>
        /\ order[a] > 0
        /\ \A b \in Attempts :
             (Exists(b) /\ Owner[b] = Owner[a] /\ order[b] = order[a]) => b = a
        /\ \A i \in 1 .. order[a] :
             \E b \in Attempts : Exists(b) /\ Owner[b] = Owner[a] /\ order[b] = i

\* A later attempt is only created once every earlier one of the owner has been
\* submitted, even if a stale save has opened an earlier one again since.
OlderWereSubmitted ==
    \A a, b \in Attempts :
        (Exists(a) /\ Exists(b) /\ Owner[a] = Owner[b] /\ order[a] < order[b]) => ends[a] > 0

Settled(a, m) == sent[a][m] + Cardinality(Debtors(a, m)) + dropped[a][m] = ends[a]

\* Every committed submission, and its score, is announced exactly once, is owed by one
\* session that is still going to, or was lost by a call that failed or a crash: nothing
\* else drops an announcement, and nothing repeats one.  A writing task is handed on at
\* most once per submission.
AnnouncementsAccounted ==
    \A a \in Attempts :
        /\ \A m \in Announced : Settled(a, m)
        /\ \A q \in Questions : sent[a][q] <= ends[a]

(***************************************************************************)
(* What holds when a client waits for each answer (OnePerAttempt): the     *)
(* book of AttemptBook.                                                    *)
(***************************************************************************)
\* The comment on attempts.order: no two active attempts of a user at an exam.
OneActive ==
    \A a, b \in Attempts :
        (status[a] = "open" /\ status[b] = "open" /\ Owner[a] = Owner[b]) => a = b

\* A submitted attempt is never open again, and its answers never change: the
\* flag and note commands, which do not check ended_at, write both back.
SubmissionFinal ==
    [][\A a \in Attempts : status[a] = "ended" =>
          status'[a] = "ended" /\ SheetOf(responses'[a]) = SheetOf(responses[a])]_vars

\* Other services hear of each submission, score and writing task once.
AnnouncedOnce == \A a \in Attempts : \A m \in Messages : sent[a][m] <= 1

\* A stored score, and the marks beside it, are those of the answers now stored.
ScoreFaithful ==
    \A a \in Attempts : score[a] # NoScore =>
        /\ status[a] = "ended"
        /\ score[a] = ScoreOf(SheetOf(responses[a]))
        /\ \A q \in Asked : Type[q] # "Writing" =>
              (marks[a][q] = "right" <=> Correct(q, SheetOf(responses[a])[q]))

Book == INSTANCE AttemptBook
ImplementsBook == Book!Spec

\* Without faults every committed submission is scored, and the score announced.
EverySubmissionScored ==
    \A a \in Attempts : ends[a] > 0 ~> (score[a] # NoScore /\ sent[a]["scored"] > 0)

(***************************************************************************)
(* What the exception "Must at least answer one question before            *)
(* submitting" says of a submission within the allowed time.               *)
(***************************************************************************)
SubmittedWithAnAnswer ==
    \A a \in Attempts : (status[a] = "ended" /\ ~expired[a] /\ Asked # {}) =>
        \E q \in Asked : SheetOf(responses[a])[q] # {}

--------------------------------------------------------------------------------
(***************************************************************************)
(* Why it holds: the inductive invariants of ExamAttemptProofs.            *)
(***************************************************************************)
Saving(s) == req[s].pc = "saving"
Creating(s) == req[s].pc = "creating"

\* An insertion in flight targets a fresh id, and the order it read still
\* follows an existing one, below which everything has been submitted.
CreationsSound ==
    \A s \in Sessions : Creating(s) =>
        LET a == req[s].att
            k == req[s].order
        IN  /\ status[a] = "absent" /\ k > 0
            /\ \A t \in Sessions : Creating(t) /\ req[t].att = a => t = s
            /\ k = 1 \/ \E b \in Attempts : Exists(b) /\ Owner[b] = Owner[a] /\ order[b] = k - 1
            /\ \A b \in Attempts :
                 (Exists(b) /\ Owner[b] = Owner[a] /\ order[b] < k) => ends[b] > 0

\* A save in flight has an existing target, and only writes ended_at for a
\* submission or once there has been one.
SavesSound ==
    \A s \in Sessions : Saving(s) =>
        /\ Exists(req[s].att)
        /\ req[s].ended => (req[s].submits \/ ends[req[s].att] > 0)

EndedWasSubmitted == \A a \in Attempts : status[a] = "ended" => ends[a] > 0

OrderInv ==
    /\ OrdersDense
    /\ OlderWereSubmitted
    /\ CreationsSound
    /\ SavesSound
    /\ EndedWasSubmitted

\* Every announcement, made or owed, goes back to a submission of its own.
DebtsBacked ==
    \A a \in Attempts : \A m \in Messages :
        /\ IsFiniteSet(Debtors(a, m))
        /\ sent[a][m] + Cardinality(Debtors(a, m)) <= ends[a]

\* While the scoring handler runs its session owes no other attempt anything.
ScoringAlone ==
    \A s \in Sessions : req[s].pc \in {"submitted", "scored"} =>
        outbox[s] \subseteq {<<req[s].att, "submitted">>}

AnnounceInv == DebtsBacked /\ ScoringAlone

\* A session that is about to save has sent what an earlier request of it owed: the
\* announcement of a submission takes the place of nothing in its outbox.
SavesOweNothing ==
    \A s \in Sessions : req[s].pc \in {"creating", "saving"} => outbox[s] = {}

SettleInv ==
    /\ \A a \in Attempts : \A m \in Announced : Settled(a, m)
    /\ SavesOweNothing

\* With one request per attempt at a time a save in flight is never stale: it
\* holds the row, or submits it, and leaves the answers of an ended attempt alone.
SavesFresh ==
    \A s \in Sessions : Saving(s) =>
        LET r == req[s] IN
        /\ \A t \in Sessions : Saving(t) /\ req[t].att = r.att => t = s
        /\ IF r.submits THEN r.ended /\ status[r.att] = "open" /\ r.change = NoChange
           ELSE r.ended <=> status[r.att] = "ended"
        /\ r.change.kind # "none" =>
             /\ r.change.kind = "create" <=> responses[r.att][r.change.q] = NoResponse
             /\ r.ended => r.change.row.answers = SheetOf(responses[r.att])[r.change.q]

\* A committed submission stays, and what is being scored is what was submitted.
SubmittedStays == \A a \in Attempts : ends[a] > 0 => status[a] = "ended"

SubmittedOnce == \A a \in Attempts : ends[a] <= 1

ScoresFresh ==
    \A s \in Sessions :
        /\ req[s].pc \in {"submitted", "scored"} => status[req[s].att] = "ended"
        /\ req[s].pc = "scored" =>
             LET sheet == SheetOf(responses[req[s].att]) IN
             /\ req[s].score = ScoreOf(sheet)
             /\ \A q \in Asked : Type[q] # "Writing" =>
                   (req[s].marks[q] = "right" <=> Correct(q, sheet[q]))

\* The mark right is only ever that of a submitted answer that is correct.
MarksSound ==
    \A a \in Attempts : \A q \in Asked :
        (Type[q] # "Writing" /\ marks[a][q] = "right") =>
            status[a] = "ended" /\ Correct(q, SheetOf(responses[a])[q])

SerialInv ==
    /\ SavesFresh
    /\ SubmittedStays
    /\ SubmittedOnce
    /\ ScoresFresh
    /\ MarksSound
    /\ ScoreFaithful
================================================================================
