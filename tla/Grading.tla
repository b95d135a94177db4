------------------------------- MODULE Grading -------------------------------
(***************************************************************************)
(* The grades of a writing task.  A grading service answers to             *)
(* exam.writing.submitted with a result for the response, or with an       *)
(* error.  The exam service saves the result as the response's comment.  A *)
(* result that cannot be saved is published to one of the retry queues,    *)
(* with the number of the retry in a header: each queue keeps it for a     *)
(* time of its own and gives it back.  After the last retry, or when it    *)
(* cannot be published, it goes to a dead letter queue.                    *)
(*                                                                         *)
(* A response has several results when its attempt was submitted twice.    *)
(* Here is one response.                                                   *)
(***************************************************************************)
EXTENDS Integers

CONSTANTS Results,       \* the messages of the grading service
          NoComment,
          MaxRetries,    \* WRITING_SCORED_MAX_RETRIES
          MaxRedelivered \* bound: crashes before an acknowledgement

ASSUME GradingAssumption ==
    MaxRetries \in Nat /\ MaxRedelivered \in Nat

VARIABLES result,       \* where the copies of each result are
          comment,      \* scorer_data
          redelivered

gradeVars == <<result, comment, redelivered>>

Retries == 0..MaxRetries

\* error: it reports an error.  ready, delayed: its copies in the main queue and in the retry
\* queues, by their header.
NoResult == [sent |-> FALSE, error |-> FALSE,
             ready |-> [n \in Retries |-> 0], delayed |-> [n \in Retries |-> 0],
             saved |-> FALSE, dead |-> FALSE]

GradeInit ==
    /\ result = [r \in Results |-> NoResult]
    /\ comment = NoComment
    /\ redelivered = 0

SendResult(r) ==
    /\ ~result[r].sent
    /\ \E error \in BOOLEAN :
          result' = [result EXCEPT ![r].sent = TRUE, ![r].error = error, ![r].ready[0] = @ + 1]
    /\ UNCHANGED <<comment, redelivered>>

(***************************************************************************)
(* What the handler does with a copy; it is acknowledged (done), or comes  *)
(* again because the process has ended before (done = 0).                  *)
(***************************************************************************)
Acknowledged(r, n, done) == [result[r] EXCEPT !.ready[n] = @ - done]

SaveComment(r, n, done) ==
    /\ ~result[r].error
    /\ comment' = r
    /\ result' = [result EXCEPT ![r] = [Acknowledged(r, n, done) EXCEPT !.saved = TRUE]]

\* Variant: one retry more than there are queues.
MayRetryOnce(n) == n <= MaxRetries

MayRetry(n) == n < MaxRetries

\* buildRetryQueues: a message that no queue is bound for is dropped.
Delayed(copy, n) ==
    IF n \in 1..MaxRetries THEN [copy EXCEPT !.delayed[n] = @ + 1] ELSE copy

\* The result is an error, or saveComment fails.
Retry(r, n, done) ==
    /\ MayRetry(n)
    /\ result' = [result EXCEPT ![r] = Delayed(Acknowledged(r, n, done), n + 1)]
    /\ UNCHANGED comment

\* NACK: after the last retry, or because it cannot be published.
DeadLetter(r, n) ==
    /\ result' = [result EXCEPT ![r] = [Acknowledged(r, n, 1) EXCEPT !.dead = TRUE]]
    /\ UNCHANGED comment

Outcome(r, n, done) == SaveComment(r, n, done) \/ Retry(r, n, done)

Handle(r, n) ==
    /\ result[r].ready[n] > 0
    /\ Outcome(r, n, 1) \/ DeadLetter(r, n)
    /\ UNCHANGED redelivered

HandleAgain(r, n) ==
    /\ result[r].ready[n] > 0
    /\ redelivered < MaxRedelivered /\ redelivered' = redelivered + 1
    /\ Outcome(r, n, 0)

\* Variant: the header is lost on the way through the retry queue.
ExpireUncounted(r, n) ==
    /\ result[r].delayed[n] > 0
    /\ result' = [result EXCEPT ![r].delayed[n] = @ - 1, ![r].ready[0] = @ + 1]
    /\ UNCHANGED <<comment, redelivered>>

\* The time of a retry queue is over: its dead letters are the main queue's messages.
Expire(r, n) ==
    /\ result[r].delayed[n] > 0
    /\ result' = [result EXCEPT ![r].delayed[n] = @ - 1, ![r].ready[n] = @ + 1]
    /\ UNCHANGED <<comment, redelivered>>

GradeNext ==
    \E r \in Results :
       \/ SendResult(r)
       \/ \E n \in Retries : Handle(r, n) \/ HandleAgain(r, n) \/ Expire(r, n)

\* The handler answers to its queue, and the broker to its clock.
GradeFairness ==
    \A r \in Results, n \in Retries : WF_gradeVars(Handle(r, n)) /\ WF_gradeVars(Expire(r, n))

GradeSpec == GradeInit /\ [][GradeNext]_gradeVars /\ GradeFairness

(***************************************************************************)
(* Properties.                                                             *)
(***************************************************************************)
Copies == [sent : BOOLEAN, error : BOOLEAN,
           ready : [Retries -> Nat], delayed : [Retries -> Nat],
           saved : BOOLEAN, dead : BOOLEAN]

\* The types of the copies and of the comment.
GradeTypeOK ==
    /\ result \in [Results -> Copies]
    /\ comment \in Results \cup {NoComment}
    /\ redelivered \in Nat

\* A result is saved, or waits in the dead letter queue, or in another: retries and crashes
\* lose none (WritingScoredHandler.handle, buildRetryQueues).
OnTheWay(r) == \E n \in Retries : result[r].ready[n] > 0 \/ result[r].delayed[n] > 0

NoResultLost ==
    \A r \in Results : result[r].sent => result[r].saved \/ result[r].dead \/ OnTheWay(r)

\* The retries end: every result is saved or is a dead letter at last.
ResultsEnd ==
    \A r \in Results : result[r].sent ~> (result[r].saved \/ result[r].dead)
=============================================================================
