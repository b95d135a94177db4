------------------------------ MODULE AttemptBook ------------------------------
(***************************************************************************)
(* What the practice part of the exam service promises its students, with  *)
(* every command as one step: a book of attempts in which an owner (a user *)
(* sitting an exam) has at most one attempt open, answers change only      *)
(* while the attempt is open, a submission is final, and a score is the    *)
(* score of the answers that were submitted.  ExamAttempt shows when the   *)
(* command handlers, which load, compute and save, implement this book.    *)
(***************************************************************************)
EXTENDS Naturals

CONSTANTS
    Questions,   \* questions of the exam
    Answers,     \* what a student may enter
    ScoreOf(_),  \* the score of a sheet, [Questions -> SUBSET Answers]
    Attempts,    \* attempt ids
    Owners,      \* pairs of a user and an exam
    Owner,       \* [Attempts -> Owners]
    Notes,       \* notes a student can attach to a response
    NoNote,      \* the note of a response without one
    NoResponse,  \* a question without a response row
    NoScore      \* the score of an attempt not scored yet

Rows == [answers : SUBSET Answers, flagged : BOOLEAN, note : Notes \cup {NoNote}]

VARIABLES
    status,     \* status[a]: "absent", "open" (endedAt null) or "ended"
    order,      \* order[a]: the attempts.order column, 0 while absent
    responses,  \* responses[a][q]: the response row, or NoResponse
    score       \* score[a]: the attempts.score column, or NoScore

bookVars == <<status, order, responses, score>>

SheetOf(resp) ==
    [q \in Questions |-> IF resp[q] = NoResponse THEN {} ELSE resp[q].answers]

Existing(o) == {a \in Attempts : Owner[a] = o /\ status[a] # "absent"}

Init ==
    /\ status = [a \in Attempts |-> "absent"]
    /\ order = [a \in Attempts |-> 0]
    /\ responses = [a \in Attempts |-> [q \in Questions |-> NoResponse]]
    /\ score = [a \in Attempts |-> NoScore]

Start(a) ==
    /\ status[a] = "absent"
    /\ \A b \in Existing(Owner[a]) : status[b] = "ended"
    /\ status' = [status EXCEPT ![a] = "open"]
    /\ LET k == order'[a] IN
        /\ k \in Nat \ {0}
        /\ \A b \in Existing(Owner[a]) : order[b] < k
        /\ \A i \in 1 .. k - 1 : \E b \in Existing(Owner[a]) : order[b] = i
        /\ order' = [order EXCEPT ![a] = k]
    /\ UNCHANGED <<responses, score>>

\* A row is rewritten: anything while the attempt is open, the note and the flag
\* only once it has ended.
Edit(a, q) ==
    /\ status[a] # "absent"
    /\ \E row \in Rows :
        /\ responses' = [responses EXCEPT ![a][q] = row]
        /\ status[a] = "ended" => SheetOf(responses'[a]) = SheetOf(responses[a])
    /\ UNCHANGED <<status, order, score>>

Submit(a) ==
    /\ status[a] = "open"
    /\ status' = [status EXCEPT ![a] = "ended"]
    /\ UNCHANGED <<order, responses, score>>

Score(a) ==
    /\ status[a] = "ended"
    /\ score' = [score EXCEPT ![a] = ScoreOf(SheetOf(responses[a]))]
    /\ UNCHANGED <<status, order, responses>>

Next ==
    \E a \in Attempts :
        \/ Start(a)
        \/ \E q \in Questions : Edit(a, q)
        \/ Submit(a)
        \/ Score(a)

Spec == Init /\ [][Next]_bookVars
================================================================================
