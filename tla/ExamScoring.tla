------------------------------ MODULE ExamScoring ------------------------------
(***************************************************************************)
(* How an attempt is scored: the pure part of AttemptEvaluator             *)
(* (apps/exam/src/domain/entities/attempt-evaluator.entity.ts) and the     *)
(* question types it distinguishes (apps/exam/src/enums/question-type).    *)
(*                                                                         *)
(* An answer sheet is a function from questions to sets of answers; a      *)
(* question nobody answered holds the empty set.  The evaluator compares   *)
(* lower-cased answers: Lower maps an answer to its lower-case form, so    *)
(* that two answers differing only in case are two members of Answers.     *)
(***************************************************************************)
EXTENDS Naturals, FiniteSets, FiniteSetsExt

CONSTANTS
    Questions,  \* every question of the exam
    Asked,      \* the questions of the selected sections of an attempt
    Answers,    \* what a student may enter, and what a key may be
    Lower,      \* [Answers -> Answers], an answer's lower-case form
    Type,       \* [Questions -> QuestionTypes]
    Keys,       \* [Questions -> SUBSET Answers], the correct choices
    Points      \* [Questions -> Nat]

QuestionTypes == {"Fill", "FillAny", "MCQ", "MCQ_MULTI", "Writing"}

ASSUME ScoringAssumption ==
    /\ Asked \subseteq Questions
    /\ IsFiniteSet(Questions) /\ IsFiniteSet(Answers)
    /\ Lower \in [Answers -> Answers]
    /\ Type \in [Questions -> QuestionTypes]
    /\ Keys \in [Questions -> SUBSET Answers]
    /\ Points \in [Questions -> Nat]

\* questionTypesThatAllowOnlySingleAnswer
SingleAnswer(q) == Type[q] \in {"Fill", "FillAny", "MCQ", "Writing"}

\* questionTypesThatAllowNonStrictMatch
AnyKeyMatches(q) == Type[q] = "FillAny"

Lowered(S) == {Lower[x] : x \in S}

\* The sorted array of the lower-cased members of S, as a bag: two of them are
\* isEqual exactly when every lower-case form occurs equally often in both.
LoweredBag(S) == [k \in Answers |-> Cardinality({x \in S : Lower[x] = k})]

\* scoreFor: whether the answers given to q earn its points.
Correct(q, given) ==
    /\ given # {}
    /\ Type[q] # "Writing"
    /\ IF AnyKeyMatches(q)
       THEN Lowered(given) \cap Lowered(Keys[q]) # {}
       ELSE LoweredBag(given) = LoweredBag(Keys[q])

\* evaluateScore: the points of the asked questions answered correctly.
ScoreOf(sheet) ==
    MapThenSumSet(LAMBDA q : Points[q], {q \in Asked : Correct(q, sheet[q])})

Sheets == [Questions -> SUBSET Answers]
Scores == {ScoreOf(sheet) : sheet \in Sheets}

\* The writing tasks evaluateScore hands over to the grading service.
WritingTasks(sheet) == {q \in Asked : Type[q] = "Writing" /\ sheet[q] # {}}

Marks == {"none", "right", "wrong"}

\* The mark evaluateScore gives each response the evaluator holds, "none" for the
\* questions it holds no response of (it only loads responses with an answer).  A
\* writing task and a question outside the attempt keep the mark they were loaded
\* with, null read as wrong.
MarksOf(sheet, before) ==
    [q \in Questions |->
        IF sheet[q] = {} THEN "none"
        ELSE IF q \in Asked /\ Type[q] # "Writing"
        THEN IF Correct(q, sheet[q]) THEN "right" ELSE "wrong"
        ELSE IF before[q] = "right" THEN "right" ELSE "wrong"]
================================================================================
