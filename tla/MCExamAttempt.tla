---------------------------- MODULE MCExamAttempt ----------------------------
(* Small exams for ExamAttempt: the constants that are functions. *)
EXTENDS ExamAttempt, TLC

CONSTANTS q1, q2, x, y

\* q1 takes a single choice with the only key x; q2 takes several, both keys.
MCType == [q \in Questions |-> IF q = q1 THEN "MCQ" ELSE "MCQ_MULTI"]
MCKeys == [q \in Questions |-> IF q = q1 THEN {x} ELSE Answers]

\* q1 is a writing task without a key, q2 a blank that any key fills.
MCTypeWriting == [q \in Questions |-> IF q = q1 THEN "Writing" ELSE "FillAny"]
MCKeysWriting == [q \in Questions |-> IF q = q1 THEN {} ELSE {x}]

MCPoints == [q \in Questions |-> IF q = q1 THEN 1 ELSE 2]
MCLower == [z \in Answers |-> z]

\* One user and one exam.
MCOwner == [a \in Attempts |-> CHOOSE o \in Owners : TRUE]

Symmetric == Permutations(Sessions)
SymmetricAttempts == Permutations(Sessions) \cup Permutations(Attempts)
================================================================================
