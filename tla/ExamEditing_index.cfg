SPECIFICATION StartSpec
CONSTANTS
    Sections = {a, b, c}
    Questions = {q}
    Exam = Exam
    Sessions = {s1, s2}
    OrderRange = 2
    MaxOrder = 4
    MaxVersion = 7
    MaxIndex = 1
SYMMETRY Symmetric
PROPERTIES
    IndexHonoured
CHECK_DEADLOCK FALSE
