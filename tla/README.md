# A verification of meowlish

TLA+ models of the parts of meowlish (NestJS microservices for practising
language exams) whose correctness depends on how requests, messages and
failures interleave; TLC runs that check them on small instances; TLAPS proofs
of what matters most for every instance. Paths below are relative to `src/`.

## 1. The system

Every service is a NestJS process with its own PostgreSQL database (Prisma,
READ COMMITTED). Clients reach it over HTTP through the gateway and gRPC;
services tell each other about changes over RabbitMQ. A command handler loads an
aggregate (an `await`), changes it in memory, and saves it (another `await`);
in-process handlers then turn domain events into integration events and publish
them. Handlers of one process interleave at every `await`, replicas interleave
everywhere, and an error of a publisher or a consumer is logged and swallowed.

| Component | State it keeps | Operations | What makes it correct |
|---|---|---|---|
| exam practice: attempts (`apps/exam`) | `attempts`, `attempt_responses`; events in memory | start, answer, delete answer, note, flag, end; score after submission; publish | one active attempt per user and exam; a submission is final, scored once, and announced; the score is that of the stored answers |
| exam practice: scoring | none | `AttemptEvaluator.evaluateScore` | points of the correct answers per question type |
| exam practice: grading of writing | `scorer_data`; messages in the main, retry and dead letter queues | send to the grader, take its result, retry | a result is saved or ends as a dead letter; none is lost |
| exam management: tags | `tags` as a nested set, `tags_table_lock` | add, delete, move, rename; the tree and list queries | the intervals always form a forest; a command changes one subtree |
| exam management: exams, sections, questions | `exams` (with a version), `sections`, `questions`, `choices`, orders | create, insert, move, remove, rebalance | orders distinct and in the order asked for; no lost update |
| section closure triggers (`apps/exam/src/sql`) | `section_closures` | on insert and update of `sections.parent_id` | the closure is the reflexive transitive closure of the parents, without cycles |
| achievement | `attempt_criteria`, `login_criteria` (each with a version), `user_badges` | handle submitted, scored, login | a badge that is awarded is held once, exactly when its level is reached; progress never goes back |
| file references (`apps/file-service`, triggers and publishers in exam and auth) | files with a reference count, objects in MinIO, `deleted_files` | presign, increment, decrement, orphan cleanup | a referenced file is not deleted, an unreferenced one is in the end |
| auth: identities, credentials, tokens | identities with a version, credentials, revocation times in Redis | register, login, lock, delete, refresh, revoke | an identity keeps a credential to log in with, no save is applied to something newer than what was loaded; a logout is final |
| authorization | resource ownership | register and remove by events | only a creator owns a resource or is let through; ownership follows the resource |
| live rooms | rooms, bans, logs; sockets in memory | create, remove, list; join, leave, ban, chat | a walk through the list neither repeats nor loses a room; a banned user is not in the room |
| notification, resource | independent rows | create, read, update, delete | little state to relate |
| gateway, libraries, contracts, deployment | none | route, validate, ask who owns | stateless; what it has asked may change before it passes a request on |

Interactions: `exam.attempt.submitted` and `exam.attempt.scored` (exam to
achievement), `exam.writing.submitted` and its answer (exam and the grader),
`auth.user.login` (auth to achievement), files added and removed (exam and auth
to file-service), created and deleted resources (exam, resource and
live to authorization). Each routing key has its own queue, so nothing orders two of
them.

The hard behaviour: a load and a save that are not one step (everywhere); the
saves that carry a version (exams, identities, criteria) against those that do
not (attempts, responses, questions); events that live in memory between a
commit and a publication; messages delivered again; a hand-written lock row
(tags); errors that are swallowed; clocks of whole seconds (tokens); cursors into a
list that changes (rooms). PROJECT.json lists each hazard at its line with the
properties that cover it, or the reason why none does.

## 2. Modules

| Module | Role |
|---|---|
| `ExamScoring` | `AttemptEvaluator` as operators over an exam given as constants |
| `AttemptBook` | abstract specification: what the attempt commands promise, each as one step |
| `ExamAttempt` | the attempt commands cut at their awaits, scoring, publishing, failing calls, crashes |
| `ExamAttemptProofs`, `ExamAttemptSerial` | theorems about `ExamAttempt`: with any interleaving; with one request per attempt at a time |
| `MCExamAttempt` | the small exams of the runs |
| `Achievement`, `AchievementProofs`, `MCAchievement` | the achievement service, its theorems, its instance |
| `TagTree`, `TagTreeProofs` | the tag commands statement by statement under the lock row, and their theorems |
| `TagForest` | abstract specification: an ordered forest of tags, as sequences of children |
| `TagOrder` | the same promise without recursion, said of every two tags: which holds which, which stands before which |
| `TagTreeQuery`, `MCTagTree` | the query `getTagTree`, the refinement of `TagForest`, the instance |
| `SectionTable` | the rows of one exam's outline, the closure triggers, the cascade, as operators on a database |
| `ExamEditing`, `ExamEditingProofs`, `MCExamEditing` | the commands that edit an exam: loads, placing, the statements of a save; their theorems; the outlines the runs start from |
| `FileRefs`, `FileRefsProofs` | the files, their reference counts and the messages that feed them, the cleanup job; its theorems |
| `Identities`, `IdentitiesProofs` | the commands on identities, roles and credentials, with torn loads and the version; its theorems |
| `Tokens` | issue, expiry and revocation of the tokens of a user |
| `Ownership` | resources of three services, the messages about them, the table of owners and the guard |
| `RoomList` | a reader who pages through the list of rooms while it changes |
| `Grading` | the results of a writing task, their retries and dead letters |
| `ServiceProofs` | theorems about `Tokens`, `Ownership`, `RoomList` and `Grading` |
| `MCServices` | the six modules above for TLC, one of them moving in each behaviour |

The `Variant` operators of a module are wrong versions of the operator that
follows them, kept beside it to show which property notices the difference; no
specification uses them.

### ExamAttempt

| State | Code |
|---|---|
| `status`, `order`, `score` | columns `ended_at`, `order`, `score` of `attempts`; "absent" is no row |
| `responses`, `marks` | rows of `attempt_responses`; the column `is_correct` |
| `expired` | `duration_limit` plus the network delay has passed |
| `req[s]` | the handler running in session `s`: loaded values that wait for a save, a new order that waits for its insertion, a score that waits for its save |
| `outbox[s]` | integration events not yet handed to RabbitMQ |
| `sent`, `ends` | history: messages handed over, submissions committed |

`StartAttempt` and `CreateAttempt`/`CreateRefused` are the two halves of
`AttemptCommand`: the last finished order is read outside the inserting
transaction, the unique index decides. `Answer`, `RemoveAnswer`, `AddNote`,
`ToggleFlag` and `EndAttempt` load the aggregate and change it in memory;
`SaveAttempt`/`SaveRefused` is the transaction of `save`, which writes the whole
attempt row as it was loaded, `ended_at` included. `Evaluate` and `StoreScore`
are `AttemptSubmittedHandler`, `Publish` one publication. `CallFails` is a
rejected call, `Crash` the end of the process with all it holds in memory. Both lose
announcements; `dropped` counts them, for `AnnouncementsAccounted` alone: of every
committed submission the announcement, and that of its score, has been sent once, is owed
by one session (`Debtors`: in its outbox, or still to come from the scoring it does), or
was lost by such a fault, and nothing else may lose or repeat one.

Abstractions: `findOne` and `getScoreEvaluator` read a few tables in several
queries and are one step; an answer is a model value, with a function for its
lower-case form; the one database error told apart is the unique index.
A request that would throw is a guard: it leaves no trace. An attempt id is one
(user, exam) pair's, and ids are never reused.

### Achievement

`attempts` and `logins` are the two criteria rows with their versions, `badges`
counts the rows of `user_badges` per user and badge, since no unique index
excludes a second one. `Load` is the upsert of the row, `Compute` the query for the held
badges and `updateProgress`, `SaveProgress`/`SaveStale` the update under
the loaded version, `Acknowledge` the end of the message. A thrown error is
logged by the handler itself, so `SaveStale` and `CallFails` lead to an
acknowledgement; `Crash` redelivers. `queue` is a bag: RabbitMQ's three queues
deliver in some order that prefetching, redelivery and replicas disturb, and the
bag allows them all. Levels are scaled: the attempt levels 1/10/100 to 1 and 2.

`BADGE_INFORMATION` declares login badges at 7, 14, 30 and 365 days, in total and in a
row, and `LoginBadgeManager.updateProgress` looks at 7, 30 and 365 only. So `LoginLevels`
are the declared days (1, 2 and 3 for 7, 14 and 30 in `achievement`) and `AwardedDays`
those that are looked at (1 and 3): **the two badges of 14 days, `LoginTwoWeeks` ("Logged
in for 14 total days") and `LoginTwoWeeksStreak` ("Logged in 14 days consecutively"), are
described and never awarded.** `BadgesMatchProgress` says so: a badge that a manager
awards (`Awarded`) is held once exactly when its level is reached, and one that none
awards is never held, however long a user keeps logging in.

### TagTree

`committed` holds the rows a reader sees, `table` the rows with the statements of the
running transaction, `holder` the transaction that has written the lock row,
`tx[s]` where a command stands. `FindLock`, `CreateLock`, `CreateRefused` and
`TakeLock` are `getTableLock`; its row is created on first use, so two first
commands race and the primary key makes the second wait and then fail. `ReadAdd`,
`ReadDelete` and `ReadMove` read the positions, `Write` runs one
`updateMany`/`deleteMany`/`create`, `Commit` and `Rollback` end the
transaction. What a command asks for is chosen when it reads, which changes
nothing: nothing before that step depends on it. `updateTag` renames a tag,
touches no position and is left out. `table` is shared by all transactions,
without the isolation of uncommitted rows: if the lock failed, the model would
show more interference than PostgreSQL, never less; since it never fails
(`TagInvariant`), the two agree.

### SectionTable and ExamEditing

| State | Code |
|---|---|
| `db.rows` | `sections.parent_id` and `order`, `questions.section_id` and `order` (`Exam` stands for a null parent) |
| `db.type`, `db.closure`, `db.status` | `sections.content_type`, the table `section_closures`, `exams.status` (`Deleted`: no row) |
| `version` | `exams.version` |
| `session[s]` | a handler: what it has loaded (`copy`), the version it loaded, the statements left (`todo`), and its transaction's view of the tables (`work`) |

A handler loads the exam with its top-level sections, a section with its
children, or a question. Prisma sends one query for each relation, outside a
transaction. The exam's row is the first query when the exam is loaded and the last when a
section or a question is, so `ReadRows` reads a section or a question, and the action of
the command reads the exam's row later; between the two any other save may commit. For an
exam one step is enough: sections newer than the version make the save fail. The rows of a
section and of its children are one step (two queries in the code). From the last
query to the first statement the handler does not wait.

`CreateChild`, `AddChild`, `MoveChild` and `RemoveChild` each stand for the operation on
the exam and on a section: `insertSection`/`insertChild` and `moveSection`/`moveChild`
compute the order the same way (`Placement`). A move to the place a child already has
only saves, like `UpdateExam` or `UpdateSection` with nothing changed. `Save` queues the
statements: the events in their order (those of `rebalance` first), then, for a section
or a question, the update of the row that was loaded, old parent included (`Owning`).
`Execute` runs one statement with its triggers, `Commit` needs the version of the load.
`exam.save` checks the version first and `section.save` last; the row is locked from then
on, so the check at the commit admits the same transactions. `Abandon` is every other
end: a refused statement, a conflict, a thrown exception, a deadlock, a timeout, a crash.
`Fresh` is `crypto.randomUUID`. Choices, tags and files have rows of their own that no
definition looks at.

### FileRefs

`store[f]` is the file service's row and object of a file, `ledger[f]` its uses and where
each announcement stands: added and not yet announced, in the queue of additions,
counted by the trigger (`deleted`), taken from the table by the publisher's job, in the
queue of removals. `cleaner` is the cleanup between its steps. Section and question
files (exam) and avatars (auth) are announced by copies of the same two publishers, so one
owner stands for both. `faulty` marks a file of which an event was lost or repeated, and
`stray` an object that came or was left when the row was gone; properties that cannot hold
of those say so. Rows named `SYSTEM_...` are never candidates and are left out. The resource
service has a `deleted_files` table too, but no code announces the files of its reports
and cards.

### Identities and Tokens

`identity[i]` is a row with its roles and credentials, `command[c]` what a handler has
loaded. `findOneById` sends three queries, the row first (`ReadIdentity`, `ReadRoles`,
`ReadCredentials`). `Save` is the transaction: the row is found by its id and the loaded
version, then the roles and credentials that the command's events name are created or
deleted. Columns that no property looks at (names, avatar, password hash) are left out,
and a conflict of a unique column is `CommandFails`. `softDelete` has no caller.

In `Tokens` the time is a whole second and a part of it: JWTs and the stored revocation
have whole seconds, the expiry of the Redis key counts from the instant it is set.
`logoutAll` reads the clock (`ReadClock`) and sets the key (`StoreLogout`) later, so that
overlapping logouts may store an older second last, and a token of a second between the
two is good again; `SessionsStayOver` excuses that (`OverAnew`), and the next logout ends it.
`old` marks a token whose session has begun before the last logout read the clock, through any number of
refreshes. A refresh in flight during a logout is marked too, since its new pair has a later
issue time: `SessionsStayOver` speaks of the time from which no old token is good and
none is being refreshed. A token that was issued in the second of the logout, before it,
stays good until it expires; `LoggedOutStaysOut` says what the code does, of earlier
seconds. Validation also refuses an access token of a locked identity, and no refresh
token; locks are not in this module.

### Ownership

`resource[r]` is a row of the live or the resource service (exams are announced like
blogs), `news[r]` the messages about it on their way, `owner[r]` the table of the
authorization service, `passed[q]` what the guard has let a request do that has not been
done yet. A room is created again under its name and id, by anybody, and
`removeRoom` does not look whether it is removed already. The deletion of a flash card is
not announced, so its owner stays in the table. `late` marks a resource of which the last
removal was handled when it had been created again, or a registration was on its way, and
which no registration has put right since: its owner may be missing, and no service repairs
that. `faulty` marks one of which a message was lost or repeated. `OwnershipSettles` and
`CreatedGetOwners` say nothing of such resources, since the code promises nothing there;
`OwnersAreCreators` holds of all.

### RoomList

A cursor is the id at the end (or the start) of a page and a direction; `GetRoomList` is
`findMany` with `cursor`, `skip: 1` and a signed `take`. A removed room keeps its row, so
Prisma still finds the cursor, and then skips the first listed room behind it: `blind`
counts those reads, and `MissesAreBlind` says that each loses one room at most. The
lists of identities, badges, chat logs and attempts are paged in the same way.

### Grading

`ready[n]` and `delayed[n]` count the copies of a result in the main queue and in the retry
queue `n`, by the number in the header. `Retry` is the handler's `catch`; a message
published to a key no queue is bound for is dropped by the broker (`Delayed`). `DeadLetter`
stands for the last retry and for a failing publication.

### MCServices

The six modules share no state. A product of their states would be large and show nothing
that their own behaviours do not, so `focus` chooses the one that moves and the others
stay in their initial states, where nothing that must be fair is enabled.

## 3. Runs

| Run | Question | Bounds |
|---|---|---|
| `attempt_concurrent` | What survives requests that overlap, fail and crash? | 2 attempts of one owner, 2 sessions, 1 writing question |
| `attempt_serial` | Do the commands implement `AttemptBook` if a client waits for its answers, and is each submission scored? | the same with a single-choice question, 2 answers, a note, an expiring attempt |
| `attempt_reopened` | Does the schema's "no 2 active attempts can co-exist" hold of overlapping requests? No. | 2 attempts, 2 sessions |
| `attempt_empty` | Does a submission in time hold an answer, as its exception says? No. | 2 attempts |
| `achievement` | Do the versions keep badges and progress right across overlap, failure, crash and redelivery? | 1 user, 3 handlers, 3 messages, 3 days, 1 crash; days 1, 2 and 3 declared, 1 and 3 awarded |
| `achievement_first` | Is a user's first attempt always rewarded? No. | 2 handlers, 2 messages |
| `achievement_days` | Is the n-th login day rewarded? No. | 1 handler |
| `tag_tree` | Is every commit one command of an ordered forest? | 4 tags, 2 sessions |
| `exam_editing` | Do torn loads, overlapping saves and the triggers keep the closure, freeze an approved exam, and keep orders and kinds of a save that saw the tables as they are? | 3 sections, 1 question, 2 sessions, 2 saves from any outline |
| `exam_editing_index` | Does a new section get the index asked for, as its comment says? No. | the same |
| `exam_editing_types` | Does a section keep its type while it has children, as the exception says? No. | the same |
| `services` | What do counts, credentials, sessions, owners, pages and grades keep when messages are lost, repeated, late or overtaken, loads are torn, and a clock has whole seconds? | 1 file with 2 uses and 1 fault; 1 identity, 2 commands, 4 saves; 1 refresh, 4 seconds of 2 parts, logouts of 2 different seconds at a time; 1 resource, 2 users, 2 creations, 1 loss; 5 rooms, pages of 2, 4 reads; 1 result, 3 retries, 2 redeliveries |

Why the bounds are enough to be interesting. Two sessions are what a stale save
needs; two attempts what the order column and the single active attempt need.
Three handlers let a save be stale against two others. Four tags give every shape
a move distinguishes (below, beside, above the target, with a subtree and a
neighbour between the two places), two sessions the race for the lock row. Three
sections give a subtree to move below another section and two neighbours without room
between them; `OrderRange` is 2 instead of 1024, so that one insertion in the middle
uses the room up and the next one rebalances. `exam_editing` starts from every outline that three or four
saves can leave (`Outlines`), so that two more saves, overlapping in every way, are
enough to meet each shape. In `services` one file, one identity, one resource
and one result are enough, since every property speaks of one of them and they do not
meet; four saves are what two overlapping removals of the last two credentials take;
a refresh token lives three seconds, more than the part of a second that `Math.floor`
drops, so that it outlives its access token; five rooms are three pages. The
proofs remove the bounds for the theorems they cover. `MaxEnds`, `MaxDay`,
`MaxPublished`, `MaxCrashes`, `MaxVersion`, `MaxOrder`, `MaxUses`, `MaxFileFaults`,
`MaxSaves`, `MaxSecond`, `MaxOverlap`, `MaxCreations`, `MaxLosses`, `MaxReads` and `MaxRedelivered` only bound counters, `MaxIndex`
the index a command asks for.

Symmetry is used in runs without liveness properties, over values no
definition orders or names. Deadlock is not checked in the attempt and achievement runs, whose
bounded worlds come to rest, nor in the editing runs, where nothing follows the deletion
of the exam, nor in `services`; `tag_tree` has no such bound and checks it.

The six runs that fail record disagreements between the code and what the
repository says of it (PROJECT.json, findings):

- a save that loaded before a submission reopens the attempt, and the next one
  becomes active beside it (`attempt_reopened`);
- an attempt whose only response is a flag or a note is submitted without an
  answer (`attempt_empty`);
- the submission and the score of a first attempt race on one versioned row, and
  the loser's message is logged and gone (`achievement_first`);
- the row a first login is compared with was created by that login
  (`achievement_days`);
- an index in the middle places a section one later than its comment says
  (`exam_editing_index`);
- a child created while its section is being loaded is missed by the check that
  a section has no children before its type changes, and the version does not notice,
  since it is read last (`exam_editing_types`).

One more disagreement needs no run: the badges of 14 days are described and no code
awards them (section 2, Achievement). `BadgesMatchProgress` states what the code does.

### Fairness

`attempt_serial` and `services` check liveness. `attempt_serial` has weak fairness of `Continue(s)`:
an awaited call of the driver answers and the event loop then runs its
continuation. It is checked without `Faults`, as the code promises nothing when a
handler's error is swallowed or the process dies between commit and scoring
(`AnnouncementsAccounted` says what is lost then). Requests and faults are never fair.

`services` has weak fairness of what answers to a queue or a timer: the publishers
(`FileAddedPublisher` answers to an event, `FilesRemovedScheduler` repeats every minute),
the counters, the cleanup (every five minutes, again after a failure) and the ageing of a row
for `UnusedFilesRemoved`; the two ownership handlers for `CreatedGetOwners`; the
grading handler and the time of the retry queues for `ResultsEnd`. A lost message is
excused in the property, never excluded from the behaviours.

## 4. Proofs

All theorems hold for any constants that satisfy the modules' named assumptions
(which TLC evaluates in every run). Beyond types they say that the ids of different kinds
are apart (sections, questions and the exam; a question and the two events of an attempt,
which name messages), and that sessions, handlers and rooms are finitely many.

**ExamAttemptProofs** (any interleaving, with faults and crashes): `TypeCorrect`,
`OrdersAreDense`, `OlderAreSubmitted`, `AnnouncementsAreAccounted`. The two order properties are not inductive: a
creation in flight holds an order that was read earlier. `OrderInv` adds that
this order still follows an existing one below which everything has been submitted
(`CreationsSound`), and that a save in flight writes `ended_at` only for a
submission or after one (`SavesSound`), so that "submitted at least once" is stable
although "ended" is not. That announcements do not outnumber submissions is a count:
`AnnounceInv` adds to the messages sent of a kind the sessions that still owe one
(`Debtors`: it is in their outbox, or they are scoring a submission), and each step adds at
most one debtor per committed submission or turns one into a message. A session that
scores owes no other attempt anything (`ScoringAlone`), so it is counted once. For what is
announced of every submission the count is exact (`SettleInv`): a session that is about to
save owes nothing any more (`SavesOweNothing`), so that the announcement of its submission
takes the place of none, scoring hands on exactly what was owed, and a debtor only
disappears with a message sent or one counted in `dropped`.

**ExamAttemptSerial** (under `OnePerAttempt`, with faults and crashes):
`AtMostOneActive`, `ScoresAreFaithful`, `SubmissionsAreFinal`, `AnnouncementsAreSingle` and
`CommandsImplementBook`. `SerialInv` says that a save in flight is the only one
of its attempt and still agrees with the row, that a submission stays, and that what is
being scored is what was submitted; a submission is committed once (`SubmittedOnce`), which
with the count above makes its announcements single. `ImplementsBook` is proved by mapping each
step to a step of the book or a stutter.

**AchievementProofs**: `TypeCorrect`, `BadgesMatch`, `ProgressIsMonotone`,
`LossesAreBounded`. `BadgesMatch` holds for any declared and any awarded levels, the
awarded ones among the declared: it covers the badges that are never awarded too. The
invariant `BadgeInv` says that a handling whose version is current
works on the current row, and that what it is about to award is what that row and the
badges now held call for: the version protects the badges too, because every save
that awards one raises it. `LossInv` counts the messages of a row that are lost together with the
handlings that a save has overtaken (`Outrun`), which are bound to lose theirs: an
accepted save adds at most all the other handlers to them, and a lost message takes its
handler out. It needs finitely many handlers, and that a handling whose version is old
can only lose.

**TagTreeProofs**: `TypeCorrect`, `TagsAreNested`, `PositionsAreDense` and
`CommandsImplementOrder`. The invariant `IInv` has the
lock's half (only the holder reads and writes, so `table` is `committed` after the
first statements of one command, and what that command read is still true), and the
arithmetic half is a lemma per command: `AddKeepsNested`, `DeleteKeepsNested`, and
for a move `MoveCarries` (its five statements carry each position to `Moved` of it)
and `MoveKeepsNested`. `DenseInv` adds that the positions in use are 1 to some m, and that the
place a command has read is not beyond the first free one: `AddKeepsDense` and
`DeleteKeepsDense` follow where each position goes, `MoveKeepsDense` finds for each
position the one that a move carries there (`MovedIsOnto`). That m is twice the number of
tags is a count: both ends of a tag are injective and share no position (`DenseIsCounted`).
The refinement is of `TagOrder`: `Over(t)`, the tags whose interval holds t's, and `Earlier(t)`,
those that end before it, are what its commands change, and every step of `TagTree` is one
of them or a stutter (`StepImplementsOrder`). `OrderInv` adds to `IInv` that the place a handler has read is that of
a last child of some parent outside the subtree it moves. Such a place splits the positions
as the abstract command does (`PlaceSplits`), and the arithmetic keeps the order of
the others (`OpenedOrders`, `ClosedOrders`, and for a move `MovedKeepsInner`,
`MovedKeepsOuter`, `MovedSplits`).

**ExamEditingProofs**: `TablesTyped`, `ClosureCorrect`, `SectionsNest`,
`ApprovedStaysFrozen`, `CurrentOrdersKept` and `CurrentKindsKept`, for any outline, number of handlers and interleaving. The
closure following the parents row by row is not inductive: the update trigger deletes
the paths from the old ancestors to the whole subtree, and that this removes neither too
much nor too little needs that a pair has one path (`Keyed`), that paths join up
(`Transitive`) and that the ancestors of a section form a chain (`Linear`). `WellKept` is
their conjunction with the types; the lemmas `CreateSectionKept`, `MoveSectionKept` and
`DeleteKept` prove it of each statement, the last by the least depth at which
something could outlive its ancestor. `Inv` has it of the tables and of every open
transaction, and says that a save which could still commit was loaded before the
approval or deletes the exam. Nothing in it depends on what a torn load has seen.
The last two theorems are about a save that is spread over many steps, between which
others read and send theirs; what its transaction sees on the way can have siblings of
one order (a rebalancing is one update for each child). `OutcomeInv` therefore speaks of
what it *comes to*: the row of an item is in the end that of the last statement left that
writes it (`Settles`), so a statement that runs changes what is seen and what is left, but
not that (`RowsCarry`, `TypesCarry`, `EndsCarry`). What a command sends is a `Plan`
(`PlacingIsPlan`, `SaveEnds`), and the arithmetic of placing is `PlacementApart`: the order of
the placed child lies strictly between those of its neighbours, or beyond the ends. One
case is not covered by the code's checks: a section added below itself with `addSection`; there
`OutcomeInv` needs that the trigger refuses it (`BelowItself`).

**FileRefsProofs**: `FilesTypeCorrect`, `CountsFollowUses`, `RowsImplyObjects`,
`ObjectsExplained` and `UsedFilesSafe`, for any files, uses and faults. The invariant
`FilesIInv` is one formula about each file, its uses and the cleanup's hold of it, so that
each action is a lemma about one record; the accounting is what makes a count of zero
mean that no use is left but those still to be counted.

**IdentitiesProofs**: `CredentialsStay` and `NoChangeIsLost`. `IdIInv` says that a copy agrees
with the row in whatever has been loaded so far, as long as the row has the version
of the copy. It holds because the version is read first: what is read later is either of
that version, or the save will fail.

**ServiceProofs**: of `Tokens`, `LogoutIsFinal` and `OverIsFinal`, from the types and the
assumption that access tokens live no longer than refresh tokens: the key is kept for the
longer of the two lifetimes, counted from an instant that is not before the second that was stored.
`OverIsFinal` also needs that a logout which was not overtaken never stores an older second than
is stored.
Of `Ownership`, `OwnersCreated` and `OwnershipIsSettled`; `OwnIInv` adds that registrations
on their way are creators' too, and that, while nothing was lost, repeated or late, a
resource that is there has an owner or one on the way, and one that is gone but owned has its
removal on the way. Of `Grading`, `ResultsAreKept`, whose property is inductive with the types.
Of `RoomList`, `WalksMoveOn`, `MissesAreCursors` and `BackUndoesNext`, for any rooms and page
size. A page is a range of ranks, and the rank of a room is how many come before it, so
the lemmas count the rooms between two ids. `WalkInv` says that the last room of the page is the
last one shown (`WalkIsAhead`): what a read can then miss is what lies between that room and
the first of the new page, nothing when the cursor is still listed and one room when it
is not.

Every invariant and every action property that a run checks is proved. Only model-checked:
liveness (`EverySubmissionScored`, `UnusedFilesRemoved`, `CreatedGetOwners`, `ResultsEnd`;
temporal reasoning under fairness is beyond the prover) and `ImplementsForest`, which speaks of
the answer of the recursive query `getTagTree`. What that answer is read from, the order of the
intervals, is proved to change as promised (`CommandsImplementOrder`); that the query turns this order
into the forest is what the run checks.

## 5. Not modelled

- Sockets and bans of the live service. Who is in a room is state of socket.io; what
  `canJoinRoom` returns depends on how Prisma treats an empty `select`. Chat logs are rows
  that are only added.
- Notification: nothing in `src/` publishes what its handlers subscribe to; its rows are
  independent of each other.
- The resource service beyond its announcements: lists, reports and their files are rows
  that are created, read, changed and deleted one by one.
- The gateway beyond the guard for owned resources and the refresh: stateless routing.
- Read models (no state change), goals (one upserted row per user), the Google calendar
  token, roles and their permissions (seeded).
- Choices, their keys and the tags of questions: written under the version of the exam,
  like the rows that `ExamEditing` has.
- The grading service, and what is sent to it.
- More than half of the TypeScript under `src/` is generated gRPC types (`libs/generated`),
  seeds of exams and DTOs, which have no behaviour to model.

Worth proving next: that a tag keeps its parent and its place among its siblings, stated of the
tag directly before it instead of all those before it, which is what `getTagTree` links.
