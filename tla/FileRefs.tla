------------------------------ MODULE FileRefs ------------------------------
(***************************************************************************)
(* Files and their reference counts.  The file service keeps one row and   *)
(* one object per file.  The rows that use a file belong to another        *)
(* service (the exam service's section and question files, the auth        *)
(* service's avatars), which tells the file service of every use it adds,  *)
(* by an event after the commit, and of every use it deletes, by a table   *)
(* that a trigger fills and that a job empties.  The file service counts   *)
(* both, and a job of its own removes the files nobody uses.               *)
(*                                                                         *)
(* The two services that announce uses run copies of the same publishers:  *)
(* here one service owns the uses.  Removals in flight are a number per    *)
(* file, since decrements commute: a message stands for a part of it.      *)
(***************************************************************************)
EXTENDS Integers, FiniteSets

CONSTANTS Files,
          MaxUses,        \* bound: uses ever made of a file
          MaxFileFaults   \* bound: crashes, and errors that are only logged

ASSUME FilesAssumption ==
    MaxUses \in Nat /\ MaxFileFaults \in Nat

VARIABLES store,     \* the file service's row and object of each file
          ledger,    \* the uses of each file, and what is on its way to be counted
          cleaner,   \* the job that removes unused files
          fileFaults

fileVars == <<store, ledger, cleaner, fileFaults>>

\* fresh: updatedAt is less than five minutes ago.  stray: the object came, or was left,
\* after the row was gone.
NoFile == [row |-> "none", public |-> FALSE, count |-> 0, fresh |-> FALSE,
           upload |-> "none", object |-> FALSE, stray |-> FALSE]

\* uses: rows of the owner.  added: committed, not yet announced.  deleted: counted by the
\* trigger.  taken: taken from the table, not yet published.  adding, removing: in the queues.
NoUse == [uses |-> 0, made |-> 0, added |-> 0, adding |-> 0,
          deleted |-> 0, taken |-> 0, removing |-> 0, faulty |-> FALSE]

Resting == [at |-> "idle", files |-> {}]

FilesInit ==
    /\ store = [f \in Files |-> NoFile]
    /\ ledger = [f \in Files |-> NoUse]
    /\ cleaner = Resting
    /\ fileFaults = 0

Fault == fileFaults < MaxFileFaults /\ fileFaults' = fileFaults + 1

(***************************************************************************)
(* Uploading.  The row is created before the size and the type of the file *)
(* are looked at: a refused file keeps its row.  A granted URL outlives    *)
(* the row.                                                                *)
(***************************************************************************)
GetPresignedUrl(f) ==
    /\ store[f].row = "none"
    /\ \E upload \in {"refused", "open"}, public \in BOOLEAN :
          store' = [store EXCEPT ![f].row = "stored", ![f].public = public,
                                 ![f].fresh = TRUE, ![f].upload = upload]
    /\ UNCHANGED <<ledger, cleaner, fileFaults>>

Upload(f) ==
    /\ store[f].upload \in {"open", "done"}
    /\ store' = [store EXCEPT ![f].upload = "done", ![f].object = TRUE,
                              ![f].stray = @ \/ store[f].row = "removed"]
    /\ UNCHANGED <<ledger, cleaner, fileFaults>>

FiveMinutesPass(f) ==
    /\ store[f].fresh
    /\ store' = [store EXCEPT ![f].fresh = FALSE]
    /\ UNCHANGED <<ledger, cleaner, fileFaults>>

(***************************************************************************)
(* The owner's side.                                                       *)
(***************************************************************************)
\* addFile, updateDetails: nobody asks whether the file is (still) there.
AddUse(f) ==
    /\ store[f].row # "none" /\ ledger[f].made < MaxUses
    /\ ledger' = [ledger EXCEPT ![f].uses = @ + 1, ![f].made = @ + 1, ![f].added = @ + 1]
    /\ UNCHANGED <<store, cleaner, fileFaults>>

\* Variant: a use that is not there is deleted too.
DeleteAnyUse(f) ==
    /\ ledger' = [ledger EXCEPT ![f].uses = @ - 1, ![f].deleted = @ + 1]
    /\ UNCHANGED <<store, cleaner, fileFaults>>

\* append_deleted_file runs in the transaction that deletes the row.
DeleteUse(f) ==
    /\ ledger[f].uses > 0
    /\ ledger' = [ledger EXCEPT ![f].uses = @ - 1, ![f].deleted = @ + 1]
    /\ UNCHANGED <<store, cleaner, fileFaults>>

PublishAdded(f) ==
    /\ ledger[f].added > 0
    /\ ledger' = [ledger EXCEPT ![f].added = @ - 1, ![f].adding = @ + 1]
    /\ UNCHANGED <<store, cleaner, fileFaults>>

\* The error is logged, or the process ends after the commit.
AddedLost(f) ==
    /\ Fault /\ ledger[f].added > 0
    /\ ledger' = [ledger EXCEPT ![f].added = @ - 1, ![f].faulty = TRUE]
    /\ UNCHANGED <<store, cleaner>>

\* Variant: the rows stay in the table until they are published.
CopyDeleted ==
    /\ \A f \in Files : ledger[f].taken = 0
    /\ \E batch \in SUBSET {f \in Files : ledger[f].deleted > 0} \ {{}} :
          ledger' = [f \in Files |->
                       IF f \in batch THEN [ledger[f] EXCEPT !.taken = ledger[f].deleted]
                       ELSE ledger[f]]
    /\ UNCHANGED <<store, cleaner, fileFaults>>

\* LIMIT and SKIP LOCKED: some of the rows; the job publishes them before it takes more.
GetAndRemoveDeleted ==
    /\ \A f \in Files : ledger[f].taken = 0
    /\ \E batch \in SUBSET {f \in Files : ledger[f].deleted > 0} \ {{}} :
          ledger' = [f \in Files |->
                       IF f \in batch
                       THEN [ledger[f] EXCEPT !.taken = ledger[f].deleted, !.deleted = 0]
                       ELSE ledger[f]]
    /\ UNCHANGED <<store, cleaner, fileFaults>>

PublishRemoved ==
    /\ \E f \in Files : ledger[f].taken > 0
    /\ ledger' = [f \in Files |->
                    [ledger[f] EXCEPT !.removing = @ + ledger[f].taken, !.taken = 0]]
    /\ UNCHANGED <<store, cleaner, fileFaults>>

\* The rows were removed from the table in a transaction that has committed.
RemovedLost ==
    /\ Fault /\ \E f \in Files : ledger[f].taken > 0
    /\ ledger' = [f \in Files |->
                    [ledger[f] EXCEPT !.taken = 0,
                                      !.faulty = ledger[f].faulty \/ ledger[f].taken > 0]]
    /\ UNCHANGED <<store, cleaner>>

(***************************************************************************)
(* Counting.  An update of a missing row does nothing (incrementRef) or    *)
(* fails, and the failure is logged (decrementRef).                        *)
(***************************************************************************)
Count(f, n) ==
    store' = IF store[f].row = "stored"
             THEN [store EXCEPT ![f].count = @ + n, ![f].fresh = TRUE]
             ELSE store

IncrementRef(f) ==
    /\ ledger[f].adding > 0
    /\ Count(f, 1)
    /\ ledger' = [ledger EXCEPT ![f].adding = @ - 1]
    /\ UNCHANGED <<cleaner, fileFaults>>

\* Variant: the counts of the message are not looked at.
DecrementByOne(f) ==
    /\ \E n \in 1..ledger[f].removing :
          /\ Count(f, -1)
          /\ ledger' = [ledger EXCEPT ![f].removing = @ - n]
    /\ UNCHANGED <<cleaner, fileFaults>>

DecrementRef(f) ==
    /\ \E n \in 1..ledger[f].removing :
          /\ Count(f, -n)
          /\ ledger' = [ledger EXCEPT ![f].removing = @ - n]
    /\ UNCHANGED <<cleaner, fileFaults>>

\* An error of the database is logged and the message acknowledged.
MessageSwallowed(f) ==
    /\ Fault
    /\ \/ /\ ledger[f].adding > 0
          /\ ledger' = [ledger EXCEPT ![f].adding = @ - 1, ![f].faulty = TRUE]
       \/ \E n \in 1..ledger[f].removing :
             ledger' = [ledger EXCEPT ![f].removing = @ - n, ![f].faulty = TRUE]
    /\ UNCHANGED <<store, cleaner>>

\* The service ends after the update and before the acknowledgement: the message comes again.
CountedTwice(f) ==
    /\ Fault
    /\ \/ ledger[f].adding > 0 /\ Count(f, 1)
       \/ \E n \in 1..ledger[f].removing : Count(f, -n)
    /\ ledger' = [ledger EXCEPT ![f].faulty = TRUE]
    /\ UNCHANGED cleaner

(***************************************************************************)
(* The cleanup job: it reads the candidates, removes their rows, then the  *)
(* objects of the public bucket, then those of the private one.            *)
(***************************************************************************)
Orphaned == {f \in Files : store[f].row = "stored" /\ store[f].count <= 0}

\* Variant: the age of a row is not looked at.
NewOrphansToo == Orphaned

FilesToRemove == {f \in Orphaned : ~store[f].fresh}

GetOrphanedFiles ==
    /\ cleaner = Resting /\ FilesToRemove # {}
    /\ cleaner' = [at |-> "rows", files |-> FilesToRemove]
    /\ UNCHANGED <<store, ledger, fileFaults>>

PublicFiles == {f \in cleaner.files : store[f].public}

RemoveObjects(files) ==
    store' = [f \in Files |-> IF f \in files
                              THEN [store[f] EXCEPT !.object = FALSE]
                              ELSE store[f]]

\* Variant: the objects are removed first.
ObjectsBeforeRows ==
    /\ cleaner.at = "rows"
    /\ RemoveObjects(cleaner.files)
    /\ cleaner' = [cleaner EXCEPT !.at = "public"]
    /\ UNCHANGED <<ledger, fileFaults>>

RemoveRows ==
    /\ cleaner.at = "rows"
    /\ store' = [f \in Files |-> IF f \in cleaner.files
                                 THEN [store[f] EXCEPT !.row = "removed", !.fresh = FALSE]
                                 ELSE store[f]]
    /\ cleaner' = [cleaner EXCEPT !.at = "public"]
    /\ UNCHANGED <<ledger, fileFaults>>

\* Variant: only the public bucket is emptied.
PublicOnly ==
    /\ cleaner.at = "public"
    /\ RemoveObjects(PublicFiles)
    /\ cleaner' = Resting
    /\ UNCHANGED <<ledger, fileFaults>>

RemovePublic ==
    /\ cleaner.at = "public"
    /\ RemoveObjects(PublicFiles)
    /\ cleaner' = [at |-> "private", files |-> cleaner.files \ PublicFiles]
    /\ UNCHANGED <<ledger, fileFaults>>

RemovePrivate ==
    /\ cleaner.at = "private"
    /\ RemoveObjects(cleaner.files)
    /\ cleaner' = Resting
    /\ UNCHANGED <<ledger, fileFaults>>

\* The process ends, or the store answers with an error that is logged.
CleanupFails ==
    /\ Fault /\ cleaner.at # "idle"
    /\ store' = [f \in Files |-> IF f \in cleaner.files
                                 THEN [store[f] EXCEPT !.stray = @ \/ cleaner.at # "rows"]
                                 ELSE store[f]]
    /\ cleaner' = Resting
    /\ UNCHANGED ledger

FileStep(f) ==
    \/ GetPresignedUrl(f) \/ Upload(f) \/ FiveMinutesPass(f)
    \/ AddUse(f) \/ DeleteUse(f)
    \/ PublishAdded(f) \/ IncrementRef(f) \/ DecrementRef(f)
    \/ AddedLost(f) \/ MessageSwallowed(f) \/ CountedTwice(f)

FilesNext ==
    \/ \E f \in Files : FileStep(f)
    \/ GetAndRemoveDeleted \/ PublishRemoved \/ RemovedLost
    \/ GetOrphanedFiles \/ RemoveRows \/ RemovePublic \/ RemovePrivate \/ CleanupFails

\* Publishers answer to events and to a timer, handlers to their queues, the cleanup to a
\* timer: each runs again after it has failed.  Uploads and uses are up to the clients.
FilesFairness ==
    /\ \A f \in Files : /\ WF_fileVars(PublishAdded(f)) /\ WF_fileVars(IncrementRef(f))
                        /\ WF_fileVars(DecrementRef(f)) /\ WF_fileVars(FiveMinutesPass(f))
    /\ WF_fileVars(GetAndRemoveDeleted) /\ WF_fileVars(PublishRemoved)
    /\ WF_fileVars(GetOrphanedFiles) /\ WF_fileVars(RemoveRows)
    /\ WF_fileVars(RemovePublic) /\ WF_fileVars(RemovePrivate)

FilesSpec == FilesInit /\ [][FilesNext]_fileVars /\ FilesFairness

(***************************************************************************)
(* Properties.                                                             *)
(***************************************************************************)
FileRow == [row : {"none", "stored", "removed"}, public : BOOLEAN, count : Int,
            fresh : BOOLEAN, upload : {"none", "refused", "open", "done"},
            object : BOOLEAN, stray : BOOLEAN]

FileUse == [uses : Nat, made : Nat, added : Nat, adding : Nat,
            deleted : Nat, taken : Nat, removing : Nat, faulty : BOOLEAN]

\* The types of the rows, the numbers and the cleanup job (file.prisma, deleted_files).
FilesTypeOK ==
    /\ store \in [Files -> FileRow]
    /\ ledger \in [Files -> FileUse]
    /\ cleaner \in [at : {"idle", "rows", "public", "private"}, files : SUBSET Files]
    /\ fileFaults \in Nat

\* Of a file whose events were neither lost nor repeated, the count is the number of uses,
\* but for what is still to be announced, taken, published or counted, in whatever order
\* additions and removals come (incrementRef, decrementRef, getAndRemoveDeletedFileIds).
UsesOf(l) == l.uses - l.added - l.adding + l.deleted + l.taken + l.removing

CountIsUses ==
    \A f \in Files :
        store[f].row = "stored" /\ ~ledger[f].faulty => store[f].count = UsesOf(ledger[f])

\* The cleanup never chooses a file that is in use, unless an addition is still to be
\* counted and nothing has touched the row for five minutes, or an event was lost or repeated
\* (OrphanCleanupWorker.process).
UsedFilesNotChosen ==
    [][\A f \in Files :
          f \in cleaner'.files \ cleaner.files /\ ledger[f].uses > 0 =>
             /\ ~store[f].fresh
             /\ ledger[f].faulty \/ ledger[f].added + ledger[f].adding > 0]_fileVars

\* A file that has a row and was uploaded has its object: deleteFiles removes rows first.
StoredFilesHaveObjects ==
    \A f \in Files :
        store[f].row = "stored" /\ store[f].upload = "done" => store[f].object

\* An object without a row is one the cleanup is about to remove, or it was uploaded or left
\* by a failure when the row was gone (deleteFiles).
ObjectsAccountedFor ==
    \A f \in Files :
        store[f].row = "removed" /\ store[f].object => store[f].stray \/ f \in cleaner.files

\* A file nobody uses is removed in the end, unless it is used again or one of its events is
\* lost or repeated (FilesRemovedPublisher, FileRemovedHandler, OrphanCleanupWorker).
Unneeded(f) == store[f].row = "stored" /\ ledger[f].uses = 0

UnusedFilesRemoved ==
    \A f \in Files : Unneeded(f) ~> (~Unneeded(f) \/ ledger[f].faulty)
=============================================================================
