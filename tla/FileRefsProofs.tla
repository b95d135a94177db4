--------------------------- MODULE FileRefsProofs ---------------------------
(***************************************************************************)
(* Safety of the file references, for any files, uses and faults.  The     *)
(* inductive invariant is a statement about each file on its own: the      *)
(* types, the accounting, where its object may be, and what the cleanup    *)
(* job holds of it.                                                        *)
(***************************************************************************)
EXTENDS FileRefs, TLAPS

\* A file without a row was never used.
Untouched(s, l) ==
    /\ s.upload = "none" /\ s.count = 0 /\ ~s.object
    /\ l.uses = 0 /\ l.added = 0 /\ l.adding = 0
    /\ l.deleted = 0 /\ l.taken = 0 /\ l.removing = 0

\* What the job still holds: rows to remove, then objects of removed rows.
Held(s, at) ==
    /\ at = "rows" => s.row = "stored"
    /\ at # "rows" => s.row = "removed"

FileInv(s, l, chosen, at) ==
    /\ s \in FileRow /\ l \in FileUse
    /\ s.row = "none" => Untouched(s, l)
    /\ s.row = "stored" /\ ~l.faulty => s.count = UsesOf(l)
    /\ s.row = "stored" /\ s.upload = "done" => s.object
    /\ s.row = "removed" /\ s.object => s.stray \/ chosen
    /\ chosen => Held(s, at)

JobOK ==
    /\ cleaner \in [at : {"idle", "rows", "public", "private"}, files : SUBSET Files]
    /\ cleaner.at = "idle" => cleaner.files = {}

FilesIInv ==
    /\ store = [f \in Files |-> store[f]] /\ ledger = [f \in Files |-> ledger[f]]
    /\ JobOK /\ fileFaults \in Nat
    /\ \A f \in Files : FileInv(store[f], ledger[f], f \in cleaner.files, cleaner.at)

LEMMA FilesInitOK == FilesInit => FilesIInv
BY DEF FilesInit, FilesIInv, JobOK, FileInv, Held, Untouched, NoFile, NoUse, Resting,
       FileRow, FileUse, UsesOf

\* One record of the store, or of the ledger, changes.
LEMMA StoreChange ==
    ASSUME FilesIInv, NEW f \in Files, NEW s, UNCHANGED <<ledger, cleaner>>,
           fileFaults' \in Nat,
           store' = [store EXCEPT ![f] = s],
           FileInv(s, ledger[f], f \in cleaner.files, cleaner.at)
    PROVE  FilesIInv'
BY DEF FilesIInv, JobOK

LEMMA BothChange ==
    ASSUME FilesIInv, NEW f \in Files, NEW s, NEW l, UNCHANGED cleaner, fileFaults' \in Nat,
           store' = [store EXCEPT ![f] = s], ledger' = [ledger EXCEPT ![f] = l],
           FileInv(s, l, f \in cleaner.files, cleaner.at)
    PROVE  FilesIInv'
BY DEF FilesIInv, JobOK

LEMMA LedgerChange ==
    ASSUME FilesIInv, NEW f \in Files, NEW l, UNCHANGED <<store, cleaner>>,
           fileFaults' \in Nat, ledger' = [ledger EXCEPT ![f] = l],
           FileInv(store[f], l, f \in cleaner.files, cleaner.at)
    PROVE  FilesIInv'
BY DEF FilesIInv, JobOK

\* The changes of a ledger's record keep its type.
LEMMA UseTypes ==
    ASSUME NEW l \in FileUse, NEW a \in Nat, NEW b \in Nat, NEW c \in Nat, NEW d \in BOOLEAN
    PROVE  /\ [l EXCEPT !.uses = a, !.made = b, !.added = c] \in FileUse
           /\ [l EXCEPT !.uses = a, !.deleted = b] \in FileUse
           /\ [l EXCEPT !.added = a, !.adding = b] \in FileUse
           /\ [l EXCEPT !.added = a, !.faulty = d] \in FileUse
           /\ [l EXCEPT !.taken = a, !.deleted = b] \in FileUse
           /\ [l EXCEPT !.removing = a, !.taken = b] \in FileUse
           /\ [l EXCEPT !.taken = a, !.faulty = d] \in FileUse
           /\ [l EXCEPT !.adding = a] \in FileUse
           /\ [l EXCEPT !.removing = a] \in FileUse
           /\ [l EXCEPT !.adding = a, !.faulty = d] \in FileUse
           /\ [l EXCEPT !.removing = a, !.faulty = d] \in FileUse
BY DEF FileUse

\* The ledger moves a use from one place to the next: the sum stays.
LEMMA LedgerMoves ==
    ASSUME NEW s, NEW l, NEW k \in FileUse, NEW chosen, NEW at,
           FileInv(s, l, chosen, at), s.row # "none",
           ~k.faulty => ~l.faulty /\ UsesOf(k) = UsesOf(l)
    PROVE  FileInv(s, k, chosen, at)
BY DEF FileInv

LEMMA UrlGranted ==
    ASSUME NEW s, NEW l, NEW chosen, NEW at, FileInv(s, l, chosen, at), s.row = "none",
           NEW u \in {"refused", "open"}, NEW p \in BOOLEAN, NEW t,
           t = [s EXCEPT !.row = "stored", !.public = p, !.fresh = TRUE, !.upload = u]
    PROVE  FileInv(t, l, chosen, at)
<1>1. s \in FileRow /\ l \in FileUse /\ Untouched(s, l) /\ (chosen => Held(s, at))
  BY DEF FileInv
<1>2. /\ t \in FileRow /\ t.row = "stored" /\ t.upload # "done"
      /\ t.count = s.count
  BY <1>1 DEF FileRow
<1>3. t.count = UsesOf(l)
  BY <1>1, <1>2 DEF Untouched, UsesOf
<1>4. ~chosen
  BY <1>1 DEF Held
<1> QED BY <1>1, <1>2, <1>3, <1>4 DEF FileInv

LEMMA UploadOK ==
    ASSUME FilesIInv, NEW f \in Files,
           GetPresignedUrl(f) \/ Upload(f) \/ FiveMinutesPass(f)
    PROVE  FilesIInv'
<1> DEFINE s == store[f]
           l == ledger[f]
           chosen == f \in cleaner.files
<1>1. FileInv(s, l, chosen, cleaner.at) /\ fileFaults \in Nat
  BY DEF FilesIInv
<1>2. CASE GetPresignedUrl(f)
  <2>1. PICK u \in {"refused", "open"}, p \in BOOLEAN :
           store' = [store EXCEPT ![f].row = "stored", ![f].public = p,
                                  ![f].fresh = TRUE, ![f].upload = u]
    BY <1>2 DEF GetPresignedUrl
  <2> DEFINE t == [s EXCEPT !.row = "stored", !.public = p, !.fresh = TRUE, !.upload = u]
  <2>2. FileInv(t, l, chosen, cleaner.at)
    BY <1>1, <1>2, UrlGranted DEF GetPresignedUrl
  <2>3. store' = [store EXCEPT ![f] = t]
    BY <2>1
  <2> QED BY <2>2, <2>3, <1>1, <1>2, StoreChange DEF GetPresignedUrl
<1>3. CASE Upload(f)
  <2> DEFINE t == [s EXCEPT !.upload = "done", !.object = TRUE,
                            !.stray = s.stray \/ s.row = "removed"]
  <2>1. FileInv(t, l, chosen, cleaner.at)
    BY <1>1, <1>3 DEF Upload, FileInv, FileRow, Untouched, UsesOf, Held
  <2>2. store' = [store EXCEPT ![f] = t]
    BY <1>3 DEF Upload
  <2> QED BY <2>1, <2>2, <1>1, <1>3, StoreChange DEF Upload
<1>4. CASE FiveMinutesPass(f)
  <2> DEFINE t == [s EXCEPT !.fresh = FALSE]
  <2>1. FileInv(t, l, chosen, cleaner.at)
    BY <1>1 DEF FileInv, FileRow, Untouched, UsesOf, Held
  <2>2. store' = [store EXCEPT ![f] = t]
    BY <1>4 DEF FiveMinutesPass
  <2> QED BY <2>1, <2>2, <1>1, <1>4, StoreChange DEF FiveMinutesPass
<1> QED BY <1>2, <1>3, <1>4

LEMMA FaultCounted ==
    ASSUME FilesIInv, Fault
    PROVE  fileFaults' \in Nat
BY DEF FilesIInv, Fault

LEMMA OwnerOK ==
    ASSUME FilesIInv, NEW f \in Files,
           AddUse(f) \/ DeleteUse(f) \/ PublishAdded(f) \/ AddedLost(f)
    PROVE  FilesIInv'
<1> DEFINE s == store[f]
           l == ledger[f]
           chosen == f \in cleaner.files
<1>1. FileInv(s, l, chosen, cleaner.at) /\ fileFaults \in Nat
  BY DEF FilesIInv
<1>2. s.row # "none" \/ Untouched(s, l)
  BY <1>1 DEF FileInv
<1>3. l \in FileUse
  BY <1>1 DEF FileInv
<1>4. CASE AddUse(f)
  <2> DEFINE k == [l EXCEPT !.uses = l.uses + 1, !.made = l.made + 1, !.added = l.added + 1]
  <2>1. k \in FileUse
    <3>1. l.uses + 1 \in Nat /\ l.made + 1 \in Nat /\ l.added + 1 \in Nat
      BY <1>3 DEF FileUse
    <3> QED BY <1>3, <3>1, UseTypes
  <2>2. k.faulty = l.faulty /\ UsesOf(k) = UsesOf(l)
    BY <1>3 DEF FileUse, UsesOf
  <2>3. s.row # "none"
    BY <1>2, <1>4 DEF AddUse, Untouched
  <2>4. FileInv(s, k, chosen, cleaner.at)
    BY <1>1, <2>1, <2>2, <2>3, LedgerMoves
  <2>5. ledger' = [ledger EXCEPT ![f] = k]
    BY <1>4 DEF AddUse
  <2> QED BY <2>4, <2>5, <1>1, <1>4, LedgerChange DEF AddUse
<1>5. CASE DeleteUse(f)
  <2> DEFINE k == [l EXCEPT !.uses = l.uses - 1, !.deleted = l.deleted + 1]
  <2>1. k \in FileUse
    <3>1. l.uses - 1 \in Nat /\ l.deleted + 1 \in Nat
      BY <1>3, <1>5 DEF DeleteUse, FileUse
    <3> QED BY <1>3, <3>1, UseTypes
  <2>2. k.faulty = l.faulty /\ UsesOf(k) = UsesOf(l)
    BY <1>3 DEF FileUse, UsesOf
  <2>3. s.row # "none"
    BY <1>2, <1>5 DEF DeleteUse, Untouched
  <2>4. FileInv(s, k, chosen, cleaner.at)
    BY <1>1, <2>1, <2>2, <2>3, LedgerMoves
  <2>5. ledger' = [ledger EXCEPT ![f] = k]
    BY <1>5 DEF DeleteUse
  <2> QED BY <2>4, <2>5, <1>1, <1>5, LedgerChange DEF DeleteUse
<1>6. CASE PublishAdded(f)
  <2> DEFINE k == [l EXCEPT !.added = l.added - 1, !.adding = l.adding + 1]
  <2>1. k \in FileUse
    <3>1. l.added - 1 \in Nat /\ l.adding + 1 \in Nat
      BY <1>3, <1>6 DEF PublishAdded, FileUse
    <3> QED BY <1>3, <3>1, UseTypes
  <2>2. k.faulty = l.faulty /\ UsesOf(k) = UsesOf(l)
    BY <1>3 DEF FileUse, UsesOf
  <2>3. s.row # "none"
    BY <1>2, <1>6 DEF PublishAdded, Untouched
  <2>4. FileInv(s, k, chosen, cleaner.at)
    BY <1>1, <2>1, <2>2, <2>3, LedgerMoves
  <2>5. ledger' = [ledger EXCEPT ![f] = k]
    BY <1>6 DEF PublishAdded
  <2> QED BY <2>4, <2>5, <1>1, <1>6, LedgerChange DEF PublishAdded
<1>7. CASE AddedLost(f)
  <2> DEFINE k == [l EXCEPT !.added = l.added - 1, !.faulty = TRUE]
  <2>1. k \in FileUse
    <3>1. l.added - 1 \in Nat
      BY <1>3, <1>7 DEF AddedLost, FileUse
    <3> QED BY <1>3, <3>1, UseTypes
  <2>2. k.faulty
    BY <1>3 DEF FileUse
  <2>3. s.row # "none"
    BY <1>2, <1>7 DEF AddedLost, Untouched
  <2>4. FileInv(s, k, chosen, cleaner.at)
    BY <1>1, <2>1, <2>2, <2>3, LedgerMoves
  <2>5. ledger' = [ledger EXCEPT ![f] = k]
    BY <1>7 DEF AddedLost
  <2> QED BY <2>4, <2>5, FaultCounted, <1>7, LedgerChange DEF AddedLost
<1> QED BY <1>4, <1>5, <1>6, <1>7

(***************************************************************************)
(* Counting: the count and the ledger change together.                     *)
(***************************************************************************)
LEMMA Counted ==
    ASSUME NEW s, NEW l, NEW chosen, NEW at, FileInv(s, l, chosen, at), s.row # "none",
           NEW n \in Int, NEW k \in FileUse, NEW t,
           ~k.faulty => ~l.faulty /\ UsesOf(k) = UsesOf(l) + n,
           t = IF s.row = "stored" THEN [s EXCEPT !.count = s.count + n, !.fresh = TRUE] ELSE s
    PROVE  FileInv(t, k, chosen, at)
<1>1. s \in FileRow /\ l \in FileUse
  BY DEF FileInv
<1>2. CASE s.row = "stored"
  <2>1. s.count + n \in Int
    BY <1>1 DEF FileRow
  <2>2. /\ t \in FileRow /\ t.row = s.row /\ t.upload = s.upload
        /\ t.object = s.object /\ t.count = s.count + n
    BY <1>1, <1>2, <2>1 DEF FileRow
  <2> QED BY <1>2, <2>2 DEF FileInv, Held
<1>3. CASE s.row # "stored"
  BY <1>3 DEF FileInv
<1> QED BY <1>2, <1>3

LEMMA CountChange ==
    ASSUME FilesIInv, NEW f \in Files, NEW n \in Int, Count(f, n), UNCHANGED cleaner,
           fileFaults' \in Nat, NEW k \in FileUse, ledger' = [ledger EXCEPT ![f] = k],
           store[f].row # "none",
           ~k.faulty => ~ledger[f].faulty /\ UsesOf(k) = UsesOf(ledger[f]) + n
    PROVE  FilesIInv'
<1> DEFINE s == store[f]
           t == IF s.row = "stored" THEN [s EXCEPT !.count = s.count + n, !.fresh = TRUE] ELSE s
<1>1. FileInv(s, ledger[f], f \in cleaner.files, cleaner.at) /\ store = [g \in Files |-> store[g]]
  BY DEF FilesIInv
<1>2. FileInv(t, k, f \in cleaner.files, cleaner.at)
  <2>1. t = IF s.row = "stored" THEN [s EXCEPT !.count = s.count + n, !.fresh = TRUE] ELSE s
    OBVIOUS
  <2> HIDE DEF t
  <2> QED BY <1>1, <2>1, Counted
<1>3. store' = [store EXCEPT ![f] = t]
  BY <1>1 DEF Count
<1> HIDE DEF t
<1> QED BY <1>2, <1>3, BothChange

LEMMA CountingOK ==
    ASSUME FilesIInv, NEW f \in Files,
           IncrementRef(f) \/ DecrementRef(f) \/ MessageSwallowed(f) \/ CountedTwice(f)
    PROVE  FilesIInv'
<1> DEFINE s == store[f]
           l == ledger[f]
<1>1. /\ FileInv(s, l, f \in cleaner.files, cleaner.at) /\ fileFaults \in Nat
      /\ ledger = [g \in Files |-> ledger[g]]
  BY DEF FilesIInv
<1>2. l \in FileUse /\ (s.row # "none" \/ Untouched(s, l))
  BY <1>1 DEF FileInv
<1>3. CASE IncrementRef(f)
  <2> DEFINE k == [l EXCEPT !.adding = l.adding - 1]
  <2>1. k \in FileUse
    <3>1. l.adding - 1 \in Nat
      BY <1>2, <1>3 DEF IncrementRef, FileUse
    <3> QED BY <1>2, <3>1, UseTypes
  <2>2. k.faulty = l.faulty /\ UsesOf(k) = UsesOf(l) + 1
    BY <1>2 DEF FileUse, UsesOf
  <2>3. s.row # "none"
    BY <1>2, <1>3 DEF IncrementRef, Untouched
  <2>4. ledger' = [ledger EXCEPT ![f] = k] /\ Count(f, 1)
    BY <1>3 DEF IncrementRef
  <2> HIDE DEF k
  <2> QED BY <2>1, <2>2, <2>3, <2>4, <1>1, <1>3, CountChange DEF IncrementRef
<1>4. CASE DecrementRef(f)
  <2>1. PICK n \in 1..l.removing :
           Count(f, -n) /\ ledger' = [ledger EXCEPT ![f].removing = @ - n]
    BY <1>4 DEF DecrementRef
  <2> DEFINE k == [l EXCEPT !.removing = l.removing - n]
  <2>2. n \in Int /\ -n \in Int /\ n > 0 /\ n <= l.removing /\ l.removing - n \in Nat
    BY <1>2, <2>1 DEF FileUse
  <2>3. k \in FileUse
    BY <1>2, <2>2, UseTypes
  <2>4. k.faulty = l.faulty /\ UsesOf(k) = UsesOf(l) + (-n)
    BY <1>2, <2>2 DEF FileUse, UsesOf
  <2>5. s.row # "none"
    BY <1>2, <2>2 DEF Untouched
  <2>6. ledger' = [ledger EXCEPT ![f] = k]
    BY <2>1
  <2> HIDE DEF k
  <2> QED BY <2>1, <2>2, <2>3, <2>4, <2>5, <2>6, <1>1, <1>4, CountChange DEF DecrementRef
<1>5. CASE MessageSwallowed(f)
  <2>1. CASE /\ l.adding > 0
             /\ ledger' = [ledger EXCEPT ![f].adding = @ - 1, ![f].faulty = TRUE]
    <3> DEFINE k == [l EXCEPT !.adding = l.adding - 1, !.faulty = TRUE]
    <3>1. l.adding - 1 \in Nat
      BY <1>2, <2>1 DEF FileUse
    <3>2. k \in FileUse
      BY <1>2, <3>1, UseTypes
    <3>3. k.faulty /\ s.row # "none"
      BY <1>2, <2>1 DEF FileUse, Untouched
    <3>4. FileInv(s, k, f \in cleaner.files, cleaner.at)
      BY <1>1, <3>2, <3>3, LedgerMoves
    <3>5. ledger' = [ledger EXCEPT ![f] = k]
      BY <2>1
    <3> QED BY <3>4, <3>5, <1>5, FaultCounted, LedgerChange DEF MessageSwallowed
  <2>2. ASSUME NEW n \in 1..l.removing,
               ledger' = [ledger EXCEPT ![f].removing = @ - n, ![f].faulty = TRUE]
        PROVE  FilesIInv'
    <3> DEFINE k == [l EXCEPT !.removing = l.removing - n, !.faulty = TRUE]
    <3>1. l.removing - n \in Nat /\ l.removing > 0
      BY <1>2 DEF FileUse
    <3>2. k \in FileUse
      BY <1>2, <3>1, UseTypes
    <3>3. k.faulty /\ s.row # "none"
      BY <1>2, <3>1 DEF FileUse, Untouched
    <3>4. FileInv(s, k, f \in cleaner.files, cleaner.at)
      BY <1>1, <3>2, <3>3, LedgerMoves
    <3>5. ledger' = [ledger EXCEPT ![f] = k]
      BY <2>2
    <3> QED BY <3>4, <3>5, <1>5, FaultCounted, LedgerChange DEF MessageSwallowed
  <2> QED BY <1>5, <2>1, <2>2 DEF MessageSwallowed
<1>6. CASE CountedTwice(f)
  <2> DEFINE k == [l EXCEPT !.faulty = TRUE]
  <2>1. k \in FileUse /\ k.faulty
    BY <1>2 DEF FileUse
  <2>2. PICK n \in Int : Count(f, n)
    <3>1. ASSUME NEW m \in 1..l.removing, Count(f, -m)
          PROVE  -m \in Int
      BY <1>2 DEF FileUse
    <3> QED BY <1>6, <3>1 DEF CountedTwice
  <2>3. s.row # "none"
    BY <1>2, <1>6 DEF CountedTwice, Untouched
  <2>4. ledger' = [ledger EXCEPT ![f] = k]
    BY <1>6 DEF CountedTwice
  <2> HIDE DEF k
  <2> QED BY <2>1, <2>2, <2>3, <2>4, <1>6, FaultCounted, CountChange DEF CountedTwice
<1> QED BY <1>3, <1>4, <1>5, <1>6

(***************************************************************************)
(* The publisher's batches.                                                *)
(***************************************************************************)
LEMMA BatchChange ==
    ASSUME FilesIInv, UNCHANGED <<store, cleaner>>, fileFaults' \in Nat,
           ledger' = [f \in Files |-> ledger'[f]],
           \A f \in Files : FileInv(store[f], ledger'[f], f \in cleaner.files, cleaner.at)
    PROVE  FilesIInv'
BY DEF FilesIInv, JobOK

LEMMA BatchesOK ==
    ASSUME FilesIInv, GetAndRemoveDeleted \/ PublishRemoved \/ RemovedLost
    PROVE  FilesIInv'
<1>1. ASSUME NEW f \in Files
      PROVE  /\ FileInv(store[f], ledger[f], f \in cleaner.files, cleaner.at)
             /\ ledger[f] \in FileUse
             /\ store[f].row # "none" \/ Untouched(store[f], ledger[f])
  BY DEF FilesIInv, FileInv
<1>2. CASE GetAndRemoveDeleted
  <2>1. PICK batch \in SUBSET {f \in Files : ledger[f].deleted > 0} :
           ledger' = [f \in Files |->
                       IF f \in batch
                       THEN [ledger[f] EXCEPT !.taken = ledger[f].deleted, !.deleted = 0]
                       ELSE ledger[f]]
    BY <1>2 DEF GetAndRemoveDeleted
  <2>2. ASSUME NEW f \in Files
        PROVE  FileInv(store[f], ledger'[f], f \in cleaner.files, cleaner.at)
    <3> DEFINE l == ledger[f]
               k == [l EXCEPT !.taken = l.deleted, !.deleted = 0]
    <3>1. CASE f \notin batch
      BY <1>1, <2>1, <3>1
    <3>2. CASE f \in batch
      <4>1. k \in FileUse
        <5>1. l \in FileUse /\ l.deleted \in Nat /\ 0 \in Nat
          BY <1>1 DEF FileUse
        <5> QED BY <5>1, UseTypes
      <4>2. k.faulty = l.faulty /\ UsesOf(k) = UsesOf(l)
        <5>1. l.taken = 0
          BY <1>2 DEF GetAndRemoveDeleted
        <5> QED BY <1>1, <5>1 DEF FileUse, UsesOf
      <4>3. store[f].row # "none"
        BY <1>1, <3>2 DEF Untouched
      <4>4. ledger'[f] = k
        BY <2>1, <3>2
      <4> HIDE DEF k
      <4> QED BY <1>1, <4>1, <4>2, <4>3, <4>4, LedgerMoves
    <3> QED BY <3>1, <3>2
  <2>3. fileFaults' \in Nat /\ UNCHANGED <<store, cleaner>>
    BY <1>2 DEF GetAndRemoveDeleted, FilesIInv
  <2>4. ledger' = [f \in Files |-> ledger'[f]]
    BY <2>1
  <2> QED BY <2>2, <2>3, <2>4, BatchChange
<1>3. CASE PublishRemoved
  <2>1. ledger' = [f \in Files |->
                     [ledger[f] EXCEPT !.removing = ledger[f].removing + ledger[f].taken,
                                       !.taken = 0]]
    BY <1>3 DEF PublishRemoved
  <2>2. ASSUME NEW f \in Files
        PROVE  FileInv(store[f], ledger'[f], f \in cleaner.files, cleaner.at)
    <3> DEFINE l == ledger[f]
               k == [l EXCEPT !.removing = l.removing + l.taken, !.taken = 0]
    <3>1. k \in FileUse
      <4>1. l \in FileUse /\ l.removing + l.taken \in Nat /\ 0 \in Nat
        BY <1>1 DEF FileUse
      <4> QED BY <4>1, UseTypes
    <3>2. k.faulty = l.faulty /\ UsesOf(k) = UsesOf(l)
      BY <1>1 DEF FileUse, UsesOf
    <3>3. ledger'[f] = k
      BY <2>1
    <3>4. CASE store[f].row # "none"
      <4> HIDE DEF k
      <4> QED BY <1>1, <3>1, <3>2, <3>3, <3>4, LedgerMoves
    <3>5. CASE store[f].row = "none"
      <4>1. l \in FileUse /\ l.taken = 0 /\ l.removing + l.taken = l.removing
        BY <1>1, <3>5 DEF Untouched, FileUse
      <4>2. k = [l EXCEPT !.removing = l.removing, !.taken = l.taken]
        BY <4>1
      <4>3. k = l
        BY <4>1, <4>2 DEF FileUse
      <4> QED BY <1>1, <3>3, <4>3
    <3> QED BY <3>4, <3>5
  <2>3. fileFaults' \in Nat /\ UNCHANGED <<store, cleaner>>
    BY <1>3 DEF PublishRemoved, FilesIInv
  <2>4. ledger' = [f \in Files |-> ledger'[f]]
    BY <2>1
  <2> QED BY <2>2, <2>3, <2>4, BatchChange
<1>4. CASE RemovedLost
  <2>1. ledger' = [f \in Files |->
                     [ledger[f] EXCEPT !.taken = 0,
                                       !.faulty = ledger[f].faulty \/ ledger[f].taken > 0]]
    BY <1>4 DEF RemovedLost
  <2>2. ASSUME NEW f \in Files
        PROVE  FileInv(store[f], ledger'[f], f \in cleaner.files, cleaner.at)
    <3> DEFINE l == ledger[f]
               k == [l EXCEPT !.taken = 0, !.faulty = l.faulty \/ l.taken > 0]
    <3>1. k \in FileUse
      <4>1. l \in FileUse /\ 0 \in Nat /\ (l.faulty \/ l.taken > 0) \in BOOLEAN
        BY <1>1 DEF FileUse
      <4> QED BY <4>1, UseTypes
    <3>2. ledger'[f] = k
      BY <2>1
    <3>3. CASE l.taken > 0
      <4>1. store[f].row # "none"
        BY <1>1, <3>3 DEF FileUse, Untouched
      <4>2. k.faulty
        <5> DEFINE b == l.faulty \/ l.taken > 0
        <5>1. b
          BY <3>3
        <5> HIDE DEF b
        <5>2. [l EXCEPT !.taken = 0, !.faulty = b].faulty = b
          BY <1>1 DEF FileUse
        <5> QED BY <5>1, <5>2 DEF b
      <4> HIDE DEF k
      <4> QED BY <1>1, <3>1, <3>2, <4>1, <4>2, LedgerMoves
    <3>4. CASE ~(l.taken > 0)
      <4>1. l.taken = 0 /\ l.faulty \in BOOLEAN
        BY <1>1, <3>4 DEF FileUse
      <4>2. k = l
        BY <1>1, <3>4, <4>1 DEF FileUse
      <4> QED BY <1>1, <3>2, <4>2
    <3> QED BY <3>3, <3>4
  <2>3. fileFaults' \in Nat /\ UNCHANGED <<store, cleaner>>
    BY <1>4, FaultCounted DEF RemovedLost
  <2>4. ledger' = [f \in Files |-> ledger'[f]]
    BY <2>1
  <2> QED BY <2>2, <2>3, <2>4, BatchChange
<1> QED BY <1>2, <1>3, <1>4

(***************************************************************************)
(* The cleanup job.                                                        *)
(***************************************************************************)
LEMMA JobChange ==
    ASSUME FilesIInv, UNCHANGED ledger, fileFaults' \in Nat, JobOK',
           store' = [f \in Files |-> store'[f]],
           \A f \in Files : FileInv(store'[f], ledger[f], f \in cleaner'.files, cleaner'.at)
    PROVE  FilesIInv'
BY DEF FilesIInv

LEMMA CleanupOK ==
    ASSUME FilesIInv,
           GetOrphanedFiles \/ RemoveRows \/ RemovePublic \/ RemovePrivate \/ CleanupFails
    PROVE  FilesIInv'
<1>1. ASSUME NEW f \in Files
      PROVE  /\ FileInv(store[f], ledger[f], f \in cleaner.files, cleaner.at)
             /\ store[f] \in FileRow
  BY DEF FilesIInv, FileInv
<1>2. JobOK /\ fileFaults \in Nat /\ store = [f \in Files |-> store[f]]
  BY DEF FilesIInv
<1>3. CASE GetOrphanedFiles
  <2>1. JobOK'
    BY <1>3 DEF GetOrphanedFiles, FilesToRemove, Orphaned, JobOK
  <2>2. ASSUME NEW f \in Files
        PROVE  FileInv(store'[f], ledger[f], f \in cleaner'.files, cleaner'.at)
    BY <1>1, <1>2, <1>3 DEF GetOrphanedFiles, FilesToRemove, Orphaned, FileInv, Held, Resting
  <2> QED BY <1>2, <1>3, <2>1, <2>2, JobChange DEF GetOrphanedFiles
<1>4. CASE RemoveRows
  <2>1. JobOK'
    BY <1>2, <1>4 DEF RemoveRows, JobOK
  <2>2. ASSUME NEW f \in Files
        PROVE  FileInv(store'[f], ledger[f], f \in cleaner'.files, cleaner'.at)
    <3>1. cleaner'.files = cleaner.files /\ cleaner'.at = "public" /\ cleaner.at = "rows"
      BY <1>2, <1>4 DEF RemoveRows, JobOK
    <3>2. CASE f \in cleaner.files
      <4> DEFINE t == [store[f] EXCEPT !.row = "removed", !.fresh = FALSE]
      <4>1. t \in FileRow /\ t.row = "removed"
        BY <1>1 DEF FileRow
      <4>2. store'[f] = t
        BY <1>4, <3>2 DEF RemoveRows
      <4> HIDE DEF t
      <4> QED BY <1>1, <3>1, <3>2, <4>1, <4>2 DEF FileInv, Held
    <3>3. CASE f \notin cleaner.files
      <4>1. store'[f] = store[f]
        BY <1>4, <3>3 DEF RemoveRows
      <4> QED BY <1>1, <3>1, <3>3, <4>1 DEF FileInv
    <3> QED BY <3>2, <3>3
  <2>3. store' = [f \in Files |-> store'[f]]
    BY <1>4 DEF RemoveRows
  <2> QED BY <1>2, <1>4, <2>1, <2>2, <2>3, JobChange DEF RemoveRows
<1>5. ASSUME NEW files, RemoveObjects(files), NEW f \in Files
      PROVE  /\ store' = [g \in Files |-> store'[g]]
             /\ store'[f] \in FileRow /\ store'[f].row = store[f].row
             /\ store'[f].count = store[f].count /\ store'[f].upload = store[f].upload
             /\ store'[f].stray = store[f].stray
             /\ f \in files => ~store'[f].object
             /\ f \notin files => store'[f] = store[f]
  <2> DEFINE t == [store[f] EXCEPT !.object = FALSE]
  <2>1. /\ t \in FileRow /\ t.row = store[f].row /\ t.count = store[f].count
        /\ t.upload = store[f].upload /\ t.stray = store[f].stray /\ ~t.object
    BY <1>1 DEF FileRow
  <2>2. store' = [g \in Files |-> store'[g]]
    BY <1>5 DEF RemoveObjects
  <2>3. store'[f] = IF f \in files THEN t ELSE store[f]
    BY <1>5 DEF RemoveObjects
  <2> HIDE DEF t
  <2> QED BY <1>1, <2>1, <2>2, <2>3
<1>6. CASE RemovePublic
  <2>1. JobOK'
    BY <1>2, <1>6 DEF RemovePublic, JobOK
  <2>2. RemoveObjects(PublicFiles) /\ cleaner.at = "public"
        /\ cleaner' = [at |-> "private", files |-> cleaner.files \ PublicFiles]
        /\ PublicFiles \subseteq cleaner.files
    BY <1>6 DEF RemovePublic, PublicFiles
  <2>3. ASSUME NEW f \in Files
        PROVE  FileInv(store'[f], ledger[f], f \in cleaner'.files, cleaner'.at)
    <3>1. CASE f \in PublicFiles
      <4>1. store[f].row = "removed"
        BY <1>1, <2>2, <3>1 DEF FileInv, Held
      <4>2. /\ store'[f] \in FileRow /\ store'[f].row = "removed" /\ ~store'[f].object
            /\ f \notin cleaner'.files
        BY <1>5, <2>2, <3>1, <4>1
      <4> QED BY <1>1, <4>2 DEF FileInv
    <3>2. CASE f \notin PublicFiles
      <4>1. store'[f] = store[f] /\ (f \in cleaner'.files <=> f \in cleaner.files)
        BY <1>5, <2>2, <3>2
      <4> QED BY <1>1, <2>2, <4>1 DEF FileInv, Held
    <3> QED BY <3>1, <3>2
  <2>4. store' = [f \in Files |-> store'[f]]
    BY <2>2 DEF RemoveObjects
  <2> QED BY <1>2, <1>6, <2>1, <2>3, <2>4, JobChange DEF RemovePublic
<1>7. CASE RemovePrivate
  <2>1. JobOK'
    BY <1>7 DEF RemovePrivate, JobOK, Resting
  <2>2. RemoveObjects(cleaner.files) /\ cleaner.at = "private"
        /\ cleaner' = [at |-> "idle", files |-> {}]
    BY <1>7 DEF RemovePrivate, Resting
  <2>3. ASSUME NEW f \in Files
        PROVE  FileInv(store'[f], ledger[f], f \in cleaner'.files, cleaner'.at)
    <3>1. CASE f \in cleaner.files
      <4>1. store[f].row = "removed"
        BY <1>1, <2>2, <3>1 DEF FileInv, Held
      <4>2. /\ store'[f] \in FileRow /\ store'[f].row = "removed" /\ ~store'[f].object
            /\ f \notin cleaner'.files
        BY <1>5, <2>2, <3>1, <4>1
      <4> QED BY <1>1, <4>2 DEF FileInv
    <3>2. CASE f \notin cleaner.files
      <4>1. store'[f] = store[f] /\ (f \in cleaner'.files <=> f \in cleaner.files)
        BY <1>5, <2>2, <3>2
      <4> QED BY <1>1, <2>2, <4>1 DEF FileInv, Held
    <3> QED BY <3>1, <3>2
  <2>4. store' = [f \in Files |-> store'[f]]
    BY <2>2 DEF RemoveObjects
  <2> QED BY <1>2, <1>7, <2>1, <2>3, <2>4, JobChange DEF RemovePrivate
<1>8. CASE CleanupFails
  <2>1. JobOK'
    BY <1>8 DEF CleanupFails, JobOK, Resting
  <2>2. ASSUME NEW f \in Files
        PROVE  FileInv(store'[f], ledger[f], f \in cleaner'.files, cleaner'.at)
    <3>1. cleaner' = [at |-> "idle", files |-> {}]
      BY <1>8 DEF CleanupFails, Resting
    <3>2. CASE f \in cleaner.files
      <4> DEFINE b == store[f].stray \/ cleaner.at # "rows"
                 t == [store[f] EXCEPT !.stray = b]
      <4>1. b \in BOOLEAN
        BY <1>1 DEF FileRow
      <4>2. /\ t \in FileRow /\ t.row = store[f].row /\ t.count = store[f].count
            /\ t.upload = store[f].upload /\ t.object = store[f].object /\ t.stray = b
        <5> HIDE DEF b
        <5> QED BY <1>1, <4>1 DEF FileRow
      <4>3. store'[f] = t
        BY <1>8, <3>2 DEF CleanupFails
      <4> HIDE DEF t
      <4> QED BY <1>1, <3>1, <3>2, <4>1, <4>2, <4>3 DEF FileInv, Held, Untouched
    <3>3. CASE f \notin cleaner.files
      <4>1. store'[f] = store[f]
        BY <1>8, <3>3 DEF CleanupFails
      <4> QED BY <1>1, <3>1, <3>3, <4>1 DEF FileInv
    <3> QED BY <3>2, <3>3
  <2>3. store' = [f \in Files |-> store'[f]]
    BY <1>8 DEF CleanupFails
  <2> QED BY <1>8, <2>1, <2>2, <2>3, FaultCounted, JobChange DEF CleanupFails
<1> QED BY <1>3, <1>4, <1>6, <1>7, <1>8

(***************************************************************************)
(* The theorems.                                                           *)
(***************************************************************************)
LEMMA FilesStepOK == FilesIInv /\ [FilesNext]_fileVars => FilesIInv'
<1> SUFFICES ASSUME FilesIInv, [FilesNext]_fileVars PROVE FilesIInv'
  OBVIOUS
<1>1. ASSUME NEW f \in Files, FileStep(f) PROVE FilesIInv'
  BY <1>1, UploadOK, OwnerOK, CountingOK DEF FileStep
<1>2. CASE GetAndRemoveDeleted \/ PublishRemoved \/ RemovedLost
  BY <1>2, BatchesOK
<1>3. CASE GetOrphanedFiles \/ RemoveRows \/ RemovePublic \/ RemovePrivate \/ CleanupFails
  BY <1>3, CleanupOK
<1>4. CASE UNCHANGED fileVars
  BY <1>4 DEF fileVars, FilesIInv, JobOK
<1> QED BY <1>1, <1>2, <1>3, <1>4 DEF FilesNext

THEOREM FilesInvariant == FilesSpec => []FilesIInv
BY FilesInitOK, FilesStepOK, PTL DEF FilesSpec

\* The rows, the numbers and the cleanup job keep their types.
THEOREM FilesTypeCorrect == FilesSpec => []FilesTypeOK
<1>1. FilesIInv => FilesTypeOK
  BY DEF FilesIInv, FilesTypeOK, FileInv, JobOK
<1> QED BY <1>1, FilesInvariant, PTL

\* The count of a file is the number of its uses, but for what is still on its way.
THEOREM CountsFollowUses == FilesSpec => []CountIsUses
<1>1. FilesIInv => CountIsUses
  BY DEF FilesIInv, CountIsUses, FileInv
<1> QED BY <1>1, FilesInvariant, PTL

\* A file with a row that was uploaded has its object.
THEOREM RowsImplyObjects == FilesSpec => []StoredFilesHaveObjects
<1>1. FilesIInv => StoredFilesHaveObjects
  BY DEF FilesIInv, StoredFilesHaveObjects, FileInv
<1> QED BY <1>1, FilesInvariant, PTL

\* An object without a row is about to be removed, or came or was left when the row was gone.
THEOREM ObjectsExplained == FilesSpec => []ObjectsAccountedFor
<1>1. FilesIInv => ObjectsAccountedFor
  BY DEF FilesIInv, ObjectsAccountedFor, FileInv
<1> QED BY <1>1, FilesInvariant, PTL

LEMMA ChosenAreUnused ==
    FilesIInv /\ [FilesNext]_fileVars =>
       \A f \in Files :
          f \in cleaner'.files \ cleaner.files /\ ledger[f].uses > 0 =>
             /\ ~store[f].fresh
             /\ ledger[f].faulty \/ ledger[f].added + ledger[f].adding > 0
<1> SUFFICES ASSUME FilesIInv, [FilesNext]_fileVars, NEW f \in Files,
                    f \in cleaner'.files \ cleaner.files, ledger[f].uses > 0
             PROVE  /\ ~store[f].fresh
                    /\ ledger[f].faulty \/ ledger[f].added + ledger[f].adding > 0
  OBVIOUS
<1>1. FileInv(store[f], ledger[f], f \in cleaner.files, cleaner.at)
  BY DEF FilesIInv
<1>2. GetOrphanedFiles
  <2>1. ASSUME NEW g \in Files, FileStep(g) PROVE UNCHANGED cleaner
    BY <2>1 DEF FileStep, GetPresignedUrl, Upload, FiveMinutesPass, AddUse, DeleteUse,
         PublishAdded, IncrementRef, DecrementRef, AddedLost, MessageSwallowed, CountedTwice
  <2>2. CASE GetAndRemoveDeleted \/ PublishRemoved \/ RemovedLost \/ UNCHANGED fileVars
    BY <2>2 DEF GetAndRemoveDeleted, PublishRemoved, RemovedLost, fileVars
  <2>3. CASE RemoveRows \/ RemovePublic \/ RemovePrivate \/ CleanupFails
    <3>1. cleaner'.files \subseteq cleaner.files
      <4>1. CASE RemoveRows
        BY <4>1 DEF RemoveRows, FilesIInv, JobOK
      <4>2. CASE RemovePublic
        BY <4>2 DEF RemovePublic
      <4>3. CASE RemovePrivate \/ CleanupFails
        BY <4>3 DEF RemovePrivate, CleanupFails, Resting
      <4> QED BY <2>3, <4>1, <4>2, <4>3
    <3> QED BY <3>1
  <2> QED BY <2>1, <2>2, <2>3 DEF FilesNext
<1>3. store[f].row = "stored" /\ store[f].count <= 0 /\ ~store[f].fresh
  BY <1>2 DEF GetOrphanedFiles, FilesToRemove, Orphaned
<1>4. CASE ~ledger[f].faulty
  <2>1. UsesOf(ledger[f]) <= 0 /\ ledger[f] \in FileUse
    BY <1>1, <1>3, <1>4 DEF FileInv
  <2> QED BY <1>3, <2>1 DEF UsesOf, FileUse
<1> QED BY <1>3, <1>4

\* A file in use is chosen only when an addition is still to be counted, or was lost.
THEOREM UsedFilesSafe == FilesSpec => UsedFilesNotChosen
BY ChosenAreUnused, FilesInvariant, PTL DEF FilesSpec, UsedFilesNotChosen
=============================================================================
