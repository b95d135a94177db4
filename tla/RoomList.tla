------------------------------ MODULE RoomList ------------------------------
(***************************************************************************)
(* A reader who pages through the list of rooms while rooms are created,   *)
(* removed and created again.  A cursor holds the id of the last (or the   *)
(* first) room of a page and a direction; the next page is read from that  *)
(* id on, and its first row is skipped.  The lists of identities, badges,  *)
(* chat logs and attempts are paged in the same way.                       *)
(*                                                                         *)
(* Rooms are numbered in the order of their ids.  Ids are random: a new    *)
(* room may come anywhere.  A removed room keeps its row, so that a cursor *)
(* always finds its own.                                                   *)
(***************************************************************************)
EXTENDS Integers, FiniteSets

CONSTANTS MaxRoom,   \* rooms that ever exist
          Limit,     \* rooms of a page
          MaxReads   \* bound: pages of a walk

ASSUME RoomListAssumption ==
    MaxRoom \in Nat /\ Limit \in Nat \ {0} /\ MaxReads \in Nat

Rooms == 1..MaxRoom
NoId  == 0          \* an id left out of a cursor

VARIABLES listed,   \* the rooms that are not deleted
          reader    \* the page the reader has, and the walk that led there

listVars == <<listed, reader>>

\* shown: the pages of the walk.  steady: listed since the walk began.  reads: the walk's
\* pages.  blind: those read from a cursor whose room was removed.
NoWalk == [page |-> {}, shown |-> {}, steady |-> {}, reads |-> 0, blind |-> 0]

ListInit ==
    /\ listed \in SUBSET Rooms
    /\ reader = NoWalk

(***************************************************************************)
(* findMany: rows from the cursor on, in the direction of take, less those *)
(* skipped.  The condition on isDeleted is applied before rows are skipped.*)
(***************************************************************************)
\* Variants: the row of the cursor is not skipped; a page is.
SkipNothing(id) == 0
SkipPage(id) == IF id = NoId THEN 0 ELSE Limit

Skip(id) == IF id = NoId THEN 0 ELSE 1

FromCursor(id, direction) ==
    {r \in listed : id = NoId \/ direction * r >= direction * id}

GetRoomList(id, direction) ==
    LET rows == FromCursor(id, direction)
        Rank(r) == Cardinality({s \in rows : direction * s < direction * r})
    IN  {r \in rows : Rank(r) \in Skip(id)..(Skip(id) + Limit - 1)}

LastOf(page)  == IF page = {} THEN NoId ELSE CHOOSE r \in page : \A s \in page : s <= r
FirstOf(page) == IF page = {} THEN NoId ELSE CHOOSE r \in page : \A s \in page : r <= s

\* Variant: both cursors hold the last id.
PrevFromLast(page) == GetRoomList(LastOf(page), -1)

NextPage(page) == GetRoomList(LastOf(page), 1)
PrevPage(page) == GetRoomList(FirstOf(page), -1)

(***************************************************************************)
(* The reader.                                                             *)
(***************************************************************************)
Begin(page) ==
    reader' = [page |-> page, shown |-> page, steady |-> listed, reads |-> 1, blind |-> 0]

ReadFirst == Begin(GetRoomList(NoId, 1)) /\ UNCHANGED listed

ReadNext ==
    /\ reader.reads \in 1..(MaxReads - 1)
    /\ LET page == NextPage(reader.page)
       IN  IF reader.page = {} THEN Begin(page)
           ELSE reader' = [reader EXCEPT
                             !.page = page, !.shown = @ \cup page, !.reads = @ + 1,
                             !.blind = @ + (IF LastOf(reader.page) \in listed THEN 0 ELSE 1)]
    /\ UNCHANGED listed

\* Going back begins another walk.
ReadPrev == reader.reads > 0 /\ Begin(PrevPage(reader.page)) /\ UNCHANGED listed

(***************************************************************************)
(* The rooms.                                                              *)
(***************************************************************************)
ListRoom(r) ==
    /\ r \notin listed
    /\ listed' = listed \cup {r}
    /\ UNCHANGED reader

RemoveRoom(r) ==
    /\ r \in listed
    /\ listed' = listed \ {r}
    /\ reader' = [reader EXCEPT !.steady = @ \ {r}]

ListNext ==
    \/ ReadFirst \/ ReadNext \/ ReadPrev
    \/ \E r \in Rooms : ListRoom(r) \/ RemoveRoom(r)

ListSpec == ListInit /\ [][ListNext]_listVars

(***************************************************************************)
(* Properties.                                                             *)
(***************************************************************************)
\* The types of the list and of the reader.
ListTypeOK ==
    /\ listed \subseteq Rooms
    /\ reader \in [page : SUBSET Rooms, shown : SUBSET Rooms, steady : SUBSET Rooms,
                   reads : Nat, blind : Nat]

\* A walk moves on: whatever happens to the rooms, the pages of a walk do not overlap and
\* come in the order of the list, until an empty page ends the walk (getRoomList).
WalkMovesOn ==
    [][reader'.reads > reader.reads /\ reader.reads > 0 =>
          \A r \in reader'.page, s \in reader.shown : s < r]_listVars

\* A room that was there throughout and that the walk has passed was shown, all rooms to the
\* end when it has come to an empty page; for every cursor whose room was removed before it
\* was used, one room at most is missed (cursor, skip: 1).
PassedBy == {r \in reader.steady :
               \E s \in reader.shown :
                  s <= r /\ (reader.page = {} \/ \E t \in reader.shown : r <= t)}

MissesAreBlind == Cardinality(PassedBy \ reader.shown) <= reader.blind

\* Going back from a page that is not empty leads to the page it was reached from, when the
\* rooms are still the same (prevCursor).
BackIsInverse ==
    \A id \in listed \cup {NoId} :
        LET page == GetRoomList(id, 1)
        IN  NextPage(page) # {} => PrevPage(NextPage(page)) = page

(***************************************************************************)
(* Why it holds.                                                           *)
(***************************************************************************)
\* The last room of the page is the last one shown.
WalkIsAhead ==
    reader.page # {} =>
        /\ reader.page \subseteq reader.shown
        /\ \A s \in reader.shown : s <= LastOf(reader.page)

WalkInv ==
    /\ ListTypeOK
    /\ reader.steady \subseteq listed
    /\ WalkIsAhead
    /\ MissesAreBlind
=============================================================================
