----------------------------- MODULE MCServices -----------------------------
(***************************************************************************)
(* The smaller services for TLC.  They share no state, so that a behaviour *)
(* in which several of them move shows nothing that their own behaviours   *)
(* do not: focus chooses the one that moves, the others stay as they are.  *)
(***************************************************************************)
EXTENDS FileRefs, Identities, Tokens, Ownership, RoomList, Grading

VARIABLE focus

Services == {"files", "identities", "tokens", "ownership", "rooms", "grading"}

ServicesInit ==
    /\ focus \in Services
    /\ FilesInit /\ IdInit /\ TokensInit /\ OwnInit /\ ListInit /\ GradeInit
    /\ listed # {} => focus = "rooms"

FilesMove      == focus = "files"      /\ FilesNext
IdentitiesMove == focus = "identities" /\ IdNext
TokensMove     == focus = "tokens"     /\ TokensNext
OwnershipMove  == focus = "ownership"  /\ OwnNext
RoomsMove      == focus = "rooms"      /\ ListNext
GradingMove    == focus = "grading"    /\ GradeNext

ServicesNext ==
    /\ UNCHANGED focus
    /\ \/ FilesMove /\ UNCHANGED <<idVars, tokenVars, ownVars, listVars, gradeVars>>
       \/ IdentitiesMove /\ UNCHANGED <<fileVars, tokenVars, ownVars, listVars, gradeVars>>
       \/ TokensMove /\ UNCHANGED <<fileVars, idVars, ownVars, listVars, gradeVars>>
       \/ OwnershipMove /\ UNCHANGED <<fileVars, idVars, tokenVars, listVars, gradeVars>>
       \/ RoomsMove /\ UNCHANGED <<fileVars, idVars, tokenVars, ownVars, gradeVars>>
       \/ GradingMove /\ UNCHANGED <<fileVars, idVars, tokenVars, ownVars, listVars>>

\* Nothing that has to be fair is enabled in a service that stays as it is.
ServicesSpec ==
    /\ ServicesInit
    /\ [][ServicesNext]_<<focus, fileVars, idVars, tokenVars, ownVars, listVars, gradeVars>>
    /\ FilesFairness /\ OwnFairness /\ GradeFairness
=============================================================================
