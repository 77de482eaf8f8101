------------------------------ MODULE ArcShiftCellInv ------------------------------
(***************************************************************************)
(* The inductive invariant of ArcShiftCell: its promises and what they     *)
(* rest on. TLC checks it, ArcShiftCellProofs proves it.                   *)
(***************************************************************************)
EXTENDS ArcShiftCell

(* Fewer closures and handles, the forgotten ones included, than a usize   *)
(* counts. The run leaks shows what happens to a cell otherwise.           *)
DepthSuffices == MaxFrames + Cardinality(Slots) + MaxForgets < UsizeValues

\* the cell of a handle is not dropped
HandlesExist == \A s \in Slots : slot[s] # NoHandle => Exists(slot[s].cell)

-----------------------------------------------------------------------------
(* What the cell keeps track of. *)

\* a destructor that runs inside a borrow keeps the slot of the handle to come free
SlotsReserved ==
  \A i \in DOMAIN frames :
    IF frames[i].kind = "borrow"
    THEN /\ frames[i].slot \in Slots /\ slot[frames[i].slot] = NoHandle
         /\ \A j \in DOMAIN frames : frames[j].slot = frames[i].slot => j = i
    ELSE frames[i].slot = None

\* DepthIsExact, where there is no cell too
DepthCounts ==
  \A c \in Cells :
    depth[c] = (Cardinality(Closures(c)) + Cardinality(HandlesOf(c)) + forgotten[c]
      + Cardinality({i \in DOMAIN frames : frames[i].cell = c /\ frames[i].kind \in {"get", "borrow", "unborrow"}}))
      % UsizeValues

-----------------------------------------------------------------------------
(* Where values and cells are. *)

\* nothing newer than the newest is referred to, or was ever there
NothingNewer ==
  /\ \A v \in kept \cup destroyed : v.version <= newest[v.chain]
  /\ \A c \in Cells : Exists(c) => inner[c].version <= newest[inner[c].chain]
  /\ \A i \in DOMAIN frames : frames[i].value.version <= newest[frames[i].value.chain]

(* A reload is on its way to a value at least as new as where its cell is: *)
(* a cell does not move while it reloads.                                  *)
ReloadsLeadOn ==
  \A i \in DOMAIN frames : frames[i].kind \in Reloads =>
    /\ Exists(frames[i].cell)
    /\ frames[i].value.chain = inner[frames[i].cell].chain =>
         frames[i].value.version >= inner[frames[i].cell].version

-----------------------------------------------------------------------------
(* What is lent. *)

(* A cell is reloaded when nothing of it is in use, and stays so: no other *)
(* frame of that cell, above or below, and no handle.                      *)
ReloadsUndisturbed ==
  \A i \in DOMAIN frames : frames[i].kind \in Reloads =>
    /\ \A j \in DOMAIN frames : frames[j].cell = frames[i].cell => j = i
    /\ \A s \in Slots : slot[s].cell # frames[i].cell

\* the argument of a closure is what the cell points at for as long as it runs
ClosuresSnapshot ==
  \A i \in DOMAIN frames : frames[i].kind = "closure" => inner[frames[i].cell] = frames[i].value

\* a destructor runs when nobody refers to its value, and nobody will again
DestroyedUnused == \A v \in destroyed : Users(v) = {}

-----------------------------------------------------------------------------

CellInv == TypeOK /\ HandlesExist /\ ReloadsAreAlone

\* what holds whatever the size of a usize
AheadInv == NothingNewer /\ ReloadsLeadOn
DepthInv == DepthCounts /\ SlotsReserved /\ Len(frames) <= MaxFrames

\* what holds when depth does not wrap
LoanInv == ReloadsUndisturbed /\ ClosuresSnapshot /\ HandleIsSnapshot /\ DestroyedUnused

(* The inductive invariant: whatever re-enters a cell, its counters tell    *)
(* what is open, and what it has lent is neither left nor destroyed.       *)
CellSafe == CellInv /\ DepthInv /\ AheadInv /\ LoanInv
=============================================================================
