------------------------------ MODULE ArcShiftCell ------------------------------
(***************************************************************************)
(* ArcShiftCell: an ArcShift that is reloaded through &self. One thread    *)
(* uses the cells; the values of a chain are updated by whoever has an     *)
(* ArcShift of it. The ArcShift inside a cell is abstracted to the value   *)
(* it points at: how a reload gets there is modelled by ArcShift.          *)
(*                                                                         *)
(* User code is in control in every state: at the bottom of the stack, in  *)
(* the closure of a get, or in the destructor of a payload that a reload   *)
(* destroys, and may call any cell from there. A call that runs no such    *)
(* code is one step.                                                       *)
(***************************************************************************)
EXTENDS Integers, Sequences, FiniteSets

CONSTANTS
  Cells,        \* the cells the program may create
  Slots,        \* where the program keeps its ArcShiftCellHandles
  Chains,       \* chains of values, each with an ArcShift that updates it
  MaxVersion,   \* values per chain (a bound)
  MaxFrames,    \* closures and destructors inside each other (a bound)
  MaxForgets,   \* handles of a cell given to mem::forget (a bound)
  UsizeValues,  \* the number of values of a usize
  None          \* stands for no cell, no chain and no slot

ASSUME CellAssumption ==
  /\ MaxVersion \in Nat \ {0} /\ MaxFrames \in Nat /\ MaxForgets \in Nat
  /\ UsizeValues \in Nat \ {0, 1}
  /\ None \notin Cells \cup Slots \cup Chains
  /\ IsFiniteSet(Slots)
  /\ {"updater", "kept"} \cap Cells = {}

VARIABLES
  newest,       \* newest[k]: version of the newest value of chain k
  kept,         \* the values that ArcShifts in the program's hands point at
  inner,        \* inner[c]: the value the ArcShift in cell c points at
  depth,        \* Reentry.depth
  reloading,    \* Reentry.reloading
  slot,         \* slot[s]: the cell of the handle in s, and the value it was borrowed at
  frames,       \* the closures and destructors that are running, the innermost first
  destroyed,    \* values whose destructor has begun
  forgotten     \* history: how many handles of cell c were leaked

vars == <<newest, kept, inner, depth, reloading, slot, frames, destroyed, forgotten>>

Values == [chain : Chains, version : 1..MaxVersion]
NoValue == [chain |-> None, version |-> 0]
NoHandle == [cell |-> None, value |-> NoValue]

Newest(k) == [chain |-> k, version |-> newest[k]]
Exists(c) == inner[c] # NoValue

(* A frame: the closure of a get (value: what it was called with), or a    *)
(* destructor, run by a call that takes the cell to value.                 *)
Reloads == {"get", "borrow", "unborrow", "reload", "assign"}
Frame(kind, c, s, v) == [kind |-> kind, cell |-> c, slot |-> s, value |-> v]

Init ==
  /\ newest = [k \in Chains |-> 1]
  /\ kept = {}
  /\ inner = [c \in Cells |-> NoValue]
  /\ depth = [c \in Cells |-> 0]
  /\ reloading = [c \in Cells |-> FALSE]
  /\ slot = [s \in Slots |-> NoHandle]
  /\ frames = <<>>
  /\ destroyed = {}
  /\ forgotten = [c \in Cells |-> 0]

-----------------------------------------------------------------------------
(* Reentry. Where the code panics because the cell is reloading, the call   *)
(* has changed nothing: MayEnter and IsIdle guard the actions below.        *)

Raised(d) == (d + 1) % UsizeValues
Lowered(d) == (d - 1) % UsizeValues

\* mutant: only the frames and handles count
IsIdleByDepth(c) == depth[c] = 0

IsIdle(c) == depth[c] = 0 /\ ~reloading[c]

\* mutant: a destructor may get and borrow while the cell reloads
MayEnterAlways(c) == Exists(c)

MayEnter(c) == Exists(c) /\ ~reloading[c]

\* mutant: any frame may reload
IsOutermostAny(d) == d >= 1

\* is_outermost_frame, for a depth
IsOutermost(d) == d = 1

-----------------------------------------------------------------------------
(* Who refers to a value. A cell that is reloading has given its reference *)
(* back, and has one to where the reload has got.                          *)

Leaving(c) == \E i \in DOMAIN frames : frames[i].kind \in Reloads /\ frames[i].cell = c
Heading(c, v) ==
  \E i \in DOMAIN frames : frames[i].kind \in Reloads /\ frames[i].cell = c /\ frames[i].value = v

Users(v) ==
  {c \in Cells : IF Leaving(c) THEN Heading(c, v) ELSE inner[c] = v}
    \cup {u \in {"updater"} : v = Newest(v.chain)}
    \cup {u \in {"kept"} : v \in kept}

Dies(v, lastUser) == Users(v) \subseteq {lastUser}

-----------------------------------------------------------------------------
(* A call that takes cell c to value v, with slots and depths as they are  *)
(* after it was entered.                                                   *)

\* the reload is over: the closure is called, the handle is made, or the frame is left
Deliver(kind, c, s, v, below, slots, depths) ==
  /\ inner' = [inner EXCEPT ![c] = v]
  /\ frames' = IF kind = "get" THEN <<Frame("closure", c, s, v)>> \o below ELSE below
  /\ slot' = IF kind = "borrow" THEN [slots EXCEPT ![s] = [cell |-> c, value |-> v]] ELSE slots
  /\ depth' = IF kind = "unborrow" THEN [depths EXCEPT ![c] = Lowered(@)] ELSE depths

TakeTo(kind, c, s, v, slots, depths) ==
  /\ Len(frames) < MaxFrames
  /\ \/ /\ v = inner[c] \/ ~Dies(inner[c], c)
        /\ Deliver(kind, c, s, v, frames, slots, depths)
        /\ UNCHANGED <<destroyed, reloading>>
     \* the old value's destructor runs while inner is borrowed and not written yet
     \/ /\ v # inner[c] /\ Dies(inner[c], c)
        /\ frames' = <<Frame(kind, c, s, v)>> \o frames
        /\ destroyed' = destroyed \cup {inner[c]}
        /\ reloading' = [reloading EXCEPT ![c] = TRUE]
        /\ slot' = slots
        /\ depth' = depths
        /\ UNCHANGED inner
  /\ UNCHANGED <<newest, kept, forgotten>>

\* mutant: a reload moves on by one value, the newest too
OneNewerFor(c) == [inner[c] EXCEPT !.version = @ + 1]

\* where a reload or a clone of inner leads
NewestFor(c) == Newest(inner[c].chain)
Entered(c) == [depth EXCEPT ![c] = Raised(@)]

\* no handle is in it, nor on its way to it
FreeSlot(s) == slot[s] = NoHandle /\ \A i \in DOMAIN frames : frames[i].slot # s

Get(c) ==
  /\ MayEnter(c)
  /\ IF IsOutermost(Raised(depth[c]))
     THEN TakeTo("get", c, None, NewestFor(c), slot, Entered(c))
     ELSE /\ Len(frames) < MaxFrames
          /\ frames' = <<Frame("closure", c, None, inner[c])>> \o frames
          /\ depth' = Entered(c)
          /\ UNCHANGED <<newest, kept, inner, reloading, slot, destroyed, forgotten>>

Borrow(c, s) ==
  /\ MayEnter(c)
  /\ FreeSlot(s)
  /\ IF IsOutermost(Raised(depth[c]))
     THEN TakeTo("borrow", c, s, NewestFor(c), slot, Entered(c))
     ELSE /\ slot' = [slot EXCEPT ![s] = [cell |-> c, value |-> inner[c]]]
          /\ depth' = Entered(c)
          /\ UNCHANGED <<newest, kept, inner, reloading, frames, destroyed, forgotten>>

\* Drop for ArcShiftCellHandle: reload, then leave the frame
DropHandle(s) ==
  LET c == slot[s].cell
      slots == [slot EXCEPT ![s] = NoHandle]
  IN /\ slot[s] # NoHandle
     /\ IF IsOutermost(depth[c]) /\ ~reloading[c]
        THEN TakeTo("unborrow", c, None, NewestFor(c), slots, depth)
        ELSE /\ slot' = slots
             /\ depth' = [depth EXCEPT ![c] = Lowered(@)]
             /\ UNCHANGED <<newest, kept, inner, reloading, frames, destroyed, forgotten>>

\* mem::forget of a handle: its frame is never left
ForgetHandle(s) ==
  /\ slot[s] # NoHandle
  /\ forgotten[slot[s].cell] < MaxForgets
  /\ forgotten' = [forgotten EXCEPT ![slot[s].cell] = @ + 1]
  /\ slot' = [slot EXCEPT ![s] = NoHandle]
  /\ UNCHANGED <<newest, kept, inner, depth, reloading, frames, destroyed>>

Reload(c) ==
  /\ Exists(c) /\ IsIdle(c)
  /\ TakeTo("reload", c, None, NewestFor(c), slot, depth)

\* a clone of the given ArcShift is at the newest value of its chain
Assign(c, k) ==
  /\ Exists(c) /\ IsIdle(c)
  /\ TakeTo("assign", c, None, Newest(k), slot, depth)

\* where a reload that ran a destructor gets: the janitor may have been
\* disturbed, and then it starts again; assign has its clone already
Leads(f) == {f.value} \cup {v \in {Newest(f.value.chain)} : f.kind # "assign"}

\* the reload is over: its flag is lowered, and a panic of a destructor that
\* was kept goes on now, so that neither closure nor handle comes of the call
Finish(f, v) ==
  /\ reloading' = [reloading EXCEPT ![f.cell] = FALSE]
  /\ \/ Deliver(f.kind, f.cell, f.slot, v, Tail(frames), slot, depth)
     \/ /\ inner' = [inner EXCEPT ![f.cell] = v]
        /\ frames' = Tail(frames)
        /\ depth' = IF f.kind \in {"get", "borrow", "unborrow"}
                    THEN [depth EXCEPT ![f.cell] = Lowered(@)] ELSE depth
        /\ UNCHANGED slot
  /\ UNCHANGED destroyed

\* the reload goes on, with the destructor of the value it had got to
GoOn(f, v) ==
  /\ frames' = <<[f EXCEPT !.value = v]>> \o Tail(frames)
  /\ destroyed' = destroyed \cup {f.value}
  /\ UNCHANGED <<inner, depth, reloading, slot>>

\* a destructor is over, or it panicked
DestructorEnds ==
  /\ frames # <<>>
  /\ LET f == Head(frames)
     IN /\ f.kind \in Reloads
        /\ \E v \in Leads(f) :
             \/ (v = f.value \/ ~Dies(f.value, f.cell)) /\ Finish(f, v)
             \/ v # f.value /\ Dies(f.value, f.cell) /\ GoOn(f, v)
  /\ UNCHANGED <<newest, kept, forgotten>>

\* mutant: the frame is left only when the closure returns
ClosureEndsUnguarded ==
  /\ frames # <<>>
  /\ Head(frames).kind = "closure"
  /\ frames' = Tail(frames)
  /\ depth' \in {depth, [depth EXCEPT ![Head(frames).cell] = Lowered(@)]}
  /\ UNCHANGED <<newest, kept, inner, reloading, slot, destroyed, forgotten>>

\* the closure returns, or panics: the guard of the frame does the same
ClosureEnds ==
  /\ frames # <<>>
  /\ Head(frames).kind = "closure"
  /\ frames' = Tail(frames)
  /\ depth' = [depth EXCEPT ![Head(frames).cell] = Lowered(@)]
  /\ UNCHANGED <<newest, kept, inner, reloading, slot, destroyed, forgotten>>

-----------------------------------------------------------------------------
(* Making and dropping cells. No destructor runs in a clone: the node that *)
(* is cloned keeps the reference it had.                                   *)

NewCell(c, v) ==
  /\ ~Exists(c)
  /\ inner' = [inner EXCEPT ![c] = v]
  /\ UNCHANGED <<newest, depth, reloading, slot, frames, destroyed, forgotten>>

\* from_arcshift: of a new ArcShift, or of one that may be behind
FromArcShift(c) ==
  \/ \E k \in Chains : NewCell(c, Newest(k)) /\ UNCHANGED kept
  \/ \E v \in kept : NewCell(c, v) /\ kept' = kept \ {v}

Clone(c, d) == MayEnter(c) /\ NewCell(d, NewestFor(c)) /\ UNCHANGED kept

MakeArcShift(c) ==
  /\ MayEnter(c)
  /\ kept' = kept \cup {NewestFor(c)}
  /\ UNCHANGED <<newest, inner, depth, reloading, slot, frames, destroyed, forgotten>>

DropArcShift(v) ==
  /\ v \in kept
  /\ kept' = kept \ {v}
  /\ destroyed' = destroyed \cup {w \in {v} : Dies(w, "kept")}
  /\ UNCHANGED <<newest, inner, depth, reloading, slot, frames, forgotten>>

\* no borrow of the cell is left, but for handles that were forgotten
DropCell(c) ==
  /\ Exists(c)
  /\ \A s \in Slots : slot[s].cell # c
  /\ \A i \in DOMAIN frames : frames[i].cell # c
  /\ inner' = [inner EXCEPT ![c] = NoValue]
  /\ depth' = [depth EXCEPT ![c] = 0]
  /\ forgotten' = [forgotten EXCEPT ![c] = 0]
  /\ destroyed' = destroyed \cup {w \in {inner[c]} : Dies(w, c)}
  /\ UNCHANGED <<newest, kept, reloading, slot, frames>>

\* ArcShift::update by whoever has the chain, in this thread or another
Update(k) ==
  /\ newest[k] < MaxVersion
  /\ newest' = [newest EXCEPT ![k] = @ + 1]
  /\ destroyed' = destroyed \cup {w \in {Newest(k)} : Dies(w, "updater")}
  /\ UNCHANGED <<kept, inner, depth, reloading, slot, frames, forgotten>>

-----------------------------------------------------------------------------

Next ==
  \/ \E c \in Cells :
       \/ Get(c) \/ Reload(c) \/ FromArcShift(c) \/ MakeArcShift(c) \/ DropCell(c)
       \/ \E s \in Slots : Borrow(c, s)
       \/ \E k \in Chains : Assign(c, k)
       \/ \E d \in Cells : Clone(c, d)
  \/ \E s \in Slots : DropHandle(s) \/ ForgetHandle(s)
  \/ \E v \in kept : DropArcShift(v)
  \/ \E k \in Chains : Update(k)
  \/ DestructorEnds \/ ClosureEnds

Spec == Init /\ [][Next]_vars

-----------------------------------------------------------------------------
(* What the cell promises. *)

\* every variable has its type; depth is a usize
TypeOK ==
  /\ newest \in [Chains -> 1..MaxVersion]
  /\ kept \subseteq Values
  /\ inner \in [Cells -> Values \cup {NoValue}]
  /\ depth \in [Cells -> 0..(UsizeValues - 1)]
  /\ reloading \in [Cells -> BOOLEAN]
  /\ slot \in [Slots -> [cell : Cells, value : Values] \cup {NoHandle}]
  /\ frames \in Seq([kind : Reloads \cup {"closure"}, cell : Cells, slot : Slots \cup {None},
                     value : Values])
  /\ destroyed \subseteq Values
  /\ forgotten \in [Cells -> 0..MaxForgets]

Closures(c) == {i \in DOMAIN frames : frames[i].kind = "closure" /\ frames[i].cell = c}
HandlesOf(c) == {s \in Slots : slot[s].cell = c}

(* A reference the program got from a cell leads to a value whose          *)
(* destructor has not begun: the argument of a closure for as long as the  *)
(* closure runs, what a handle derefs to for as long as there is a handle  *)
(* (the SAFETY comments in cell.rs rest on it).                            *)
ReferencesLive ==
  /\ \A i \in DOMAIN frames : frames[i].kind = "closure" => frames[i].value \notin destroyed
  /\ \A s \in Slots : slot[s] # NoHandle => inner[slot[s].cell] \notin destroyed

(* A handle is a stable snapshot: it derefs to the value it was borrowed   *)
(* at, whatever happens to the chain or the cell in the meantime (the doc  *)
(* of borrow).                                                             *)
HandleIsSnapshot == \A s \in Slots : slot[s] # NoHandle => inner[slot[s].cell] = slot[s].value

MovesOn(c) ==
  Exists(c) /\ Exists(c)' /\ inner'[c].chain = inner[c].chain =>
    inner'[c].version >= inner[c].version

(* A cell never goes back to an older value of its chain, so that what get *)
(* and borrow hand out is at least as new as all they handed out before. A *)
(* reload has fixed where it goes when it runs a destructor, which may     *)
(* update the chain and call the cell: no such call may take the cell past *)
(* the value that the reload then writes (the doc of reloading).           *)
CellsMoveOn == [][\A c \in Cells : MovesOn(c)]_vars

(* depth counts the frames and handles there are, and the forgotten ones:  *)
(* no panic of a closure or a destructor leaves the cell stuck (the doc of *)
(* Reentry).                                                               *)
DepthIsExact ==
  \A c \in Cells : Exists(c) =>
    depth[c] = (Cardinality(Closures(c)) + Cardinality(HandlesOf(c)) + forgotten[c]
      + Cardinality({i \in DOMAIN frames : frames[i].cell = c /\ frames[i].kind \in {"get", "borrow", "unborrow"}}))
      % UsizeValues

(* While a reload, replace or drop of inner is under way, nothing of the   *)
(* same cell starts above it on the stack, and the flag says so for        *)
(* exactly that long (the doc of reloading).                               *)
ReloadsAreAlone ==
  \A c \in Cells :
    /\ reloading[c] <=> Leaving(c)
    /\ \A i \in DOMAIN frames : frames[i].cell = c /\ frames[i].kind \in Reloads =>
         \A j \in 1..(i - 1) : frames[j].cell # c

(* cell.rs says of a leaked handle that it "does not cause unsoundness".   *)
LeakIsSound == ReferencesLive
=============================================================================
