--------------------------- MODULE ArcShiftCellProofs ---------------------------
(***************************************************************************)
(* Proofs about ArcShiftCell, however many cells, chains, handles,         *)
(* closures and destructors there are: every variable keeps its type,      *)
(* while a cell reloads nothing of that cell starts above it on the stack, *)
(* no cell goes back to an older value of its chain, and depth counts the  *)
(* closures and handles modulo the size of a usize. Where a usize counts   *)
(* all there can be, a handle derefs to one value for as long as it is     *)
(* there, and no reference the program got from a cell outlives its value. *)
(***************************************************************************)
EXTENDS ArcShiftCellInv, FiniteSetTheorems, TLAPS

FrameType ==
  [kind : Reloads \cup {"closure"}, cell : Cells, slot : Slots \cup {None},
   value : Values]

\* ReloadsAreAlone, for any stack and any flags
Alone(fs, rs) ==
  \A c \in Cells :
    /\ rs[c] <=> \E i \in DOMAIN fs : fs[i].kind \in Reloads /\ fs[i].cell = c
    /\ \A i \in DOMAIN fs : fs[i].cell = c /\ fs[i].kind \in Reloads =>
         \A j \in 1..(i - 1) : fs[j].cell # c

-----------------------------------------------------------------------------
(* The stack: what is pushed is on top, the rest moves down or up by one.   *)

(* A frame on top of the stack moves the others down by one. *)
LEMMA PushFrame ==
  ASSUME NEW S, NEW fs \in Seq(S), NEW x \in S
  PROVE  /\ <<x>> \o fs \in Seq(S)
         /\ Len(<<x>> \o fs) = Len(fs) + 1
         /\ DOMAIN (<<x>> \o fs) = 1..(Len(fs) + 1)
         /\ (<<x>> \o fs)[1] = x
         /\ \A i \in 2..(Len(fs) + 1) : (<<x>> \o fs)[i] = fs[i - 1]
  OBVIOUS

(* Without its top frame, the others move up by one. *)
LEMMA PopFrame ==
  ASSUME NEW S, NEW fs \in Seq(S), fs # <<>>
  PROVE  /\ Tail(fs) \in Seq(S)
         /\ DOMAIN Tail(fs) = 1..(Len(fs) - 1)
         /\ Head(fs) = fs[1] /\ Head(fs) \in S
         /\ Len(fs) \in Nat \ {0}
         /\ \A i \in 1..(Len(fs) - 1) : Tail(fs)[i] = fs[i + 1]
  OBVIOUS

(* On top of the stack, and without its top. *)
LEMMA OnTop ==
  ASSUME NEW fs \in Seq(FrameType), NEW x \in FrameType
  PROVE  /\ \A i \in DOMAIN (<<x>> \o fs) :
              \/ i = 1 /\ (<<x>> \o fs)[i] = x
              \/ i - 1 \in DOMAIN fs /\ i # 1 /\ (<<x>> \o fs)[i] = fs[i - 1]
         /\ \A i, j \in DOMAIN (<<x>> \o fs) : i - 1 = j - 1 => i = j
<1> DEFINE q == <<x>> \o fs
<1>1. /\ DOMAIN q = 1..(Len(fs) + 1) /\ q[1] = x
      /\ \A i \in 2..(Len(fs) + 1) : q[i] = fs[i - 1]
      /\ Len(fs) \in Nat /\ DOMAIN fs = 1..Len(fs)
  BY PushFrame
<1> HIDE DEF q
<1>2. \A i \in DOMAIN q : (i = 1 /\ q[i] = x) \/ (i - 1 \in DOMAIN fs /\ i # 1 /\ q[i] = fs[i - 1])
  BY <1>1
<1>3. \A i, j \in DOMAIN q : i - 1 = j - 1 => i = j
  BY <1>1
<1> QED BY <1>2, <1>3 DEF q

(* Whatever is on the stack after a push was there, or is what was pushed. *)
LEMMA Above ==
  ASSUME NEW fs \in Seq(FrameType), NEW x \in FrameType, NEW q, q = fs \/ q = <<x>> \o fs
  PROVE  \A i \in DOMAIN q : q[i] = x \/ \E j \in DOMAIN fs : q[i] = fs[j]
<1> DEFINE p == <<x>> \o fs
<1>1. \A i \in DOMAIN p : (i = 1 /\ p[i] = x) \/ (i - 1 \in DOMAIN fs /\ i # 1 /\ p[i] = fs[i - 1])
  BY OnTop
<1>2. q = fs \/ q = p
  OBVIOUS
<1> HIDE DEF p
<1> QED BY <1>1, <1>2

(* The frames below the top one are where they were, one position down. *)
LEMMA BelowTop ==
  ASSUME NEW fs \in Seq(FrameType), fs # <<>>
  PROVE  /\ 1 \in DOMAIN fs /\ Head(fs) = fs[1] /\ fs[1] \in FrameType
         /\ \A i \in DOMAIN Tail(fs) : i + 1 \in DOMAIN fs /\ i + 1 # 1 /\ Tail(fs)[i] = fs[i + 1]
         /\ \A i, j \in DOMAIN Tail(fs) : i + 1 = j + 1 => i = j
<1> DEFINE q == Tail(fs)
<1>1. /\ DOMAIN q = 1..(Len(fs) - 1) /\ Head(fs) = fs[1] /\ fs[1] \in FrameType
      /\ \A i \in 1..(Len(fs) - 1) : q[i] = fs[i + 1]
      /\ Len(fs) \in Nat \ {0} /\ DOMAIN fs = 1..Len(fs)
  BY PopFrame
<1> HIDE DEF q
<1>2. \A i \in DOMAIN q : i + 1 \in DOMAIN fs /\ i + 1 # 1 /\ q[i] = fs[i + 1]
  BY <1>1
<1>3. \A i, j \in DOMAIN q : i + 1 = j + 1 => i = j
  BY <1>1
<1>4. 1 \in DOMAIN fs /\ Head(fs) = fs[1] /\ fs[1] \in FrameType
  BY <1>1
<1> QED BY <1>2, <1>3, <1>4 DEF q

(* A call that enters a cell that is not reloading, and raises the flag,    *)
(* has nothing of that cell's reloads below it.                             *)
LEMMA PushReload ==
  ASSUME NEW fs \in Seq(FrameType), NEW rs \in [Cells -> BOOLEAN], Alone(fs, rs),
         NEW x \in FrameType, x.kind \in Reloads, ~rs[x.cell]
  PROVE  Alone(<<x>> \o fs, [rs EXCEPT ![x.cell] = TRUE])
<1> DEFINE q == <<x>> \o fs
<1> DEFINE r == [rs EXCEPT ![x.cell] = TRUE]
<1>1. /\ DOMAIN q = 1..(Len(fs) + 1) /\ q[1] = x
      /\ \A i \in 2..(Len(fs) + 1) : q[i] = fs[i - 1]
      /\ Len(fs) \in Nat /\ DOMAIN fs = 1..Len(fs)
  BY PushFrame
<1>2. x.cell \in Cells
  BY DEF FrameType
<1>3. \A i \in DOMAIN fs : ~(fs[i].kind \in Reloads /\ fs[i].cell = x.cell)
  BY <1>2 DEF Alone
<1> HIDE DEF q
<1> SUFFICES ASSUME NEW c \in Cells
             PROVE  /\ r[c] <=> \E i \in DOMAIN q : q[i].kind \in Reloads /\ q[i].cell = c
                    /\ \A i \in DOMAIN q : q[i].cell = c /\ q[i].kind \in Reloads =>
                         \A j \in 1..(i - 1) : q[j].cell # c
  BY DEF Alone, q
<1>4. CASE c = x.cell
  <2>1. r[c] /\ 1 \in DOMAIN q /\ q[1].kind \in Reloads /\ q[1].cell = c
    BY <1>1, <1>2, <1>4
  <2>2. \A i \in DOMAIN q : q[i].cell = c /\ q[i].kind \in Reloads => i = 1
    BY <1>1, <1>3, <1>4
  <2> QED BY <2>1, <2>2
<1>5. CASE c # x.cell
  <2>1. r[c] = rs[c]
    BY <1>5
  <2>2. \A i \in DOMAIN q : q[i].cell = c => i \in 2..(Len(fs) + 1) /\ i - 1 \in DOMAIN fs /\ q[i] = fs[i - 1]
    BY <1>1, <1>5
  <2>3. \A i \in DOMAIN fs : i + 1 \in DOMAIN q /\ q[i + 1] = fs[i]
    BY <1>1
  <2>4. r[c] <=> \E i \in DOMAIN q : q[i].kind \in Reloads /\ q[i].cell = c
    <3>1. rs[c] <=> \E i \in DOMAIN fs : fs[i].kind \in Reloads /\ fs[i].cell = c
      BY DEF Alone
    <3>2. ASSUME NEW i \in DOMAIN fs, fs[i].kind \in Reloads, fs[i].cell = c
          PROVE  \E k \in DOMAIN q : q[k].kind \in Reloads /\ q[k].cell = c
      BY <2>3, <3>2
    <3>3. ASSUME NEW i \in DOMAIN q, q[i].kind \in Reloads, q[i].cell = c
          PROVE  \E k \in DOMAIN fs : fs[k].kind \in Reloads /\ fs[k].cell = c
      BY <2>2, <3>3
    <3> HIDE DEF r
    <3> QED BY <2>1, <3>1, <3>2, <3>3
  <2>5. ASSUME NEW i \in DOMAIN q, q[i].cell = c, q[i].kind \in Reloads,
               NEW j \in 1..(i - 1)
        PROVE  q[j].cell # c
    <3>1. i - 1 \in DOMAIN fs /\ fs[i - 1].cell = c /\ fs[i - 1].kind \in Reloads
      BY <2>2, <2>5
    <3>2. \A k \in 1..(i - 2) : fs[k].cell # c
      BY <3>1, <1>1 DEF Alone
    <3>3. CASE j = 1
      BY <3>3, <1>1, <1>5
    <3>4. CASE j # 1
      <4>1. j \in DOMAIN q /\ j \in 2..(Len(fs) + 1) /\ j - 1 \in 1..(i - 2)
        BY <3>4, <1>1
      <4> QED BY <4>1, <3>2, <1>1
    <3> QED BY <3>3, <3>4
  <2> QED BY <2>4, <2>5
<1> QED BY <1>4, <1>5

(* A closure may be called on top of a cell that is not reloading. *)
LEMMA PushClosure ==
  ASSUME NEW fs \in Seq(FrameType), NEW rs \in [Cells -> BOOLEAN], Alone(fs, rs),
         NEW x \in FrameType, x.kind \notin Reloads, ~rs[x.cell]
  PROVE  Alone(<<x>> \o fs, rs)
<1> DEFINE q == <<x>> \o fs
<1>1. /\ DOMAIN q = 1..(Len(fs) + 1) /\ q[1] = x
      /\ \A i \in 2..(Len(fs) + 1) : q[i] = fs[i - 1]
      /\ Len(fs) \in Nat /\ DOMAIN fs = 1..Len(fs)
  BY PushFrame
<1>2. \A i \in DOMAIN fs : ~(fs[i].kind \in Reloads /\ fs[i].cell = x.cell)
  BY DEF Alone, FrameType
<1> HIDE DEF q
<1> SUFFICES ASSUME NEW c \in Cells
             PROVE  /\ rs[c] <=> \E i \in DOMAIN q : q[i].kind \in Reloads /\ q[i].cell = c
                    /\ \A i \in DOMAIN q : q[i].cell = c /\ q[i].kind \in Reloads =>
                         \A j \in 1..(i - 1) : q[j].cell # c
  BY DEF Alone, q
<1>3. \A i \in DOMAIN q : q[i].kind \in Reloads =>
        i \in 2..(Len(fs) + 1) /\ i - 1 \in DOMAIN fs /\ q[i] = fs[i - 1]
  BY <1>1
<1>4. \A i \in DOMAIN fs : i + 1 \in DOMAIN q /\ q[i + 1] = fs[i]
  BY <1>1
<1>5. rs[c] <=> \E i \in DOMAIN q : q[i].kind \in Reloads /\ q[i].cell = c
  <2>1. rs[c] <=> \E i \in DOMAIN fs : fs[i].kind \in Reloads /\ fs[i].cell = c
    BY DEF Alone
  <2>2. ASSUME NEW i \in DOMAIN fs, fs[i].kind \in Reloads, fs[i].cell = c
        PROVE  \E k \in DOMAIN q : q[k].kind \in Reloads /\ q[k].cell = c
    BY <1>4, <2>2
  <2>3. ASSUME NEW i \in DOMAIN q, q[i].kind \in Reloads, q[i].cell = c
        PROVE  \E k \in DOMAIN fs : fs[k].kind \in Reloads /\ fs[k].cell = c
    BY <1>3, <2>3
  <2> QED BY <2>1, <2>2, <2>3
<1>6. ASSUME NEW i \in DOMAIN q, q[i].cell = c, q[i].kind \in Reloads,
             NEW j \in 1..(i - 1)
      PROVE  q[j].cell # c
  <2>1. i - 1 \in DOMAIN fs /\ fs[i - 1].cell = c /\ fs[i - 1].kind \in Reloads
    BY <1>3, <1>6
  <2>2. \A k \in 1..(i - 2) : fs[k].cell # c
    BY <2>1, <1>1 DEF Alone
  <2>3. CASE j = 1
    BY <2>3, <2>1, <1>1, <1>2
  <2>4. CASE j # 1
    <3>1. j \in 2..(Len(fs) + 1) /\ j - 1 \in 1..(i - 2)
      BY <2>4, <1>1
    <3> QED BY <3>1, <2>2, <1>1
  <2> QED BY <2>3, <2>4
<1> QED BY <1>5, <1>6

(* When the call on top is over, its cell's flag is lowered; no other       *)
(* reload of that cell is left.                                             *)
LEMMA PopReload ==
  ASSUME NEW fs \in Seq(FrameType), fs # <<>>, NEW rs \in [Cells -> BOOLEAN], Alone(fs, rs),
         Head(fs).kind \in Reloads
  PROVE  Alone(Tail(fs), [rs EXCEPT ![Head(fs).cell] = FALSE])
<1> DEFINE q == Tail(fs)
<1> DEFINE r == [rs EXCEPT ![Head(fs).cell] = FALSE]
<1>0. /\ DOMAIN q = 1..(Len(fs) - 1) /\ Head(fs) = fs[1] /\ fs[1] \in FrameType
      /\ \A i \in 1..(Len(fs) - 1) : q[i] = fs[i + 1]
      /\ Len(fs) \in Nat \ {0} /\ DOMAIN fs = 1..Len(fs)
  BY PopFrame
<1>1. /\ DOMAIN q = 1..(Len(fs) - 1) /\ Head(fs) = fs[1] /\ fs[1].cell \in Cells
      /\ \A i \in 1..(Len(fs) - 1) : q[i] = fs[i + 1]
      /\ Len(fs) \in Nat \ {0} /\ DOMAIN fs = 1..Len(fs)
  BY <1>0 DEF FrameType
<1> HIDE DEF q
<1>2. \A i \in DOMAIN q : i + 1 \in DOMAIN fs /\ q[i] = fs[i + 1]
  BY <1>1
<1>3. \A i \in DOMAIN fs : i # 1 => i - 1 \in DOMAIN q /\ q[i - 1] = fs[i]
  BY <1>1
<1> SUFFICES ASSUME NEW c \in Cells
             PROVE  /\ r[c] <=> \E i \in DOMAIN q : q[i].kind \in Reloads /\ q[i].cell = c
                    /\ \A i \in DOMAIN q : q[i].cell = c /\ q[i].kind \in Reloads =>
                         \A j \in 1..(i - 1) : q[j].cell # c
  BY DEF Alone, q
<1>4. \A i \in DOMAIN fs : i # 1 /\ fs[i].kind \in Reloads => fs[i].cell # fs[1].cell
  <2> SUFFICES ASSUME NEW i \in DOMAIN fs, i # 1, fs[i].kind \in Reloads, fs[i].cell = fs[1].cell
               PROVE  FALSE
    OBVIOUS
  <2>1. 1 \in 1..(i - 1)
    BY <1>1
  <2> QED BY <2>1, <1>1 DEF Alone
<1>5. r[c] <=> \E i \in DOMAIN q : q[i].kind \in Reloads /\ q[i].cell = c
  <2>1. CASE c = fs[1].cell
    <3>1. ~r[c]
      BY <2>1, <1>1
    <3>2. \A i \in DOMAIN q : q[i].kind \in Reloads => q[i].cell # c
      BY <2>1, <1>1, <1>2, <1>4
    <3> HIDE DEF r
    <3> QED BY <3>1, <3>2
  <2>2. CASE c # fs[1].cell
    <3>1. r[c] = rs[c]
      BY <2>2, <1>1
    <3>2. rs[c] <=> \E i \in DOMAIN fs : fs[i].kind \in Reloads /\ fs[i].cell = c
      BY DEF Alone
    <3>3. ASSUME NEW i \in DOMAIN fs, fs[i].kind \in Reloads, fs[i].cell = c
          PROVE  \E k \in DOMAIN q : q[k].kind \in Reloads /\ q[k].cell = c
      BY <1>3, <2>2, <3>3
    <3>4. ASSUME NEW i \in DOMAIN q, q[i].kind \in Reloads, q[i].cell = c
          PROVE  \E k \in DOMAIN fs : fs[k].kind \in Reloads /\ fs[k].cell = c
      BY <1>2, <3>4
    <3> HIDE DEF r
    <3> QED BY <3>1, <3>2, <3>3, <3>4
  <2> QED BY <2>1, <2>2
<1>6. ASSUME NEW i \in DOMAIN q, q[i].cell = c, q[i].kind \in Reloads,
             NEW j \in 1..(i - 1)
      PROVE  q[j].cell # c
  <2>1. i + 1 \in DOMAIN fs /\ fs[i + 1].cell = c /\ fs[i + 1].kind \in Reloads
    BY <1>2, <1>6
  <2>2. j + 1 \in 1..((i + 1) - 1) /\ q[j] = fs[j + 1]
    BY <1>1
  <2>3. \A k \in 1..((i + 1) - 1) : fs[k].cell # c
    BY <2>1 DEF Alone
  <2> QED BY <2>2, <2>3
<1> QED BY <1>5, <1>6

(* A closure that ends takes no reload with it. *)
LEMMA PopClosure ==
  ASSUME NEW fs \in Seq(FrameType), fs # <<>>, NEW rs \in [Cells -> BOOLEAN], Alone(fs, rs),
         Head(fs).kind \notin Reloads
  PROVE  Alone(Tail(fs), rs)
<1> DEFINE q == Tail(fs)
<1>1. /\ DOMAIN q = 1..(Len(fs) - 1) /\ Head(fs) = fs[1]
      /\ \A i \in 1..(Len(fs) - 1) : q[i] = fs[i + 1]
      /\ Len(fs) \in Nat \ {0} /\ DOMAIN fs = 1..Len(fs)
  BY PopFrame
<1> HIDE DEF q
<1>2. \A i \in DOMAIN q : i + 1 \in DOMAIN fs /\ q[i] = fs[i + 1]
  BY <1>1
<1>3. \A i \in DOMAIN fs : i # 1 => i - 1 \in DOMAIN q /\ q[i - 1] = fs[i]
  BY <1>1
<1> SUFFICES ASSUME NEW c \in Cells
             PROVE  /\ rs[c] <=> \E i \in DOMAIN q : q[i].kind \in Reloads /\ q[i].cell = c
                    /\ \A i \in DOMAIN q : q[i].cell = c /\ q[i].kind \in Reloads =>
                         \A j \in 1..(i - 1) : q[j].cell # c
  BY DEF Alone, q
<1>4. rs[c] <=> \E i \in DOMAIN q : q[i].kind \in Reloads /\ q[i].cell = c
  <2>1. rs[c] <=> \E i \in DOMAIN fs : fs[i].kind \in Reloads /\ fs[i].cell = c
    BY DEF Alone
  <2>2. ASSUME NEW i \in DOMAIN fs, fs[i].kind \in Reloads, fs[i].cell = c
        PROVE  \E k \in DOMAIN q : q[k].kind \in Reloads /\ q[k].cell = c
    BY <1>1, <1>3, <2>2
  <2>3. ASSUME NEW i \in DOMAIN q, q[i].kind \in Reloads, q[i].cell = c
        PROVE  \E k \in DOMAIN fs : fs[k].kind \in Reloads /\ fs[k].cell = c
    BY <1>2, <2>3
  <2> QED BY <2>1, <2>2, <2>3
<1>5. ASSUME NEW i \in DOMAIN q, q[i].cell = c, q[i].kind \in Reloads,
             NEW j \in 1..(i - 1)
      PROVE  q[j].cell # c
  <2>1. i + 1 \in DOMAIN fs /\ fs[i + 1].cell = c /\ fs[i + 1].kind \in Reloads
    BY <1>2, <1>5
  <2>2. j + 1 \in 1..((i + 1) - 1) /\ q[j] = fs[j + 1]
    BY <1>1
  <2>3. \A k \in 1..((i + 1) - 1) : fs[k].cell # c
    BY <2>1 DEF Alone
  <2> QED BY <2>2, <2>3
<1> QED BY <1>4, <1>5

-----------------------------------------------------------------------------
(* The invariant, in the words of the lemmas above. *)
LEMMA CellInvParts ==
  /\ ReloadsAreAlone <=> Alone(frames, reloading)
  /\ CellInv => frames \in Seq(FrameType) /\ reloading \in [Cells -> BOOLEAN]
  /\ "closure" \notin Reloads
  BY DEF ReloadsAreAlone, Alone, Leaving, CellInv, TypeOK, FrameType, Reloads

(* A frame is a cell's. *)
LEMMA FrameCells ==
  ASSUME CellInv PROVE \A i \in DOMAIN frames : frames[i].cell \in Cells
<1>1. \A i \in DOMAIN frames : frames[i] \in FrameType
  BY CellInvParts
<1> QED BY <1>1 DEF FrameType

(* The same after a step. *)
LEMMA AloneAfter ==
  ASSUME Alone(frames', reloading') PROVE ReloadsAreAlone'
  BY DEF ReloadsAreAlone, Alone, Leaving

(* The newest value of a chain is a value. *)
LEMMA NewestTyped ==
  ASSUME TypeOK
  PROVE  /\ \A k \in Chains : Newest(k) \in Values
         /\ \A c \in Cells : Exists(c) => inner[c] \in Values /\ NewestFor(c) \in Values
<1>1. \A k \in Chains : Newest(k) \in Values
  BY DEF TypeOK, Newest, Values
<1>2. \A c \in Cells : Exists(c) => inner[c] \in Values
  BY DEF TypeOK, Exists
<1>3. \A v \in Values : v.chain \in Chains
  BY DEF Values
<1> QED BY <1>1, <1>2, <1>3 DEF NewestFor

(* depth stays a usize. *)
LEMMA DepthTyped ==
  ASSUME NEW d \in 0..(UsizeValues - 1)
  PROVE  Raised(d) \in 0..(UsizeValues - 1) /\ Lowered(d) \in 0..(UsizeValues - 1)
<1>1. \A a \in Int, n \in Nat \ {0} : a % n \in 0..(n - 1)
  OBVIOUS
<1> QED BY <1>1, CellAssumption DEF Raised, Lowered

(* No value is the value of an empty cell, and no handle of a value is none. *)
LEMMA Distinct ==
  /\ NoValue \notin Values
  /\ \A c \in Cells, v \in Values : [cell |-> c, value |-> v] # NoHandle
  /\ \A c \in Cells : c # None
  BY CellAssumption DEF NoValue, Values, NoHandle

(* The program starts without cells. *)
LEMMA InitCellInv ==
  ASSUME Init PROVE CellInv
<1>1. TypeOK
  BY CellAssumption DEF Init, TypeOK
<1>2. HandlesExist
  BY DEF Init, HandlesExist
<1>3. Alone(frames, reloading)
  BY DEF Init, Alone
<1> QED BY <1>1, <1>2, <1>3, CellInvParts DEF CellInv

-----------------------------------------------------------------------------
(* The steps. Those that leave the stack and the flags alone owe the types  *)
(* and the cells of the handles.                                            *)

(* What a call hands out, and what it leaves behind, when its reload is over. *)
LEMMA DeliverKeeps ==
  ASSUME NEW kind \in Reloads, NEW c \in Cells, NEW s \in Slots \cup {None}, NEW v \in Values,
         NEW below \in Seq(FrameType),
         NEW slots \in [Slots -> [cell : Cells, value : Values] \cup {NoHandle}],
         NEW depths \in [Cells -> 0..(UsizeValues - 1)],
         NEW flags \in [Cells -> BOOLEAN], Alone(below, flags), ~flags[c],
         \A h \in Slots : slots[h] # NoHandle => Exists(slots[h].cell),
         TypeOK, Deliver(kind, c, s, v, below, slots, depths), reloading' = flags,
         UNCHANGED <<newest, kept, forgotten>>, destroyed' \in SUBSET Values
  PROVE  CellInv'
<1>1. inner' = [inner EXCEPT ![c] = v] /\ inner' \in [Cells -> Values \cup {NoValue}]
  BY DEF Deliver, TypeOK
<1>2. \A d \in Cells : Exists(d) => Exists(d)'
  BY <1>1, Distinct DEF Exists, TypeOK
<1>3. Exists(c)'
  BY <1>1, Distinct DEF Exists, TypeOK
<1>4. depth' \in [Cells -> 0..(UsizeValues - 1)]
  <2>1. Lowered(depths[c]) \in 0..(UsizeValues - 1)
    BY DepthTyped
  <2> QED BY <2>1 DEF Deliver
<1>5. slot' \in [Slots -> [cell : Cells, value : Values] \cup {NoHandle}]
  BY DEF Deliver
<1>6. HandlesExist'
  <2> SUFFICES ASSUME NEW h \in Slots, slot'[h] # NoHandle PROVE inner'[slot'[h].cell] # NoValue
    BY DEF HandlesExist, Exists
  <2>1. CASE slot' = slots
    <3>1. slots[h].cell \in Cells /\ Exists(slots[h].cell)
      BY <2>1 DEF NoHandle
    <3> QED BY <2>1, <3>1, <1>2 DEF Exists
  <2>2. CASE slot' = [slots EXCEPT ![s] = [cell |-> c, value |-> v]] /\ h = s
    BY <2>2, <1>3 DEF Exists
  <2>3. CASE slot' = [slots EXCEPT ![s] = [cell |-> c, value |-> v]] /\ h # s
    <3>1. slot'[h] = slots[h] /\ slots[h].cell \in Cells /\ Exists(slots[h].cell)
      BY <2>3 DEF NoHandle
    <3> QED BY <3>1, <1>2 DEF Exists
  <2> QED BY <2>1, <2>2, <2>3 DEF Deliver
<1>7. frames' \in Seq(FrameType) /\ Alone(frames', reloading')
  <2> DEFINE f == Frame("closure", c, s, v)
  <2>1. f \in FrameType /\ f.kind = "closure" /\ f.cell = c
    BY DEF Frame, FrameType
  <2>2. <<f>> \o below \in Seq(FrameType) /\ Alone(<<f>> \o below, flags)
    <3> HIDE DEF f
    <3>1. f.kind \notin Reloads /\ ~flags[f.cell]
      BY <2>1, CellInvParts
    <3>2. <<f>> \o below \in Seq(FrameType)
      BY <2>1, PushFrame
    <3>3. Alone(<<f>> \o below, flags)
      BY <2>1, <3>1, PushClosure
    <3> QED BY <3>2, <3>3
  <2> QED BY <2>2 DEF Deliver
<1>8. TypeOK'
  BY <1>1, <1>4, <1>5, <1>7 DEF TypeOK, FrameType
<1>9. ReloadsAreAlone'
  BY <1>7, AloneAfter
<1> QED BY <1>6, <1>8, <1>9 DEF CellInv

(* A call that enters a cell which does not reload keeps the invariant. *)
LEMMA TakeToKeeps ==
  ASSUME NEW kind \in Reloads, NEW c \in Cells, NEW s \in Slots \cup {None}, NEW v \in Values,
         NEW slots \in [Slots -> [cell : Cells, value : Values] \cup {NoHandle}],
         NEW depths \in [Cells -> 0..(UsizeValues - 1)],
         \A h \in Slots : slots[h] # NoHandle => Exists(slots[h].cell),
         CellInv, Exists(c), ~reloading[c], TakeTo(kind, c, s, v, slots, depths)
  PROVE  CellInv'
<1>1. /\ TypeOK /\ Alone(frames, reloading)
      /\ frames \in Seq(FrameType) /\ reloading \in [Cells -> BOOLEAN]
  BY CellInvParts DEF CellInv
<1>2. inner[c] \in Values /\ destroyed \subseteq Values
  BY <1>1, NewestTyped DEF TypeOK
<1>3. CASE Deliver(kind, c, s, v, frames, slots, depths)
           /\ UNCHANGED <<destroyed, reloading>>
  <2>1. destroyed' \in SUBSET Values /\ UNCHANGED <<newest, kept, forgotten>> /\ reloading' = reloading
    BY <1>2, <1>3 DEF TakeTo
  <2> QED BY <1>1, <1>2, <1>3, <2>1, DeliverKeeps
<1>4. CASE /\ frames' = <<Frame(kind, c, s, v)>> \o frames
           /\ destroyed' = destroyed \cup {inner[c]}
           /\ reloading' = [reloading EXCEPT ![c] = TRUE]
           /\ slot' = slots
           /\ depth' = depths
           /\ UNCHANGED inner
  <2> DEFINE f == Frame(kind, c, s, v)
  <2>1. f \in FrameType /\ f.kind = kind /\ f.cell = c
    BY <1>2 DEF Frame, FrameType
  <2>2. frames' \in Seq(FrameType) /\ Alone(frames', reloading')
    <3> HIDE DEF f
    <3>1. frames' = <<f>> \o frames
      BY <1>4 DEF f
    <3>2. f.kind \in Reloads /\ ~reloading[f.cell] /\ reloading' = [reloading EXCEPT ![f.cell] = TRUE]
      BY <1>4, <2>1
    <3>3. <<f>> \o frames \in Seq(FrameType)
      BY <1>1, <2>1, PushFrame
    <3>4. Alone(<<f>> \o frames, [reloading EXCEPT ![f.cell] = TRUE])
      BY <1>1, <2>1, <3>2, PushReload
    <3> QED BY <3>1, <3>2, <3>3, <3>4
  <2>3. TypeOK'
    BY <1>1, <1>2, <1>4, <2>2 DEF TypeOK, TakeTo, FrameType
  <2>4. HandlesExist'
    BY <1>4 DEF HandlesExist, Exists
  <2>5. ReloadsAreAlone'
    BY <2>2, AloneAfter
  <2> QED BY <2>3, <2>4, <2>5 DEF CellInv
<1> QED BY <1>3, <1>4 DEF TakeTo

(* A step that leaves the stack and the flags alone. *)
LEMMA QuietKeeps ==
  ASSUME CellInv, UNCHANGED <<frames, reloading>>, TypeOK', HandlesExist'
  PROVE  CellInv'
<1>1. Alone(frames, reloading)
  BY CellInvParts DEF CellInv
<1>2. Alone(frames', reloading')
  BY <1>1
<1>3. ReloadsAreAlone'
  BY <1>2, AloneAfter
<1> QED BY <1>3 DEF CellInv

(* get, in the outermost frame or in another. *)
LEMMA GetKeeps ==
  ASSUME CellInv, NEW c \in Cells, Get(c) PROVE CellInv'
<1>1. /\ TypeOK /\ HandlesExist /\ Alone(frames, reloading)
      /\ frames \in Seq(FrameType) /\ reloading \in [Cells -> BOOLEAN]
  BY CellInvParts DEF CellInv
<1>2. Exists(c) /\ ~reloading[c] /\ inner[c] \in Values /\ NewestFor(c) \in Values
  BY <1>1, NewestTyped DEF Get, MayEnter
<1>3. Entered(c) \in [Cells -> 0..(UsizeValues - 1)]
  <2>1. Raised(depth[c]) \in 0..(UsizeValues - 1)
    BY <1>1, DepthTyped DEF TypeOK
  <2> QED BY <1>1, <2>1 DEF Entered, TypeOK
<1>4. CASE TakeTo("get", c, None, NewestFor(c), slot, Entered(c))
  <2>1. /\ "get" \in Reloads /\ slot \in [Slots -> [cell : Cells, value : Values] \cup {NoHandle}]
        /\ \A h \in Slots : slot[h] # NoHandle => Exists(slot[h].cell)
    BY <1>1 DEF Reloads, TypeOK, HandlesExist
  <2> QED BY <1>2, <1>3, <1>4, <2>1, TakeToKeeps
<1>5. CASE /\ frames' = <<Frame("closure", c, None, inner[c])>> \o frames
           /\ depth' = Entered(c)
           /\ UNCHANGED <<newest, kept, inner, reloading, slot, destroyed, forgotten>>
  <2> DEFINE f == Frame("closure", c, None, inner[c])
  <2>1. f \in FrameType /\ f.kind \notin Reloads /\ f.cell = c
    BY <1>2, CellAssumption, CellInvParts DEF Frame, FrameType
  <2>2. frames' = <<f>> \o frames
    BY <1>5
  <2> HIDE DEF f
  <2>3. frames' \in Seq(FrameType)
    BY <1>1, <2>1, <2>2, PushFrame
  <2>4. Alone(frames', reloading')
    BY <1>1, <1>2, <1>5, <2>1, <2>2, PushClosure
  <2>5. TypeOK'
    BY <1>1, <1>3, <1>5, <2>3 DEF TypeOK, FrameType
  <2>6. HandlesExist'
    BY <1>1, <1>5 DEF HandlesExist, Exists
  <2> QED BY <2>4, <2>5, <2>6, AloneAfter DEF CellInv
<1> QED BY <1>4, <1>5 DEF Get

(* borrow, in the outermost frame or in another. *)
LEMMA BorrowKeeps ==
  ASSUME CellInv, NEW c \in Cells, NEW s \in Slots, Borrow(c, s) PROVE CellInv'
<1>1. /\ TypeOK /\ HandlesExist
      /\ slot \in [Slots -> [cell : Cells, value : Values] \cup {NoHandle}]
  BY DEF CellInv, TypeOK
<1>2. Exists(c) /\ ~reloading[c] /\ inner[c] \in Values /\ NewestFor(c) \in Values
  BY <1>1, NewestTyped DEF Borrow, MayEnter
<1>3. Entered(c) \in [Cells -> 0..(UsizeValues - 1)]
  <2>1. Raised(depth[c]) \in 0..(UsizeValues - 1)
    BY <1>1, DepthTyped DEF TypeOK
  <2> QED BY <1>1, <2>1 DEF Entered, TypeOK
<1>4. CASE TakeTo("borrow", c, s, NewestFor(c), slot, Entered(c))
  <2>1. /\ "borrow" \in Reloads
        /\ \A h \in Slots : slot[h] # NoHandle => Exists(slot[h].cell)
    BY <1>1 DEF Reloads, HandlesExist
  <2> QED BY <1>1, <1>2, <1>3, <1>4, <2>1, TakeToKeeps
<1>5. CASE /\ slot' = [slot EXCEPT ![s] = [cell |-> c, value |-> inner[c]]]
           /\ depth' = Entered(c)
           /\ UNCHANGED <<newest, kept, inner, reloading, frames, destroyed, forgotten>>
  <2>1. slot' \in [Slots -> [cell : Cells, value : Values] \cup {NoHandle}]
    BY <1>1, <1>2, <1>5
  <2>2. TypeOK'
    BY <1>1, <1>3, <1>5, <2>1 DEF TypeOK
  <2>3. HandlesExist'
    BY <1>1, <1>2, <1>5 DEF HandlesExist, Exists
  <2> QED BY <1>5, <2>2, <2>3, QuietKeeps
<1> QED BY <1>4, <1>5 DEF Borrow

(* The drop of a handle, the last of its cell or not. *)
LEMMA DropHandleKeeps ==
  ASSUME CellInv, NEW s \in Slots, DropHandle(s) PROVE CellInv'
<1> DEFINE c == slot[s].cell
<1> DEFINE slots == [slot EXCEPT ![s] = NoHandle]
<1>1. /\ TypeOK /\ HandlesExist
      /\ slot \in [Slots -> [cell : Cells, value : Values] \cup {NoHandle}]
  BY DEF CellInv, TypeOK
<1>2. slot[s] # NoHandle /\ c \in Cells /\ Exists(c)
  BY <1>1 DEF DropHandle, HandlesExist
<1>3. /\ slots \in [Slots -> [cell : Cells, value : Values] \cup {NoHandle}]
      /\ \A h \in Slots : slots[h] # NoHandle => slots[h] = slot[h] /\ Exists(slots[h].cell)
  BY <1>1 DEF HandlesExist
<1>4. CASE ~reloading[c] /\ TakeTo("unborrow", c, None, NewestFor(c), slots, depth)
  <2>1. /\ "unborrow" \in Reloads /\ NewestFor(c) \in Values /\ depth \in [Cells -> 0..(UsizeValues - 1)]
    BY <1>1, <1>2, NewestTyped DEF Reloads, TypeOK
  <2> HIDE DEF c, slots
  <2> QED BY <1>2, <1>3, <1>4, <2>1, TakeToKeeps
<1>5. CASE /\ slot' = slots
           /\ depth' = [depth EXCEPT ![c] = Lowered(@)]
           /\ UNCHANGED <<newest, kept, inner, reloading, frames, destroyed, forgotten>>
  <2>1. Lowered(depth[c]) \in 0..(UsizeValues - 1)
    BY <1>1, <1>2, DepthTyped DEF TypeOK
  <2>2. depth' \in [Cells -> 0..(UsizeValues - 1)]
    BY <1>1, <1>5, <2>1 DEF TypeOK
  <2> HIDE DEF c, slots
  <2>3. TypeOK'
    BY <1>1, <1>3, <1>5, <2>2 DEF TypeOK
  <2>4. HandlesExist'
    BY <1>3, <1>5 DEF HandlesExist, Exists
  <2> QED BY <1>5, <2>3, <2>4, QuietKeeps
<1> QED BY <1>4, <1>5 DEF DropHandle

(* reload and assign, which enter an idle cell. *)
LEMMA ReloadKeeps ==
  ASSUME CellInv, NEW c \in Cells, Reload(c) \/ \E k \in Chains : Assign(c, k) PROVE CellInv'
<1>1. /\ TypeOK /\ Exists(c) /\ ~reloading[c]
      /\ slot \in [Slots -> [cell : Cells, value : Values] \cup {NoHandle}]
      /\ \A h \in Slots : slot[h] # NoHandle => Exists(slot[h].cell)
      /\ depth \in [Cells -> 0..(UsizeValues - 1)]
  BY DEF CellInv, TypeOK, HandlesExist, Reload, Assign, IsIdle
<1>2. "reload" \in Reloads /\ "assign" \in Reloads
  BY DEF Reloads
<1>3. CASE Reload(c)
  <2>1. NewestFor(c) \in Values
    BY <1>1, NewestTyped
  <2> QED BY <1>1, <1>2, <1>3, <2>1, TakeToKeeps DEF Reload
<1>4. ASSUME NEW k \in Chains, Assign(c, k) PROVE CellInv'
  <2>1. Newest(k) \in Values
    BY <1>1, NewestTyped
  <2> QED BY <1>1, <1>2, <1>4, <2>1, TakeToKeeps DEF Assign
<1> QED BY <1>3, <1>4

(* When the destructor on top of the stack is over, its reload is over, or  *)
(* goes on to a value which is the newest of the same chain.                *)
LEMMA DestructorEndsIs ==
  ASSUME CellInv, DestructorEnds
  PROVE  /\ frames # <<>> /\ Head(frames).kind \in Reloads /\ Head(frames) \in FrameType
         /\ Tail(frames) \in Seq(FrameType)
         /\ UNCHANGED <<newest, kept, forgotten>>
         /\ \E v \in Values :
              /\ v = Head(frames).value \/ v = Newest(Head(frames).value.chain)
              /\ \/ /\ v = Head(frames).value \/ ~Dies(Head(frames).value, Head(frames).cell)
                    /\ Finish(Head(frames), v)
                 \/ /\ v # Head(frames).value /\ Dies(Head(frames).value, Head(frames).cell)
                    /\ GoOn(Head(frames), v)
<1>1. TypeOK /\ frames \in Seq(FrameType)
  BY CellInvParts DEF CellInv
<1>2. frames # <<>> /\ Head(frames).kind \in Reloads /\ UNCHANGED <<newest, kept, forgotten>>
  BY DEF DestructorEnds
<1>3. Head(frames) \in FrameType /\ Tail(frames) \in Seq(FrameType)
  BY <1>1, <1>2, PopFrame
<1>4. Head(frames).value \in Values /\ Newest(Head(frames).value.chain) \in Values
  <2>1. Head(frames).value \in Values
    BY <1>3 DEF FrameType
  <2> QED BY <1>1, <2>1, NewestTyped DEF Values
<1>5. Leads(Head(frames)) \subseteq {Head(frames).value, Newest(Head(frames).value.chain)}
  BY DEF Leads
<1> QED BY <1>2, <1>3, <1>4, <1>5 DEF DestructorEnds

(* A reload that goes on is the same frame with another value: it is alone  *)
(* still.                                                                   *)
LEMMA GoOnFrame ==
  ASSUME CellInv, frames # <<>>, Head(frames).kind \in Reloads, NEW v \in Values
  PROVE  LET g == [Head(frames) EXCEPT !.value = v]
         IN /\ g \in FrameType /\ g.kind = Head(frames).kind /\ g.cell = Head(frames).cell
            /\ g.slot = Head(frames).slot /\ g.value = v
            /\ <<g>> \o Tail(frames) \in Seq(FrameType)
            /\ Alone(<<g>> \o Tail(frames), reloading)
<1> DEFINE f == Head(frames)
<1> DEFINE g == [f EXCEPT !.value = v]
<1> DEFINE flags == [reloading EXCEPT ![f.cell] = FALSE]
<1>1. frames \in Seq(FrameType) /\ reloading \in [Cells -> BOOLEAN] /\ Alone(frames, reloading)
  BY CellInvParts DEF CellInv
<1>2. /\ f \in FrameType /\ Tail(frames) \in Seq(FrameType)
      /\ f = frames[1] /\ 1 \in DOMAIN frames
  BY <1>1, PopFrame
<1>3. f.cell \in Cells /\ reloading[f.cell] = TRUE
  <2>1. f.cell \in Cells
    BY <1>2 DEF FrameType
  <2> QED BY <1>1, <1>2, <2>1 DEF Alone
<1>4. g \in FrameType /\ g.kind = f.kind /\ g.cell = f.cell /\ g.slot = f.slot /\ g.value = v
  BY <1>2 DEF FrameType
<1>5. Alone(Tail(frames), flags) /\ flags \in [Cells -> BOOLEAN] /\ ~flags[f.cell]
  BY <1>1, <1>3, PopReload
<1>6. [flags EXCEPT ![f.cell] = TRUE] = reloading
  BY <1>1, <1>3
<1> HIDE DEF f, g, flags
<1>7. Alone(<<g>> \o Tail(frames), [flags EXCEPT ![g.cell] = TRUE])
  <2>1. g.kind \in Reloads /\ ~flags[g.cell]
    BY <1>4, <1>5 DEF f
  <2> QED BY <1>2, <1>4, <1>5, <2>1, PushReload
<1>8. <<g>> \o Tail(frames) \in Seq(FrameType)
  BY <1>2, <1>4, PushFrame
<1>9. Alone(<<g>> \o Tail(frames), reloading)
  BY <1>4, <1>6, <1>7
<1> QED BY <1>4, <1>8, <1>9 DEF f, g

(* The destructor on top of the stack returns or panics. *)
LEMMA DestructorEndsKeeps ==
  ASSUME CellInv, DestructorEnds PROVE CellInv'
<1> DEFINE f == Head(frames)
<1> DEFINE c == f.cell
<1> DEFINE flags == [reloading EXCEPT ![c] = FALSE]
<1>1. /\ TypeOK /\ Alone(frames, reloading)
      /\ slot \in [Slots -> [cell : Cells, value : Values] \cup {NoHandle}]
      /\ \A h \in Slots : slot[h] # NoHandle => Exists(slot[h].cell)
      /\ depth \in [Cells -> 0..(UsizeValues - 1)] /\ destroyed \in SUBSET Values
      /\ frames \in Seq(FrameType) /\ reloading \in [Cells -> BOOLEAN]
  BY CellInvParts DEF CellInv, TypeOK, HandlesExist
<1>2. PICK v \in Values : Finish(f, v) \/ GoOn(f, v)
  BY DestructorEndsIs
<1>3. /\ frames # <<>> /\ f.kind \in Reloads /\ f \in FrameType /\ Tail(frames) \in Seq(FrameType)
      /\ UNCHANGED <<newest, kept, forgotten>>
  BY DestructorEndsIs
<1>4. c \in Cells /\ f.slot \in Slots \cup {None} /\ f.value \in Values
  BY <1>3 DEF FrameType
<1>5. flags \in [Cells -> BOOLEAN] /\ ~flags[c] /\ Alone(Tail(frames), flags)
  BY <1>1, <1>3, <1>4, PopReload
<1>7. CASE Finish(f, v) /\ Deliver(f.kind, c, f.slot, v, Tail(frames), slot, depth)
  <2>1. reloading' = flags /\ destroyed' \in SUBSET Values
    BY <1>1, <1>7 DEF Finish
  <2> HIDE DEF f, c, flags
  <2> QED BY <1>1, <1>3, <1>4, <1>5, <1>7, <2>1, DeliverKeeps DEF c
<1>8. CASE /\ Finish(f, v)
           /\ inner' = [inner EXCEPT ![c] = v]
           /\ frames' = Tail(frames)
           /\ depth' = IF f.kind \in {"get", "borrow", "unborrow"}
                       THEN [depth EXCEPT ![c] = Lowered(@)] ELSE depth
           /\ UNCHANGED slot
  <2>0. reloading' = flags /\ destroyed' = destroyed
    BY <1>8 DEF Finish
  <2>1. depth' \in [Cells -> 0..(UsizeValues - 1)]
    <3>1. Lowered(depth[c]) \in 0..(UsizeValues - 1)
      BY <1>1, <1>4, DepthTyped
    <3> QED BY <1>1, <1>8, <3>1
  <2> HIDE DEF f, c, flags
  <2>2. inner' \in [Cells -> Values \cup {NoValue}]
    BY <1>1, <1>4, <1>8 DEF TypeOK
  <2>3. TypeOK'
    BY <1>1, <1>3, <1>5, <1>8, <2>0, <2>1, <2>2 DEF TypeOK, FrameType
  <2>4. HandlesExist'
    BY <1>1, <1>4, <1>8, Distinct DEF HandlesExist, Exists, TypeOK
  <2>5. ReloadsAreAlone'
    BY <1>5, <1>8, <2>0, AloneAfter
  <2> QED BY <2>3, <2>4, <2>5 DEF CellInv
<1>9. CASE GoOn(f, v)
  <2>1. frames' \in Seq(FrameType) /\ Alone(frames', reloading')
    BY <1>3, <1>9, GoOnFrame DEF GoOn
  <2>2. destroyed' \subseteq Values
    BY <1>1, <1>4, <1>9 DEF GoOn
  <2>3. TypeOK'
    BY <1>1, <1>3, <1>9, <2>1, <2>2 DEF TypeOK, FrameType, GoOn
  <2>4. HandlesExist'
    BY <1>1, <1>9 DEF HandlesExist, Exists, GoOn
  <2>5. ReloadsAreAlone'
    BY <2>1, AloneAfter
  <2> QED BY <2>3, <2>4, <2>5 DEF CellInv
<1> QED BY <1>2, <1>7, <1>8, <1>9 DEF Finish

(* The closure on top of the stack returns or panics. *)
LEMMA ClosureEndsKeeps ==
  ASSUME CellInv, ClosureEnds PROVE CellInv'
<1>1. /\ TypeOK /\ HandlesExist /\ Alone(frames, reloading)
      /\ frames \in Seq(FrameType) /\ reloading \in [Cells -> BOOLEAN]
  BY CellInvParts DEF CellInv
<1>2. frames # <<>> /\ Head(frames).kind \notin Reloads
  BY CellInvParts DEF ClosureEnds
<1>3. Head(frames) \in FrameType /\ Tail(frames) \in Seq(FrameType)
  BY <1>1, <1>2, PopFrame
<1>4. Alone(Tail(frames), reloading)
  BY <1>1, <1>2, PopClosure
<1>5. depth' \in [Cells -> 0..(UsizeValues - 1)]
  <2>1. Head(frames).cell \in Cells
    BY <1>3 DEF FrameType
  <2>2. Lowered(depth[Head(frames).cell]) \in 0..(UsizeValues - 1)
    BY <1>1, <2>1, DepthTyped DEF TypeOK
  <2> QED BY <1>1, <2>1, <2>2 DEF ClosureEnds, TypeOK
<1>6. TypeOK'
  BY <1>1, <1>3, <1>5 DEF ClosureEnds, TypeOK, FrameType
<1>7. HandlesExist'
  BY <1>1 DEF ClosureEnds, HandlesExist, Exists
<1>8. ReloadsAreAlone'
  BY <1>4, AloneAfter DEF ClosureEnds
<1> QED BY <1>6, <1>7, <1>8 DEF CellInv

(* Cells and ArcShifts come and go, handles are leaked, chains are updated. *)
LEMMA OthersKeep ==
  ASSUME CellInv,
         \/ \E c \in Cells : FromArcShift(c) \/ MakeArcShift(c) \/ DropCell(c)
         \/ \E c, d \in Cells : Clone(c, d)
         \/ \E s \in Slots : ForgetHandle(s)
         \/ \E v \in kept : DropArcShift(v)
         \/ \E k \in Chains : Update(k)
  PROVE  CellInv'
<1>1. /\ TypeOK /\ HandlesExist
      /\ slot \in [Slots -> [cell : Cells, value : Values] \cup {NoHandle}]
      /\ kept \subseteq Values /\ inner \in [Cells -> Values \cup {NoValue}]
  BY DEF CellInv, TypeOK
<1>2. ASSUME NEW c \in Cells, NEW v \in Values, NewCell(c, v), kept' \subseteq Values PROVE CellInv'
  <2>1. inner' \in [Cells -> Values \cup {NoValue}]
    BY <1>1, <1>2 DEF NewCell
  <2>2. TypeOK'
    BY <1>1, <1>2, <2>1 DEF TypeOK, NewCell
  <2>3. HandlesExist'
    BY <1>1, <1>2, Distinct DEF HandlesExist, Exists, NewCell
  <2> QED BY <1>2, <2>2, <2>3, QuietKeeps DEF NewCell
<1>3. ASSUME NEW c \in Cells, FromArcShift(c) PROVE CellInv'
  <2>1. ASSUME NEW k \in Chains, NewCell(c, Newest(k)), UNCHANGED kept PROVE CellInv'
    BY <1>1, <1>2, <2>1, NewestTyped
  <2>2. ASSUME NEW v \in kept, NewCell(c, v), kept' = kept \ {v} PROVE CellInv'
    BY <1>1, <1>2, <2>2
  <2> QED BY <1>3, <2>1, <2>2 DEF FromArcShift
<1>4. ASSUME NEW c \in Cells, NEW d \in Cells, Clone(c, d) PROVE CellInv'
  <2>1. NewestFor(c) \in Values
    BY <1>1, <1>4, NewestTyped DEF Clone, MayEnter
  <2> QED BY <1>1, <1>2, <1>4, <2>1 DEF Clone
<1>5. ASSUME NEW c \in Cells, MakeArcShift(c) PROVE CellInv'
  <2>1. NewestFor(c) \in Values
    BY <1>1, <1>5, NewestTyped DEF MakeArcShift, MayEnter
  <2>2. TypeOK'
    BY <1>1, <1>5, <2>1 DEF TypeOK, MakeArcShift
  <2>3. HandlesExist'
    BY <1>1, <1>5 DEF HandlesExist, Exists, MakeArcShift
  <2> QED BY <1>5, <2>2, <2>3, QuietKeeps DEF MakeArcShift
<1>6. ASSUME NEW c \in Cells, DropCell(c) PROVE CellInv'
  <2>1. inner[c] \in Values
    BY <1>1, <1>6 DEF DropCell, Exists
  <2>2. /\ inner' \in [Cells -> Values \cup {NoValue}] /\ depth' \in [Cells -> 0..(UsizeValues - 1)]
        /\ forgotten' \in [Cells -> 0..MaxForgets] /\ destroyed' \subseteq Values
    BY <1>1, <1>6, <2>1, CellAssumption DEF DropCell, TypeOK
  <2>3. TypeOK'
    BY <1>1, <1>6, <2>2 DEF TypeOK, DropCell
  <2>4. HandlesExist'
    <3> SUFFICES ASSUME NEW h \in Slots, slot'[h] # NoHandle PROVE inner'[slot'[h].cell] # NoValue
      BY DEF HandlesExist, Exists
    <3>1. slot'[h] = slot[h] /\ slot[h].cell \in Cells /\ slot[h].cell # c /\ inner[slot[h].cell] # NoValue
      BY <1>1, <1>6 DEF DropCell, HandlesExist, Exists
    <3> QED BY <1>1, <1>6, <3>1 DEF DropCell
  <2> QED BY <1>6, <2>3, <2>4, QuietKeeps DEF DropCell
<1>7. ASSUME NEW s \in Slots, ForgetHandle(s) PROVE CellInv'
  <2>1. slot[s].cell \in Cells
    BY <1>1, <1>7 DEF ForgetHandle
  <2>2. forgotten' \in [Cells -> 0..MaxForgets]
    BY <1>1, <1>7, <2>1, CellAssumption DEF TypeOK, ForgetHandle
  <2>3. slot' \in [Slots -> [cell : Cells, value : Values] \cup {NoHandle}]
    BY <1>1, <1>7 DEF ForgetHandle
  <2>4. TypeOK'
    BY <1>1, <1>7, <2>2, <2>3 DEF TypeOK, ForgetHandle
  <2>5. HandlesExist'
    BY <1>1, <1>7 DEF HandlesExist, Exists, ForgetHandle
  <2> QED BY <1>7, <2>4, <2>5, QuietKeeps DEF ForgetHandle
<1>8. ASSUME NEW v \in kept, DropArcShift(v) PROVE CellInv'
  <2>1. kept' \subseteq Values /\ destroyed' \subseteq Values
    BY <1>1, <1>8 DEF TypeOK, DropArcShift
  <2>2. TypeOK'
    BY <1>1, <1>8, <2>1 DEF TypeOK, DropArcShift
  <2>3. HandlesExist'
    BY <1>1, <1>8 DEF HandlesExist, Exists, DropArcShift
  <2> QED BY <1>8, <2>2, <2>3, QuietKeeps DEF DropArcShift
<1>9. ASSUME NEW k \in Chains, Update(k) PROVE CellInv'
  <2>1. newest' \in [Chains -> 1..MaxVersion]
    BY <1>1, <1>9, CellAssumption DEF TypeOK, Update
  <2>2. destroyed' \subseteq Values
    BY <1>1, <1>9, NewestTyped DEF TypeOK, Update
  <2>3. TypeOK'
    BY <1>1, <1>9, <2>1, <2>2 DEF TypeOK, Update
  <2>4. HandlesExist'
    BY <1>1, <1>9 DEF HandlesExist, Exists, Update
  <2> QED BY <1>9, <2>3, <2>4, QuietKeeps DEF Update
<1> QED BY <1>3, <1>4, <1>5, <1>6, <1>7, <1>8, <1>9

-----------------------------------------------------------------------------
(* The theorems. *)

(* Every step keeps the invariant. *)
THEOREM CellInvHolds == Spec => []CellInv
<1>1. Init => CellInv
  BY InitCellInv
<1>2. CellInv /\ [Next]_vars => CellInv'
  <2> SUFFICES ASSUME CellInv, [Next]_vars PROVE CellInv'
    OBVIOUS
  <2>1. CASE UNCHANGED vars
    <3>1. TypeOK' /\ HandlesExist'
      BY <2>1 DEF CellInv, TypeOK, HandlesExist, Exists, vars
    <3> QED BY <2>1, <3>1, QuietKeeps DEF vars
  <2>2. ASSUME NEW c \in Cells,
               Get(c) \/ Reload(c) \/ (\E s \in Slots : Borrow(c, s)) \/ \E k \in Chains : Assign(c, k)
        PROVE  CellInv'
    BY <2>2, GetKeeps, BorrowKeeps, ReloadKeeps
  <2>3. ASSUME NEW s \in Slots, DropHandle(s) PROVE CellInv'
    BY <2>3, DropHandleKeeps
  <2>4. CASE DestructorEnds \/ ClosureEnds
    BY <2>4, DestructorEndsKeeps, ClosureEndsKeeps
  <2>5. CASE \/ \E c \in Cells : FromArcShift(c) \/ MakeArcShift(c) \/ DropCell(c)
             \/ \E c, d \in Cells : Clone(c, d)
             \/ \E s \in Slots : ForgetHandle(s)
             \/ \E v \in kept : DropArcShift(v)
             \/ \E k \in Chains : Update(k)
    BY <2>5, OthersKeep
  <2> QED BY <2>1, <2>2, <2>3, <2>4, <2>5 DEF Next
<1> QED BY <1>1, <1>2, PTL DEF Spec

(* Every variable keeps its type: a reload and a clone find a value, and   *)
(* depth is a usize.                                                       *)
THEOREM CellTypesHold == Spec => []TypeOK
<1>1. CellInv => TypeOK
  BY DEF CellInv
<1> QED BY <1>1, CellInvHolds, PTL

(* The flag of a cell is up for exactly as long as a reload of it is on    *)
(* the stack, and nothing of that cell is above it: whatever destructors   *)
(* and closures call, and however they end.                                *)
THEOREM ReloadsStayAlone == Spec => []ReloadsAreAlone
<1>1. CellInv => ReloadsAreAlone
  BY DEF CellInv
<1> QED BY <1>1, CellInvHolds, PTL

-----------------------------------------------------------------------------
(* Remainders. *)

(* A number has one quotient and one remainder. *)
LEMMA OneRemainder ==
  ASSUME NEW u \in Nat \ {0, 1}, NEW n \in Int, NEW q \in Int, NEW r \in 0..(u - 1), n = u * q + r
  PROVE  n % u = r
<1>1. n = u * (n \div u) + (n % u) /\ n \div u \in Int /\ n % u \in 0..(u - 1)
  OBVIOUS
<1>2. \A a, b \in Int : a < b => u * b - u * a >= u
  <2> SUFFICES ASSUME NEW a \in Int, NEW b \in Int, a < b PROVE u * b - u * a >= u
    OBVIOUS
  <2>1. u * (b - a) >= u
    OBVIOUS
  <2>2. u * (b - a) = u * b - u * a
    OBVIOUS
  <2> QED BY <2>1, <2>2
<1> DEFINE p == n \div u
<1> DEFINE m == n % u
<1> HIDE DEF p, m
<1>3. n = u * p + m /\ p \in Int /\ m \in 0..(u - 1)
  BY <1>1 DEF p, m
<1>4. CASE p < q
  BY <1>2, <1>3, <1>4
<1>5. CASE q < p
  BY <1>2, <1>3, <1>5
<1>6. CASE p = q
  BY <1>3, <1>6 DEF m
<1> QED BY <1>3, <1>4, <1>5, <1>6

(* One more, or one less, than a remainder wraps as the number itself does. *)
LEMMA CountWraps ==
  ASSUME NEW u \in Nat \ {0, 1}, NEW n \in Int
  PROVE  /\ ((n % u) + 1) % u = (n + 1) % u
         /\ ((n % u) - 1) % u = (n - 1) % u
<1> DEFINE p == n \div u
<1> DEFINE m == n % u
<1>1. n = u * p + m /\ p \in Int /\ m \in 0..(u - 1)
  OBVIOUS
<1> HIDE DEF p, m
<1>2. (m + 1) % u = (n + 1) % u
  <2>1. CASE m + 1 = u
    <3>1. m + 1 = u * 1 + 0 /\ n + 1 = u * (p + 1) + 0
      BY <1>1, <2>1
    <3>2. (m + 1) % u = 0
      BY <1>1, <3>1, OneRemainder
    <3>3. (n + 1) % u = 0
      BY <1>1, <3>1, OneRemainder
    <3> QED BY <3>2, <3>3
  <2>2. CASE m + 1 # u
    <3>1. m + 1 = u * 0 + (m + 1) /\ n + 1 = u * p + (m + 1) /\ m + 1 \in 0..(u - 1)
      BY <1>1, <2>2
    <3>2. (m + 1) % u = m + 1
      BY <1>1, <3>1, OneRemainder
    <3>3. (n + 1) % u = m + 1
      BY <1>1, <3>1, OneRemainder
    <3> QED BY <3>2, <3>3
  <2> QED BY <2>1, <2>2
<1>3. (m - 1) % u = (n - 1) % u
  <2>1. CASE m = 0
    <3>1. m - 1 = u * (-1) + (u - 1) /\ n - 1 = u * (p - 1) + (u - 1)
      BY <1>1, <2>1
    <3>2. (m - 1) % u = u - 1
      BY <1>1, <3>1, OneRemainder
    <3>3. (n - 1) % u = u - 1
      BY <1>1, <3>1, OneRemainder
    <3> QED BY <3>2, <3>3
  <2>2. CASE m # 0
    <3>1. m - 1 = u * 0 + (m - 1) /\ n - 1 = u * p + (m - 1) /\ m - 1 \in 0..(u - 1)
      BY <1>1, <2>2
    <3>2. (m - 1) % u = m - 1
      BY <1>1, <3>1, OneRemainder
    <3>3. (n - 1) % u = m - 1
      BY <1>1, <3>1, OneRemainder
    <3> QED BY <3>2, <3>3
  <2> QED BY <2>1, <2>2
<1> QED BY <1>2, <1>3 DEF m

-----------------------------------------------------------------------------
(* Counting: the frames of a cell, its handles, and a depth that counts     *)
(* them modulo the size of a usize.                                         *)

\* frames of c of the given kinds, handles of c, and what depth[c] counts
FramesOf(fs, c, kinds) == {i \in DOMAIN fs : fs[i].cell = c /\ fs[i].kind \in kinds}
HandleType == [cell : Cells, value : Values] \cup {NoHandle}
Lent(sl, c) == {s \in Slots : sl[s].cell = c}
Entering == {"get", "borrow", "unborrow"}
Uses(fs, sl, fg, c) ==
  Cardinality(FramesOf(fs, c, {"closure"})) + Cardinality(Lent(sl, c)) + fg[c]
    + Cardinality(FramesOf(fs, c, Entering))

\* 1 if x is one of them
Counts(x, c) == IF x.cell = c /\ x.kind \in {"closure"} \cup Entering THEN 1 ELSE 0

(* The frames of a cell are finitely many. *)
LEMMA FramesFinite ==
  ASSUME NEW fs \in Seq(FrameType), NEW c, NEW kinds
  PROVE  IsFiniteSet(FramesOf(fs, c, kinds)) /\ Cardinality(FramesOf(fs, c, kinds)) \in Nat
<1>1. DOMAIN fs = 1..Len(fs) /\ Len(fs) \in Nat
  OBVIOUS
<1>2. IsFiniteSet(1..Len(fs))
  BY <1>1, FS_Interval
<1>3. FramesOf(fs, c, kinds) \in SUBSET (1..Len(fs))
  BY <1>1 DEF FramesOf
<1> QED BY <1>2, <1>3, FS_Subset, FS_CardinalityType

(* A frame on top adds one to the frames of its cell and kind. *)
LEMMA FramesPushed ==
  ASSUME NEW fs \in Seq(FrameType), NEW x \in FrameType, NEW c, NEW kinds
  PROVE  Cardinality(FramesOf(<<x>> \o fs, c, kinds)) =
           Cardinality(FramesOf(fs, c, kinds)) + (IF x.cell = c /\ x.kind \in kinds THEN 1 ELSE 0)
<1> DEFINE q == <<x>> \o fs
<1> DEFINE S == FramesOf(fs, c, kinds)
<1> DEFINE T == {i \in FramesOf(q, c, kinds) : i # 1}
<1> DEFINE f == [i \in S |-> i + 1]
<1>1. /\ DOMAIN q = 1..(Len(fs) + 1) /\ q[1] = x
      /\ \A i \in 2..(Len(fs) + 1) : q[i] = fs[i - 1]
      /\ Len(fs) \in Nat /\ DOMAIN fs = 1..Len(fs)
  BY PushFrame
<1> HIDE DEF q
<1>2. S \subseteq 1..Len(fs) /\ T \subseteq 2..(Len(fs) + 1)
  BY <1>1 DEF FramesOf
<1>3. \A i \in 2..(Len(fs) + 1) : i \in T <=> i - 1 \in S
  BY <1>1 DEF FramesOf
<1>4. f \in Bijection(S, T)
  <2> HIDE DEF S, T
  <2>1. \A i \in S : i + 1 \in T
    BY <1>2, <1>3
  <2>2. f \in [S -> T]
    BY <2>1
  <2>3. \A i, j \in S : f[i] = f[j] => i = j
    BY <1>2
  <2>4. \A j \in T : \E i \in S : f[i] = j
    <3> SUFFICES ASSUME NEW j \in T PROVE \E i \in S : f[i] = j
      OBVIOUS
    <3>1. j - 1 \in S /\ j \in Int
      BY <1>2, <1>3
    <3> QED BY <3>1
  <2> HIDE DEF f
  <2> QED BY <2>2, <2>3, <2>4 DEF Bijection, Injection, Surjection, IsInjective
<1>5. IsFiniteSet(S) /\ Cardinality(S) \in Nat
  BY FramesFinite
<1>6. IsFiniteSet(T) /\ Cardinality(T) = Cardinality(S)
  <2> HIDE DEF S, T, f
  <2> QED BY <1>4, <1>5, FS_Bijection DEF ExistsBijection
<1>7. CASE x.cell = c /\ x.kind \in kinds
  <2>1. FramesOf(q, c, kinds) = T \cup {1} /\ 1 \notin T
    BY <1>1, <1>7 DEF FramesOf
  <2> HIDE DEF S, T
  <2> QED BY <1>5, <1>6, <1>7, <2>1, FS_AddElement DEF q, S
<1>8. CASE ~(x.cell = c /\ x.kind \in kinds)
  <2>1. FramesOf(q, c, kinds) = T
    BY <1>1, <1>8 DEF FramesOf
  <2> HIDE DEF T
  <2> QED BY <1>5, <1>6, <1>8, <2>1 DEF q
<1> QED BY <1>7, <1>8

(* The handles of a cell are finitely many. *)
LEMMA HandlesFinite ==
  ASSUME NEW sl, NEW c
  PROVE  IsFiniteSet(Lent(sl, c)) /\ Cardinality(Lent(sl, c)) \in Nat
  BY CellAssumption, FS_Subset, FS_CardinalityType DEF Lent

(* A slot that is filled has one handle more, of the cell it is of. *)
LEMMA HandleComes ==
  ASSUME NEW sl \in [Slots -> HandleType], NEW s \in Slots, sl[s] = NoHandle,
         NEW h \in HandleType, NEW c \in Cells
  PROVE  Cardinality(Lent([sl EXCEPT ![s] = h], c)) =
           Cardinality(Lent(sl, c)) + (IF h.cell = c THEN 1 ELSE 0)
<1>1. Lent([sl EXCEPT ![s] = h], c) = (IF h.cell = c THEN Lent(sl, c) \cup {s} ELSE Lent(sl, c))
  BY CellAssumption DEF Lent, NoHandle
<1>2. s \notin Lent(sl, c)
  BY CellAssumption DEF Lent, NoHandle
<1> DEFINE L == Lent(sl, c)
<1>3. IsFiniteSet(L) /\ Cardinality(L) \in Nat
  BY HandlesFinite
<1> HIDE DEF L
<1>4. Cardinality(L \cup {s}) = Cardinality(L) + 1
  BY <1>2, <1>3, FS_AddElement DEF L
<1> QED BY <1>1, <1>3, <1>4 DEF L

(* A slot that is emptied had one. *)
LEMMA HandleGoes ==
  ASSUME NEW sl \in [Slots -> HandleType], NEW s \in Slots, NEW c \in Cells
  PROVE  Cardinality(Lent([sl EXCEPT ![s] = NoHandle], c)) =
           Cardinality(Lent(sl, c)) - (IF sl[s].cell = c THEN 1 ELSE 0)
<1>1. Lent([sl EXCEPT ![s] = NoHandle], c) = Lent(sl, c) \ {s} /\ (s \in Lent(sl, c) <=> sl[s].cell = c)
  BY CellAssumption DEF Lent, NoHandle
<1> DEFINE L == Lent(sl, c)
<1>2. IsFiniteSet(L) /\ Cardinality(L) \in Nat
  BY HandlesFinite
<1> HIDE DEF L
<1>3. Cardinality(L \ {s}) = IF s \in L THEN Cardinality(L) - 1 ELSE Cardinality(L)
  BY <1>2, FS_RemoveElement
<1> DEFINE M == Lent([sl EXCEPT ![s] = NoHandle], c)
<1>4. M = L \ {s} /\ (s \in L <=> sl[s].cell = c)
  BY <1>1 DEF L
<1> HIDE DEF M
<1>5. Cardinality(M) = Cardinality(L) - (IF sl[s].cell = c THEN 1 ELSE 0)
  BY <1>2, <1>3, <1>4
<1> QED BY <1>5 DEF L, M

(* What depth counts is a number; a frame on top, and the one that is left, *)
(* is one of it or none.                                                    *)
LEMMA UsesPushed ==
  ASSUME NEW fs \in Seq(FrameType), NEW sl \in [Slots -> HandleType], NEW fg \in [Cells -> Nat],
         NEW x \in FrameType, NEW c \in Cells
  PROVE  /\ Uses(fs, sl, fg, c) \in Nat
         /\ Uses(<<x>> \o fs, sl, fg, c) = Uses(fs, sl, fg, c) + Counts(x, c)
<1> DEFINE q == <<x>> \o fs
<1>1. /\ Cardinality(FramesOf(fs, c, {"closure"})) \in Nat /\ Cardinality(FramesOf(fs, c, Entering)) \in Nat
  BY FramesFinite
<1>2. Cardinality(Lent(sl, c)) \in Nat
  BY HandlesFinite
<1>3. /\ Cardinality(FramesOf(q, c, {"closure"})) =
           Cardinality(FramesOf(fs, c, {"closure"})) + (IF x.cell = c /\ x.kind \in {"closure"} THEN 1 ELSE 0)
      /\ Cardinality(FramesOf(q, c, Entering)) =
           Cardinality(FramesOf(fs, c, Entering)) + (IF x.cell = c /\ x.kind \in Entering THEN 1 ELSE 0)
  BY FramesPushed
<1>4. "closure" \notin Entering
  BY DEF Entering
<1> HIDE DEF q
<1> DEFINE a == Cardinality(FramesOf(fs, c, {"closure"}))
<1> DEFINE b == Cardinality(FramesOf(fs, c, Entering))
<1> DEFINE l == Cardinality(Lent(sl, c))
<1>5. a \in Nat /\ b \in Nat /\ l \in Nat /\ fg[c] \in Nat
  BY <1>1, <1>2
<1> HIDE DEF a, b, l
<1>6. Uses(fs, sl, fg, c) = a + l + fg[c] + b
  BY DEF Uses, a, b, l
<1>7. Uses(q, sl, fg, c) = (a + (IF x.cell = c /\ x.kind \in {"closure"} THEN 1 ELSE 0)) + l + fg[c]
                             + (b + (IF x.cell = c /\ x.kind \in Entering THEN 1 ELSE 0))
  BY <1>3 DEF Uses, a, b, l
<1>8. Uses(q, sl, fg, c) = Uses(fs, sl, fg, c) + Counts(x, c)
  <2>1. CASE x.cell = c /\ x.kind = "closure"
    BY <2>1, <1>4, <1>5, <1>6, <1>7 DEF Counts
  <2>2. CASE x.cell = c /\ x.kind \in Entering
    BY <2>2, <1>4, <1>5, <1>6, <1>7 DEF Counts
  <2>3. CASE ~(x.cell = c /\ x.kind \in {"closure"} \cup Entering)
    BY <2>3, <1>5, <1>6, <1>7 DEF Counts
  <2> QED BY <2>1, <2>2, <2>3
<1> QED BY <1>5, <1>6, <1>8 DEF q

(* The frame that is left was one of what depth counts, or none.            *)
LEMMA UsesPopped ==
  ASSUME NEW fs \in Seq(FrameType), fs # <<>>, NEW sl \in [Slots -> HandleType],
         NEW fg \in [Cells -> Nat], NEW c \in Cells
  PROVE  /\ Uses(Tail(fs), sl, fg, c) \in Nat
         /\ Uses(fs, sl, fg, c) = Uses(Tail(fs), sl, fg, c) + Counts(Head(fs), c)
<1> DEFINE x == Head(fs)
<1> DEFINE t == Tail(fs)
<1>1. fs = <<x>> \o t /\ x \in FrameType /\ t \in Seq(FrameType)
  OBVIOUS
<1> HIDE DEF x, t
<1>2. Uses(t, sl, fg, c) \in Nat /\ Uses(<<x>> \o t, sl, fg, c) = Uses(t, sl, fg, c) + Counts(x, c)
  BY <1>1, UsesPushed
<1>3. Uses(<<x>> \o t, sl, fg, c) = Uses(fs, sl, fg, c)
  BY <1>1
<1> QED BY <1>2, <1>3 DEF x, t

(* A handle that comes is one of what depth counts, and one that goes was.  *)
LEMMA UsesLent ==
  ASSUME NEW fs \in Seq(FrameType), NEW sl \in [Slots -> HandleType], NEW fg \in [Cells -> Nat],
         NEW s \in Slots, sl[s] = NoHandle, NEW h \in HandleType, NEW c \in Cells
  PROVE  Uses(fs, [sl EXCEPT ![s] = h], fg, c) = Uses(fs, sl, fg, c) + (IF h.cell = c THEN 1 ELSE 0)
<1> DEFINE a == Cardinality(FramesOf(fs, c, {"closure"}))
<1> DEFINE b == Cardinality(FramesOf(fs, c, Entering))
<1> DEFINE l == Cardinality(Lent(sl, c))
<1> DEFINE m == Cardinality(Lent([sl EXCEPT ![s] = h], c))
<1>1. a \in Nat /\ b \in Nat /\ l \in Nat /\ fg[c] \in Nat
  BY FramesFinite, HandlesFinite
<1>2. Cardinality(Lent([sl EXCEPT ![s] = h], c)) = Cardinality(Lent(sl, c)) + (IF h.cell = c THEN 1 ELSE 0)
  BY HandleComes
<1>3. Uses(fs, sl, fg, c) = a + l + fg[c] + b /\ Uses(fs, [sl EXCEPT ![s] = h], fg, c) = a + m + fg[c] + b
  BY DEF Uses
<1>4. (m = l + (IF h.cell = c THEN 1 ELSE 0)) /\ a \in Nat /\ b \in Nat /\ l \in Nat
  BY <1>1, <1>2
<1> HIDE DEF a, b, l, m
<1> QED BY <1>1, <1>3, <1>4

(* A handle that goes is one less of what depth counts for its cell.        *)
LEMMA UsesReturned ==
  ASSUME NEW fs \in Seq(FrameType), NEW sl \in [Slots -> HandleType], NEW fg \in [Cells -> Nat],
         NEW s \in Slots, NEW c \in Cells
  PROVE  Uses(fs, [sl EXCEPT ![s] = NoHandle], fg, c) =
           Uses(fs, sl, fg, c) - (IF sl[s].cell = c THEN 1 ELSE 0)
<1> DEFINE a == Cardinality(FramesOf(fs, c, {"closure"}))
<1> DEFINE b == Cardinality(FramesOf(fs, c, Entering))
<1> DEFINE l == Cardinality(Lent(sl, c))
<1> DEFINE m == Cardinality(Lent([sl EXCEPT ![s] = NoHandle], c))
<1>1. a \in Nat /\ b \in Nat /\ l \in Nat /\ fg[c] \in Nat
  BY FramesFinite, HandlesFinite
<1>2. Cardinality(Lent([sl EXCEPT ![s] = NoHandle], c)) =
        Cardinality(Lent(sl, c)) - (IF sl[s].cell = c THEN 1 ELSE 0)
  BY HandleGoes
<1>3. /\ Uses(fs, sl, fg, c) = a + l + fg[c] + b
      /\ Uses(fs, [sl EXCEPT ![s] = NoHandle], fg, c) = a + m + fg[c] + b
  BY DEF Uses
<1>4. (m = l - (IF sl[s].cell = c THEN 1 ELSE 0)) /\ a \in Nat /\ b \in Nat /\ l \in Nat
  BY <1>1, <1>2
<1> HIDE DEF a, b, l, m
<1>5. CASE sl[s].cell = c
  BY <1>1, <1>3, <1>4, <1>5
<1>6. CASE sl[s].cell # c
  BY <1>1, <1>3, <1>4, <1>6
<1> QED BY <1>5, <1>6

\* DepthCounts, for any stack, handles and depths
Exact(fs, sl, dp, fg) == \A c \in Cells : dp[c] = Uses(fs, sl, fg, c) % UsizeValues

(* DepthCounts, in those words. *)
LEMMA DepthCountsIs == DepthCounts <=> Exact(frames, slot, depth, forgotten)
  BY DEF DepthCounts, Exact, Uses, Closures, HandlesOf, FramesOf, Lent, Entering

(* The same after a step. *)
LEMMA DepthCountsAfter ==
  ASSUME Exact(frames', slot', depth', forgotten') PROVE DepthCounts'
  BY DEF DepthCounts, Exact, Uses, Closures, HandlesOf, FramesOf, Lent, Entering

(* A depth that is raised or lowered counts one more or one less. *)
LEMMA DepthMoves ==
  ASSUME NEW n \in Int
  PROVE  /\ Raised(n % UsizeValues) = (n + 1) % UsizeValues
         /\ Lowered(n % UsizeValues) = (n - 1) % UsizeValues
  BY CellAssumption, CountWraps DEF Raised, Lowered

-----------------------------------------------------------------------------
(* The steps, and what they owe to DepthInv. *)

\* SlotsReserved, for any stack and handles
Reserved(fs, sl) ==
  \A i \in DOMAIN fs :
    IF fs[i].kind = "borrow"
    THEN /\ fs[i].slot \in Slots /\ sl[fs[i].slot] = NoHandle
         /\ \A j \in DOMAIN fs : fs[j].slot = fs[i].slot => j = i
    ELSE fs[i].slot = None

(* DepthInv, in those words. *)
LEMMA DepthInvParts ==
  DepthInv <=> /\ Exact(frames, slot, depth, forgotten) /\ Reserved(frames, slot)
               /\ Len(frames) <= MaxFrames
  BY DepthCountsIs DEF DepthInv, SlotsReserved, Reserved

(* What a step owes to DepthInv. *)
LEMMA DepthInvAfter ==
  ASSUME Exact(frames', slot', depth', forgotten'), Reserved(frames', slot'),
         Len(frames') <= MaxFrames
  PROVE  DepthInv'
  BY DepthCountsAfter DEF DepthInv, SlotsReserved, Reserved

(* A frame on top: its slot, if it has one, is free and no other frame's. *)
LEMMA PushReserved ==
  ASSUME NEW fs \in Seq(FrameType), NEW sl \in [Slots -> HandleType], Reserved(fs, sl),
         NEW x \in FrameType,
         IF x.kind = "borrow"
         THEN x.slot \in Slots /\ sl[x.slot] = NoHandle /\ \A i \in DOMAIN fs : fs[i].slot # x.slot
         ELSE x.slot = None
  PROVE  Reserved(<<x>> \o fs, sl)
<1> DEFINE q == <<x>> \o fs
<1>1. /\ DOMAIN q = 1..(Len(fs) + 1) /\ q[1] = x
      /\ \A i \in 2..(Len(fs) + 1) : q[i] = fs[i - 1]
      /\ Len(fs) \in Nat /\ DOMAIN fs = 1..Len(fs)
  BY PushFrame
<1> HIDE DEF q
<1>2. \A i \in DOMAIN q : i = 1 \/ (i - 1 \in DOMAIN fs /\ q[i] = fs[i - 1])
  BY <1>1
<1>3. \A i \in DOMAIN q, j \in DOMAIN q : i - 1 = j - 1 => i = j
  BY <1>1
<1>4. None \notin Slots
  BY CellAssumption
<1>5. Reserved(q, sl)
  <2> SUFFICES ASSUME NEW i \in DOMAIN q
               PROVE  IF q[i].kind = "borrow"
                      THEN /\ q[i].slot \in Slots /\ sl[q[i].slot] = NoHandle
                           /\ \A j \in DOMAIN q : q[j].slot = q[i].slot => j = i
                      ELSE q[i].slot = None
    BY DEF Reserved
  <2>1. CASE i = 1
    BY <2>1, <1>1, <1>2
  <2>2. CASE i # 1
    <3>1. i - 1 \in DOMAIN fs /\ q[i] = fs[i - 1]
      BY <2>2, <1>2
    <3>2. CASE q[i].kind = "borrow"
      <4>1. /\ q[i].slot \in Slots /\ sl[q[i].slot] = NoHandle
            /\ \A j \in DOMAIN fs : fs[j].slot = q[i].slot => j = i - 1
        BY <3>1, <3>2 DEF Reserved
      <4>2. ASSUME NEW j \in DOMAIN q, q[j].slot = q[i].slot PROVE j = i
        <5>1. CASE j = 1
          BY <5>1, <4>1, <4>2, <3>1, <1>1, <1>4
        <5>2. CASE j # 1
          <6>1. j - 1 \in DOMAIN fs /\ q[j] = fs[j - 1]
            BY <5>2, <1>2
          <6> QED BY <6>1, <4>1, <4>2, <1>3
        <5> QED BY <5>1, <5>2
      <4> QED BY <3>2, <4>1, <4>2
    <3>3. CASE q[i].kind # "borrow"
      BY <3>1, <3>3 DEF Reserved
    <3> QED BY <3>2, <3>3
  <2> QED BY <2>1, <2>2
<1> QED BY <1>5 DEF q

(* Without the top frame: its slot is no longer anybody's. *)
LEMMA PopReserved ==
  ASSUME NEW fs \in Seq(FrameType), fs # <<>>, NEW sl, Reserved(fs, sl)
  PROVE  /\ Reserved(Tail(fs), sl) /\ Len(Tail(fs)) = Len(fs) - 1
         /\ Head(fs).kind # "borrow" => Head(fs).slot = None
         /\ Head(fs).kind = "borrow" =>
              /\ Head(fs).slot \in Slots /\ sl[Head(fs).slot] = NoHandle
              /\ \A i \in DOMAIN Tail(fs) : Tail(fs)[i].slot # Head(fs).slot
<1> DEFINE q == Tail(fs)
<1> DEFINE x == Head(fs)
<1>1. /\ DOMAIN q = 1..(Len(fs) - 1) /\ x = fs[1] /\ Len(q) = Len(fs) - 1
      /\ \A i \in 1..(Len(fs) - 1) : q[i] = fs[i + 1]
      /\ Len(fs) \in Nat \ {0} /\ DOMAIN fs = 1..Len(fs)
  BY PopFrame
<1> HIDE DEF q, x
<1>2. \A i \in DOMAIN q : i + 1 \in DOMAIN fs /\ i + 1 # 1 /\ q[i] = fs[i + 1]
  BY <1>1
<1>3. 1 \in DOMAIN fs
  BY <1>1
<1>5. Reserved(q, sl)
  <2> SUFFICES ASSUME NEW i \in DOMAIN q
               PROVE  IF q[i].kind = "borrow"
                      THEN /\ q[i].slot \in Slots /\ sl[q[i].slot] = NoHandle
                           /\ \A j \in DOMAIN q : q[j].slot = q[i].slot => j = i
                      ELSE q[i].slot = None
    BY DEF Reserved
  <2>1. CASE q[i].kind = "borrow"
    <3>1. /\ q[i].slot \in Slots /\ sl[q[i].slot] = NoHandle
          /\ \A j \in DOMAIN fs : fs[j].slot = q[i].slot => j = i + 1
      BY <2>1, <1>2 DEF Reserved
    <3>2. \A j \in DOMAIN q : q[j].slot = q[i].slot => j + 1 = i + 1
      BY <3>1, <1>2
    <3> QED BY <2>1, <3>1, <3>2, <1>1
  <2>2. CASE q[i].kind # "borrow"
    BY <2>2, <1>2 DEF Reserved
  <2> QED BY <2>1, <2>2
<1>6. x.kind # "borrow" => x.slot = None
  BY <1>1, <1>3 DEF Reserved
<1>7. x.kind = "borrow" =>
        /\ x.slot \in Slots /\ sl[x.slot] = NoHandle
        /\ \A i \in DOMAIN fs : fs[i].slot = x.slot => i = 1
  BY <1>1, <1>3 DEF Reserved
<1>8. x.kind = "borrow" => \A i \in DOMAIN q : q[i].slot # x.slot
  BY <1>2, <1>7
<1> QED BY <1>1, <1>5, <1>6, <1>7, <1>8 DEF q, x

(* A slot that is emptied, or filled when no frame waits for it. *)
LEMMA LentReserved ==
  ASSUME NEW fs, NEW sl \in [Slots -> HandleType], Reserved(fs, sl),
         NEW s \in Slots, NEW h \in HandleType,
         h = NoHandle \/ \A i \in DOMAIN fs : fs[i].slot # s
  PROVE  Reserved(fs, [sl EXCEPT ![s] = h])
  BY DEF Reserved

\* what a call that entered c counts, while its reload goes on
Entry(kind, c, d) == IF d = c /\ kind \in Entering THEN 1 ELSE 0

(* The reload is over: what entered is now a closure, a handle, or left.    *)
LEMMA DeliverCounts ==
  ASSUME NEW kind \in Reloads, NEW c \in Cells, NEW s \in Slots \cup {None}, NEW v \in Values,
         NEW below \in Seq(FrameType), Len(below) + 1 <= MaxFrames,
         NEW slots \in [Slots -> HandleType], NEW depths, NEW fg \in [Cells -> Nat],
         depths \in [Cells -> 0..(UsizeValues - 1)],
         \A d \in Cells : depths[d] = (Uses(below, slots, fg, d) + Entry(kind, c, d)) % UsizeValues,
         Reserved(below, slots),
         IF kind = "borrow"
         THEN s \in Slots /\ slots[s] = NoHandle /\ \A i \in DOMAIN below : below[i].slot # s
         ELSE s = None,
         Deliver(kind, c, s, v, below, slots, depths), forgotten' = fg
  PROVE  DepthInv'
<1>1. \A d \in Cells : Uses(below, slots, fg, d) \in Nat
  <2> DEFINE y == Frame("closure", c, None, v)
  <2>1. y \in FrameType
    BY DEF Frame, FrameType
  <2> QED BY <2>1, UsesPushed
<1>0. Len(below) \in Nat /\ MaxFrames \in Nat /\ Len(below) <= MaxFrames
  BY CellAssumption
<1>2. CASE kind = "get"
  <2> DEFINE x == Frame("closure", c, s, v)
  <2>1. /\ x \in FrameType /\ x.kind = "closure" /\ x.cell = c /\ x.slot = None
    BY <1>2 DEF Frame, FrameType, Values
  <2>2. frames' = <<x>> \o below
    BY <1>2 DEF Deliver
  <2>6. slot' = slots /\ depth' = depths
    BY <1>2 DEF Deliver
  <2> HIDE DEF x
  <2>3. \A d \in Cells : Counts(x, d) = Entry(kind, c, d)
    BY <1>2, <2>1 DEF Counts, Entry, Entering
  <2>8. \A d \in Cells : Uses(<<x>> \o below, slots, fg, d) = Uses(below, slots, fg, d) + Counts(x, d)
    BY <2>1, UsesPushed
  <2>4. Exact(frames', slot', depth', forgotten')
    BY <2>2, <2>6, <2>3, <2>8 DEF Exact
  <2>5. Reserved(frames', slot')
    BY <2>1, <2>2, <2>6, PushReserved
  <2>7. Len(frames') <= MaxFrames
    BY <2>1, <2>2, PushFrame
  <2> QED BY <2>4, <2>5, <2>7, DepthInvAfter
<1>3. CASE kind = "borrow"
  <2> DEFINE h == [cell |-> c, value |-> v]
  <2>1. /\ h \in HandleType /\ h.cell = c
        /\ s \in Slots /\ slots[s] = NoHandle
        /\ slot' = [slots EXCEPT ![s] = h] /\ frames' = below /\ depth' = depths
    BY <1>3 DEF Deliver, HandleType
  <2> HIDE DEF h
  <2>2. \A d \in Cells : Uses(below, [slots EXCEPT ![s] = h], fg, d) = Uses(below, slots, fg, d) + Entry(kind, c, d)
    <3>1. \A d \in Cells : Entry(kind, c, d) = IF h.cell = d THEN 1 ELSE 0
      BY <1>3, <2>1 DEF Entry, Entering
    <3>2. ASSUME NEW d \in Cells
          PROVE  Uses(below, [slots EXCEPT ![s] = h], fg, d) = Uses(below, slots, fg, d) + (IF h.cell = d THEN 1 ELSE 0)
      BY <2>1, UsesLent
    <3> QED BY <3>1, <3>2
  <2>3. Exact(frames', slot', depth', forgotten')
    BY <2>1, <2>2 DEF Exact
  <2>4. Reserved(frames', slot')
    BY <1>3, <2>1, LentReserved
  <2> QED BY <1>0, <2>1, <2>3, <2>4, DepthInvAfter
<1>4. CASE kind = "unborrow"
  <2>1. slot' = slots /\ frames' = below /\ depth' = [depths EXCEPT ![c] = Lowered(@)]
    BY <1>4 DEF Deliver
  <2>2. ASSUME NEW d \in Cells PROVE depth'[d] = Uses(below, slots, fg, d) % UsizeValues
    <3>1. CASE d = c
      <4>1. depth'[d] = Lowered((Uses(below, slots, fg, d) + 1) % UsizeValues)
        BY <2>1, <3>1, <1>4 DEF Entry, Entering
      <4>2. Uses(below, slots, fg, d) + 1 \in Int /\ (Uses(below, slots, fg, d) + 1) - 1 = Uses(below, slots, fg, d)
        BY <1>1
      <4> QED BY <4>1, <4>2, DepthMoves
    <3>2. CASE d # c
      <4>1. depth'[d] = depths[d] /\ Entry(kind, c, d) = 0
        BY <2>1, <3>2 DEF Entry
      <4> QED BY <4>1, <1>1
    <3> QED BY <3>1, <3>2
  <2>3. Exact(frames', slot', depth', forgotten')
    BY <2>1, <2>2 DEF Exact
  <2> QED BY <1>0, <2>1, <2>3, DepthInvAfter
<1>5. CASE kind \notin Entering
  <2>1. slot' = slots /\ frames' = below /\ depth' = depths
    BY <1>5 DEF Deliver, Entering
  <2>2. \A d \in Cells : Entry(kind, c, d) = 0
    BY <1>5 DEF Entry
  <2>3. Exact(frames', slot', depth', forgotten')
    BY <2>1, <2>2, <1>1 DEF Exact
  <2> QED BY <1>0, <2>1, <2>3, DepthInvAfter
<1> QED BY <1>2, <1>3, <1>4, <1>5 DEF Entering

(* A call that takes its cell somewhere, at once or with a destructor on the way. *)
LEMMA TakeToCounts ==
  ASSUME CellInv, DepthInv,
         NEW kind \in Reloads, NEW c \in Cells, NEW s \in Slots \cup {None}, NEW v \in Values,
         NEW slots \in [Slots -> HandleType], NEW depths \in [Cells -> 0..(UsizeValues - 1)],
         \A d \in Cells : depths[d] = (Uses(frames, slots, forgotten, d) + Entry(kind, c, d)) % UsizeValues,
         Reserved(frames, slots),
         IF kind = "borrow"
         THEN s \in Slots /\ slots[s] = NoHandle /\ \A i \in DOMAIN frames : frames[i].slot # s
         ELSE s = None,
         TakeTo(kind, c, s, v, slots, depths)
  PROVE  DepthInv'
<1>1. /\ frames \in Seq(FrameType) /\ Len(frames) <= MaxFrames
      /\ Len(frames) < MaxFrames /\ forgotten' = forgotten
      /\ MaxFrames \in Nat /\ Len(frames) \in Nat
  BY CellInvParts, DepthInvParts, CellAssumption DEF TakeTo
<1>2. forgotten \in [Cells -> Nat]
  BY CellAssumption DEF CellInv, TypeOK
<1>3. CASE Deliver(kind, c, s, v, frames, slots, depths)
  <2>1. Len(frames) + 1 <= MaxFrames
    BY <1>1
  <2>2. depths \in [Cells -> 0..(UsizeValues - 1)] /\ frames \in Seq(FrameType)
    BY <1>1
  <2>3. IF kind = "borrow"
        THEN s \in Slots /\ slots[s] = NoHandle /\ \A i \in DOMAIN frames : frames[i].slot # s
        ELSE s = None
    OBVIOUS
  <2>4. /\ \A d \in Cells : depths[d] = (Uses(frames, slots, forgotten, d) + Entry(kind, c, d)) % UsizeValues
        /\ Reserved(frames, slots)
    OBVIOUS
  <2>5. forgotten' = forgotten
    BY <1>1
  <2> QED BY ONLY <1>2, <1>3, <2>1, <2>2, <2>3, <2>4, <2>5, DeliverCounts
<1>4. CASE /\ frames' = <<Frame(kind, c, s, v)>> \o frames
           /\ slot' = slots /\ depth' = depths
  <2> DEFINE x == Frame(kind, c, s, v)
  <2>1. /\ x \in FrameType /\ x.kind = kind /\ x.cell = c /\ x.slot = s
    BY <1>1 DEF Frame, FrameType
  <2>2. frames' = <<x>> \o frames
    BY <1>4
  <2>3. \A d \in Cells : Counts(x, d) = Entry(kind, c, d)
    BY <2>1, CellInvParts DEF Counts, Entry
  <2> HIDE DEF x
  <2>7. ASSUME NEW d \in Cells
        PROVE  Uses(<<x>> \o frames, slots, forgotten, d) = Uses(frames, slots, forgotten, d) + Entry(kind, c, d)
    <3>1. /\ frames \in Seq(FrameType) /\ slots \in [Slots -> HandleType]
          /\ forgotten \in [Cells -> Nat] /\ x \in FrameType /\ d \in Cells
      BY <1>1, <1>2, <2>1
    <3>2. Uses(<<x>> \o frames, slots, forgotten, d) = Uses(frames, slots, forgotten, d) + Counts(x, d)
      BY ONLY <3>1, UsesPushed
    <3> QED BY <2>3, <3>2
  <2>4. Exact(frames', slot', depth', forgotten')
    BY <1>1, <1>4, <2>2, <2>7 DEF Exact
  <2>5. Reserved(frames', slot')
    BY <1>1, <1>4, <2>1, <2>2, PushReserved
  <2>6. Len(frames') <= MaxFrames
    <3>1. Len(frames') = Len(frames) + 1
      BY <1>1, <2>1, <2>2, PushFrame
    <3> QED BY <1>1, <3>1
  <2> QED BY <2>4, <2>5, <2>6, DepthInvAfter
<1> QED BY <1>3, <1>4 DEF TakeTo

\* the counts where a call enters c: before it, and raised for it
Counted(c) ==
  /\ slot \in [Slots -> HandleType] /\ forgotten \in [Cells -> Nat]
  /\ frames \in Seq(FrameType) /\ Reserved(frames, slot)
  /\ depth \in [Cells -> 0..(UsizeValues - 1)] /\ Entered(c) \in [Cells -> 0..(UsizeValues - 1)]
  /\ \A d \in Cells : Uses(frames, slot, forgotten, d) \in Nat
  /\ \A d \in Cells : depth[d] = Uses(frames, slot, forgotten, d) % UsizeValues
  /\ \A d \in Cells : Entered(c)[d] =
       (Uses(frames, slot, forgotten, d) + (IF d = c THEN 1 ELSE 0)) % UsizeValues
  /\ NewestFor(c) \in Values

(* The invariant says that much of every cell there is. *)
LEMMA EnteredCounts ==
  ASSUME CellInv, DepthInv, NEW c \in Cells, Exists(c)
  PROVE  Counted(c)
<1>1. /\ slot \in [Slots -> HandleType] /\ forgotten \in [Cells -> Nat]
      /\ frames \in Seq(FrameType) /\ depth \in [Cells -> 0..(UsizeValues - 1)]
  BY CellInvParts, CellAssumption DEF CellInv, TypeOK, HandleType
<1>2. Reserved(frames, slot) /\ \A d \in Cells : depth[d] = Uses(frames, slot, forgotten, d) % UsizeValues
  BY DepthInvParts DEF Exact
<1>3. \A d \in Cells : Uses(frames, slot, forgotten, d) \in Nat
  <2> DEFINE f == Frame("reload", c, None, NewestFor(c))
  <2>1. f \in FrameType
    BY NewestTyped, CellAssumption DEF CellInv, Frame, FrameType, Reloads
  <2> HIDE DEF f
  <2> QED BY <1>1, <2>1, UsesPushed
<1>4. ASSUME NEW d \in Cells
      PROVE  Entered(c)[d] = (Uses(frames, slot, forgotten, d) + (IF d = c THEN 1 ELSE 0)) % UsizeValues
  <2>1. CASE d = c
    <3>1. Entered(c)[d] = Raised(Uses(frames, slot, forgotten, d) % UsizeValues)
      BY <1>1, <1>2, <2>1 DEF Entered
    <3> QED BY <1>3, <2>1, <3>1, DepthMoves
  <2>2. CASE d # c
    <3>1. Entered(c)[d] = depth[d]
      BY <1>1, <2>2 DEF Entered
    <3> QED BY <1>2, <1>3, <2>2, <3>1
  <2> QED BY <2>1, <2>2
<1>5. Entered(c) \in [Cells -> 0..(UsizeValues - 1)]
  <2>1. Raised(depth[c]) \in 0..(UsizeValues - 1)
    BY <1>1, DepthTyped
  <2> QED BY <1>1, <2>1 DEF Entered
<1>6. NewestFor(c) \in Values
  BY NewestTyped DEF CellInv
<1> QED BY <1>1, <1>2, <1>3, <1>4, <1>5, <1>6 DEF Counted

(* get: a frame more, as closure or as reload, and a depth more. *)
LEMMA GetCounts ==
  ASSUME CellInv, DepthInv, NEW c \in Cells, Get(c) PROVE DepthInv'
<1>1. Exists(c) /\ inner[c] \in Values
  BY NewestTyped DEF Get, MayEnter, CellInv
<1>0. Counted(c)
  BY <1>1, EnteredCounts
<1>2. CASE TakeTo("get", c, None, NewestFor(c), slot, Entered(c))
  <2>1. "get" \in Reloads /\ \A d \in Cells : Entry("get", c, d) = IF d = c THEN 1 ELSE 0
    BY DEF Reloads, Entry, Entering
  <2>2. \A d \in Cells : Entered(c)[d] = (Uses(frames, slot, forgotten, d) + Entry("get", c, d)) % UsizeValues
    BY <1>1, <2>1, <1>0 DEF Counted
  <2> QED BY <1>1, <1>2, <2>1, <2>2, <1>0, TakeToCounts DEF Counted
<1>3. CASE /\ Len(frames) < MaxFrames
           /\ frames' = <<Frame("closure", c, None, inner[c])>> \o frames
           /\ depth' = Entered(c)
           /\ UNCHANGED <<newest, kept, inner, reloading, slot, destroyed, forgotten>>
  <2> DEFINE f == Frame("closure", c, None, inner[c])
  <2>1. /\ f \in FrameType /\ f.kind = "closure" /\ f.slot = None
        /\ \A d \in Cells : Counts(f, d) = IF d = c THEN 1 ELSE 0
    BY <1>1, CellAssumption DEF Frame, FrameType, Values, Counts
  <2>2. frames' = <<f>> \o frames
    BY <1>3
  <2> HIDE DEF f
  <2>3. Exact(frames', slot', depth', forgotten')
    <3>1. \A d \in Cells : Uses(<<f>> \o frames, slot, forgotten, d) = Uses(frames, slot, forgotten, d) + Counts(f, d)
      BY <1>1, <2>1, <1>0, UsesPushed DEF Counted
    <3> QED BY <1>1, <1>3, <2>1, <2>2, <3>1, <1>0 DEF Counted, Exact
  <2>4. Reserved(frames', slot')
    BY <1>1, <1>3, <2>1, <2>2, <1>0, DepthInvParts, PushReserved DEF Counted
  <2>5. Len(frames') <= MaxFrames
    <3>1. Len(frames') = Len(frames) + 1 /\ Len(frames) \in Nat
      BY <1>1, <2>1, <2>2, <1>0, PushFrame DEF Counted
    <3> QED BY <1>3, <3>1, CellAssumption
  <2> QED BY <2>3, <2>4, <2>5, DepthInvAfter
<1> QED BY <1>2, <1>3 DEF Get

(* borrow: a handle more, or the reload before it, and a depth more. *)
LEMMA BorrowCounts ==
  ASSUME CellInv, DepthInv, NEW c \in Cells, NEW s \in Slots, Borrow(c, s) PROVE DepthInv'
<1>1. /\ Exists(c) /\ inner[c] \in Values
      /\ slot[s] = NoHandle /\ \A i \in DOMAIN frames : frames[i].slot # s
  BY NewestTyped DEF Borrow, MayEnter, CellInv, FreeSlot
<1>0. Counted(c)
  BY <1>1, EnteredCounts
<1>2. CASE TakeTo("borrow", c, s, NewestFor(c), slot, Entered(c))
  <2>1. "borrow" \in Reloads /\ \A d \in Cells : Entry("borrow", c, d) = IF d = c THEN 1 ELSE 0
    BY DEF Reloads, Entry, Entering
  <2>2. \A d \in Cells : Entered(c)[d] = (Uses(frames, slot, forgotten, d) + Entry("borrow", c, d)) % UsizeValues
    BY <1>1, <2>1, <1>0 DEF Counted
  <2> QED BY <1>1, <1>2, <2>1, <2>2, <1>0, TakeToCounts DEF Counted
<1>3. CASE /\ slot' = [slot EXCEPT ![s] = [cell |-> c, value |-> inner[c]]]
           /\ depth' = Entered(c)
           /\ UNCHANGED <<newest, kept, inner, reloading, frames, destroyed, forgotten>>
  <2> DEFINE h == [cell |-> c, value |-> inner[c]]
  <2>1. h \in HandleType /\ h.cell = c /\ slot' = [slot EXCEPT ![s] = h]
    BY <1>1, <1>3 DEF HandleType
  <2> HIDE DEF h
  <2>2. \A d \in Cells : Uses(frames, [slot EXCEPT ![s] = h], forgotten, d) =
                           Uses(frames, slot, forgotten, d) + (IF h.cell = d THEN 1 ELSE 0)
    BY <1>1, <2>1, <1>0, UsesLent DEF Counted
  <2>5. frames' = frames /\ forgotten' = forgotten /\ depth' = Entered(c)
    BY <1>3
  <2>3. Exact(frames', slot', depth', forgotten')
    <3>1. \A d \in Cells : Entered(c)[d] = Uses(frames, [slot EXCEPT ![s] = h], forgotten, d) % UsizeValues
      BY <2>1, <2>2, <1>0 DEF Counted
    <3> QED BY <2>1, <2>5, <3>1 DEF Exact
  <2>4. Reserved(frames', slot')
    BY <1>1, <2>1, <2>5, <1>0, LentReserved DEF Counted
  <2> QED BY <1>3, <2>3, <2>4, DepthInvParts, DepthInvAfter
<1> QED BY <1>2, <1>3 DEF Borrow

(* The drop of a handle: what it counted goes at once, or is the reload's. *)
LEMMA DropHandleCounts ==
  ASSUME CellInv, DepthInv, NEW s \in Slots, DropHandle(s) PROVE DepthInv'
<1> DEFINE c == slot[s].cell
<1> DEFINE slots == [slot EXCEPT ![s] = NoHandle]
<1>1. c \in Cells /\ Exists(c)
  <2>1. slot[s] # NoHandle /\ slot \in [Slots -> [cell : Cells, value : Values] \cup {NoHandle}]
    BY DEF DropHandle, CellInv, TypeOK
  <2> QED BY <2>1 DEF CellInv, HandlesExist
<1>0. Counted(c)
  BY <1>1, EnteredCounts
<1>6. slots = [slot EXCEPT ![s] = NoHandle] /\ c = slot[s].cell
  OBVIOUS
<1> HIDE DEF c, slots
<1>2. \A d \in Cells : /\ Uses(frames, slots, forgotten, d) =
                            Uses(frames, slot, forgotten, d) - (IF d = c THEN 1 ELSE 0)
                       /\ Uses(frames, slot, forgotten, d) \in Nat
  <2> SUFFICES ASSUME NEW d \in Cells
               PROVE  /\ Uses(frames, slots, forgotten, d) =
                           Uses(frames, slot, forgotten, d) - (IF d = c THEN 1 ELSE 0)
                      /\ Uses(frames, slot, forgotten, d) \in Nat
    OBVIOUS
  <2>1. Uses(frames, slots, forgotten, d) = Uses(frames, slot, forgotten, d) - (IF c = d THEN 1 ELSE 0)
    BY <1>0, <1>6, UsesReturned DEF Counted
  <2> QED BY <1>0, <2>1 DEF Counted
<1>3. slots \in [Slots -> HandleType] /\ Reserved(frames, slots)
  <2>1. NoHandle \in HandleType
    BY DEF HandleType
  <2> QED BY <1>0, <1>6, <2>1, LentReserved DEF Counted
<1>4. CASE TakeTo("unborrow", c, None, NewestFor(c), slots, depth)
  <2>1. "unborrow" \in Reloads /\ \A d \in Cells : Entry("unborrow", c, d) = IF d = c THEN 1 ELSE 0
    BY DEF Reloads, Entry, Entering
  <2>2. \A d \in Cells : depth[d] = (Uses(frames, slots, forgotten, d) + Entry("unborrow", c, d)) % UsizeValues
    <3>1. \A d \in Cells : Uses(frames, slots, forgotten, d) + Entry("unborrow", c, d) = Uses(frames, slot, forgotten, d)
      BY <1>2, <2>1
    <3> QED BY <1>1, <3>1, <1>0 DEF Counted
  <2>3. /\ NewestFor(c) \in Values /\ depth \in [Cells -> 0..(UsizeValues - 1)]
    BY <1>0, <1>1 DEF Counted
  <2> QED BY <1>1, <1>3, <1>4, <2>1, <2>2, <2>3, TakeToCounts
<1>5. CASE /\ slot' = slots
           /\ depth' = [depth EXCEPT ![c] = Lowered(@)]
           /\ UNCHANGED <<newest, kept, inner, reloading, frames, destroyed, forgotten>>
  <2>1. ASSUME NEW d \in Cells PROVE depth'[d] = Uses(frames, slots, forgotten, d) % UsizeValues
    <3>1. depth[d] = Uses(frames, slot, forgotten, d) % UsizeValues /\ depth \in [Cells -> 0..(UsizeValues - 1)]
      BY <1>0, <1>1 DEF Counted
    <3>2. CASE d = c
      <4>1. depth'[d] = Lowered(Uses(frames, slot, forgotten, d) % UsizeValues)
        BY <1>5, <3>1, <3>2
      <4> QED BY <1>2, <3>2, <4>1, DepthMoves
    <3>3. CASE d # c
      BY <1>2, <1>5, <3>1, <3>3
    <3> QED BY <3>2, <3>3
  <2>2. Exact(frames', slot', depth', forgotten')
    BY <1>5, <2>1 DEF Exact
  <2> QED BY <1>3, <1>5, <2>2, DepthInvParts, DepthInvAfter
<1> QED BY <1>4, <1>5 DEF DropHandle, c, slots

(* reload and assign count nothing: the cell is idle before and after. *)
LEMMA ReloadCounts ==
  ASSUME CellInv, DepthInv, NEW c \in Cells, Reload(c) \/ \E k \in Chains : Assign(c, k) PROVE DepthInv'
<1>1. Exists(c)
  BY DEF Reload, Assign
<1>0. Counted(c)
  BY <1>1, EnteredCounts
<1>2. \A d \in Cells : Entry("reload", c, d) = 0 /\ Entry("assign", c, d) = 0
  BY DEF Entry, Entering
<1>3. "reload" \in Reloads /\ "assign" \in Reloads
  BY DEF Reloads
<1>4. \A d \in Cells : /\ depth[d] = (Uses(frames, slot, forgotten, d) + Entry("reload", c, d)) % UsizeValues
                       /\ depth[d] = (Uses(frames, slot, forgotten, d) + Entry("assign", c, d)) % UsizeValues
  BY <1>1, <1>2, <1>0 DEF Counted
<1>5. CASE Reload(c)
  BY <1>1, <1>3, <1>4, <1>5, <1>0, TakeToCounts DEF Counted, Reload
<1>6. ASSUME NEW k \in Chains, Assign(c, k) PROVE DepthInv'
  <2>1. Newest(k) \in Values
    BY NewestTyped DEF CellInv
  <2> QED BY <1>1, <1>3, <1>4, <1>6, <2>1, <1>0, TakeToCounts DEF Counted, Assign
<1> QED BY <1>5, <1>6

(* A destructor that ends: the reload's count becomes that of what it hands *)
(* out, or goes with the frame.                                             *)
LEMMA DestructorEndsCounts ==
  ASSUME CellInv, DepthInv, DestructorEnds PROVE DepthInv'
<1> DEFINE f == Head(frames)
<1> DEFINE c == f.cell
<1> DEFINE below == Tail(frames)
<1>0. PICK v \in Values : Finish(f, v) \/ GoOn(f, v)
  BY DestructorEndsIs
<1>1. frames # <<>> /\ f.kind \in Reloads /\ forgotten' = forgotten
  BY DestructorEndsIs
<1>2. /\ frames \in Seq(FrameType) /\ slot \in [Slots -> HandleType]
      /\ depth \in [Cells -> 0..(UsizeValues - 1)] /\ forgotten \in [Cells -> Nat]
  BY CellInvParts, CellAssumption DEF CellInv, TypeOK, HandleType
<1>3. /\ Exact(frames, slot, depth, forgotten) /\ Reserved(frames, slot)
      /\ Len(frames) <= MaxFrames
  BY DepthInvParts
<1>4. /\ Reserved(below, slot) /\ Len(below) = Len(frames) - 1
      /\ IF f.kind = "borrow"
         THEN /\ f.slot \in Slots /\ slot[f.slot] = NoHandle
              /\ \A i \in DOMAIN below : below[i].slot # f.slot
         ELSE f.slot = None
  BY <1>1, <1>2, <1>3, PopReserved
<1>5. f \in FrameType /\ below \in Seq(FrameType) /\ Len(frames) \in Nat
  BY <1>1, <1>2, PopFrame
<1>6. c \in Cells /\ f.slot \in Slots \cup {None}
  BY <1>5 DEF FrameType
<1>7. \A d \in Cells : /\ Uses(below, slot, forgotten, d) \in Nat
                       /\ Uses(frames, slot, forgotten, d) = Uses(below, slot, forgotten, d) + Counts(f, d)
  BY <1>1, <1>2, UsesPopped
<1>8. \A d \in Cells : Counts(f, d) = Entry(f.kind, c, d)
  BY <1>1, CellInvParts DEF Counts, Entry
<1>9. \/ Deliver(f.kind, c, f.slot, v, below, slot, depth)
      \/ /\ frames' = below /\ slot' = slot
         /\ depth' = IF f.kind \in {"get", "borrow", "unborrow"}
                     THEN [depth EXCEPT ![c] = Lowered(@)] ELSE depth
      \/ GoOn(f, v)
  BY <1>0 DEF Finish
<1>13. CASE GoOn(f, v)
  <2> DEFINE g == [f EXCEPT !.value = v]
  <2>1. g \in FrameType /\ g.kind = f.kind /\ g.cell = c /\ g.slot = f.slot
    BY <1>1, GoOnFrame
  <2>2. frames' = <<g>> \o below /\ slot' = slot /\ depth' = depth
    BY <1>13 DEF GoOn
  <2>3. \A d \in Cells : Counts(g, d) = Counts(f, d)
    BY <2>1 DEF Counts
  <2> HIDE DEF f, c, below, g
  <2>4. ASSUME NEW d \in Cells
        PROVE  Uses(<<g>> \o below, slot, forgotten, d) = Uses(frames, slot, forgotten, d)
    <3>1. Uses(<<g>> \o below, slot, forgotten, d) = Uses(below, slot, forgotten, d) + Counts(g, d)
      BY <1>2, <1>5, <2>1, UsesPushed
    <3> QED BY <3>1, <2>3, <1>7
  <2>5. Exact(frames', slot', depth', forgotten')
    BY <1>1, <1>3, <2>2, <2>4 DEF Exact
  <2>6. Reserved(frames', slot')
    BY <1>2, <1>4, <1>5, <2>1, <2>2, PushReserved
  <2>7. Len(frames') <= MaxFrames
    <3>1. Len(frames') = Len(below) + 1
      BY <1>5, <2>1, <2>2, PushFrame
    <3> QED BY <1>3, <1>4, <1>5, <3>1
  <2> QED BY <2>5, <2>6, <2>7, DepthInvAfter
<1> HIDE DEF f, c, below
<1>10. \A d \in Cells : depth[d] = (Uses(below, slot, forgotten, d) + Entry(f.kind, c, d)) % UsizeValues
  BY <1>3, <1>7, <1>8 DEF Exact
<1>11. CASE Deliver(f.kind, c, f.slot, v, below, slot, depth)
  <2>1. Len(below) + 1 <= MaxFrames
    BY <1>3, <1>4, <1>5
  <2> DEFINE kind == f.kind
  <2> DEFINE s == f.slot
  <2>2. /\ kind \in Reloads /\ c \in Cells /\ s \in Slots \cup {None} /\ v \in Values
        /\ forgotten' = forgotten
    BY <1>1, <1>6, <2>1
  <2>3. below \in Seq(FrameType) /\ Reserved(below, slot) /\ Len(below) + 1 <= MaxFrames
    BY <1>4, <1>5, <2>1
  <2>4. IF kind = "borrow"
        THEN s \in Slots /\ slot[s] = NoHandle /\ \A i \in DOMAIN below : below[i].slot # s
        ELSE s = None
    BY <1>4
  <2>5. Deliver(kind, c, s, v, below, slot, depth)
    BY <1>11
  <2>6. \A d \in Cells : depth[d] = (Uses(below, slot, forgotten, d) + Entry(kind, c, d)) % UsizeValues
    BY <1>10
  <2> HIDE DEF kind, s
  <2> QED BY ONLY <1>2, <2>2, <2>3, <2>4, <2>5, <2>6, DeliverCounts
<1>12. CASE /\ frames' = below /\ slot' = slot
            /\ depth' = IF f.kind \in {"get", "borrow", "unborrow"}
                        THEN [depth EXCEPT ![c] = Lowered(@)] ELSE depth
  <2>1. ASSUME NEW d \in Cells PROVE depth'[d] = Uses(below, slot, forgotten, d) % UsizeValues
    <3>1. CASE d = c /\ f.kind \in Entering
      <4>1. depth'[d] = Lowered(depth[d]) /\ Entry(f.kind, c, d) = 1
        BY <1>2, <1>12, <3>1 DEF Entry, Entering
      <4>2. depth'[d] = Lowered((Uses(below, slot, forgotten, d) + 1) % UsizeValues)
        BY <1>10, <4>1
      <4>3. Uses(below, slot, forgotten, d) + 1 \in Int
            /\ (Uses(below, slot, forgotten, d) + 1) - 1 = Uses(below, slot, forgotten, d)
        BY <1>7
      <4> QED BY <4>2, <4>3, DepthMoves
    <3>2. CASE ~(d = c /\ f.kind \in Entering)
      <4>1. depth'[d] = depth[d] /\ Entry(f.kind, c, d) = 0
        BY <1>2, <1>12, <3>2 DEF Entry, Entering
      <4> QED BY <1>7, <1>10, <4>1
    <3> QED BY <3>1, <3>2
  <2>2. Exact(frames', slot', depth', forgotten')
    BY <1>1, <1>12, <2>1 DEF Exact
  <2>3. Len(frames') <= MaxFrames
    BY <1>3, <1>4, <1>5, <1>12, CellAssumption
  <2> QED BY <1>4, <1>12, <2>2, <2>3, DepthInvAfter
<1> QED BY <1>9, <1>11, <1>12, <1>13

(* A closure that ends is one less. *)
LEMMA ClosureEndsCounts ==
  ASSUME CellInv, DepthInv, ClosureEnds PROVE DepthInv'
<1> DEFINE f == Head(frames)
<1> DEFINE c == f.cell
<1> DEFINE below == Tail(frames)
<1>1. /\ frames # <<>> /\ f.kind = "closure" /\ forgotten' = forgotten /\ slot' = slot
      /\ frames' = below /\ depth' = [depth EXCEPT ![c] = Lowered(@)]
  BY DEF ClosureEnds
<1>2. /\ frames \in Seq(FrameType) /\ slot \in [Slots -> HandleType]
      /\ depth \in [Cells -> 0..(UsizeValues - 1)] /\ forgotten \in [Cells -> Nat]
  BY CellInvParts, CellAssumption DEF CellInv, TypeOK, HandleType
<1>3. /\ Exact(frames, slot, depth, forgotten) /\ Reserved(frames, slot)
      /\ Len(frames) <= MaxFrames
  BY DepthInvParts
<1>4. Reserved(below, slot) /\ Len(below) = Len(frames) - 1
  BY <1>1, <1>2, <1>3, PopReserved
<1>5. Len(frames) \in Nat
  BY <1>1, <1>2, PopFrame
<1>6. \A d \in Cells : /\ Uses(below, slot, forgotten, d) \in Nat
                       /\ Uses(frames, slot, forgotten, d) = Uses(below, slot, forgotten, d) + Counts(f, d)
  BY <1>1, <1>2, UsesPopped
<1>7. \A d \in Cells : Counts(f, d) = IF d = c THEN 1 ELSE 0
  BY <1>1 DEF Counts
<1> HIDE DEF f, c, below
<1>8. ASSUME NEW d \in Cells PROVE depth'[d] = Uses(below, slot, forgotten, d) % UsizeValues
  <2>1. CASE d = c
    <3>1. depth'[d] = Lowered((Uses(below, slot, forgotten, d) + 1) % UsizeValues)
      BY <1>1, <1>2, <1>3, <1>6, <1>7, <2>1 DEF Exact
    <3>2. Uses(below, slot, forgotten, d) + 1 \in Int
          /\ (Uses(below, slot, forgotten, d) + 1) - 1 = Uses(below, slot, forgotten, d)
      BY <1>6
    <3> QED BY <3>1, <3>2, DepthMoves
  <2>2. CASE d # c
    <3>1. depth'[d] = depth[d]
      BY <1>1, <1>2, <2>2
    <3> QED BY <1>3, <1>6, <1>7, <2>2, <3>1 DEF Exact
  <2> QED BY <2>1, <2>2
<1>9. Exact(frames', slot', depth', forgotten')
  BY <1>1, <1>8 DEF Exact
<1>10. Len(frames') <= MaxFrames
  BY <1>1, <1>3, <1>4, <1>5, CellAssumption
<1> QED BY <1>1, <1>4, <1>9, <1>10, DepthInvAfter

(* A handle that is forgotten counts as forgotten. *)
LEMMA ForgetCounts ==
  ASSUME CellInv, DepthInv, NEW s \in Slots, ForgetHandle(s) PROVE DepthInv'
<1> DEFINE c == slot[s].cell
<1> DEFINE slots == [slot EXCEPT ![s] = NoHandle]
<1>1. /\ frames \in Seq(FrameType) /\ slot \in [Slots -> HandleType] /\ forgotten \in [Cells -> Nat]
      /\ NoHandle \in HandleType
  BY CellInvParts, CellAssumption DEF CellInv, TypeOK, HandleType
<1>2. c \in Cells /\ slots = [slot EXCEPT ![s] = NoHandle] /\ c = slot[s].cell
  BY <1>1 DEF ForgetHandle, HandleType
<1>3. /\ Exact(frames, slot, depth, forgotten) /\ Reserved(frames, slot)
      /\ Len(frames) <= MaxFrames
  BY DepthInvParts
<1>4. /\ frames' = frames /\ depth' = depth /\ slot' = slots
      /\ forgotten' = [forgotten EXCEPT ![c] = @ + 1]
  BY DEF ForgetHandle
<1> HIDE DEF c, slots
<1>5. ASSUME NEW d \in Cells PROVE Uses(frames, slots, forgotten', d) = Uses(frames, slot, forgotten, d)
  <2>1. Cardinality(Lent(slots, d)) = Cardinality(Lent(slot, d)) - (IF c = d THEN 1 ELSE 0)
    BY <1>1, <1>2, HandleGoes
  <2>2. /\ Cardinality(Lent(slot, d)) \in Nat /\ Cardinality(FramesOf(frames, d, {"closure"})) \in Nat
        /\ Cardinality(FramesOf(frames, d, Entering)) \in Nat
    BY <1>1, HandlesFinite, FramesFinite
  <2>3. forgotten'[d] = forgotten[d] + (IF c = d THEN 1 ELSE 0) /\ forgotten[d] \in Nat
    BY <1>1, <1>2, <1>4
  <2>4. CASE c = d
    BY <2>1, <2>2, <2>3, <2>4 DEF Uses
  <2>5. CASE c # d
    BY <2>1, <2>2, <2>3, <2>5 DEF Uses
  <2> QED BY <2>4, <2>5
<1>6. Exact(frames', slot', depth', forgotten')
  BY <1>3, <1>4, <1>5 DEF Exact
<1>7. Reserved(frames', slot')
  BY <1>1, <1>2, <1>3, <1>4, LentReserved
<1> QED BY <1>3, <1>4, <1>6, <1>7, DepthInvAfter

(* A cell that is dropped has nothing to count. *)
LEMMA DropCellCounts ==
  ASSUME CellInv, DepthInv, NEW c \in Cells, DropCell(c) PROVE DepthInv'
<1>1. /\ frames' = frames /\ slot' = slot /\ depth' = [depth EXCEPT ![c] = 0]
      /\ forgotten' = [forgotten EXCEPT ![c] = 0]
      /\ depth \in [Cells -> 0..(UsizeValues - 1)] /\ forgotten \in [Cells -> 0..MaxForgets]
  BY DEF DropCell, CellInv, TypeOK
<1>2. Exact(frames, slot, depth, forgotten)
  BY DepthInvParts
<1>3. ASSUME NEW d \in Cells PROVE depth'[d] = Uses(frames, slot, forgotten', d) % UsizeValues
  <2>1. CASE d = c
    <3>1. /\ FramesOf(frames, d, {"closure"}) = {} /\ FramesOf(frames, d, Entering) = {}
          /\ Lent(slot, d) = {} /\ forgotten'[d] = 0 /\ depth'[d] = 0
      BY <1>1, <2>1 DEF DropCell, FramesOf, Lent
    <3>2. Uses(frames, slot, forgotten', d) = 0
      BY <3>1, FS_EmptySet DEF Uses
    <3>3. 0 % UsizeValues = 0
      BY CellAssumption
    <3> QED BY <3>1, <3>2, <3>3
  <2>2. CASE d # c
    BY <1>1, <1>2, <2>2 DEF Exact, Uses
  <2> QED BY <2>1, <2>2
<1>4. Exact(frames', slot', depth', forgotten')
  BY <1>1, <1>3 DEF Exact
<1> QED BY <1>1, <1>4, DepthInvParts, DepthInvAfter

(* The program starts with nothing to count. *)
LEMMA InitCounts ==
  ASSUME Init PROVE DepthInv
<1>1. /\ frames = <<>> /\ \A d \in Cells : depth[d] = 0 /\ forgotten[d] = 0
      /\ \A s \in Slots : slot[s] = NoHandle
  BY DEF Init
<1>2. ASSUME NEW d \in Cells PROVE depth[d] = Uses(frames, slot, forgotten, d) % UsizeValues
  <2>1. /\ FramesOf(frames, d, {"closure"}) = {} /\ FramesOf(frames, d, Entering) = {}
        /\ Lent(slot, d) = {}
    BY <1>1, CellAssumption DEF FramesOf, Lent, NoHandle
  <2>4. forgotten[d] = 0
    BY <1>1
  <2>2. Uses(frames, slot, forgotten, d) = 0
    BY <2>1, <2>4, FS_EmptySet DEF Uses
  <2>3. 0 % UsizeValues = 0
    BY CellAssumption
  <2> QED BY <1>1, <2>2, <2>3
<1>3. Exact(frames, slot, depth, forgotten)
  BY <1>2 DEF Exact
<1>4. Reserved(frames, slot) /\ Len(frames) <= MaxFrames
  BY <1>1, CellAssumption DEF Reserved
<1> QED BY <1>3, <1>4, DepthInvParts

(* Every step keeps the count, and the slots and values of the stack. *)
THEOREM DepthInvHolds == Spec => []DepthInv
<1>1. Init => DepthInv
  BY InitCounts
<1>2. CellInv /\ DepthInv /\ [Next]_vars => DepthInv'
  <2> SUFFICES ASSUME CellInv, DepthInv, [Next]_vars PROVE DepthInv'
    OBVIOUS
  <2>1. ASSUME NEW c \in Cells,
               Get(c) \/ Reload(c) \/ (\E s \in Slots : Borrow(c, s)) \/ \E k \in Chains : Assign(c, k)
        PROVE  DepthInv'
    BY <2>1, GetCounts, BorrowCounts, ReloadCounts
  <2>2. ASSUME NEW s \in Slots, DropHandle(s) \/ ForgetHandle(s) PROVE DepthInv'
    BY <2>2, DropHandleCounts, ForgetCounts
  <2>3. CASE DestructorEnds \/ ClosureEnds
    BY <2>3, DestructorEndsCounts, ClosureEndsCounts
  <2>4. ASSUME NEW c \in Cells, DropCell(c) PROVE DepthInv'
    BY <2>4, DropCellCounts
  <2>5. CASE UNCHANGED <<depth, slot, frames, forgotten>>
    BY <2>5, DepthInvParts, DepthInvAfter
  <2>6. CASE \/ \E c \in Cells : FromArcShift(c) \/ MakeArcShift(c)
             \/ \E c, d \in Cells : Clone(c, d)
             \/ \E v \in kept : DropArcShift(v)
             \/ \E k \in Chains : Update(k)
             \/ UNCHANGED vars
    BY <2>5, <2>6 DEF FromArcShift, MakeArcShift, Clone, NewCell, DropArcShift, Update, vars
  <2> QED BY <2>1, <2>2, <2>3, <2>4, <2>6 DEF Next
<1> QED BY <1>1, <1>2, CellInvHolds, PTL DEF Spec

(* depth counts the frames and handles there are, and the forgotten ones,  *)
(* modulo the size of a usize, whatever calls what and however it ends.    *)
THEOREM DepthStaysExact == Spec => []DepthIsExact
<1>1. DepthInv => DepthIsExact
  BY DEF DepthInv, DepthCounts, DepthIsExact
<1> QED BY <1>1, DepthInvHolds, PTL

-----------------------------------------------------------------------------
(* Where values and cells are, and where the reloads lead. *)

(* AheadInv says of the newest value of a chain that nothing is ahead of it. *)
LEMMA AheadOfCell ==
  ASSUME CellInv, AheadInv, NEW c \in Cells, Exists(c)
  PROVE  /\ inner[c] \in Values /\ inner[c].version <= newest[inner[c].chain]
         /\ \A v \in Values : v = Newest(v.chain) =>
              /\ v.version <= newest[v.chain]
              /\ v.chain = inner[c].chain => v.version >= inner[c].version
<1>1. inner[c] \in Values /\ inner[c].version <= newest[inner[c].chain]
  BY DEF CellInv, TypeOK, Exists, AheadInv, NothingNewer
<1>2. \A v \in Values : v = Newest(v.chain) => v.version = newest[v.chain]
  BY DEF Newest
<1>3. \A v \in Values : v.version \in Int
  BY DEF Values
<1> QED BY <1>1, <1>2, <1>3

(* A step that updates no chain: what is kept or destroyed was there        *)
(* before or is not ahead, and so are the values of cells and frames.       *)
LEMMA AheadAfter ==
  ASSUME AheadInv, newest' = newest,
         \A w \in kept' \cup destroyed' : w \in kept \cup destroyed \/ w.version <= newest[w.chain],
         \A c \in Cells : inner'[c] = inner[c] \/ inner'[c] = NoValue \/ inner'[c].version <= newest[inner'[c].chain],
         \A i \in DOMAIN frames' :
           \/ \E j \in DOMAIN frames :
                /\ frames'[i] = frames[j]
                /\ frames[j].kind \in Reloads => inner'[frames[j].cell] = inner[frames[j].cell]
           \/ /\ frames'[i].value.version <= newest[frames'[i].value.chain]
              /\ frames'[i].kind \in Reloads =>
                   /\ inner'[frames'[i].cell] # NoValue
                   /\ frames'[i].value.chain = inner'[frames'[i].cell].chain =>
                        frames'[i].value.version >= inner'[frames'[i].cell].version
  PROVE  AheadInv'
<1>1. \A w \in kept' \cup destroyed' : w.version <= newest'[w.chain]
  BY DEF AheadInv, NothingNewer
<1>2. \A c \in Cells : inner'[c] # NoValue => inner'[c].version <= newest'[inner'[c].chain]
  BY DEF AheadInv, NothingNewer, Exists
<1>3. \A i \in DOMAIN frames' : frames'[i].value.version <= newest'[frames'[i].value.chain]
  BY DEF AheadInv, NothingNewer
<1>4. ASSUME NEW i \in DOMAIN frames', frames'[i].kind \in Reloads
      PROVE  /\ inner'[frames'[i].cell] # NoValue
             /\ frames'[i].value.chain = inner'[frames'[i].cell].chain =>
                  frames'[i].value.version >= inner'[frames'[i].cell].version
  BY <1>4 DEF AheadInv, ReloadsLeadOn, Exists
<1> QED BY <1>1, <1>2, <1>3, <1>4 DEF AheadInv, NothingNewer, ReloadsLeadOn, Exists

(* A step that moves no cell and adds no reload. *)
LEMMA NobodyMoves ==
  ASSUME CellInv, AheadInv, UNCHANGED <<newest, inner>>,
         \A w \in kept' \cup destroyed' : w \in kept \cup destroyed \/ w.version <= newest[w.chain],
         \A i \in DOMAIN frames' :
           \/ \E j \in DOMAIN frames : frames'[i] = frames[j]
           \/ frames'[i].kind \notin Reloads /\ frames'[i].value.version <= newest[frames'[i].value.chain]
  PROVE  AheadInv' /\ \A c \in Cells : MovesOn(c)
<1>1. AheadInv'
  BY AheadAfter
<1>2. ASSUME NEW c \in Cells, Exists(c) PROVE MovesOn(c)
  <2>1. inner[c].version \in Int
    BY <1>2, AheadOfCell DEF Values
  <2> QED BY <2>1 DEF MovesOn
<1>3. \A c \in Cells : ~Exists(c) => MovesOn(c)
  BY DEF MovesOn
<1> QED BY <1>1, <1>2, <1>3

(* A reload that is over takes its cell on; the reloads that are left are   *)
(* other cells'.                                                            *)
LEMMA CellMoves ==
  ASSUME CellInv, AheadInv, NEW c \in Cells, NEW v \in Values,
         v.version <= newest[v.chain],
         v.chain = inner[c].chain => v.version >= inner[c].version,
         inner' = [inner EXCEPT ![c] = v], UNCHANGED <<newest, kept, destroyed>>,
         \A i \in DOMAIN frames' :
           \/ frames'[i].kind \notin Reloads /\ frames'[i].value = v
           \/ \E j \in DOMAIN frames :
                frames'[i] = frames[j] /\ (frames[j].kind \in Reloads => frames[j].cell # c)
  PROVE  AheadInv' /\ \A d \in Cells : MovesOn(d)
<1>1. inner'[c] = v /\ \A d \in Cells : d # c => inner'[d] = inner[d]
  BY DEF CellInv, TypeOK
<1>2. \A j \in DOMAIN frames : frames[j].cell \in Cells
  BY FrameCells
<1>3. AheadInv'
  BY <1>1, <1>2, AheadAfter
<1>4. ASSUME NEW d \in Cells, Exists(d), d # c PROVE MovesOn(d)
  <2>1. inner[d].version \in Int
    BY <1>4, AheadOfCell DEF Values
  <2> QED BY <1>1, <1>4, <2>1 DEF MovesOn
<1>5. MovesOn(c)
  BY <1>1 DEF MovesOn
<1>6. \A d \in Cells : ~Exists(d) => MovesOn(d)
  BY DEF MovesOn
<1> QED BY <1>3, <1>4, <1>5, <1>6

(* Of a call that enters a cell and finds the newest value. *)
LEMMA TakeToMoves ==
  ASSUME CellInv, AheadInv, NEW kind \in Reloads, NEW c \in Cells, NEW s \in Slots \cup {None},
         NEW v \in Values, v = Newest(v.chain), Exists(c), ~reloading[c],
         NEW slots, NEW depths, TakeTo(kind, c, s, v, slots, depths)
  PROVE  AheadInv' /\ \A d \in Cells : MovesOn(d)
<1>1. /\ inner[c] \in Values /\ inner[c].version <= newest[inner[c].chain]
      /\ v.version <= newest[v.chain]
      /\ v.chain = inner[c].chain => v.version >= inner[c].version
  BY AheadOfCell
<1>2. frames \in Seq(FrameType) /\ "closure" \notin Reloads
  BY CellInvParts
<1>3. \A j \in DOMAIN frames : frames[j].kind \in Reloads => frames[j].cell # c
  BY DEF CellInv, ReloadsAreAlone, Leaving
<1>4. newest' = newest /\ kept' = kept
  BY DEF TakeTo
<1>5. CASE Deliver(kind, c, s, v, frames, slots, depths) /\ UNCHANGED destroyed
  <2> DEFINE x == Frame("closure", c, s, v)
  <2>1. x \in FrameType /\ x.kind = "closure" /\ x.value = v
    BY DEF Frame, FrameType
  <2>2. inner' = [inner EXCEPT ![c] = v] /\ (frames' = frames \/ frames' = <<x>> \o frames)
    BY <1>5 DEF Deliver
  <2> HIDE DEF x
  <2>3. \A i \in DOMAIN frames' : frames'[i] = x \/ \E j \in DOMAIN frames : frames'[i] = frames[j]
    BY <1>2, <2>1, <2>2, Above
  <2>4. \A i \in DOMAIN frames' :
          \/ frames'[i].kind \notin Reloads /\ frames'[i].value = v
          \/ \E j \in DOMAIN frames :
               frames'[i] = frames[j] /\ (frames[j].kind \in Reloads => frames[j].cell # c)
    BY <1>2, <1>3, <2>1, <2>3
  <2> QED BY <1>1, <1>4, <1>5, <2>2, <2>4, CellMoves
<1>6. CASE /\ frames' = <<Frame(kind, c, s, v)>> \o frames
           /\ destroyed' = destroyed \cup {inner[c]}
           /\ UNCHANGED inner
  <2> DEFINE x == Frame(kind, c, s, v)
  <2>1. x \in FrameType /\ x.cell = c /\ x.value = v
    BY DEF Frame, FrameType
  <2>2. frames' = <<x>> \o frames
    BY <1>6
  <2> HIDE DEF x
  <2>3. \A i \in DOMAIN frames' : frames'[i] = x \/ \E j \in DOMAIN frames : frames'[i] = frames[j]
    BY <1>2, <2>1, <2>2, Above
  <2>4. AheadInv'
    BY <1>1, <1>4, <1>6, <2>1, <2>3, AheadAfter DEF Exists
  <2>5. ASSUME NEW d \in Cells, Exists(d) PROVE MovesOn(d)
    <3>1. inner[d].version \in Int
      BY <2>5, AheadOfCell DEF Values
    <3> QED BY <1>6, <3>1 DEF MovesOn
  <2>6. \A d \in Cells : ~Exists(d) => MovesOn(d)
    BY DEF MovesOn
  <2> QED BY <2>4, <2>5, <2>6
<1> QED BY <1>5, <1>6 DEF TakeTo

(* The calls that may reload. *)
LEMMA CallsMove ==
  ASSUME CellInv, AheadInv, NEW c \in Cells,
         Get(c) \/ Reload(c) \/ (\E s \in Slots : Borrow(c, s)) \/ \E k \in Chains : Assign(c, k)
  PROVE  AheadInv' /\ \A d \in Cells : MovesOn(d)
<1>1. Exists(c) /\ ~reloading[c]
  BY DEF Get, Reload, Borrow, Assign, MayEnter, IsIdle
<1>2. NewestFor(c) \in Values /\ NewestFor(c) = Newest(NewestFor(c).chain)
  BY <1>1, NewestTyped DEF CellInv, NewestFor, Newest
<1>3. \A k \in Chains : Newest(k) \in Values /\ Newest(k) = Newest(Newest(k).chain)
  BY NewestTyped DEF CellInv, Newest
<1>4. /\ "get" \in Reloads /\ "borrow" \in Reloads /\ "reload" \in Reloads /\ "assign" \in Reloads
      /\ "closure" \notin Reloads
  BY DEF Reloads
<1>5. frames \in Seq(FrameType) /\ inner[c] \in Values /\ inner[c].version <= newest[inner[c].chain]
  BY <1>1, CellInvParts, AheadOfCell
<1>6. CASE Get(c)
  <2>1. CASE TakeTo("get", c, None, NewestFor(c), slot, Entered(c))
    BY <1>1, <1>2, <1>4, <2>1, TakeToMoves
  <2>2. CASE /\ frames' = <<Frame("closure", c, None, inner[c])>> \o frames
             /\ UNCHANGED <<newest, kept, inner, reloading, slot, destroyed, forgotten>>
    <3> DEFINE x == Frame("closure", c, None, inner[c])
    <3>1. x \in FrameType /\ x.kind = "closure" /\ x.value = inner[c]
      BY <1>5 DEF Frame, FrameType
    <3>2. frames' = <<x>> \o frames
      BY <2>2
    <3> HIDE DEF x
    <3>3. \A i \in DOMAIN frames' : frames'[i] = x \/ \E j \in DOMAIN frames : frames'[i] = frames[j]
      BY <1>5, <3>1, <3>2, Above
    <3> QED BY <1>4, <1>5, <2>2, <3>1, <3>3, NobodyMoves
  <2> QED BY <1>6, <2>1, <2>2 DEF Get
<1>7. CASE Reload(c)
  BY <1>1, <1>2, <1>4, <1>7, TakeToMoves DEF Reload
<1>8. ASSUME NEW s \in Slots, Borrow(c, s) PROVE AheadInv' /\ \A d \in Cells : MovesOn(d)
  <2>1. CASE TakeTo("borrow", c, s, NewestFor(c), slot, Entered(c))
    BY <1>1, <1>2, <1>4, <2>1, TakeToMoves
  <2>2. CASE UNCHANGED <<newest, kept, inner, reloading, frames, destroyed, forgotten>>
    BY <2>2, NobodyMoves
  <2> QED BY <1>8, <2>1, <2>2 DEF Borrow
<1>9. ASSUME NEW k \in Chains, Assign(c, k) PROVE AheadInv' /\ \A d \in Cells : MovesOn(d)
  BY <1>1, <1>3, <1>4, <1>9, TakeToMoves DEF Assign
<1> QED BY <1>6, <1>7, <1>8, <1>9

(* The drop of a handle, which may reload too. *)
LEMMA DropHandleMoves ==
  ASSUME CellInv, AheadInv, NEW s \in Slots, DropHandle(s)
  PROVE  AheadInv' /\ \A d \in Cells : MovesOn(d)
<1> DEFINE c == slot[s].cell
<1> DEFINE slots == [slot EXCEPT ![s] = NoHandle]
<1>1. c \in Cells /\ Exists(c)
  <2>1. slot[s] # NoHandle /\ slot \in [Slots -> [cell : Cells, value : Values] \cup {NoHandle}]
    BY DEF DropHandle, CellInv, TypeOK
  <2> QED BY <2>1 DEF CellInv, HandlesExist
<1>2. NewestFor(c) \in Values /\ NewestFor(c) = Newest(NewestFor(c).chain) /\ "unborrow" \in Reloads
  BY <1>1, NewestTyped DEF CellInv, NewestFor, Newest, Reloads
<1>3. CASE ~reloading[c] /\ TakeTo("unborrow", c, None, NewestFor(c), slots, depth)
  <2> HIDE DEF c, slots
  <2> QED BY <1>1, <1>2, <1>3, TakeToMoves
<1>4. CASE UNCHANGED <<newest, kept, inner, reloading, frames, destroyed, forgotten>>
  BY <1>4, NobodyMoves
<1> QED BY <1>3, <1>4 DEF DropHandle

(* A reload that was disturbed leads on as well. *)
LEMMA DestructorEndsMoves ==
  ASSUME CellInv, AheadInv, DestructorEnds
  PROVE  AheadInv' /\ \A d \in Cells : MovesOn(d)
<1> DEFINE f == Head(frames)
<1> DEFINE c == f.cell
<1> DEFINE below == Tail(frames)
<1>0. PICK v \in Values : (v = f.value \/ v = Newest(f.value.chain)) /\ (Finish(f, v) \/ GoOn(f, v))
  BY DestructorEndsIs
<1>1. /\ frames # <<>> /\ f.kind \in Reloads /\ frames \in Seq(FrameType)
      /\ UNCHANGED <<newest, kept>> /\ reloading \in [Cells -> BOOLEAN]
      /\ Alone(frames, reloading) /\ "closure" \notin Reloads
  BY CellInvParts, DestructorEndsIs DEF CellInv
<1>2. /\ 1 \in DOMAIN frames /\ f = frames[1] /\ f \in FrameType /\ below \in Seq(FrameType)
      /\ \A i \in DOMAIN below : i + 1 \in DOMAIN frames /\ below[i] = frames[i + 1]
  BY <1>1, BelowTop, PopFrame
<1>3. c \in Cells /\ f.slot \in Slots \cup {None} /\ f.value \in Values
  BY <1>2 DEF FrameType
<1>4. Alone(below, [reloading EXCEPT ![c] = FALSE])
  BY <1>1, PopReload
<1>5. \A i \in DOMAIN below : below[i].kind \in Reloads => below[i].cell # c
  BY <1>1, <1>3, <1>4 DEF Alone
<1>6. /\ inner[c] # NoValue /\ f.value.version <= newest[f.value.chain]
      /\ f.value.chain = inner[c].chain => f.value.version >= inner[c].version
  BY <1>1, <1>2 DEF AheadInv, NothingNewer, ReloadsLeadOn, Exists
<1>7. inner[c] \in Values
  BY <1>3, <1>6 DEF CellInv, TypeOK
<1>8. v.version <= newest[v.chain] /\ (v.chain = inner[c].chain => v.version >= inner[c].version)
  <2>1. v = Newest(f.value.chain) => v = Newest(v.chain)
    BY DEF Newest
  <2> QED BY <1>0, <1>3, <1>6, <2>1, AheadOfCell DEF Exists
<1>9. CASE Finish(f, v)
  <2> DEFINE x == Frame("closure", c, f.slot, v)
  <2>1. x \in FrameType /\ x.kind = "closure" /\ x.value = v
    BY <1>3 DEF Frame, FrameType
  <2>2. /\ inner' = [inner EXCEPT ![c] = v] /\ (frames' = below \/ frames' = <<x>> \o below)
        /\ destroyed' = destroyed
    BY <1>9 DEF Finish, Deliver
  <2> HIDE DEF f, c, below, x
  <2>3. \A i \in DOMAIN frames' : frames'[i] = x \/ \E j \in DOMAIN below : frames'[i] = below[j]
    <3>1. below \in Seq(FrameType) /\ x \in FrameType /\ (frames' = below \/ frames' = <<x>> \o below)
      BY <1>2, <2>1, <2>2
    <3> QED BY ONLY <3>1, Above
  <2>4. \A i \in DOMAIN frames' :
          \/ frames'[i].kind \notin Reloads /\ frames'[i].value = v
          \/ \E j \in DOMAIN frames :
               frames'[i] = frames[j] /\ (frames[j].kind \in Reloads => frames[j].cell # c)
    <3> SUFFICES ASSUME NEW i \in DOMAIN frames'
                 PROVE  \/ frames'[i].kind \notin Reloads /\ frames'[i].value = v
                        \/ \E j \in DOMAIN frames :
                             frames'[i] = frames[j] /\ (frames[j].kind \in Reloads => frames[j].cell # c)
      OBVIOUS
    <3>1. CASE frames'[i] = x
      BY <1>1, <2>1, <3>1
    <3>2. ASSUME NEW k \in DOMAIN below, frames'[i] = below[k]
          PROVE  \E j \in DOMAIN frames :
                   frames'[i] = frames[j] /\ (frames[j].kind \in Reloads => frames[j].cell # c)
      <4>1. k + 1 \in DOMAIN frames /\ frames'[i] = frames[k + 1] /\ (below[k].kind \in Reloads => below[k].cell # c)
        BY <1>2, <1>5, <3>2
      <4> QED BY <3>2, <4>1
    <3> QED BY <2>3, <3>1, <3>2
  <2> QED BY <1>1, <1>3, <1>8, <2>2, <2>4, CellMoves
<1>10. CASE GoOn(f, v)
  <2> DEFINE g == [f EXCEPT !.value = v]
  <2>1. g \in FrameType /\ g.cell = c /\ g.value = v
    BY <1>1, GoOnFrame
  <2>2. frames' = <<g>> \o below /\ destroyed' = destroyed \cup {f.value} /\ inner' = inner
    BY <1>10 DEF GoOn
  <2> HIDE DEF f, c, below, g
  <2>3. \A i \in DOMAIN frames' : frames'[i] = g \/ \E j \in DOMAIN below : frames'[i] = below[j]
    BY <1>2, <2>1, <2>2, Above
  <2>4. \A i \in DOMAIN frames' : frames'[i] = g \/ \E j \in DOMAIN frames : frames'[i] = frames[j]
    BY <1>2, <2>3
  <2>5. AheadInv'
    BY <1>1, <1>6, <1>8, <2>1, <2>2, <2>4, AheadAfter
  <2>6. ASSUME NEW d \in Cells, Exists(d) PROVE MovesOn(d)
    <3>1. inner[d].version \in Int
      BY <2>6, AheadOfCell DEF Values
    <3> QED BY <2>2, <3>1 DEF MovesOn
  <2>7. \A d \in Cells : ~Exists(d) => MovesOn(d)
    BY DEF MovesOn
  <2> QED BY <2>5, <2>6, <2>7
<1> QED BY <1>0, <1>9, <1>10

(* A new cell is at a value that somebody has, and no reload is of it yet.  *)
LEMMA NewCellMoves ==
  ASSUME CellInv, AheadInv, NEW c \in Cells, NEW v \in Values, NewCell(c, v),
         v.version <= newest[v.chain], kept' \subseteq kept
  PROVE  AheadInv' /\ \A d \in Cells : MovesOn(d)
<1>1. /\ UNCHANGED <<newest, frames, destroyed>> /\ inner[c] = NoValue
      /\ inner'[c] = v /\ \A d \in Cells : d # c => inner'[d] = inner[d]
  BY DEF NewCell, Exists, CellInv, TypeOK
<1>2. \A j \in DOMAIN frames : frames[j].kind \in Reloads => frames[j].cell \in Cells /\ frames[j].cell # c
  BY <1>1, FrameCells DEF AheadInv, ReloadsLeadOn, Exists
<1>3. AheadInv'
  BY <1>1, <1>2, AheadAfter
<1>4. ASSUME NEW d \in Cells, Exists(d) PROVE MovesOn(d)
  <2>1. inner[d].version \in Int /\ d # c
    BY <1>1, <1>4, AheadOfCell DEF Values, Exists
  <2> QED BY <1>1, <2>1 DEF MovesOn
<1>5. \A d \in Cells : ~Exists(d) => MovesOn(d)
  BY DEF MovesOn
<1> QED BY <1>3, <1>4, <1>5

(* Cells and ArcShifts that come and go, handles that are leaked. *)
LEMMA OthersMove ==
  ASSUME CellInv, AheadInv,
         \/ \E c \in Cells : FromArcShift(c) \/ MakeArcShift(c) \/ DropCell(c)
         \/ \E c, d \in Cells : Clone(c, d)
         \/ \E s \in Slots : ForgetHandle(s)
         \/ \E v \in kept : DropArcShift(v)
         \/ ClosureEnds
  PROVE  AheadInv' /\ \A d \in Cells : MovesOn(d)
<1>1. /\ \A k \in Chains : Newest(k) \in Values /\ Newest(k).version <= newest[Newest(k).chain]
      /\ \A c \in Cells : Exists(c) => NewestFor(c) \in Values /\ NewestFor(c).version <= newest[NewestFor(c).chain]
  <2>1. \A k \in Chains : Newest(k) \in Values /\ Newest(k).version = newest[Newest(k).chain]
    BY NewestTyped DEF CellInv, Newest
  <2>2. \A c \in Cells : Exists(c) => NewestFor(c) \in Values /\ NewestFor(c).version = newest[NewestFor(c).chain]
    BY NewestTyped DEF CellInv, NewestFor, Newest
  <2> QED BY <2>1, <2>2 DEF Values
<1>2. \A v \in kept : v \in Values /\ v.version <= newest[v.chain]
  BY DEF CellInv, TypeOK, AheadInv, NothingNewer
<1>3. ASSUME NEW c \in Cells, FromArcShift(c) PROVE AheadInv' /\ \A d \in Cells : MovesOn(d)
  <2>1. ASSUME NEW k \in Chains, NewCell(c, Newest(k)), UNCHANGED kept
        PROVE  AheadInv' /\ \A d \in Cells : MovesOn(d)
    BY <1>1, <2>1, NewCellMoves
  <2>2. ASSUME NEW v \in kept, NewCell(c, v), kept' = kept \ {v}
        PROVE  AheadInv' /\ \A d \in Cells : MovesOn(d)
    BY <1>2, <2>2, NewCellMoves
  <2> QED BY <1>3, <2>1, <2>2 DEF FromArcShift
<1>4. ASSUME NEW c \in Cells, NEW d \in Cells, Clone(c, d)
      PROVE  AheadInv' /\ \A e \in Cells : MovesOn(e)
  BY <1>1, <1>4, NewCellMoves DEF Clone, MayEnter
<1>5. ASSUME NEW c \in Cells, MakeArcShift(c) PROVE AheadInv' /\ \A d \in Cells : MovesOn(d)
  <2>1. \A w \in kept' \cup destroyed' : w \in kept \cup destroyed \/ w.version <= newest[w.chain]
    BY <1>1, <1>5 DEF MakeArcShift, MayEnter
  <2> QED BY <1>5, <2>1, NobodyMoves DEF MakeArcShift
<1>6. ASSUME NEW v \in kept, DropArcShift(v) PROVE AheadInv' /\ \A d \in Cells : MovesOn(d)
  BY <1>6, NobodyMoves DEF DropArcShift
<1>7. ASSUME NEW s \in Slots, ForgetHandle(s) PROVE AheadInv' /\ \A d \in Cells : MovesOn(d)
  BY <1>7, NobodyMoves DEF ForgetHandle
<1>8. CASE ClosureEnds
  <2>1. /\ frames # <<>> /\ frames \in Seq(FrameType) /\ frames' = Tail(frames)
        /\ UNCHANGED <<newest, kept, inner, reloading, slot, destroyed, forgotten>>
    BY <1>8, CellInvParts DEF ClosureEnds
  <2>2. \A i \in DOMAIN frames' : \E j \in DOMAIN frames : frames'[i] = frames[j]
    BY <2>1, BelowTop
  <2> QED BY <2>1, <2>2, NobodyMoves
<1>9. ASSUME NEW c \in Cells, DropCell(c) PROVE AheadInv' /\ \A d \in Cells : MovesOn(d)
  <2>1. /\ UNCHANGED <<newest, kept, frames>> /\ inner'[c] = NoValue
        /\ \A d \in Cells : d # c => inner'[d] = inner[d]
        /\ destroyed' \subseteq destroyed \cup {inner[c]} /\ Exists(c)
        /\ \A i \in DOMAIN frames : frames[i].cell \in Cells /\ frames[i].cell # c
    BY <1>9, FrameCells DEF DropCell, CellInv, TypeOK
  <2>2. inner[c].version <= newest[inner[c].chain]
    BY <2>1, AheadOfCell
  <2>3. AheadInv'
    BY <2>1, <2>2, AheadAfter
  <2>4. ASSUME NEW d \in Cells, Exists(d), d # c PROVE MovesOn(d)
    <3>1. inner[d].version \in Int
      BY <2>4, AheadOfCell DEF Values
    <3> QED BY <2>1, <2>4, <3>1 DEF MovesOn
  <2>5. MovesOn(c) /\ \A d \in Cells : ~Exists(d) => MovesOn(d)
    BY <2>1 DEF MovesOn, Exists
  <2> QED BY <2>3, <2>4, <2>5
<1> QED BY <1>3, <1>4, <1>5, <1>6, <1>7, <1>8, <1>9

(* An update takes the chain on, and no cell: they are behind now. *)
LEMMA UpdateMoves ==
  ASSUME CellInv, AheadInv, NEW k \in Chains, Update(k)
  PROVE  AheadInv' /\ \A c \in Cells : MovesOn(c)
<1>1. /\ UNCHANGED <<kept, inner, frames>>
      /\ newest \in [Chains -> 1..MaxVersion] /\ newest' = [newest EXCEPT ![k] = @ + 1]
      /\ destroyed' \subseteq destroyed \cup {Newest(k)}
      /\ destroyed \subseteq Values /\ kept \subseteq Values
  BY DEF Update, CellInv, TypeOK
<1>2. \A v \in Values : v.version <= newest[v.chain] => v.version <= newest'[v.chain]
  BY <1>1, CellAssumption DEF Values
<1>3. Newest(k) \in Values /\ Newest(k).version <= newest[Newest(k).chain]
  <2>1. Newest(k) \in Values /\ Newest(k).version = newest[Newest(k).chain]
    BY NewestTyped DEF CellInv, Newest
  <2> QED BY <2>1 DEF Values
<1>4. \A w \in kept' \cup destroyed' : w.version <= newest'[w.chain]
  BY <1>1, <1>2, <1>3 DEF AheadInv, NothingNewer
<1>5. \A c \in Cells : inner'[c] # NoValue => inner'[c].version <= newest'[inner'[c].chain]
  BY <1>1, <1>2 DEF AheadInv, NothingNewer, Exists, CellInv, TypeOK
<1>6. \A i \in DOMAIN frames' : frames'[i].value.version <= newest'[frames'[i].value.chain]
  <2>1. \A i \in DOMAIN frames : frames[i] \in FrameType
    BY CellInvParts
  <2>2. \A i \in DOMAIN frames : frames[i].value \in Values
    BY <2>1 DEF FrameType
  <2> QED BY <1>1, <1>2, <2>2 DEF AheadInv, NothingNewer
<1>7. ReloadsLeadOn'
  BY <1>1 DEF AheadInv, ReloadsLeadOn, Exists
<1>8. ASSUME NEW c \in Cells, Exists(c) PROVE MovesOn(c)
  <2>1. inner[c].version \in Int
    BY <1>8, AheadOfCell DEF Values
  <2> QED BY <1>1, <2>1 DEF MovesOn
<1>9. \A c \in Cells : ~Exists(c) => MovesOn(c)
  BY DEF MovesOn
<1> QED BY <1>4, <1>5, <1>6, <1>7, <1>8, <1>9 DEF AheadInv, NothingNewer, Exists

(* Every step keeps AheadInv, and takes no cell back. *)
LEMMA StepsMove ==
  ASSUME CellInv, AheadInv, Next PROVE AheadInv' /\ \A c \in Cells : MovesOn(c)
<1>1. ASSUME NEW c \in Cells,
             Get(c) \/ Reload(c) \/ (\E s \in Slots : Borrow(c, s)) \/ \E k \in Chains : Assign(c, k)
      PROVE  AheadInv' /\ \A d \in Cells : MovesOn(d)
  BY <1>1, CallsMove
<1>2. ASSUME NEW s \in Slots, DropHandle(s) PROVE AheadInv' /\ \A d \in Cells : MovesOn(d)
  BY <1>2, DropHandleMoves
<1>3. CASE DestructorEnds
  BY <1>3, DestructorEndsMoves
<1>4. CASE \/ \E c \in Cells : FromArcShift(c) \/ MakeArcShift(c) \/ DropCell(c)
           \/ \E c, d \in Cells : Clone(c, d)
           \/ \E s \in Slots : ForgetHandle(s)
           \/ \E v \in kept : DropArcShift(v)
           \/ ClosureEnds
  BY <1>4, OthersMove
<1>5. ASSUME NEW k \in Chains, Update(k) PROVE AheadInv' /\ \A d \in Cells : MovesOn(d)
  BY <1>5, UpdateMoves
<1> QED BY <1>1, <1>2, <1>3, <1>4, <1>5 DEF Next

(* Nothing is ahead of the newest value of its chain, and every reload      *)
(* leads on from where its cell is.                                         *)
THEOREM AheadInvHolds == Spec => []AheadInv
<1>1. Init => AheadInv
  BY DEF Init, AheadInv, NothingNewer, ReloadsLeadOn, Exists
<1>2. CellInv /\ AheadInv /\ [Next]_vars => AheadInv'
  <2> SUFFICES ASSUME CellInv, AheadInv, [Next]_vars PROVE AheadInv'
    OBVIOUS
  <2>1. CASE Next
    BY <2>1, StepsMove
  <2>2. CASE UNCHANGED vars
    BY <2>2, NobodyMoves DEF vars
  <2> QED BY <2>1, <2>2
<1> QED BY <1>1, <1>2, CellInvHolds, PTL DEF Spec

(* A cell never goes back to an older value of its chain: whatever the      *)
(* destructors that a reload runs do to the chain and call of the cell, and *)
(* however often the reload goes on.                                        *)
THEOREM CellsNeverGoBack == Spec => CellsMoveOn
<1>1. CellInv /\ AheadInv /\ [Next]_vars => [\A c \in Cells : MovesOn(c)]_vars
  BY StepsMove
<1> QED BY <1>1, CellInvHolds, AheadInvHolds, PTL DEF Spec, CellsMoveOn

-----------------------------------------------------------------------------
(* What is lent. The conjuncts of LoanInv, for any stack, handles and cells. *)

Undisturbed(fs, sl) ==
  \A i \in DOMAIN fs : fs[i].kind \in Reloads =>
    /\ \A j \in DOMAIN fs : fs[j].cell = fs[i].cell => j = i
    /\ \A s \in Slots : sl[s].cell # fs[i].cell
Snapshots(fs, sl, inn) ==
  /\ \A i \in DOMAIN fs : fs[i].kind = "closure" => inn[fs[i].cell] = fs[i].value
  /\ \A s \in Slots : sl[s] # NoHandle => inn[sl[s].cell] = sl[s].value
\* Users(w) = {}
Idle(w, inn, rel, nw, kp, fs) ==
  /\ \A c \in Cells : inn[c] = w => rel[c]
  /\ w.version # nw[w.chain]
  /\ w \notin kp
  /\ \A i \in DOMAIN fs : fs[i].kind \in Reloads => fs[i].value # w

(* Nobody refers to a value: no cell but one that reloads, no chain, no     *)
(* ArcShift and no reload that has got there.                               *)
LEMMA UnusedIs ==
  ASSUME CellInv, NEW w \in Values
  PROVE  Users(w) = {} <=> Idle(w, inner, reloading, newest, kept, frames)
<1>1. \A c \in Cells : reloading[c] <=> Leaving(c)
  BY DEF CellInv, ReloadsAreAlone
<1>2. w = Newest(w.chain) <=> w.version = newest[w.chain]
  BY DEF Newest, Values
<1>3. \A i \in DOMAIN frames : frames[i].cell \in Cells
  BY FrameCells
<1>4. (\E c \in Cells : Leaving(c) /\ Heading(c, w)) <=>
        \E i \in DOMAIN frames : frames[i].kind \in Reloads /\ frames[i].value = w
  BY <1>3 DEF Leaving, Heading
<1>5. (\E c \in Cells : ~Leaving(c) /\ inner[c] = w) <=> \E c \in Cells : inner[c] = w /\ ~reloading[c]
  BY <1>1
<1>6. Users(w) = {} <=> /\ ~\E c \in Cells : Leaving(c) /\ Heading(c, w)
                        /\ ~\E c \in Cells : ~Leaving(c) /\ inner[c] = w
                        /\ w # Newest(w.chain) /\ w \notin kept
  BY DEF Users
<1> QED BY <1>2, <1>4, <1>5, <1>6 DEF Idle

(* LoanInv, in those words. *)
LEMMA LoanInvParts ==
  ASSUME CellInv
  PROVE  LoanInv <=> /\ Undisturbed(frames, slot) /\ Snapshots(frames, slot, inner)
                                    /\ \A w \in destroyed : Idle(w, inner, reloading, newest, kept, frames)
<1>1. destroyed \subseteq Values
  BY DEF CellInv, TypeOK
<1>2. DestroyedUnused <=> \A w \in destroyed : Idle(w, inner, reloading, newest, kept, frames)
  BY <1>1, UnusedIs DEF DestroyedUnused
<1> QED BY <1>2 DEF LoanInv, ReloadsUndisturbed, Undisturbed, ClosuresSnapshot, HandleIsSnapshot, Snapshots

(* What a step owes to LoanInv. *)
LEMMA LoanInvAfter ==
  ASSUME CellInv', Undisturbed(frames', slot'), Snapshots(frames', slot', inner'),
         \A w \in destroyed' : Idle(w, inner', reloading', newest', kept', frames')
  PROVE  LoanInv'
<1>1. destroyed' \subseteq Values
  BY DEF CellInv, TypeOK
<1>2. \A c \in Cells : reloading'[c] <=> Leaving(c)'
  BY DEF CellInv, ReloadsAreAlone
<1>3. \A w \in Values : w = Newest(w.chain)' <=> w.version = newest'[w.chain]
  BY DEF Newest, Values
<1>4. ASSUME NEW w \in destroyed' PROVE Users(w)' = {}
  <2>1. w \in Values /\ Idle(w, inner', reloading', newest', kept', frames')
    BY <1>1
  <2>2. w # Newest(w.chain)' /\ w \notin kept'
    BY <1>3, <2>1 DEF Idle
  <2>3. \A c \in Cells : ~Leaving(c)' => inner'[c] # w
    BY <1>2, <2>1 DEF Idle
  <2>4. \A c \in Cells : ~Heading(c, w)'
    BY <2>1 DEF Heading, Idle
  <2> QED BY <2>2, <2>3, <2>4 DEF Users
<1>5. DestroyedUnused'
  BY <1>4 DEF DestroyedUnused
<1>6. ReloadsUndisturbed' /\ ClosuresSnapshot' /\ HandleIsSnapshot'
  BY DEF ReloadsUndisturbed, Undisturbed, ClosuresSnapshot, HandleIsSnapshot, Snapshots
<1> QED BY <1>5, <1>6 DEF LoanInv

(* A value dies when its last user is one that is about to let go of it.    *)
LEMMA DiesIs ==
  ASSUME CellInv, NEW w \in Values, NEW u, Dies(w, u)
  PROVE  /\ \A c \in Cells : c # u /\ inner[c] = w => reloading[c]
         /\ u # "updater" => w.version # newest[w.chain]
         /\ u # "kept" => w \notin kept
         /\ \A i \in DOMAIN frames : frames[i].kind \in Reloads /\ frames[i].cell # u => frames[i].value # w
<1>1. \A c \in Cells : reloading[c] <=> Leaving(c)
  BY DEF CellInv, ReloadsAreAlone
<1>2. w = Newest(w.chain) <=> w.version = newest[w.chain]
  BY DEF Newest, Values
<1>3. Users(w) \subseteq {u}
  BY DEF Dies
<1>4. \A c \in Cells : c # u /\ inner[c] = w => reloading[c]
  BY <1>1, <1>3 DEF Users
<1>5. u # "updater" => w # Newest(w.chain)
  BY <1>3 DEF Users
<1>6. u # "kept" => w \notin kept
  BY <1>3 DEF Users
<1>7. ASSUME NEW i \in DOMAIN frames, frames[i].kind \in Reloads, frames[i].cell # u
      PROVE  frames[i].value # w
  <2>1. frames[i].cell \in Cells /\ Leaving(frames[i].cell)
    BY <1>7, FrameCells DEF Leaving
  <2>2. frames[i].value = w => Heading(frames[i].cell, w)
    BY <1>7 DEF Heading
  <2> QED BY <1>3, <1>7, <2>1, <2>2 DEF Users
<1> QED BY <1>2, <1>4, <1>5, <1>6, <1>7

(* A reload of a cell that nobody uses, or a closure of one that does not   *)
(* reload, comes on top.                                                    *)
LEMMA PushUndisturbed ==
  ASSUME NEW fs \in Seq(FrameType), NEW sl, Undisturbed(fs, sl), NEW x \in FrameType,
         \A i \in DOMAIN fs : fs[i].kind \in Reloads \/ x.kind \in Reloads => fs[i].cell # x.cell,
         x.kind \in Reloads => \A s \in Slots : sl[s].cell # x.cell
  PROVE  Undisturbed(<<x>> \o fs, sl)
<1> DEFINE q == <<x>> \o fs
<1>1. /\ \A i \in DOMAIN q : (i = 1 /\ q[i] = x) \/ (i - 1 \in DOMAIN fs /\ i # 1 /\ q[i] = fs[i - 1])
      /\ \A i, j \in DOMAIN q : i - 1 = j - 1 => i = j
  BY OnTop
<1> HIDE DEF q
<1> SUFFICES ASSUME NEW i \in DOMAIN q, q[i].kind \in Reloads
             PROVE  /\ \A j \in DOMAIN q : q[j].cell = q[i].cell => j = i
                    /\ \A s \in Slots : sl[s].cell # q[i].cell
  BY DEF Undisturbed, q
<1>2. CASE i = 1
  BY <1>1, <1>2
<1>3. CASE i # 1
  <2>1. i - 1 \in DOMAIN fs /\ q[i] = fs[i - 1]
    BY <1>1, <1>3
  <2>2. /\ \A j \in DOMAIN fs : fs[j].cell = q[i].cell => j = i - 1
        /\ \A s \in Slots : sl[s].cell # q[i].cell
        /\ q[i].cell # x.cell
    BY <2>1 DEF Undisturbed
  <2>3. ASSUME NEW j \in DOMAIN q, q[j].cell = q[i].cell PROVE j = i
    <3>1. j # 1
      BY <1>1, <2>2, <2>3
    <3>2. j - 1 \in DOMAIN fs /\ q[j] = fs[j - 1]
      BY <1>1, <3>1
    <3> QED BY <1>1, <2>2, <2>3, <3>2
  <2> QED BY <2>2, <2>3
<1> QED BY <1>2, <1>3

(* The top frame leaves; if it was a reload, its cell is free.              *)
LEMMA PopUndisturbed ==
  ASSUME NEW fs \in Seq(FrameType), fs # <<>>, NEW sl, Undisturbed(fs, sl)
  PROVE  /\ Undisturbed(Tail(fs), sl)
         /\ Head(fs).kind \in Reloads =>
              /\ \A i \in DOMAIN Tail(fs) : Tail(fs)[i].cell # Head(fs).cell
              /\ \A s \in Slots : sl[s].cell # Head(fs).cell
<1> DEFINE q == Tail(fs)
<1> DEFINE x == Head(fs)
<1>1. /\ 1 \in DOMAIN fs /\ x = fs[1]
      /\ \A i \in DOMAIN q : i + 1 \in DOMAIN fs /\ i + 1 # 1 /\ q[i] = fs[i + 1]
      /\ \A i, j \in DOMAIN q : i + 1 = j + 1 => i = j
  BY BelowTop
<1> HIDE DEF q, x
<1>2. Undisturbed(q, sl)
  BY <1>1 DEF Undisturbed
<1>3. ASSUME x.kind \in Reloads
      PROVE  (\A i \in DOMAIN q : q[i].cell # x.cell) /\ \A s \in Slots : sl[s].cell # x.cell
  BY <1>1, <1>3 DEF Undisturbed
<1> QED BY <1>2, <1>3 DEF q, x

\* a cell c that no frame of fs and no handle of sl is of may be taken to v
Lendable(c, v, fs, sl, rs) ==
  /\ Undisturbed(fs, sl) /\ Snapshots(fs, sl, inner)
  /\ \A w \in destroyed :
       /\ w # v /\ w.version # newest[w.chain] /\ w \notin kept
       /\ \A d \in Cells : d # c /\ inner[d] = w => rs[d]
       /\ \A i \in DOMAIN fs : fs[i].kind \in Reloads => fs[i].value # w
  /\ \A i \in DOMAIN fs : fs[i].cell # c
  /\ \A h \in Slots : sl[h].cell # c

(* The reload of a cell that nobody uses is over: whoever called it gets    *)
(* what the cell points at now.                                             *)
LEMMA DeliverLends ==
  ASSUME CellInv, CellInv',
         NEW kind \in Reloads, NEW c \in Cells, NEW s \in Slots \cup {None}, NEW v \in Values,
         NEW below \in Seq(FrameType),
         NEW slots \in [Slots -> HandleType], NEW depths,
         Lendable(c, v, below, slots, reloading'),
         Deliver(kind, c, s, v, below, slots, depths),
         newest' = newest, kept' = kept, destroyed' = destroyed
  PROVE  LoanInv'
<1> USE DEF Lendable
<1> DEFINE x == Frame("closure", c, s, v)
<1>1. inner' = [inner EXCEPT ![c] = v] /\ inner \in [Cells -> Values \cup {NoValue}]
  BY DEF Deliver, CellInv, TypeOK
<1>2. inner'[c] = v /\ \A d \in Cells : d # c => inner'[d] = inner[d]
  BY <1>1
<1>3. x \in FrameType /\ x.kind = "closure" /\ x.cell = c /\ x.value = v /\ "closure" \notin Reloads
  BY CellInvParts DEF Frame, FrameType
<1>4. frames' = below \/ frames' = <<x>> \o below
  BY DEF Deliver
<1> HIDE DEF x
<1>5. \A i \in DOMAIN frames' : frames'[i] = x \/ \E j \in DOMAIN below : frames'[i] = below[j]
  <2>1. CASE frames' = below
    BY <2>1
  <2>2. CASE frames' = <<x>> \o below
    <3> DEFINE q == <<x>> \o below
    <3>1. \A i \in DOMAIN q : (i = 1 /\ q[i] = x) \/ (i - 1 \in DOMAIN below /\ i # 1 /\ q[i] = below[i - 1])
      BY <1>3, OnTop
    <3> HIDE DEF q
    <3>2. frames' = q
      BY <2>2 DEF q
    <3> QED BY <3>1, <3>2
  <2> QED BY <1>4, <2>1, <2>2
<1>6. \/ slot' = slots
      \/ /\ s \in Slots /\ slot' = [slots EXCEPT ![s] = [cell |-> c, value |-> v]]
         /\ frames' = below
      \/ /\ s \notin Slots /\ slot' = slots
  BY DEF Deliver, Reloads
<1>7. \A h \in Slots : slot'[h] = slots[h] \/ (slot'[h] = [cell |-> c, value |-> v] /\ frames' = below)
  BY <1>6
<1>8. \A i \in DOMAIN below : below[i].cell \in Cells
  <2>1. \A i \in DOMAIN below : below[i] \in FrameType
    OBVIOUS
  <2> QED BY <2>1 DEF FrameType
<1>9. Undisturbed(frames', slot')
  <2>1. Undisturbed(frames', slots)
    <3>1. Undisturbed(<<x>> \o below, slots)
      BY <1>3, PushUndisturbed
    <3> QED BY <1>4, <3>1
  <2>2. \A i \in DOMAIN frames' : frames'[i].kind \in Reloads => frames'[i].cell # c
    BY <1>3, <1>5
  <2>3. \A h \in Slots : slot'[h].cell = slots[h].cell \/ slot'[h].cell = c
    BY <1>7
  <2> QED BY <2>1, <2>2, <2>3 DEF Undisturbed
<1>10. Snapshots(frames', slot', inner')
  <2>1. \A i \in DOMAIN frames' : frames'[i].kind = "closure" => inner'[frames'[i].cell] = frames'[i].value
    BY <1>2, <1>3, <1>5, <1>8 DEF Snapshots
  <2>2. ASSUME NEW h \in Slots, slot'[h] # NoHandle PROVE inner'[slot'[h].cell] = slot'[h].value
    <3>1. CASE slot'[h] = slots[h]
      <4>1. slots[h].cell \in Cells /\ slots[h].cell # c /\ inner[slots[h].cell] = slots[h].value
        BY <2>2, <3>1 DEF Snapshots, HandleType
      <4> QED BY <1>2, <3>1, <4>1
    <3>2. CASE slot'[h] = [cell |-> c, value |-> v]
      BY <1>2, <3>2
    <3> QED BY <1>7, <3>1, <3>2
  <2> QED BY <2>1, <2>2 DEF Snapshots
<1>12. \A w \in destroyed' : Idle(w, inner', reloading', newest', kept', frames')
  <2> SUFFICES ASSUME NEW w \in destroyed PROVE Idle(w, inner', reloading', newest, kept, frames')
    OBVIOUS
  <2>1. \A d \in Cells : inner'[d] = w => reloading'[d]
    BY <1>2
  <2>2. \A i \in DOMAIN frames' : frames'[i].kind \in Reloads => frames'[i].value # w
    BY <1>3, <1>5
  <2> QED BY <2>1, <2>2 DEF Idle
<1> QED BY <1>9, <1>10, <1>12, LoanInvAfter

(* A call that takes a cell nobody uses to a value that is not destroyed.   *)
LEMMA TakeToLends ==
  ASSUME CellInv, CellInv', LoanInv,
         NEW kind \in Reloads, NEW c \in Cells, NEW s \in Slots \cup {None}, NEW v \in Values,
         Exists(c), ~reloading[c], v.version = newest[v.chain],
         NEW slots \in [Slots -> HandleType], NEW depths,
         \A h \in Slots : slots[h] = slot[h] \/ slots[h] = NoHandle,
         \A h \in Slots : slots[h].cell # c,
         \A i \in DOMAIN frames : frames[i].cell # c,
         TakeTo(kind, c, s, v, slots, depths)
  PROVE  LoanInv'
<1> DEFINE x == Frame(kind, c, s, v)
<1>1. /\ frames \in Seq(FrameType) /\ inner[c] \in Values
      /\ newest' = newest /\ kept' = kept /\ destroyed \subseteq Values
      /\ newest \in [Chains -> 1..MaxVersion]
  BY CellInvParts, NewestTyped DEF CellInv, TypeOK, TakeTo
<1>2. /\ Undisturbed(frames, slot) /\ Snapshots(frames, slot, inner)
      /\ \A w \in destroyed : Idle(w, inner, reloading, newest, kept, frames)
  BY LoanInvParts
<1>3. Undisturbed(frames, slots) /\ Snapshots(frames, slots, inner)
  <2>1. \A i \in DOMAIN frames : frames[i].cell # NoHandle.cell
    <3>1. \A i \in DOMAIN frames : frames[i] \in FrameType
      BY <1>1
    <3> QED BY <3>1, CellAssumption DEF FrameType, NoHandle
  <2> QED BY <1>2, <2>1 DEF Undisturbed, Snapshots
<1>5. \A w \in destroyed : w # v
  BY <1>2 DEF Idle
<1>6. CASE Deliver(kind, c, s, v, frames, slots, depths) /\ UNCHANGED <<destroyed, reloading>>
  <2>1. \A w \in destroyed :
           /\ w # v /\ w.version # newest[w.chain] /\ w \notin kept
           /\ \A d \in Cells : d # c /\ inner[d] = w => reloading'[d]
           /\ \A i \in DOMAIN frames : frames[i].kind \in Reloads => frames[i].value # w
    BY <1>2, <1>5, <1>6 DEF Idle
  <2>2. Lendable(c, v, frames, slots, reloading')
    BY <1>2, <1>3, <2>1 DEF Lendable
  <2>3. Deliver(kind, c, s, v, frames, slots, depths) /\ destroyed' = destroyed
    BY <1>6
  <2> HIDE DEF x
  <2> QED BY <1>1, <2>2, <2>3, DeliverLends
<1>7. CASE /\ v # inner[c] /\ Dies(inner[c], c)
           /\ frames' = <<x>> \o frames
           /\ destroyed' = destroyed \cup {inner[c]}
           /\ reloading' = [reloading EXCEPT ![c] = TRUE]
           /\ slot' = slots
           /\ UNCHANGED inner
  <2>1. x \in FrameType /\ x.kind = kind /\ x.cell = c /\ x.value = v /\ kind # "closure"
    BY <1>1, CellInvParts DEF Frame, FrameType
  <2> HIDE DEF x
  <2>2. Undisturbed(frames', slot')
    BY <1>1, <1>3, <1>7, <2>1, PushUndisturbed
  <2>3. \A i \in DOMAIN frames' : frames'[i] = x \/ \E j \in DOMAIN frames : frames'[i] = frames[j]
    <3> DEFINE q == <<x>> \o frames
    <3>1. \A i \in DOMAIN q : (i = 1 /\ q[i] = x) \/ (i - 1 \in DOMAIN frames /\ i # 1 /\ q[i] = frames[i - 1])
      BY <1>1, <2>1, OnTop
    <3> HIDE DEF q
    <3>2. frames' = q
      BY <1>7 DEF q
    <3> QED BY <3>1, <3>2
  <2>4. Snapshots(frames', slot', inner')
    BY <1>3, <1>7, <2>1, <2>3 DEF Snapshots
  <2>7. \A d \in Cells : reloading[d] => reloading'[d]
    BY <1>7 DEF CellInv, TypeOK
  <2>8. reloading'[c]
    BY <1>7 DEF CellInv, TypeOK
  <2>9. ASSUME NEW w \in destroyed' PROVE Idle(w, inner', reloading', newest', kept', frames')
    <3>1. CASE w \in destroyed
      BY <1>1, <1>2, <1>5, <1>7, <2>1, <2>3, <2>7, <3>1 DEF Idle
    <3>2. CASE w = inner[c]
      <4>1. c # "updater" /\ c # "kept" /\ \A i \in DOMAIN frames : frames[i].cell # c
        BY CellAssumption
      <4>2. /\ \A d \in Cells : d # c /\ inner[d] = w => reloading[d]
            /\ w.version # newest[w.chain] /\ w \notin kept
            /\ \A i \in DOMAIN frames : frames[i].kind \in Reloads => frames[i].value # w
        BY <1>1, <1>7, <3>2, <4>1, DiesIs
      <4>3. \A d \in Cells : inner'[d] = w => reloading'[d]
        BY <1>7, <2>7, <2>8, <4>2
      <4>4. \A i \in DOMAIN frames' : frames'[i].kind \in Reloads => frames'[i].value # w
        BY <1>7, <2>1, <2>3, <3>2, <4>2
      <4> QED BY <1>1, <4>2, <4>3, <4>4 DEF Idle
    <3> QED BY <1>7, <3>1, <3>2
  <2> QED BY <2>2, <2>4, <2>9, LoanInvAfter
<1> QED BY <1>6, <1>7 DEF TakeTo

\* nothing of c runs, and no handle of sl is of it
Free(c, sl) == (\A i \in DOMAIN frames : frames[i].cell # c) /\ \A h \in Slots : sl[h].cell # c

(* Where a usize is large enough, what depth counts does not wrap. *)
LEMMA UsesBounded ==
  ASSUME DepthSuffices, NEW fs \in Seq(FrameType), Len(fs) <= MaxFrames, NEW sl,
         NEW fg \in [Cells -> 0..MaxForgets], NEW c \in Cells
  PROVE  Uses(fs, sl, fg, c) \in 0..(UsizeValues - 1)
<1> DEFINE A == FramesOf(fs, c, {"closure"})
<1> DEFINE B == FramesOf(fs, c, Entering)
<1> DEFINE L == Lent(sl, c)
<1>1. IsFiniteSet(A) /\ IsFiniteSet(B) /\ Cardinality(A) \in Nat /\ Cardinality(B) \in Nat
  BY FramesFinite
<1>2. Cardinality(L) \in Nat /\ Cardinality(L) <= Cardinality(Slots) /\ Cardinality(Slots) \in Nat
  <2>1. L \in SUBSET Slots
    BY DEF Lent
  <2> HIDE DEF L
  <2> QED BY <2>1, CellAssumption, FS_Subset, FS_CardinalityType
<1>3. Len(fs) \in Nat /\ DOMAIN fs = 1..Len(fs) /\ IsFiniteSet(1..Len(fs)) /\ Cardinality(1..Len(fs)) = Len(fs)
  <2>1. Len(fs) \in Nat /\ DOMAIN fs = 1..Len(fs)
    OBVIOUS
  <2>2. IsFiniteSet(1..Len(fs))
    BY <2>1, FS_Interval
  <2>3. Cardinality(1..Len(fs)) = Len(fs)
    <3> DEFINE n == Len(fs)
    <3>1. n \in Nat
      BY <2>1
    <3> HIDE DEF n
    <3>2. Cardinality(1..n) = IF 1 > n THEN 0 ELSE n - 1 + 1
      BY <3>1, FS_Interval
    <3>3. Cardinality(1..n) = n
      BY <3>1, <3>2
    <3> QED BY <3>3 DEF n
  <2> QED BY <2>1, <2>2, <2>3
<1>4. A \cap B = {} /\ A \cup B \in SUBSET (1..Len(fs))
  BY <1>3 DEF FramesOf, Entering
<1> HIDE DEF A, B, L
<1>5. Cardinality(A \cup B) = Cardinality(A) + Cardinality(B)
  <2>1. Cardinality(A \cup B) = Cardinality(A) + Cardinality(B) - Cardinality(A \cap B)
    BY <1>1, FS_Union
  <2>2. Cardinality(A \cap B) = 0
    BY <1>4, FS_EmptySet
  <2> QED BY <1>1, <2>1, <2>2
<1>6. Cardinality(A \cup B) <= Len(fs)
  BY <1>3, <1>4, FS_Subset
<1>7. fg[c] \in Nat /\ fg[c] <= MaxForgets
  BY CellAssumption
<1>8. Uses(fs, sl, fg, c) = Cardinality(A) + Cardinality(L) + fg[c] + Cardinality(B)
  BY DEF Uses, A, B, L
<1> DEFINE a == Cardinality(A)
<1> DEFINE b == Cardinality(B)
<1> DEFINE l == Cardinality(L)
<1> DEFINE m == Len(fs)
<1> DEFINE k == Cardinality(Slots)
<1>9. /\ a \in Nat /\ b \in Nat /\ l \in Nat /\ k \in Nat /\ m \in Nat /\ fg[c] \in Nat
      /\ a + b <= m /\ l <= k /\ fg[c] <= MaxForgets /\ m <= MaxFrames
      /\ MaxFrames + k + MaxForgets < UsizeValues
  BY <1>1, <1>2, <1>3, <1>5, <1>6, <1>7 DEF DepthSuffices
<1>10. Uses(fs, sl, fg, c) = a + l + fg[c] + b
  BY <1>8
<1> HIDE DEF a, b, l, m, k
<1>11. UsizeValues \in Nat /\ MaxFrames \in Nat /\ MaxForgets \in Nat
  BY CellAssumption
<1>12. a + l + fg[c] + b \in Nat /\ a + l + fg[c] + b < UsizeValues
  BY <1>9, <1>11
<1> QED BY <1>10, <1>11, <1>12

(* depth is the number of frames and handles, then. *)
LEMMA DepthIsUses ==
  ASSUME CellInv, DepthInv, DepthSuffices, NEW c \in Cells
  PROVE  depth[c] = Uses(frames, slot, forgotten, c)
<1>1. /\ frames \in Seq(FrameType) /\ forgotten \in [Cells -> 0..MaxForgets]
      /\ Exact(frames, slot, depth, forgotten) /\ Len(frames) <= MaxFrames
  BY CellInvParts, DepthInvParts DEF CellInv, TypeOK
<1>2. Uses(frames, slot, forgotten, c) \in 0..(UsizeValues - 1)
  BY <1>1, UsesBounded
<1>3. \A n \in 0..(UsizeValues - 1) : n % UsizeValues = n
  BY CellAssumption
<1> QED BY <1>1, <1>2, <1>3 DEF Exact

(* A cell that nothing counts for, and that does not reload, is free. *)
LEMMA UnusedIsFree ==
  ASSUME CellInv, NEW c \in Cells, ~reloading[c], NEW sl, Uses(frames, sl, forgotten, c) = 0
  PROVE  Free(c, sl)
<1> DEFINE A == FramesOf(frames, c, {"closure"})
<1> DEFINE B == FramesOf(frames, c, Entering)
<1> DEFINE L == Lent(sl, c)
<1>1. /\ frames \in Seq(FrameType) /\ forgotten[c] \in Nat
      /\ \A i \in DOMAIN frames : ~(frames[i].kind \in Reloads /\ frames[i].cell = c)
  <2>1. forgotten[c] \in Nat
    BY CellAssumption DEF CellInv, TypeOK
  <2>2. \A i \in DOMAIN frames : ~(frames[i].kind \in Reloads /\ frames[i].cell = c)
    BY DEF CellInv, ReloadsAreAlone, Leaving
  <2> QED BY <2>1, <2>2, CellInvParts
<1>2. /\ IsFiniteSet(A) /\ Cardinality(A) \in Nat /\ IsFiniteSet(B) /\ Cardinality(B) \in Nat
      /\ IsFiniteSet(L) /\ Cardinality(L) \in Nat
  BY <1>1, FramesFinite, HandlesFinite
<1>3. Cardinality(A) + Cardinality(L) + forgotten[c] + Cardinality(B) = 0
  BY DEF Uses
<1> HIDE DEF A, B, L
<1>4. A = {} /\ L = {}
  BY <1>1, <1>2, <1>3, FS_EmptySet
<1>5. \A i \in DOMAIN frames : frames[i].kind \in Reloads \cup {"closure"}
  <2>1. \A i \in DOMAIN frames : frames[i] \in FrameType
    BY <1>1
  <2> QED BY <2>1 DEF FrameType
<1>6. \A i \in DOMAIN frames : frames[i].cell # c
  BY <1>1, <1>4, <1>5 DEF A, FramesOf
<1> QED BY <1>4, <1>6 DEF Free, L, Lent

(* is_outermost_frame says of a call that enters that its cell is free. *)
LEMMA EntersFree ==
  ASSUME CellInv, DepthInv, DepthSuffices, NEW c \in Cells, ~reloading[c],
         IsOutermost(Raised(depth[c])) \/ depth[c] = 0
  PROVE  Free(c, slot)
<1>1. depth[c] \in 0..(UsizeValues - 1)
  BY DEF CellInv, TypeOK
<1>2. depth[c] = 0
  <2>1. \A d \in 0..(UsizeValues - 1) : (d + 1) % UsizeValues = 1 => d = 0
    <3> SUFFICES ASSUME NEW d \in 0..(UsizeValues - 1), d # 0, d + 1 # UsizeValues
                 PROVE  (d + 1) % UsizeValues # 1
      <4>1. UsizeValues % UsizeValues = 0
        BY CellAssumption
      <4> QED BY <4>1
    <3>1. d + 1 \in 0..(UsizeValues - 1) /\ d + 1 # 1
      BY CellAssumption
    <3>2. \A n \in 0..(UsizeValues - 1) : n % UsizeValues = n
      BY CellAssumption
    <3> QED BY <3>1, <3>2
  <2> QED BY <1>1, <2>1 DEF IsOutermost, Raised
<1> QED BY <1>2, DepthIsUses, UnusedIsFree

(* And of the drop of a handle, that it is the last use of its cell. *)
LEMMA LeavesFree ==
  ASSUME CellInv, DepthInv, DepthSuffices, NEW s \in Slots, slot[s] # NoHandle,
         ~reloading[slot[s].cell], IsOutermost(depth[slot[s].cell])
  PROVE  Free(slot[s].cell, [slot EXCEPT ![s] = NoHandle])
<1> DEFINE c == slot[s].cell
<1> DEFINE slots == [slot EXCEPT ![s] = NoHandle]
<1>1. /\ slot \in [Slots -> HandleType] /\ frames \in Seq(FrameType) /\ forgotten \in [Cells -> Nat]
  BY CellInvParts, CellAssumption DEF CellInv, TypeOK, HandleType
<1>2. c \in Cells
  BY <1>1 DEF HandleType
<1>3. Uses(frames, slots, forgotten, c) = Uses(frames, slot, forgotten, c) - (IF slot[s].cell = c THEN 1 ELSE 0)
  BY <1>1, <1>2, UsesReturned
<1>4. Uses(frames, slot, forgotten, c) = 1
  BY <1>2, DepthIsUses DEF IsOutermost
<1>5. Uses(frames, slots, forgotten, c) = 0
  BY <1>3, <1>4
<1> HIDE DEF c, slots
<1>6. ~reloading[c]
  BY DEF c
<1>7. Free(c, slots)
  BY <1>2, <1>5, <1>6, UnusedIsFree
<1> QED BY <1>7 DEF c, slots

(* A handle that comes at the value of its cell, goes, or is forgotten. *)
LEMMA HandlesLend ==
  ASSUME CellInv, CellInv', LoanInv,
         UNCHANGED <<frames, inner, reloading, newest, kept, destroyed>>,
         \A h \in Slots :
           \/ slot'[h] = slot[h]
           \/ slot'[h] = NoHandle
           \/ /\ slot'[h].cell \in Cells /\ ~reloading[slot'[h].cell]
              /\ slot'[h].value = inner[slot'[h].cell]
  PROVE  LoanInv'
<1>1. /\ Undisturbed(frames, slot) /\ Snapshots(frames, slot, inner)
      /\ \A w \in destroyed : Idle(w, inner, reloading, newest, kept, frames)
  BY LoanInvParts
<1>2. \A i \in DOMAIN frames : frames[i].cell # None
  <2>1. \A i \in DOMAIN frames : frames[i] \in FrameType
    BY CellInvParts
  <2> QED BY <2>1, CellAssumption DEF FrameType
<1>3. ASSUME NEW i \in DOMAIN frames, frames[i].kind \in Reloads, NEW h \in Slots
      PROVE  slot'[h].cell # frames[i].cell
  <2>1. CASE slot'[h] = slot[h]
    BY <1>1, <1>3, <2>1 DEF Undisturbed
  <2>2. CASE slot'[h] = NoHandle
    BY <1>2, <2>2 DEF NoHandle
  <2>3. CASE slot'[h].cell \in Cells /\ ~reloading[slot'[h].cell]
    BY <1>3, <2>3 DEF CellInv, ReloadsAreAlone, Leaving
  <2> QED BY <2>1, <2>2, <2>3
<1>4. Undisturbed(frames, slot')
  BY <1>1, <1>3 DEF Undisturbed
<1>5. Snapshots(frames, slot', inner)
  BY <1>1 DEF Snapshots
<1> QED BY <1>1, <1>4, <1>5, LoanInvAfter

(* get: a reload of a free cell, or a closure at what the cell points at. *)
LEMMA GetLends ==
  ASSUME CellSafe, CellInv', DepthSuffices, NEW c \in Cells, Get(c) PROVE LoanInv'
<1>1. /\ CellInv /\ DepthInv /\ LoanInv /\ Exists(c) /\ ~reloading[c]
      /\ frames \in Seq(FrameType) /\ slot \in [Slots -> HandleType] /\ inner[c] \in Values
      /\ NewestFor(c) \in Values /\ NewestFor(c).version = newest[NewestFor(c).chain]
  BY CellInvParts, NewestTyped DEF CellSafe, CellInv, TypeOK, HandleType, Get, MayEnter, NewestFor, Newest
<1>2. CASE IsOutermost(Raised(depth[c])) /\ TakeTo("get", c, None, NewestFor(c), slot, Entered(c))
  <2>1. Free(c, slot) /\ "get" \in Reloads
    BY <1>1, <1>2, EntersFree DEF Reloads
  <2> QED BY <1>1, <1>2, <2>1, TakeToLends DEF Free
<1>3. CASE /\ frames' = <<Frame("closure", c, None, inner[c])>> \o frames
           /\ UNCHANGED <<newest, kept, inner, reloading, slot, destroyed, forgotten>>
  <2> DEFINE x == Frame("closure", c, None, inner[c])
  <2>1. x \in FrameType /\ x.kind \notin Reloads /\ x.cell = c /\ x.value = inner[c]
    BY <1>1, CellAssumption, CellInvParts DEF Frame, FrameType
  <2>2. frames' = <<x>> \o frames
    BY <1>3
  <2> HIDE DEF x
  <2>3. /\ Undisturbed(frames, slot) /\ Snapshots(frames, slot, inner)
          /\ \A w \in destroyed : Idle(w, inner, reloading, newest, kept, frames)
    BY <1>1, LoanInvParts
  <2>4. \A i \in DOMAIN frames : frames[i].kind \in Reloads => frames[i].cell # c
    BY <1>1 DEF CellInv, ReloadsAreAlone, Leaving
  <2>5. Undisturbed(frames', slot)
    BY <1>1, <2>1, <2>2, <2>3, <2>4, PushUndisturbed
  <2>6. \A i \in DOMAIN frames' : frames'[i] = x \/ \E j \in DOMAIN frames : frames'[i] = frames[j]
    <3> DEFINE q == <<x>> \o frames
    <3>1. \A i \in DOMAIN q : (i = 1 /\ q[i] = x) \/ (i - 1 \in DOMAIN frames /\ i # 1 /\ q[i] = frames[i - 1])
      BY <1>1, <2>1, OnTop
    <3> HIDE DEF q
    <3>2. frames' = q
      BY <2>2 DEF q
    <3> QED BY <3>1, <3>2
  <2>7. Snapshots(frames', slot, inner)
    BY <2>1, <2>3, <2>6 DEF Snapshots
  <2>9. \A w \in destroyed : Idle(w, inner, reloading, newest, kept, frames')
    BY <2>1, <2>3, <2>6 DEF Idle
  <2> QED BY <1>3, <2>5, <2>7, <2>9, LoanInvAfter
<1> QED BY <1>2, <1>3 DEF Get

(* borrow: a reload of a free cell, or a handle at what the cell points at. *)
LEMMA BorrowLends ==
  ASSUME CellSafe, CellInv', DepthSuffices, NEW c \in Cells, NEW s \in Slots, Borrow(c, s)
  PROVE  LoanInv'
<1>1. /\ CellInv /\ DepthInv /\ LoanInv /\ Exists(c) /\ ~reloading[c]
      /\ slot \in [Slots -> HandleType]
      /\ NewestFor(c) \in Values /\ NewestFor(c).version = newest[NewestFor(c).chain]
  BY NewestTyped DEF CellSafe, CellInv, TypeOK, HandleType, Borrow, MayEnter, NewestFor, Newest
<1>2. CASE IsOutermost(Raised(depth[c])) /\ TakeTo("borrow", c, s, NewestFor(c), slot, Entered(c))
  <2>1. Free(c, slot) /\ "borrow" \in Reloads
    BY <1>1, <1>2, EntersFree DEF Reloads
  <2> QED BY <1>1, <1>2, <2>1, TakeToLends DEF Free
<1>3. CASE /\ slot' = [slot EXCEPT ![s] = [cell |-> c, value |-> inner[c]]]
           /\ UNCHANGED <<newest, kept, inner, reloading, frames, destroyed, forgotten>>
  BY <1>1, <1>3, HandlesLend
<1> QED BY <1>2, <1>3 DEF Borrow

(* A handle that goes: the last of its cell, which is free then, or another. *)
LEMMA DropHandleLends ==
  ASSUME CellSafe, CellInv', DepthSuffices, NEW s \in Slots, DropHandle(s) PROVE LoanInv'
<1> DEFINE c == slot[s].cell
<1> DEFINE slots == [slot EXCEPT ![s] = NoHandle]
<1>1. CellInv /\ DepthInv /\ LoanInv /\ slot \in [Slots -> HandleType] /\ slot[s] # NoHandle
  BY DEF CellSafe, DropHandle, CellInv, TypeOK, HandleType
<1>2. c \in Cells /\ Exists(c)
  BY <1>1 DEF CellInv, HandlesExist, HandleType
<1>3. NewestFor(c) \in Values /\ NewestFor(c).version = newest[NewestFor(c).chain]
  BY <1>1, <1>2, NewestTyped DEF CellInv, NewestFor, Newest
<1>4. CASE /\ IsOutermost(depth[c]) /\ ~reloading[c]
           /\ TakeTo("unborrow", c, None, NewestFor(c), slots, depth)
  <2>1. Free(c, slots)
    BY <1>1, <1>4, LeavesFree
  <2>2. slots \in [Slots -> HandleType] /\ \A h \in Slots : slots[h] = slot[h] \/ slots[h] = NoHandle
    BY <1>1 DEF HandleType
  <2>3. "unborrow" \in Reloads
    BY DEF Reloads
  <2> HIDE DEF c, slots
  <2> QED BY <1>1, <1>2, <1>3, <1>4, <2>1, <2>2, <2>3, TakeToLends DEF Free
<1>5. CASE /\ slot' = slots
           /\ UNCHANGED <<newest, kept, inner, reloading, frames, destroyed, forgotten>>
  <2>1. \A h \in Slots : slot'[h] = slot[h] \/ slot'[h] = NoHandle
    BY <1>1, <1>5
  <2> QED BY <1>1, <1>5, <2>1, HandlesLend
<1> QED BY <1>4, <1>5 DEF DropHandle

(* reload and assign, of a cell that is idle. *)
LEMMA ReloadLends ==
  ASSUME CellSafe, CellInv', DepthSuffices, NEW c \in Cells, Reload(c) \/ \E k \in Chains : Assign(c, k)
  PROVE  LoanInv'
<1>1. /\ CellInv /\ DepthInv /\ LoanInv /\ Exists(c) /\ ~reloading[c] /\ depth[c] = 0
      /\ slot \in [Slots -> HandleType] /\ "reload" \in Reloads /\ "assign" \in Reloads
  BY DEF CellSafe, Reload, Assign, IsIdle, CellInv, TypeOK, HandleType, Reloads
<1>2. Free(c, slot)
  BY <1>1, EntersFree
<1>3. CASE Reload(c)
  <2>1. NewestFor(c) \in Values /\ NewestFor(c).version = newest[NewestFor(c).chain]
    BY <1>1, NewestTyped DEF CellInv, NewestFor, Newest
  <2> QED BY <1>1, <1>2, <1>3, <2>1, TakeToLends DEF Free, Reload
<1>4. ASSUME NEW k \in Chains, Assign(c, k) PROVE LoanInv'
  <2>1. Newest(k) \in Values /\ Newest(k).version = newest[Newest(k).chain]
    BY <1>1, NewestTyped DEF CellInv, Newest
  <2> QED BY <1>1, <1>2, <1>4, <2>1, TakeToLends DEF Free, Assign
<1> QED BY <1>3, <1>4

(* A destructor that ends leaves its cell at a value that is not destroyed. *)
LEMMA DestructorEndsLends ==
  ASSUME CellInv, CellInv', LoanInv, DestructorEnds PROVE LoanInv'
<1> DEFINE f == Head(frames)
<1> DEFINE c == f.cell
<1> DEFINE below == Tail(frames)
<1>0. PICK v \in Values : /\ v = f.value \/ v = Newest(f.value.chain)
                          /\ \/ Finish(f, v)
                             \/ v # f.value /\ Dies(f.value, c) /\ GoOn(f, v)
  BY DestructorEndsIs
<1>1. /\ frames # <<>> /\ f.kind \in Reloads /\ frames \in Seq(FrameType)
      /\ newest' = newest /\ kept' = kept
      /\ slot \in [Slots -> HandleType] /\ reloading \in [Cells -> BOOLEAN]
  BY CellInvParts, DestructorEndsIs DEF CellInv, TypeOK, HandleType
<1>2. /\ Undisturbed(frames, slot) /\ Snapshots(frames, slot, inner)
      /\ \A w \in destroyed : Idle(w, inner, reloading, newest, kept, frames)
  BY LoanInvParts
<1>3. /\ 1 \in DOMAIN frames /\ f = frames[1] /\ f \in FrameType /\ below \in Seq(FrameType)
      /\ \A i \in DOMAIN below : i + 1 \in DOMAIN frames /\ below[i] = frames[i + 1]
  BY <1>1, BelowTop, PopFrame
<1>4. c \in Cells /\ f.slot \in Slots \cup {None} /\ f.value \in Values
  BY <1>3 DEF FrameType
<1>5. /\ Undisturbed(below, slot)
      /\ \A i \in DOMAIN below : below[i].cell # c
      /\ \A h \in Slots : slot[h].cell # c
  BY <1>1, <1>2, PopUndisturbed
<1>6. reloading[c]
  BY <1>1, <1>3, <1>4 DEF CellInv, ReloadsAreAlone, Leaving
<1>7. Snapshots(below, slot, inner)
  BY <1>2, <1>3 DEF Snapshots
<1>8. \A w \in destroyed : w # v
  <2>1. v = f.value => \A w \in destroyed : w # v
    BY <1>1, <1>2, <1>3 DEF Idle
  <2>2. v = Newest(f.value.chain) => v.version = newest[v.chain]
    BY DEF Newest
  <2> QED BY <1>0, <1>2, <2>1, <2>2 DEF Idle
<1>9. \A w \in destroyed :
        /\ w.version # newest[w.chain] /\ w \notin kept
        /\ \A i \in DOMAIN below : below[i].kind \in Reloads => below[i].value # w
  BY <1>2, <1>3 DEF Idle
<1>11. CASE Finish(f, v)
  <2>1. reloading' = [reloading EXCEPT ![c] = FALSE] /\ destroyed' = destroyed
    BY <1>11 DEF Finish
  <2>2. \A d \in Cells : d # c => reloading'[d] = reloading[d]
    BY <1>1, <2>1
  <2>3. \A w \in destroyed : \A d \in Cells : d # c /\ inner[d] = w => reloading'[d]
    BY <1>2, <2>2 DEF Idle
  <2>4. Lendable(c, v, below, slot, reloading')
    BY <1>5, <1>7, <1>8, <1>9, <2>3 DEF Lendable
  <2>5. \/ Deliver(f.kind, c, f.slot, v, below, slot, depth)
        \/ /\ inner' = [inner EXCEPT ![c] = v] /\ frames' = below /\ slot' = slot
    BY <1>11 DEF Finish
  <2> HIDE DEF f, c, below
  <2>6. CASE Deliver(f.kind, c, f.slot, v, below, slot, depth)
    <3> DEFINE kind == f.kind
    <3> DEFINE s == f.slot
    <3>1. kind \in Reloads /\ s \in Slots \cup {None} /\ Deliver(kind, c, s, v, below, slot, depth)
      BY <1>1, <1>4, <2>6
    <3> HIDE DEF kind, s
    <3> QED BY <1>1, <1>3, <1>4, <2>1, <2>4, <3>1, DeliverLends
  <2>7. CASE inner' = [inner EXCEPT ![c] = v] /\ frames' = below /\ slot' = slot
    <3>1. "reload" \in Reloads /\ None \in Slots \cup {None}
      BY DEF Reloads
    <3>2. Deliver("reload", c, None, v, below, slot, depth')
      BY <2>7 DEF Deliver
    <3> QED BY <1>1, <1>3, <1>4, <2>1, <2>4, <3>1, <3>2, DeliverLends
  <2> QED BY <2>5, <2>6, <2>7
<1>12. CASE v # f.value /\ Dies(f.value, c) /\ GoOn(f, v)
  <2> DEFINE g == [f EXCEPT !.value = v]
  <2>1. /\ g \in FrameType /\ g.kind = f.kind /\ g.cell = c /\ g.value = v
        /\ f.kind # "closure"
    BY <1>1, GoOnFrame, CellInvParts
  <2>2. /\ frames' = <<g>> \o below /\ destroyed' = destroyed \cup {f.value}
        /\ UNCHANGED <<inner, reloading, slot>>
    BY <1>12 DEF GoOn
  <2>3. c # "updater" /\ c # "kept"
    BY <1>4, CellAssumption
  <2> HIDE DEF f, c, below, g
  <2>4. Undisturbed(frames', slot')
    <3>1. Undisturbed(<<g>> \o below, slot)
      BY <1>3, <1>5, <2>1, PushUndisturbed
    <3> QED BY <2>2, <3>1
  <2>5. \A i \in DOMAIN frames' : frames'[i] = g \/ \E j \in DOMAIN below : frames'[i] = below[j]
    <3> DEFINE q == <<g>> \o below
    <3>1. \A i \in DOMAIN q : (i = 1 /\ q[i] = g) \/ (i - 1 \in DOMAIN below /\ i # 1 /\ q[i] = below[i - 1])
      BY <1>3, <2>1, OnTop
    <3> HIDE DEF q
    <3>2. frames' = q
      BY <2>2 DEF q
    <3> QED BY <3>1, <3>2
  <2>6. Snapshots(frames', slot', inner')
    BY <1>7, <2>1, <2>2, <2>5 DEF Snapshots
  <2>7. ASSUME NEW w \in destroyed' PROVE Idle(w, inner', reloading', newest', kept', frames')
    <3>1. CASE w \in destroyed
      <4>1. \A d \in Cells : inner'[d] = w => reloading'[d]
        BY <1>2, <2>2, <3>1 DEF Idle
      <4>2. \A i \in DOMAIN frames' : frames'[i].kind \in Reloads => frames'[i].value # w
        BY <1>8, <1>9, <2>1, <2>5, <3>1
      <4> QED BY <1>1, <1>9, <3>1, <4>1, <4>2 DEF Idle
    <3>2. CASE w = f.value
      <4>1. /\ \A d \in Cells : d # c /\ inner[d] = w => reloading[d]
            /\ w.version # newest[w.chain] /\ w \notin kept
            /\ \A i \in DOMAIN frames : frames[i].kind \in Reloads /\ frames[i].cell # c => frames[i].value # w
        BY <1>4, <1>12, <2>3, <3>2, DiesIs
      <4>2. \A d \in Cells : inner'[d] = w => reloading'[d]
        BY <1>6, <2>2, <4>1
      <4>3. \A i \in DOMAIN below : below[i].kind \in Reloads => below[i].value # w
        BY <1>3, <1>5, <4>1
      <4>4. \A i \in DOMAIN frames' : frames'[i].kind \in Reloads => frames'[i].value # w
        BY <1>12, <2>1, <2>5, <3>2, <4>3
      <4> QED BY <1>1, <4>1, <4>2, <4>4 DEF Idle
    <3> QED BY <2>2, <3>1, <3>2
  <2> QED BY <2>4, <2>6, <2>7, LoanInvAfter
<1> QED BY <1>0, <1>11, <1>12

(* A closure that ends gives its reference back. *)
LEMMA ClosureEndsLends ==
  ASSUME CellInv, CellInv', LoanInv, ClosureEnds PROVE LoanInv'
<1> DEFINE below == Tail(frames)
<1>1. /\ frames # <<>> /\ frames \in Seq(FrameType) /\ frames' = below
      /\ UNCHANGED <<newest, kept, inner, reloading, slot, destroyed, forgotten>>
  BY CellInvParts DEF ClosureEnds
<1>2. /\ Undisturbed(frames, slot) /\ Snapshots(frames, slot, inner)
      /\ \A w \in destroyed : Idle(w, inner, reloading, newest, kept, frames)
  BY LoanInvParts
<1>3. \A i \in DOMAIN below : i + 1 \in DOMAIN frames /\ below[i] = frames[i + 1]
  BY <1>1, BelowTop
<1>4. Undisturbed(below, slot)
  BY <1>1, <1>2, PopUndisturbed
<1> HIDE DEF below
<1>5. Snapshots(below, slot, inner)
  BY <1>2, <1>3 DEF Snapshots
<1>6. \A w \in destroyed : Idle(w, inner, reloading, newest, kept, below)
  BY <1>2, <1>3 DEF Idle
<1> QED BY <1>1, <1>4, <1>5, <1>6, LoanInvAfter

(* A new cell is at a value that is somebody's already. *)
LEMMA NewCellLends ==
  ASSUME CellInv, CellInv', LoanInv, NEW c \in Cells, NEW v \in Values, NewCell(c, v),
         v.version = newest[v.chain] \/ v \in kept, kept' \subseteq kept
  PROVE  LoanInv'
<1>1. /\ Undisturbed(frames, slot) /\ Snapshots(frames, slot, inner)
      /\ \A w \in destroyed : Idle(w, inner, reloading, newest, kept, frames)
  BY LoanInvParts
<1>2. /\ UNCHANGED <<newest, depth, reloading, slot, frames, destroyed, forgotten>>
      /\ inner[c] = NoValue /\ inner'[c] = v /\ \A d \in Cells : d # c => inner'[d] = inner[d]
  BY DEF NewCell, Exists, CellInv, TypeOK
<1>3. \A i \in DOMAIN frames : frames[i].cell \in Cells /\ frames[i].value # NoValue
  <2>1. \A i \in DOMAIN frames : frames[i] \in FrameType
    BY CellInvParts
  <2> QED BY <2>1, Distinct DEF FrameType
<1>4. \A h \in Slots : slot[h] # NoHandle => slot[h].cell \in Cells /\ slot[h].cell # c
  BY <1>2 DEF CellInv, TypeOK, HandlesExist, Exists
<1>5. Snapshots(frames, slot, inner')
  BY <1>1, <1>2, <1>3, <1>4 DEF Snapshots
<1>8. \A w \in destroyed : Idle(w, inner', reloading, newest, kept', frames)
  BY <1>1, <1>2 DEF Idle
<1> QED BY <1>1, <1>2, <1>5, <1>8, LoanInvAfter

(* An ArcShift that is made is at the newest value. *)
LEMMA MakeArcShiftLends ==
  ASSUME CellInv, CellInv', LoanInv, NEW c \in Cells, MakeArcShift(c) PROVE LoanInv'
<1>1. /\ Undisturbed(frames, slot) /\ Snapshots(frames, slot, inner)
      /\ \A w \in destroyed : Idle(w, inner, reloading, newest, kept, frames)
  BY LoanInvParts
<1>2. UNCHANGED <<newest, inner, depth, reloading, slot, frames, destroyed, forgotten>>
  BY DEF MakeArcShift
<1>3. /\ kept' = kept \cup {NewestFor(c)}
      /\ NewestFor(c) \in Values /\ NewestFor(c).version = newest[NewestFor(c).chain]
  BY NewestTyped DEF CellInv, MakeArcShift, MayEnter, NewestFor, Newest
<1>4. \A w \in destroyed : Idle(w, inner, reloading, newest, kept', frames)
  BY <1>1, <1>3 DEF Idle
<1> QED BY <1>1, <1>2, <1>4, LoanInvAfter

(* An ArcShift that is dropped takes its value with it if it was the last   *)
(* to be at it.                                                             *)
LEMMA DropArcShiftLends ==
  ASSUME CellInv, CellInv', LoanInv, NEW v \in kept, DropArcShift(v) PROVE LoanInv'
<1>1. /\ Undisturbed(frames, slot) /\ Snapshots(frames, slot, inner)
      /\ \A w \in destroyed : Idle(w, inner, reloading, newest, kept, frames)
  BY LoanInvParts
<1>2. /\ UNCHANGED <<newest, inner, depth, reloading, slot, frames, forgotten>>
      /\ kept' = kept \ {v} /\ destroyed' = destroyed \cup {w \in {v} : Dies(w, "kept")}
  BY DEF DropArcShift
<1>4. ASSUME NEW w \in destroyed' PROVE Idle(w, inner, reloading, newest, kept', frames)
  <2>1. CASE w \in destroyed
    BY <1>1, <1>2, <2>1 DEF Idle
  <2>2. CASE w = v /\ Dies(v, "kept")
    <3>1. v \in Values
      BY DEF CellInv, TypeOK
    <3>2. "kept" # "updater" /\ (\A d \in Cells : d # "kept") /\ \A i \in DOMAIN frames : frames[i].cell # "kept"
      BY CellAssumption, FrameCells
    <3>3. /\ \A d \in Cells : inner[d] = v => reloading[d]
          /\ v.version # newest[v.chain]
          /\ \A i \in DOMAIN frames : frames[i].kind \in Reloads => frames[i].value # v
      BY <2>2, <3>1, <3>2, DiesIs
    <3> QED BY <1>2, <2>2, <3>3 DEF Idle
  <2> QED BY <1>2, <2>1, <2>2
<1> QED BY <1>1, <1>2, <1>4, LoanInvAfter

(* A cell that is dropped takes its value with it if nobody else is at it.  *)
LEMMA DropCellLends ==
  ASSUME CellInv, CellInv', LoanInv, NEW c \in Cells, DropCell(c) PROVE LoanInv'
<1>1. /\ Undisturbed(frames, slot) /\ Snapshots(frames, slot, inner)
      /\ \A w \in destroyed : Idle(w, inner, reloading, newest, kept, frames)
  BY LoanInvParts
<1>2. /\ UNCHANGED <<newest, kept, reloading, slot, frames>>
      /\ inner'[c] = NoValue /\ \A d \in Cells : d # c => inner'[d] = inner[d]
      /\ destroyed' = destroyed \cup {w \in {inner[c]} : Dies(w, c)}
      /\ \A i \in DOMAIN frames : frames[i].cell # c
      /\ \A h \in Slots : slot[h].cell # c
      /\ inner[c] \in Values /\ destroyed \subseteq Values
  BY DEF DropCell, CellInv, TypeOK, Exists
<1>3. \A i \in DOMAIN frames : frames[i].cell \in Cells
  <2>1. \A i \in DOMAIN frames : frames[i] \in FrameType
    BY CellInvParts
  <2> QED BY <2>1 DEF FrameType
<1>4. \A h \in Slots : slot[h] # NoHandle => slot[h].cell \in Cells
  BY DEF CellInv, TypeOK
<1>5. Snapshots(frames, slot, inner')
  BY <1>1, <1>2, <1>3, <1>4 DEF Snapshots
<1>7. ASSUME NEW w \in destroyed' PROVE Idle(w, inner', reloading, newest, kept, frames)
  <2>1. CASE w \in destroyed
    BY <1>1, <1>2, <2>1, Distinct DEF Idle
  <2>2. CASE w = inner[c] /\ Dies(w, c)
    <3>1. c # "updater" /\ c # "kept"
      BY CellAssumption
    <3>2. /\ \A d \in Cells : d # c /\ inner[d] = w => reloading[d]
          /\ w.version # newest[w.chain] /\ w \notin kept
          /\ \A i \in DOMAIN frames : frames[i].kind \in Reloads => frames[i].value # w
      BY <1>2, <2>2, <3>1, DiesIs
    <3>3. \A d \in Cells : inner'[d] = w => reloading[d]
      BY <1>2, <2>2, <3>2, Distinct
    <3> QED BY <3>2, <3>3 DEF Idle
  <2> QED BY <1>2, <2>1, <2>2
<1> QED BY <1>1, <1>2, <1>5, <1>7, LoanInvAfter

(* A chain that is updated leaves its newest value, which goes if nobody    *)
(* else is at it; the new one was never there before.                       *)
LEMMA UpdateLends ==
  ASSUME CellInv, CellInv', AheadInv, LoanInv, NEW k \in Chains, Update(k) PROVE LoanInv'
<1>1. /\ Undisturbed(frames, slot) /\ Snapshots(frames, slot, inner)
      /\ \A w \in destroyed : Idle(w, inner, reloading, newest, kept, frames)
  BY LoanInvParts
<1>2. /\ UNCHANGED <<kept, inner, depth, reloading, slot, frames, forgotten>>
      /\ newest \in [Chains -> 1..MaxVersion] /\ newest' = [newest EXCEPT ![k] = @ + 1]
      /\ destroyed' = destroyed \cup {w \in {Newest(k)} : Dies(w, "updater")}
      /\ destroyed \subseteq Values /\ kept \subseteq Values
  BY DEF Update, CellInv, TypeOK
<1>9. \A w \in destroyed : w.version <= newest[w.chain]
  BY DEF AheadInv, NothingNewer
<1>3. /\ newest[k] \in Nat /\ newest'[k] = newest[k] + 1
      /\ \A j \in Chains : j # k => newest'[j] = newest[j]
  BY <1>2, CellAssumption
<1>4. ASSUME NEW v \in Values, v.version <= newest[v.chain]
      PROVE  v.version <= newest'[v.chain] /\ (v.chain = k => v.version # newest'[v.chain])
  <2>1. v.version \in Nat /\ v.chain \in Chains
    BY DEF Values
  <2> QED BY <1>3, <1>4, <2>1
<1>5. Newest(k) \in Values /\ Newest(k).chain = k /\ Newest(k).version = newest[k]
  BY NewestTyped DEF CellInv, Newest
<1>8. ASSUME NEW w \in destroyed' PROVE Idle(w, inner', reloading', newest', kept', frames')
  <2>1. CASE w \in destroyed
    <3>1. w \in Values /\ w.chain \in Chains /\ w.version <= newest[w.chain] /\ w.version # newest[w.chain]
      BY <1>1, <1>2, <1>9, <2>1 DEF Idle, Values
    <3>2. w.version # newest'[w.chain]
      BY <1>3, <1>4, <3>1
    <3> QED BY <1>1, <1>2, <2>1, <3>2 DEF Idle
  <2>2. CASE w = Newest(k) /\ Dies(w, "updater")
    <3>1. "updater" # "kept" /\ (\A d \in Cells : d # "updater") /\ \A i \in DOMAIN frames : frames[i].cell # "updater"
      BY CellAssumption, FrameCells
    <3>2. /\ \A d \in Cells : inner[d] = w => reloading[d]
          /\ w \notin kept
          /\ \A i \in DOMAIN frames : frames[i].kind \in Reloads => frames[i].value # w
      BY <1>5, <2>2, <3>1, DiesIs
    <3>3. w.version # newest'[w.chain]
      BY <1>3, <1>5, <2>2
    <3> QED BY <1>2, <3>2, <3>3 DEF Idle
  <2> QED BY <1>2, <2>1, <2>2
<1> QED BY <1>1, <1>2, <1>8, LoanInvAfter

(* Nothing is lent in the beginning. *)
LEMMA InitLends ==
  ASSUME Init PROVE LoanInv
  BY CellAssumption
  DEF Init, LoanInv, ReloadsUndisturbed, ClosuresSnapshot, HandleIsSnapshot, DestroyedUnused

(* Every step keeps what is lent, where a usize counts all there can be.    *)
THEOREM LoansHold ==
  ASSUME DepthSuffices PROVE Spec => []LoanInv
<1>1. Init => LoanInv
  BY InitLends
<1>2. CellSafe /\ CellInv' /\ [Next]_vars => LoanInv'
  <2> SUFFICES ASSUME CellSafe, CellInv', [Next]_vars PROVE LoanInv'
    OBVIOUS
  <2>1. CellInv /\ AheadInv /\ LoanInv
    BY DEF CellSafe
  <2>2. ASSUME NEW c \in Cells,
               Get(c) \/ Reload(c) \/ (\E s \in Slots : Borrow(c, s)) \/ \E k \in Chains : Assign(c, k)
        PROVE  LoanInv'
    BY <2>2, GetLends, BorrowLends, ReloadLends
  <2>3. ASSUME NEW s \in Slots, DropHandle(s) PROVE LoanInv'
    BY <2>3, DropHandleLends
  <2>4. ASSUME NEW s \in Slots, ForgetHandle(s) PROVE LoanInv'
    <3>1. \A h \in Slots : slot'[h] = slot[h] \/ slot'[h] = NoHandle
      BY <2>1, <2>4 DEF ForgetHandle, CellInv, TypeOK
    <3> QED BY <2>1, <2>4, <3>1, HandlesLend DEF ForgetHandle
  <2>5. CASE DestructorEnds \/ ClosureEnds
    BY <2>1, <2>5, DestructorEndsLends, ClosureEndsLends
  <2>6. ASSUME NEW c \in Cells, FromArcShift(c) PROVE LoanInv'
    <3>1. ASSUME NEW k \in Chains, NewCell(c, Newest(k)), UNCHANGED kept PROVE LoanInv'
      <4>1. Newest(k) \in Values /\ Newest(k).version = newest[Newest(k).chain]
        BY <2>1, NewestTyped DEF CellInv, Newest
      <4> QED BY <2>1, <3>1, <4>1, NewCellLends
    <3>2. ASSUME NEW v \in kept, NewCell(c, v), kept' = kept \ {v} PROVE LoanInv'
      <4>1. v \in Values
        BY <2>1 DEF CellInv, TypeOK
      <4> QED BY <2>1, <3>2, <4>1, NewCellLends
    <3> QED BY <2>6, <3>1, <3>2 DEF FromArcShift
  <2>7. ASSUME NEW c \in Cells, NEW d \in Cells, Clone(c, d) PROVE LoanInv'
    <3>1. NewestFor(c) \in Values /\ NewestFor(c).version = newest[NewestFor(c).chain]
      BY <2>1, <2>7, NewestTyped DEF CellInv, Clone, MayEnter, NewestFor, Newest
    <3> QED BY <2>1, <2>7, <3>1, NewCellLends DEF Clone
  <2>8. ASSUME NEW c \in Cells, MakeArcShift(c) \/ DropCell(c) PROVE LoanInv'
    BY <2>1, <2>8, MakeArcShiftLends, DropCellLends
  <2>9. ASSUME NEW v \in kept, DropArcShift(v) PROVE LoanInv'
    BY <2>1, <2>9, DropArcShiftLends
  <2>10. ASSUME NEW k \in Chains, Update(k) PROVE LoanInv'
    BY <2>1, <2>10, UpdateLends
  <2>11. CASE UNCHANGED vars
    BY <2>1, <2>11, LoanInvParts, LoanInvAfter DEF vars
  <2> QED BY <2>2, <2>3, <2>4, <2>5, <2>6, <2>7, <2>8, <2>9, <2>10, <2>11 DEF Next
<1>3. CellInv /\ DepthInv /\ AheadInv /\ LoanInv => CellSafe
  BY DEF CellSafe
<1> QED BY <1>1, <1>2, <1>3, CellInvHolds, DepthInvHolds, AheadInvHolds, PTL DEF Spec

(* The inductive invariant itself, which TLC checks on the run cells.       *)
THEOREM CellStaysSafe ==
  ASSUME DepthSuffices PROVE Spec => []CellSafe
<1>1. CellInv /\ DepthInv /\ AheadInv /\ LoanInv => CellSafe
  BY DEF CellSafe
<1> QED BY <1>1, CellInvHolds, DepthInvHolds, AheadInvHolds, LoansHold, PTL

(* What a handle derefs to is the value it was borrowed at, for as long as  *)
(* it is there, where a usize counts all the handles and closures there are *)
(* and were forgotten.                                                      *)
THEOREM HandlesAreStable ==
  ASSUME DepthSuffices PROVE Spec => []HandleIsSnapshot
<1>1. LoanInv => HandleIsSnapshot
  BY DEF LoanInv
<1> QED BY <1>1, LoansHold, PTL

(* A reference that a closure or a handle has leads to a value whose        *)
(* destructor has not begun, under the same condition: the SAFETY comments  *)
(* of cell.rs hold.                                                         *)
THEOREM ReferencesStayLive ==
  ASSUME DepthSuffices PROVE Spec => []ReferencesLive
<1>1. CellInv /\ LoanInv => ReferencesLive
  <2> SUFFICES ASSUME CellInv, LoanInv PROVE ReferencesLive
    OBVIOUS
  <2>1. /\ Undisturbed(frames, slot) /\ Snapshots(frames, slot, inner)
        /\ \A w \in destroyed : Idle(w, inner, reloading, newest, kept, frames)
    BY LoanInvParts
  <2>2. \A c \in Cells : reloading[c] => \E i \in DOMAIN frames : frames[i].kind \in Reloads /\ frames[i].cell = c
    BY DEF CellInv, ReloadsAreAlone, Leaving
  <2>3. \A i \in DOMAIN frames : frames[i].cell \in Cells
    <3>1. \A i \in DOMAIN frames : frames[i] \in FrameType
      BY CellInvParts
    <3> QED BY <3>1 DEF FrameType
  <2>4. ASSUME NEW i \in DOMAIN frames, frames[i].kind = "closure" PROVE frames[i].value \notin destroyed
    <3>1. ~reloading[frames[i].cell]
      BY <2>1, <2>2, <2>3, <2>4, CellInvParts DEF Undisturbed
    <3> QED BY <2>1, <2>3, <2>4, <3>1 DEF Snapshots, Idle
  <2>5. ASSUME NEW s \in Slots, slot[s] # NoHandle PROVE inner[slot[s].cell] \notin destroyed
    <3>1. slot[s].cell \in Cells
      BY <2>5 DEF CellInv, TypeOK
    <3>2. ~reloading[slot[s].cell]
      BY <2>1, <2>2, <3>1 DEF Undisturbed
    <3> QED BY <2>1, <3>1, <3>2 DEF Idle
  <2> QED BY <2>4, <2>5 DEF ReferencesLive
<1> QED BY <1>1, CellInvHolds, LoansHold, PTL
=============================================================================
