# ArcShift in TLA+

ArcShift (`src/arcshift/`) is an `Arc` whose value can be replaced. Every value
lives in a node (`ItemHolder`); the nodes of one value form a doubly linked chain
from the oldest to the newest; `ArcShift` and `ArcShiftWeak` are pointers into the
chain that *advance* to its right end when they are used. All of it is done with
atomic words and no mutex, from any number of threads. This directory holds a
model of that algorithm at the grain of single atomic accesses, an abstract
specification that it implements, a model of the re-entrant `ArcShiftCell`, the
instances TLC checks, and proofs, checked by TLAPS, that whatever number of threads
work on the chain it stays in order, its counts stay exact, nothing freed is used,
no payload goes twice or too early and everything is freed in the end, and that a cell
never destroys a value that a closure or a handle still looks at.

Line numbers below are lines of `src/arcshift/src/lib.rs` unless a file is named.

## 1. The system

| Part | State | Operations | Modelled in |
|---|---|---|---|
| node chain (`ItemHolder`, 1006-1062) | `next` (pointer, lock, dropped and disturbed flags), `prev`, `strong_count` (with the sentinel `STRONG_DROPPED`), `weak_count` (with `WEAK_HAVE_NEXT`, `WEAK_HAVE_PREV`), `advance_count`, payload | atomic accesses, `raw_deallocate_node` (2115) | `ArcShiftHeap` |
| advance (1832-2112, `do_drop_payload_if_possible` 2790) | locals of `do_advance_impl` and of its two closures | walk right, keeping a weak or a strong count; leave the old node, perhaps dropping its payload | `ArcShiftAdvance` |
| janitor (2164-2500, `set_next` 1138, locks 1256-1380) | locals of the traversal; the lock bits | lock towards the left, redirect `next` past nodes without strong references, free what nobody can reach, unlock | `ArcShiftJanitor` |
| giving back references (2504-2660, 2881-2903) | round-local copy of `weak_count` | `do_drop_strong`, `do_drop_weak` with the claim of the teardown | `ArcShiftDrop` |
| update and upgrade (1676-1825, 2665-2785) | the new node | `do_update`, `do_upgrade_weak` | `ArcShiftUpdate` |
| public API (1596-1674, 2906-3590) | the handles | `clone`, `downgrade`, `upgrade`, `get`, `reload`, `shared_get`, `try_get_mut`, `update`, `rcu`, `rcu_maybe`, drops, `try_into_inner` | `ArcShift` |
| payload drop handlers (`deferred_panics_helper*`) | a deferred panic; a stolen payload and the sole-user mark | `do_drop`, `run`, `resume_any_panics`, `report_sole_user`, `take_stolen` | stealing in `ArcShiftHeap` and `ArcShiftDrop`, panics in `ArcShiftPanics` |
| `ArcShiftCell` (`cell.rs`) | `depth` and `reloading` of `Reentry`; the `ArcShift` inside | `get`, `borrow`, the drop of a handle, `reload`, `assign`, `clone`, `make_arcshift`, each re-entered from closures and destructors | `ArcShiftCell` |
| unsized payloads, layouts (473-650, 735-990, 1087-1128) | none | pointer arithmetic | no |
| validation aids, test harness, GenMC models, examples | none of their own | drive or observe the chain | no |

**How they interact.** Everything shared is in the nodes. An API call starts an
advance from its handle's node; a drop runs advance, janitor and the count checks
in rounds until nothing came in between; an update advances to the right end,
links its node there with a compare-exchange, and may run the janitor; an upgrade
advances weakly and then turns a strong count of 0 into 1. Any two of these may be
in progress on the same nodes. Payload destructors run in the middle of all this;
the drop handler keeps their panics until the call is done with the chain. A cell
is used by one thread, and calls `reload`, `get` or `clone` of its `ArcShift`, from
where destructors and closures may call the same cell again.

**What is hard.** (a) An advance has loaded `next` and not yet raised the weak
count of what it points to, while a janitor frees that node: `advance_count` is
the only protection. (b) Janitors meet, and one gives up its work, leaving it to
the other. (c) The last strong reference goes while a weak one is upgraded. (d)
Payloads are dropped from six places. (e) Retry loops that invalidate each other.
(f) Panics of destructors and closures, with references in the call's hands. (g)
Re-entrance into a cell that is reloading, or that has lent its value.
`PROJECT.json` lists 34 such hazards with their lines and the properties that
cover them; four are not covered, each with the reason.

**What makes each part correct.**

- *Nodes*: both counts equal the number of holders at every step (`StrongExact`,
  `WeakExact`); nothing freed is dereferenced (`NoUseAfterFree`) or linked
  (`NoDanglingLinks`); payloads go once (`SingleDrop`).
- *Advance*: it ends at a value at least as new as the newest when it began
  (`FreshRead`), and never meets a torn-down one (`StrongAdvanceFindsValue`).
- *Janitor*: changes the list under its locks only (`UnlinkUnderLock`); leaves
  no lock and no forgotten request behind (`QuietAtRest`).
- *Drops*: everything is freed in the end (`NothingLeaks`,
  `ValueGoesWithLastShift`); the claim has one winner and is final
  (`ClaimedMeansGone`, `SentinelIsFinal`); the newest value is there as long as a
  strong reference is (`NewestValueKept`). What an advance or an upgrade counts on a
  node that got a next meanwhile, and takes back, is no such reference (`Undoing`).
- *Update*: updates form a line (`UpdatesSerialize`).
- *API*: a payload that is handed out is there (`PayloadSafe`), alone if it is
  mutable (`ExclusiveMut`, which holds without upgrades only:
  `ExclusiveUnlessUpgraded`); `try_into_inner` gives the value to the last user
  only (`SoleUserIsLast`); calls return (`CallsReturn`); all of it is a register
  with handles (`ImplementsRegister`).
- *Drop handlers*: a panic that goes on to the caller leaves no reference behind
  without an owner (`NoPanicWithoutOwner`) and counts exact (`StrongExact`,
  `WeakExact`).
- *Cell*: what `get` and `borrow` hand out is alive (`ReferencesLive`), a handle is
  a snapshot (`HandleIsSnapshot`), a cell never goes back to an older value
  (`CellsMoveOn`), the counters are right whichever way a call ends
  (`DepthIsExact`), and nothing happens in a cell that is reloading
  (`ReloadsAreAlone`).

## 2. The modules

The first six modules of the table extend one another in that order, so that the
calls a function makes are operators of the modules below it. On top of them:

| module | what it is |
|---|---|
| `ArcShiftProps` | the properties |
| `ArcShiftOrder`, `ArcShiftSafe` | the inductive invariants of the proofs: order, and memory safety on top of it |
| `ArcShiftRest` | the inductive invariants of what calls leave behind |
| `ArcShiftPanics`, `ArcShiftPanicInv` | the same steps with destructors and closures that panic; the inductive invariant of its proofs |
| `ArcShiftRegister`, `ArcShiftRefines` | what the API promises, without nodes; the mapping of the chain to it |
| `ArcShiftCell`, `ArcShiftCellInv` | the cell, on its own; the inductive invariant of its proofs |
| `MCArcShift`, `MCArcShiftPanics`, `MCArcShiftCell` | programs for TLC |
| `ArcShiftProofs` | proofs about the order of the chain |
| `ArcShiftCountProofs`, `ArcShiftListProofs`, `ArcShiftCallProofs`, `ArcShiftSafeProofs` | proofs of memory safety, each on top of the one before |
| `ArcShiftRestProofs` | proofs of what calls leave behind, exclusiveness and panics |
| `ArcShiftRegisterProofs` | proof that the chain implements the register |
| `ArcShiftCellProofs` | proofs about the cell |

**State and steps.** Each field of an `ItemHolder` is a variable indexed by node;
`next` and `weak_count` are records of a pointer or count and flags. Each thread
has a program counter `pc` and one record of locals per function it can be in
(`av`, `pd`, `jn`, `dr`, `op`); functions do not recurse, so one record each is
enough, and its field `ret` is the return address. An action is one atomic access
together with the local computation that follows it. It is named for function
and step (`StrongCas`, `JanitorUnlink`, `ClaimTeardown`); its label in `pc`
carries a prefix for the function:

| prefix | function | | prefix | function |
|---|---|---|---|---|
| `adv_` | `do_advance_impl` | | `ds_`, `dw_` | `do_drop_strong`, `do_drop_weak` |
| `advw_`, `advs_` | closures of `do_advance_weak`, `do_advance_strong` | | `upd_`, `upg_` | `do_update`, `do_upgrade_weak` |
| `pay_` | `do_drop_payload_if_possible` | | `get_`, `tgm_`, `sg_` | `get`/`reload`, `try_get_mut`, `shared_get` |
| `jan_` | `do_janitor_task` | | `reading`, `mutref` | the caller looks at the payload |

Two kinds of steps stand for more than one access: a load and compare-exchange
loop that only ends by one successful access (`lock_node_for_gc`, `unlock_node`,
`set_next`) is that access; and the janitor's reads of a node it has locked, of
words that nobody but the lock's owner changes, are done with the access next to
them.

**Who may call.** A program is a set of `Calls`, a `Budget` for each thread and
handles that hold references into an initial chain. The borrow checker is part of
the model: `&mut self` and `self` take a handle, `&self` borrows it, and a
shared handle is not taken while it is borrowed. The two ghost variables `stamp`
and `count` record the order in which values were published.

`ArcShiftProps` states the properties, among them who holds which reference at
each label (`StrongHolders`, `WeakHolders`), from which the count invariants are
built. `ArcShiftOrder`, `ArcShiftSafe` and `ArcShiftRest` state the inductive invariants. `MCArcShift` holds the
programs TLC runs. The definitions marked `mutant:` are single-fault variants of
the definition after them; no specification uses them. Each property has one
that violates it, listed in `PROJECT.json`.

**Panics** (`ArcShiftPanics`). `Boom` is the set of values whose destructors panic.
`Catch` is `DropHandler::run`: it remembers that the call has caught a panic and the
step goes on as before. `Resume` and `Leave` are `resume_any_panics` where the code
calls it: after the handle was written (`get`, `reload`, `update`, `rcu`), after
`advance_count` was lowered and before the fallback of `shared_get` clones, at the
end of `drop` and `upgrade`. The caller catches the panic and goes on with its
handles. `ClosurePanics` is the panic nobody catches: that of the closure of `rcu`,
or of the destructor of the value its earlier round built (3084-3086, 3070), which
leaves `do_update` in the middle.

**The register** (`ArcShiftRegister`). The values have numbers; `view[h]` is the value
an `ArcShift` shows; a call has a beginning, at most one step at which it takes
effect (`Publish` for an update, `Upgraded` for an upgrade) and an end, at which it
leaves a value no older than the newest at its beginning and not destroyed. The
newest value can be given up when no `ArcShift` is left, and not be had back.
`ArcShiftRefines` maps value numbers to the order of publication (`stamp`), `gone` to
the newest node's sentinel, dropped flag or deallocation, and a call's effect to
its node's publication or its successful compare-exchange on `strong_count`: a step
of the chain is a step of the register or changes nothing the register shows.

**The cell** (`ArcShiftCell`). The stack is a sequence of frames: closures of `get`,
and destructors that a reload runs. A call that runs no user code is one step; one
that destroys a value pushes a frame, and anything may be called on top of it, on
this cell or another. The `ArcShift` inside is the value it points at; it goes to
the newest (that is what `ReadsAreFresh` and the register say of it), and the value
it leaves is destroyed if nobody else refers to it (`Users`). A reload has fixed where
it goes when it runs a destructor. If its janitor was disturbed it starts again, and
may go on from there to what is the newest by then (`Leads`, `GoOn`), with one more
destructor on the way; `assign` has made its clone before and does not. An update by
another thread in the middle of a reload is modelled while a destructor runs, and
not between two steps of a reload that runs none. Where the code panics
because the cell is reloading, the call has changed nothing, and is not a step.

**Assumptions of the model.**

- Memory is sequentially consistent. Most accesses are `SeqCst`; the relaxed
  loads (in `get`, `reload`, `shared_get`, `set_next` and `unlock_node`) are modelled as if they were.
- The allocator does not give a freed address out again: a node is used once.
  ABA through address reuse is outside the model.
- Counts stay below the sentinel (`HeapAssumption`), so the panics for
  `MAX_REF_COUNT` (1639) do not happen.
- Payload destructors and closures panic in `ArcShiftPanics` only. They do not call
  back into the chain there: a destructor that does is, for the chain, another
  thread's call while this one stands still at `pay_drop`, and those are modelled.
- The payload that a retried `rcu` closure replaces in its private node is
  abstracted: the node is the value.
- Two `ArcShift`s are not mixed: there is one chain.

## 3. The runs

Passing runs:

| run | module | program | properties |
|---|---|---|---|
| `reads` | `MCArcShiftPanics` | stale reader with `get`, `shared_get`, drop; writer with update, drop; two of the values have destructors that panic | `NoUseAfterFree` `FreshRead` `StrongExact` `WeakExact` `PayloadSafe` `StrongAdvanceFindsValue` `NoPanicWithoutOwner` `UnlinkUnderLock` |
| `upgrades` | `MCArcShift` | an upgrade, the drop of a stale handle, an update or drop, three threads | `AnswersHold` `ClaimedMeansGone` `NewestValueKept` `ValueGoesWithLastShift` `SentinelIsFinal` `ImplementsRegister` |
| `muts` | `MCArcShift` | `try_get_mut`, which may stop for ever, against clone, update, reload, downgrade, `shared_get`, drops, no upgrade | `TypeOK` `SafeInv` `ExclusiveUnlessUpgraded` `CallsReturn` |
| `rcus` | `MCArcShift` | two `rcu`s that may give up in any round, drops | `AnswersHold` `OrderInv` `NothingLeaks` `UpdatesSerialize` `ImplementsRegister` |
| `drops` | `MCArcShift` | three threads let go of a chain of three, one by `try_into_inner` | `NothingLeaks` `LeakInv` `QuietAtRest` `NoDanglingLinks` `SoleUserIsLast` `SingleDrop` |
| `cells` | `MCArcShiftCell` | two cells on two chains, any calls | `TypeOK` `ReferencesLive` `HandleIsSnapshot` `DepthIsExact` `ReloadsAreAlone` `CellSafe` `CellsMoveOn` |

Together they take every action. Each program is small, and yet in each of them a
plausible fault in the code, one or two for each property, is caught: two handles
one value apart make an advance of more than one node, a stale strong reference
and a janitor with something to collect; two threads are enough for every two-party
race, and the two programs where a third party matters (janitors that disturb each
other, an upgrade between an update and a drop) have three.

**Bounds.** `Budget` bounds the calls of a thread (1 to 4).
`MaxNodes` (2 to 4) bounds the nodes: the initial chain and one for each update
the budgets allow; in `muts` and `rcus` it leaves room for two updates, and an update that finds no node is not called (an `rcu`
closure can then only give up). In `muts` the second update is already enough for
every state `try_get_mut` can meet: its own node is superseded or not, and the chain
has a node to the left or not; in `rcus` each thread wins once and loses once.
`UsizeMax` is 20, above every count that occurs; it makes the sentinel a number
that `+ 1` wraps to 0, as in the code. No other bound cuts a behaviour off: the
retries of the loops are unbounded.

In `cells`, `MaxFrames` is 2: a destructor and, on top of it, a closure or another
destructor, of the same cell or the other one; with 3 the run has
twice as many states and shows the same. `MaxVersion` is 3, so that a cell can be two values
behind, `MaxForgets` is 1, and `UsizeValues` is 16, which the depth does not reach
there (2 frames, 2 slots and 1 forgotten handle: `DepthSuffices`, which the
proofs assume where depth matters). Cells, slots and chains are interchangeable (`Symmetry`; no liveness is
checked there).

**Deadlock** is checked in every run: `Rest` allows the program to stop between
calls and nowhere else, so a call that cannot go on is reported.

**Fairness.** `FairSpec` gives weak fairness of `Step(t)` to the threads of
`Scheduled` only: an operating system keeps running a runnable thread, and
nothing more. It says nothing of which call a thread makes, or that it makes one,
and nothing of threads outside the set. It does take for granted that a caller
stops looking at a payload (`FinishReading` is a step). In `muts`, t1 may
stop anywhere, a janitor's locks held, and t2 must still return.

### What the code does not keep

Six statements of the documentation fail in the model; each has a run that
expects the violation. TLC's traces were read against the code.

- `stale_value` (README.md:60-61, "Payload values only stay in memory if they are
  actively referenced by at least one ArcShift instance"). `do_advance_strong`
  raises the strong count of the newest node while another thread appends to it
  and moves off. The updater sees 2 and leaves the payload alone; the advance, on
  its retry path (2049-2057), takes the count from 1 to 0 and does not drop the
  payload either. If an `ArcShiftWeak` keeps the node, the value stays although
  no ArcShift is left.
- `newest_taken` (stealing_drop.rs:6-7, "will persist the most recent object").
  `try_into_inner` on a stale handle steals the old node's payload while it
  advances. A concurrent drop of the last `ArcShiftWeak` then claims the teardown
  and destroys the newest payload, and `try_into_inner`, which is nevertheless
  the last to leave, reports the sole user and returns the old value.
- `livelock` (50, "All functions are lock free"; 2673-2674). `do_update` raises
  and lowers `weak_count` around its compare-exchange on `next`; `do_drop_weak`
  sets and clears the lock bit in `next` before its compare-exchange on
  `weak_count`. Each makes the other fail, for ever, with both threads running.
- `second_user` (3293-3294, try_get_mut "returns None if there are any other
  ArcShift or ArcShiftWeak instances pointing to the same object chain"; 3330-3331,
  "If the count is also still 1, option 4 is off the table"). The three loads of
  `try_get_mut` take a snapshot only if the other user does not come back. The other
  `ArcShift` is downgraded and dropped between the first load and the second, its
  `ArcShiftWeak` is upgraded between the second and the third and then dropped: the
  loads see 1, 1 and 1, and t1 has a mutable reference to the value of a live
  `ArcShift`. Without upgrades the argument in the comment holds (`muts`).
- `unwinding` (3103-3105, "Update `self.item` before re-raising [...] unwinding with
  `self.item` dangling makes `ArcShift::drop` a use-after-free"). The closure given
  to `rcu` runs inside `do_update`, after the handle's reference has moved on to a
  newer node. When it panics, nothing catches it and `self.item` is not written: it
  is left at the old node, which the call has let go of. One thread with one stale
  `ArcShift` is enough.
- `leaks` (cell.rs:137, "Leaking the handle does not cause unsoundness"). `depth` is
  raised without a check and a forgotten handle never lowers it. In a release build
  it wraps (in a debug build the addition panics). The run has one slot and a `usize`
  of four values: three handles are forgotten, the chain is updated, and the
  fourth `borrow` wraps `depth` to 0 while its handle is live. A `get` then finds a
  depth of 1, takes itself for the outermost user, reloads, and destroys the value
  the handle derefs to; `reload`, to which the cell looks idle, would do the same.
  With 32 bits it takes 2^32 - 1 forgotten handles, with 64 bits nobody will
  live to see it.

A seventh has no run: a thread that clones, updates through the original and drops
the clone, again and again, never meets a condition that runs the janitor (2767,
2896), so every round leaves a node (without its payload) behind, although memory
is said to be "linear in the number of live ArcShift instances" (README.md:58-60).

Four comments differ from the code without a property being at stake, and have
no run. `cell.rs` (215, 353, 399) says that the advance in `clone` runs the
janitor; `do_clone_strong` does not. The comment at `strong_count` (1051) says it
is never incremented from 0, which the resurrections in `do_advance_strong` and
`do_upgrade_weak` do. The comment at `weak_count` (1060) says that
`WEAK_HAVE_NEXT` is set before `next`; `do_update` sets it after (2725). The drop
handler says that it keeps the most recent panic (std_drop_handler.rs:7); it keeps
the first (`get_or_insert`, 72).

## 4. The proofs

**The chain.** The theorems in `ArcShiftProofs` hold for every set of threads, handles and
calls, every initial chain and any number of nodes, under `HeapAssumption` and
`ProgramAssumption` alone:

- `ChainStaysOrdered`: `Spec => []OrderInv`
- `TypesHold`: `Spec => []TypeOK`
- `ReadsAreFresh`: `Spec => []FreshRead`
- `UpdatesFormALine`: `Spec => UpdatesSerialize`

**The inductive invariant.** That a read is fresh is not inductive: it depends on
where the advance is in the middle of its walk. `OrderInv` adds what is missing.

- `ChainOrdered`: `next` of a published node leads to a younger one, `prev` to an
  older one, no two nodes have the same stamp, and *the only published node
  without `next` is the newest*. An advance that finds no `next` is therefore at
  the newest node at that moment, which is at least as new as the newest was when
  the call began; and a compare-exchange that finds an empty `next` appends after
  the newest value.
- `Knows`, for each call: its registers hold published nodes, its new node is
  private until it is linked, what a janitor deletes or redirects is left of where
  it points to (so a redirected `next` still leads right), and a call past its walk
  is up to date.
- `Apart`: no two calls have the same new node or the same result handle.

None of these mention counts or locks: the order of the chain does not depend on
what the janitor frees, and memory safety is proved on top of it.

**Memory safety.** The theorems in `ArcShiftSafeProofs`, under the same two
assumptions, are all drawn from the first:

- `ChainStaysSafe`: `Spec => []SafeInv`
- `NothingUsedAfterFree`, `NothingDangles`: `NoUseAfterFree`, `NoDanglingLinks`
- `StrongCountsExact`, `WeakCountsExact`: `StrongExact`, `WeakExact`; with them
  `advance_count` is exact (`AdvancesCounted`)
- `PayloadsStaySafe`, `PayloadsDropOnce`: `PayloadSafe`, `SingleDrop`
- `NewestIsKept`, `ClaimsAreFinal`, `SentinelStays`: `NewestValueKept`,
  `ClaimedMeansGone`, `SentinelIsFinal`
- `AdvancesFindValues`: `StrongAdvanceFindsValue`
- `UnlinksUnderLock`: `UnlinkUnderLock`

None of these is inductive alone, and they cannot be proved one after another: the counts
are exact because nothing is freed while somebody refers to it, and nothing is freed
because the counts are exact. `SafeInv` is their common strengthening; the run
`muts` checks it. Its parts:

- `Shape`: which function runs inside which, where it returns to and what was
  asked for. Without it a `ret` field could send a call anywhere.
- `Places`: where the nodes in a call's hands are in the order of the chain.
- `Listed`: the live nodes are a doubly linked list, in the order of their stamps,
  but for the gap between a node the janitor has just freed and the link over it.
- `LocksHeld`, `JanitorKnows`: a janitor owns the part of the list it has locked,
  and no two own the same node; its registers point into that part.
- `Followed`: the argument for `advance_count`. A call that has read `next` and not
  raised a count yet is on its way to a node that every janitor spares, either because
  the janitor saw the announcement and lowered its limit (`rdel`), or because `next`
  had been redirected to the janitor's own node before the call read it.
- `AdvanceExact`, `StrongExact`, `WeakExact`: each count is the cardinality of the
  set of its holders, so a step's arithmetic is an element entering or leaving
  that set.
- `Unreferenced`: what is about to be freed has one reference, the link from its
  right neighbour.
- `HeldLive`, `HandlesLive`, `PrivateFresh`, `Flagged`, `WordKnown`: what is held is
  live, a new node is as it was allocated, the flags of `weak_count` tell of the
  neighbours, and what `do_drop_weak` compares is what it has reasoned about.
- `TeardownSafe`: who has found no strong reference up to a node is right as long as
  it goes on, although references come and go meanwhile: an advance or an
  upgrade can only count itself on the newest node, and takes it back if that got a
  next. `STRONG_DROPPED` is installed where there is none left before.
- `PayloadsSafe`: a payload is released, by the flag in `next` or by a call on its
  way to set it, when the node has a next or the sentinel and nobody keeps it.

**The argument.** `ArcShiftProofs` first says what a step owes to other threads
when it leaves the chain alone, publishes a node or redirects `next`; then it has
one lemma per action or group of alike actions. The four modules of the memory
safety have for each action an *effect* lemma (what it changes in the chain, and which
holders come and go), and then, for each part of `SafeInv`, what the step does to the
thread that takes it and to the others (`OthersStill`). `ArcShiftCountProofs` has
`Shape`, `StrongExact` and what is known of registers, `ArcShiftListProofs` the list, the
locks, `AdvanceExact` and `Followed`, `ArcShiftCallProofs` `WeakExact`, what is live, the
teardown and the beginning and end of calls, `ArcShiftSafeProofs` the payloads and the
whole (`StepSafe`). The cardinality arguments use that holders are pairs of a role
and a thread, handle or node: a step adds or removes one pair, or swaps
one for another. `OrderInv` is an invariant of the run `rcus`, `SafeInv` of
`muts`.

**What calls leave behind.** The theorems in `ArcShiftRestProofs` rest on `SafeInv` and
add to it, each for its own purpose:

- `NothingLeftLocked`: `QuietAtRest`; `SoleUserTakesAll`: `SoleUserIsLast`. `LocksOwned`
  says that what is locked some call in progress has locked (`HasLocked`, which
  `SafeInv` uses the other way round), and that a mark for a janitor to run again
  is on a locked node only, so that unlocking clears it. `SoleEmpty` is stable
  because nothing can be appended where no node is left.
- `NoSecondUser`: `ExclusiveUnlessUpgraded`. The argument in the comment (3293-3331)
  is that what a load of `try_get_mut` has found out stays true while it makes the
  next one. `MutAlone` says what that is: nothing is left of the node after the first,
  nobody else has a strong reference to it after the second, and nobody else refers
  to the chain after the third. Without upgrades a reference can only be copied
  from a reference or come from the left, and either is excluded then.
- `NodesStayAttended`: `LeakInv`; `NoGarbageLeft`: `NothingLeaks`, when the last handle is
  gone, no node is left and each value was destroyed once. Of `LeakInv`, which the run
  `drops` checks, `Attended` is the heart: while a
  node is left there is a handle, or a call *in charge*. A call is in charge until it
  returns, or for good if it ends with a handle, with one exception: a drop
  whose janitor had to spare a node, or met another janitor and so saw a part of the
  chain only, has to look again (`Returns`: its node has a `next`, or its janitor was
  told to run again) or to stand at the leftmost node, which it then frees. The
  lemmas follow what two janitors that meet say to each other: who finds a lock marks
  it, and its owner, whose janitor is not done, is the one in charge.
  `PrevFlagged`, that `WEAK_HAVE_PREV` is cleared before the link, is why a final
  count of one with no flag means that the node is the last.
- `PanicsHaveOwners`: `PanicSpec => []NoPanicWithoutOwner`. A destructor can only run
  for a node that nobody keeps, and the node that `clone`, or the `clone` in
  `shared_get`, copies from is kept by the handle the call borrows (`Copies`).
- `PanicsKeepChainSafe`: with destructors that panic, `NoUseAfterFree`, `StrongExact`,
  `WeakExact` and `UnwindingKeepsHandles` still hold. `SafeInv` is
  shown for `PanicSpec` too: where the code calls `resume_any_panics`, the call is
  done with the chain. The closure that panics in `rcu` is not in `PanicSpec`; the run
  `unwinding` shows that `UnwindingKeepsHandles` fails with it.

**The register.** `ChainImplementsRegister` in `ArcShiftRegisterProofs`, under the same
two assumptions: `Spec => ImplementsRegister`. It rests on `SafeInv` and on
`AnswersHold`, which the runs `upgrades` and `rcus` check: a node that a call has built
is on its way to the chain, published, or freed by an `rcu` that gives up; a call past
its publication stands no further left than its own node; an upgrade that will answer
`None` has seen the value gone. The steps of the chain are sorted by what they
do to the register:

- the beginning of a call is `BeginOwning`, `BeginMaking`, `BeginSharedGet` or
  `MakeWeak` (`CallSimulated`), its return `End` (`ReturnSimulated`): what it leaves
  behind is at least as new as `since` by `OrderInv` (`UpToDate`), and not destroyed because
  its payload is kept (`PayloadsSafe`);
- the successful compare-exchange of an update is `Publish` (`LinkSimulated`): the
  caller's strong reference on the node it links to is why the value is not gone;
- the second look of an upgrade at `next` is `Upgraded` (`UpgradeSimulated`);
- `ClaimTeardown`, or the free of the last node where nobody claimed it, is `GiveUp`:
  whoever the register counts as having an `ArcShift` would keep a node
  (`ShiftsKeep`);
- the drop of a payload, in `do_drop_payload_if_possible` or with its node, is
  `Destroy`: the value is not the newest, or that is gone, and no handle shows it
  (`Destroys`);
- everything else changes nothing the register shows. For that the module has two
  lemmas per group of actions: what was asked for and decided is not
  taken back (`Pledged`), and where the call may go next (`Proceeds`).

**The cell.** The theorems in `ArcShiftCellProofs` hold for every set of cells, slots
and chains and every bound, under `CellAssumption` alone:

- `CellTypesHold`: `Spec => []TypeOK`
- `ReloadsStayAlone`: `Spec => []ReloadsAreAlone`
- `DepthStaysExact`: `Spec => []DepthIsExact`
- `CellsNeverGoBack`: `Spec => CellsMoveOn`

The others need `DepthSuffices` besides: frames, slots and
forgotten handles together are fewer than a `usize` counts, so that a depth of 0
or 1 means what the code takes it to mean. The run `leaks` violates
`DepthSuffices`, and shows that they fail there.

- `HandlesAreStable`: `DepthSuffices` implies `Spec => []HandleIsSnapshot`
- `ReferencesStayLive`: `DepthSuffices` implies `Spec => []ReferencesLive`
- `CellStaysSafe`: `DepthSuffices` implies `Spec => []CellSafe`

The inductive invariant is `CellSafe`, in four parts, each proved on top of those
before it; the run `cells` checks it.

- `CellInv`. To types and `ReloadsAreAlone` it adds that a handle's cell exists
  (`HandlesExist`), without which the drop of a handle might reload an empty cell.
  `ReloadsAreAlone` is a statement about a stack, so four lemmas say what pushing
  and popping a frame does to it: a frame of a cell is pushed only when the cell's
  flag is down, hence when no reload of it is below; and when the top frame is a
  reload, it is the only one of its cell, so that lowering the flag is right.
- `DepthInv`. Depth counts positions of the stack and handles, so the lemmas are
  about cardinalities: a frame pushed or popped, a handle taken or let go, changes
  one of the sets by one element. A destructor that runs inside a `borrow` keeps the
  slot its handle will come to (`SlotsReserved`).
- `AheadInv`. Nothing that is referred to or destroyed is newer than the newest
  (`NothingNewer`), and the value a reload on the stack will write is no older than
  the one its cell has (`ReloadsLeadOn`): the reload goes to the newest of the chain,
  the cell does not move until the reload is over, because nothing of it starts above
  (`ReloadsAreAlone`), and `Update` only moves the chain. That is why a cell never
  goes back, whatever the destructors do; it needs nothing of `DepthSuffices`.
- `LoanInv`. With `DepthSuffices`, an outermost `get`, an outermost drop of a handle
  and an idle `reload` find that nothing else of the cell is in use, so a reload
  has no frame and no handle of its cell beside it (`ReloadsUndisturbed`), and the cell
  stays where its closures and handles found it (`ClosuresSnapshot`,
  `HandleIsSnapshot`). A value is destroyed when it has no user, and cannot get one
  again: cells move to the newest value only, which is never a destroyed one
  (`DestroyedUnused`).

**Only model-checked**: that the newest value goes with the last ArcShift while an
`ArcShiftWeak` keeps its node (`ValueGoesWithLastShift`), which would take one more
invariant of the kind of `Attended`, about who will still look whether a
strong reference is left; and that calls return (`CallsReturn`): liveness is out of the
prover's reach.

## 5. Not modelled, and the plan

| next | what | why |
|---|---|---|
| last value | who will still find that no strong reference is left, then `ValueGoesWithLastShift` as a theorem | leaks |
| tagged words | the bit masks of `next` and `weak_count` over small widths, against the records used here | width and overflow |

Not modelled, and not planned:

- `do_drop_value` (std_drop_handler.rs:41-48), with which `try_into_inner` destroys a
  payload it stole and does not return. Its closure does not capture the value
  (`let _ = value` moves nothing), so the destructor runs outside `catch_unwind`; a
  panic there would leave `do_drop_strong` in the middle of its work. The programs
  with panics have no `try_into_inner`.
- The no_std handler, which boxes payloads and destroys them when the call is done
  (for the chain, destructors that run later), and the unchecked one.
- Layouts and fat pointers (no state), weak memory (the repository has GenMC models
  of the critical handshake), `MAX_REF_COUNT` (it takes `usize::MAX` / 8 references),
  the test harness and the examples.

Run a check with `tlc -config reads.cfg MCArcShiftPanics` (the module of a run is in the
table; that of the runs above is in `PROJECT.json`) and a proof with
`tlapm ArcShiftProofs.tla`. The runs take between seconds and three minutes.
