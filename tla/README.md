# A TLA+ verification of agenc-c

agenc-c is a family of C libraries. Three of them have code: `agenc-arena` (a
region allocator behind an allocator interface), `agenc-str` (owned strings,
views, search) and `agenc-test` (a single-header test harness). The others are
one-page plans in their READMEs. Everything here is a translation of the code
under `src/`; paths below are relative to it.

## Inventory

| part | state | operations | what makes it correct |
| --- | --- | --- | --- |
| arena (`agenc-arena/src/arena.c`) | chain of blocks, free list, the cursor of each block, `used` / `committed` / `high_water`, growth policy, `temp_depth`, `generation`, sticky `status` | init (three ways), alloc, alloc_n, memdup, realloc, temp_begin / temp_end, reset, trim, clear_error, deinit, and the `alloc_t` adapter | live regions never overlap, are aligned and lie below the cursors; every block is in exactly one place; the statistics are exact; an open scope can always be restored; poison marks follow the regions; no request wraps into a smaller one; the asserts hold for a client that keeps to the contract |
| allocator interface and backends (`agenc-arena/include/alloc.h`, `arena.c` 620-688) | none of their own | xalloc, xrealloc, xfree of libc and null | a failure leaves the old block alone, a shrink never fails, every backend keeps the contract of `alloc.h` |
| owned string (`agenc-str/src/str.c` 560-910 and its helpers) | `buf`, `len`, `cap`, sticky `status` | set, append, insert, remove, replace, resize, reserve, shrink, copy, move, detach, formatted append | a failed mutator changes nothing but the status; a source inside the string itself survives the move of its bytes and of the buffer; `buf[len]` is NUL |
| views and search (`str.c` 959-1135, 1502-1593, 2295-2768) | none | slice, trim, compare, find, rfind, split | an answer depends on the bytes of the views alone; the two-way search finds the first (last) occurrence in every text |
| test runner (`agenc-test/include/test.h` 409-924) | counters, current test, flags, diagnostic buffer, landing pad, the buffer of stdout, the child process | register, run inside, run in a child, death test, fixture, skip, fail-fast, report | one honest test point for each selected test whatever it does, the counters and the exit code agree with the points, teardown is paired with setup, and the run ends |

How they interact. An arena takes its blocks from a parent `alloc_t` (libc,
null for a fixed arena, or another arena) and presents itself as one
(`arena_allocator`). A client may use both faces of one arena. `agenc-str` still
calls malloc directly; the harness depends on neither. No library starts a
thread: an arena, a string and the harness have one owner each
(`arena.h` "single-owner"), so in the two libraries the hard behaviour is not
interleaving but the order of legal calls, refusals of the parent in the middle of
one, snapshots that outlive the state they describe, aliases of the object's own
storage, and arithmetic at the width of `size_t`. The harness does have a second
process: under `--isolate` and for death tests it forks, and the child has its own
copy of every global and of what stdio has buffered. `PROJECT.json` lists these
hazards at their lines.

## Not modelled

* The planned libraries without code: `agenc-err`, `agenc-bin`, `agenc-hash`,
  `agenc-ds`, `agenc-log`, `agenc-os`, `agenc-cli`.
* The benchmark, fuzzer, demos and tests: clients of the libraries.
* Of the arena: the contents of regions, the fill patterns, the Valgrind and MSan
  marks (they follow the ASan marks line by line), the read-only accessors.
* Of the strings: the read-only accessors, str_status_name, and the wording of formatted
  output. Of find and rfind: the refusal of a NULL argument or an invalid view
  (`str.c` 2306-2329), which comes before everything else and writes nothing.
* Of the harness: the formatting of values in the assertion macros, the assertion
  counter, tt_note, the random numbers and their seed, the text of the TAP header and
  of directives, and what is not POSIX with an ELF linker (MSVC, Mach-O).

## Modules

| module | what it is |
| --- | --- |
| `Arena` | the arena as a state machine with its client and its parent |
| `MCArena` | the instances of `Arena` TLC checks |
| `AllocContract` | what `alloc.h` promises the holder of an `alloc_t`, whatever the backend |
| `ArenaAlloc` | the arena seen through its adapter, as an `AllocContract` |
| `Backends` | the libc and the null backend, and the same refinement |
| `ArenaLifo` | a generic consumer of the adapter that frees in LIFO order |
| `ArenaProofs` | what a step of `Arena` can do, and proofs of type correctness, `BlocksAccounted`, `FreeListClean`, `RegionsSafe` and `ScopesConsistent` |
| `ArenaPromises` | proofs of `ShadowExact`, `UsedExact`, `ScopesUsed`, `NoAbort` and `TempEndRestores`, that the arena serves exactly what was asked for, and that it implements `AllocContract` |
| `BackendsProofs` | proofs of the invariants of `Backends`, and that it implements `AllocContract` |
| `StrApi` | what a caller of `agenc-str` sees: statuses, spans, the record of a call |
| `StrValue` | the promise of `str.h`: byte sequences with a sticky status |
| `StrBuffer` | `str_t` over heap blocks, which implements `StrValue` |
| `MCStr` | the instances of `StrBuffer` TLC checks |
| `StrProofs` | proofs of `TypeOK`, `BufferSound`, `OneOwner`, `FailureAtomic` and `CapacityKept` of `StrBuffer` |
| `StrRefines` | proofs of `ReservedNeverFails`, and that `StrBuffer` implements `StrValue` |
| `StrSearch` | str_view_find and str_view_rfind, one loop iteration per action |
| `StrSplit` | str_split_view, one loop iteration per action |
| `StrViews` | a caller who makes, slices, trims and compares views and then splits one (with `StrSplit`) |
| `SearchProofs` | proofs of the invariants of `StrSearch`: the two-way search is right |
| `ViewsProofs` | proofs of the invariants of `StrViews` and of the split |
| `TestRunner` | the runner of agenc-test with its child processes |
| `MCTestRunner` | the instances of `TestRunner` TLC checks |
| `RunnerProofs` | proofs of the five safety properties of `TestRunner` |

### Arena

One public call is one action; the parent's answer is a choice inside it.
`chain` is `a->current` and the `link` fields behind it, as a sequence with the
oldest block first; `freeList` is `a->free_blocks`, head first. `block[b]` holds
the header fields `cap`, `used`, `oversize` and `skew`, the address of the
block's data modulo `MaxAlign`, which is all alignment depends on. A byte is a
pair of a block and an offset; contents are not modelled. `used`, `committed`,
`high_water`, `next_block`, `max_block`, `temp_depth`, `generation`, `status` are
the fields of `struct arena` (`min_block` is written and never read).

Ghost state: `live`, the regions handed out and not reclaimed, with the scope
each was made in; `abandoned`, the bytes of sources that a moving realloc left
behind; `shadow`, the bytes that ARENA_POISON / ARENA_UNPOISON left addressable;
`held`, the ledger of the parent; `scopes`, the `arena_temp_t` values the client
holds; `aborted`, set by a step in which an assert of a debug build fails (the
rest of that step is what a release build does, except that a rewind whose stop
block is missing changes nothing).

The handlers are layered as in the code: `AllocImpl` and `AllocDefault` are the
guards, `AllocCore` tries `BumpCurrent` and then `GrowAndBump`, which takes the
first retained block that fits or a new one. `Carve` is the successful end of
`arena_try_bump`; it also does what `arena_realloc_move` does after it when the
request replaces a region. The loops of `arena_pop_to_block`, `arena_reset` and
`arena_release_chain` are `Discard` and `Release`, which say where each block of
a set goes and in which order.

The client keeps to the contract in `arena.h`: it ends scopes in LIFO order,
resizes and frees live regions with the size and align it knows, and while a
scope is open only regions made inside it (`Resizable`, `AlignFor`). It ignores
failures: it goes on with a sticky status, and may clear it at any time.

Definitions marked "fault" are a mistake in the definition that follows them;
each one breaks a property named in `PROJECT.json` under `mutants`.

### AllocContract, ArenaAlloc and Backends

`AllocContract` has two variables: the regions the holder of an `alloc_t` has, and
whether the backend latched a failure. A served xalloc adds one region, aligned and
apart from the others; a served xrealloc replaces one, in place or where the old one
was not; a refusal changes no region and may latch; only xfree, xrealloc and the owner
of the instance take a region away. `ArenaAlloc` maps `live` and `status` of `Arena`
to them, with the address of a block's data for the alignment.

`Backends` is the libc and the null backend behind the inline helpers of `alloc.h`.
`malloc`, `realloc` and `free` are external: chunks at multiples of
`_Alignof(max_align_t)`, any call may fail, realloc may move, stay, or fail even
on a shrink, which ISO C allows. The functions are operators from the
arguments to the set of outcomes; the client keeps to the preconditions of the header.

### StrBuffer and StrValue

`str[x]` is the `str_t` of the code, `heap` the allocated blocks with all their
bytes (spare capacity included; `Junk` is a byte never written), `detached` the
blocks the caller has taken with str_detach and must free. A call is one action.
Inside it, each function of `str.c` that matters is an operator of the same name
from a machine state (heap, the str_t, the status so far) to the set of states it
may leave: malloc and realloc may fail, realloc may move. `Then` is STR_TRY and
the early returns that do the same; `Mutation` is the sticky status in front of
every mutator and str_record_failure behind it. A pointer is a block and an
offset; reading through a dead block, or past the end, gives `Junk`, and a write
past the end makes the block longer than it was allocated.

`call` records the last call and what it returned. `StrValue` has no buffers: it says
for every such record which sequence a success leaves (`Result`), which errors the
request deserves (`Faults`) and when memory may be lacking. `ImplementsStrValue`
instantiates it with the content of each buffer.

The `_view` mutators are the `_n` ones; a NULL string changes nothing; the
read-only accessors are not actions. `MinCap` (16), `FormatStack` (256) and
`SizeMax` are scaled down together: doubling, its overflow, the exact need
and both ways of formatting all occur.

### StrSearch and StrSplit

`StrSearch` is one call. `needle` is chosen first and the walk of each direction
(`Walked`, the body of str_suffix_walk_step) runs over it; `haystack` and the
direction of the search are chosen when the code first compares with them, so one
factorisation serves every text. `context` and `state` are the structs of that
name, except that `last_idx` is `LastIdx`. The scan to the right and the left
match read without writing and are expressions inside `SearchStep`. Every loop of
the code counts its iterations up to an explicit limit; `steps` is that counter,
so a wrong limit is a wrong result and not a missing one. STR_NPOS is `SizeMax`, as in the
code, and no view is longer: the one call whose answer would read as a missing result is
`RefuseSentinel`. The views are valid and out_idx is not NULL; the checks of the arguments are left out.

`StrSplit` is one call over one view; `parts` is the caller's array, with `Unset`
where the call wrote nothing. It runs at the full width of `size_t`: the longest
view has `SizeMax` bytes. It owns no view: `source` belongs to its caller.

`StrViews` is that caller. All its views lie in the buffer of one string, whose
last byte is the terminator; `value` and `other` are two of them, which
overlap, nest, contain NUL bytes or are invalid. Each call records in `result` what
it was given and what it answered. At the end it splits one of its views, through
`Splitting`, the instance of `StrSplit` whose `source` is the content of `value`.

### TestRunner

`mem.runner` and `mem.child` are the two processes' copies of what matters in
`tt_g`, `tt_c`, `tt_crash_name` and the buffer of stdout; `fork` copies the
first into the second. `pc` is where tt_run_all stands, `frame` where the test
function stands, in the process that runs it (`P`). A test body is any
sequence of failing assertions, skips, returns, calls of exit and fatal signals; the
landing pad is `Abort`, which leads to `LeaveBody` from setup and body and nowhere
from teardown, where `have_jmp` is 0. `tt_run_one` is `RunInside` and `ReportInside`,
or `Fork`, `ChildReturns` and `ReportForked` with the death of the child in between;
a fork may fail. A write to stdout may go out at once or stay in the buffer.

`fate` is history: what the test that was started last really did. The verdicts are
compared with it. Tests are their rank in file:line order; the section holds them in
link order. `DiagCap` is TT_DIAG_CAP in records, `ManualCap` and `ListCap` the two
array sizes, `asked` is history: what tt_register was called with, dropped or not. No two
records share a line, and TEST_REGISTER is used as `agenc-test/README.md` 59-61 documents it, for
toolchains without the section mechanism: `Manual` has no test of the section. (On an ELF
toolchain the record a TEST macro makes is in the section already, and registering it by hand as
well would run it twice; that is not modelled.) `ChldIgnored` says whether SIGCHLD is ignored when the program starts,
which a process inherits through exec; the kernel then keeps no status of its children.

Not modelled in it is a child or a body that hangs: the harness has no timeout.

## Properties and runs

* `TypeOK`: types; `used` and `committed` are integers here, their exactness is below.
* `BlocksAccounted`: a block is on the chain, on the free list, or with the
  parent, once; the size it was lent with is the size it goes back with;
  `committed` is the sum.
* `FreeListClean`: retained blocks are rewound, never oversize, within the policy.
* `RegionsSafe`: live regions and redzones are disjoint, aligned, below cursors.
* `UsedExact`: `used` is the bytes below the cursors less the abandoned ones.
* `ShadowExact`: addressable bytes are exactly the bytes of live regions.
* `ScopesConsistent`, `ScopesUsed`: every open snapshot stays restorable and its
  `used` stays right.
* `NoAbort`: no assert fails for a client that keeps to the contract.
* `TempEndRestores`, `ServedExactly`: what one call of temp_end or alloc_n does.
* `ImplementsAlloc` (`ArenaAlloc`): every behaviour of the arena is one of `AllocContract`.

Of `Backends`:

* `ChunksAccounted`: every chunk of malloc is held by one block that fits in it.
* `ShrinkServed`: a shrink is served even when realloc fails it.
* `ImplementsAlloc`: both backends are an `AllocContract` too.

Of `StrBuffer`:

* `BufferSound`: the invariants of `str_t`, and no write outside a buffer.
* `OneOwner`: every block belongs to one string or to the caller: no leak, no
  sharing, no buffer freed under a string.
* `ImplementsStrValue`: every call is what `StrValue` says of it.
* `FailureAtomic`: a failed call changes a status and no byte or block.
* `ReservedNeverFails`, `CapacityKept`: what fits the capacity needs no memory, and
  only the calls that give a buffer up lower the capacity.

Of the search: `SearchExact` (the answer is the first or last occurrence, and reads as STR_NPOS
only when there is none),
`MemoryMatches` (the remembered prefix does match), `WalkCompletes` (two passes are enough, as the code asserts),
`FactorCritical` (the cut is a critical position of the needle, on which the rest
of the algorithm relies). Of the views: `AnswersExact` (comparisons are those of byte
sequences), `SubviewsExact` (a slice is refused exactly when it would end behind the
string, a trim keeps what lies between the whitespace), `SplitExact` (for a served and
for a refused split).

Of `TestRunner`:

* `ReportExact`: one point for each selected test, in order, numbered from 1, nothing
  printed twice by a child or lost in a buffer, a plan that agrees, and no registered test
  missing while the two arrays have room.
* `VerdictHonest`: the point of a test says what the documents call for, given what the test
  did (`Due`), and only failed tests have diagnostics. A test that failed an assertion is due
  "not ok", however it ended. The code loses a failure in two ways (`FailureLost`): a skip behind
  it, and, in a child, an exit behind it with the code of a pass or a skip. The claim is an
  equivalence: the point says what is due unless the failure is lost in one of these two ways, and
  then it never does. What a test is due that calls exit
  without having failed, no document says; there `Due` follows the code.
* `CountsMatch`: counters, exit code and report agree with the points printed.
* `TeardownPaired`: teardown has run exactly when setup was completed.
* `CrashNamed`: a crash under `--isolate` is named, a death test is not.
* `RunEnds`: the run ends, under `--isolate` always with its plan.

| run | question | instance |
| --- | --- | --- |
| `arena_growing` | do regions, statistics, poison marks and snapshots survive every order of calls, and is the arena the allocator its adapter claims to be? | 2 blocks, regions of 1 and 2 bytes, redzone 1, alignment floor 2, alignment 4, parent blocks at address 1 mod 4, 2 nested scopes, 1 reset or deinit |
| `arena_chains` | are blocks and the scopes over them tracked through chain, free list and parent? | 3 blocks, one region each, oversize requests, 2 nested scopes |
| `arena_fixed` | is a caller's buffer never exceeded, and does no product or need wrap? | buffer sizes 0, 1, 2, 5 and PTRDIFF_MAX + 1 at both alignments, or one block of the parent; `size_t` of 4 bits, operands on both sides of half a word |
| `arena_lifo` | does LIFO use of the adapter cost only padding? | 1 block, 2 regions; it does not (below) |
| `str_mutators` | does every call do what its name says, or nothing? | 1 string of at most 4 bytes of 2 values, every offset and length of a span of the string itself |
| `str_pairs` | do blocks keep one owner across copy, move and detach? | 2 strings of at most 2 bytes, 1 detached buffer; of the mutators of one string, those that reach every content, capacity and staging |
| `str_search` | is the first or last occurrence found in every text? | needles of at most 6 bytes, haystacks of at most 8, which is SIZE_MAX there, 2 byte values |
| `str_views` | do views compare, cut and split by their bytes alone? | a string of 3 bytes of 3 values, one of them NUL and one whitespace; every view of it, offsets and lengths up to SIZE_MAX, which is 4 there, so that a view can be that long, arrays of 0 to 3 views |
| `backends` | do libc and null keep the contract when malloc and realloc fail? | 3 chunks, sizes on both sides of PTRDIFF_MAX, alignments on both sides of the supported one |
| `test_run` | does every selected test get one point with the verdict it is due unless its failure is lost, and does the run end? | a section of a plain test, a fixture test and a death test; two tests handed to tt_register, whose array takes one: that one runs last, the other is dropped; every combination of flags, 2 filters, a handled and an unhandled signal, exit codes 0 and 2 |
| `test_skip` | is a recorded failure always reported? | 1 test; it is not (below) |
| `test_sigchld` | is a crash under `--isolate` always attributed? | 1 test, SIGCHLD ignored; it is not (below) |

Why the bounds are enough. Every case of a handler depends on the comparison of
a request with one block, on whether a block is the current one, the stop block,
oversize, or on the free list, and on which of two regions ends at the cursor;
two regions per block, three blocks and two scopes give all of these, and every
disjunct of the handlers is taken in some run. `arena_chains` and `arena_fixed` have
the layout of a release build, `arena_growing` that of a checking one. `MaxGeneration` bounds resets and
deinits, `MaxDepth` open scopes; without them the model is finite except for
`high_water`, which the capacities bound. `Half` and `PtrMax` set the width of
`size_t`; only `arena_fixed` comes near it, the other runs leave room so that
their small sizes never wrap, as in a real process.

For strings, a memmove is told from a wrong one by the order of the source, the
insertion point, the end and the shift, all of which four bytes can separate.
`MCView` leaves out of a state what no later step reads: the call, the names of
addresses, the bytes of detached blocks.

For the search, two byte values give both orders of a comparison; a needle of six
is the shortest whose walk needs a second pass, and it can be periodic
with any period up to its length, with the cut on either side of the middle;
eight bytes of text leave room for shifts after a match, a mismatch and both. The longest
haystack is one of SIZE_MAX bytes, for the boundary of STR_NPOS. For the views SIZE_MAX is just
above the length of the string, so that sums wrap and a split can reach its limit of separators inside the buffer;
the model and the proofs ask no more than that SIZE_MAX is above the length.

For the runner, four tests in the list are enough for a plain test before and after one of
each other kind, which is what stale globals, a child's buffer and a bail out can
reach, and one registration more than the array holds shows what is dropped. A list cut at its own
limit is left to `ReportAlwaysExact`, whose capacities are any. A body may fail, skip, return, exit or die at every point of every phase.

Fairness and liveness. An arena and a string do nothing between calls and promise
nothing a caller has to wait for, so they have none. The runner is a process the
system schedules, and so is its child: `FairSpec` asks for weak fairness of the
runner's steps and of the steps of a test body. The second is an assumption about
the tests and not about the code: there is no timeout, so a run ends only if
every test does. Under it `RunEnds` says that the runner reaches its plan after
failed forks, dead children and tests that were not selected.

Deadlock is checked where some call is always possible. It is not in `str_search`,
`str_views` and the runs of the harness, which stop when the call or the run is over.

### Findings

Of the arena.

`arena.h` 283-288 says of the adapter that LIFO alloc/free pairs cost zero net
memory apart from alignment padding, and that xfree rolls back when given the most
recent live allocation. `arena_is_last_alloc` asks whether the region ends
at the cursor. After the newest region is freed, the padding that was put in front of it is
still below the cursor, so the region under it no longer ends there: its xfree
does nothing and its bytes stay used. `arena_lifo` shows it with two regions.

Of the harness.

* `test.h` 28-30 says that a failed EXPECT is recorded and that the binary exits with 1
  when any test fails. `tt_exec_body` looks at the skip before the failure, so a
  test that fails an EXPECT and then skips is printed as skipped, loses its
  diagnostics, and the exit code is 0 (`test_skip`).
* `agenc-test/README.md` 16-17 says that a binary exits nonzero if anything failed, and
  `test.h` 28-30 as much. `tt_exec_forked` takes the exit code of the child for the result of the
  test; a body that fails an EXPECT and then calls exit(0) takes the record of its failure
  with it, is printed as `ok`, and the exit code of the binary is 0; with
  exit(2) it is printed as skipped. `test_run` reaches both, and `VerdictHonest` says in it that the
  verdict is then not the one due; `VerdictAlwaysHonest` says so for every set of exit codes.
* `agenc-test/README.md` 103-105 says that under `--isolate` a crash is attributed to
  the test. The result of waitpid is ignored and `status` is 0 before the call;
  in a process started with SIGCHLD ignored waitpid fails and the crash is printed as
  `ok` (`test_sigchld`). `test_run` assumes that SIGCHLD is not ignored.

Three more disagreements show in the definitions of `TestRunner` and have no run of
their own. `agenc-test/README.md` 105-106 says that the handler names a crashing test
even without `--isolate`; `tt_crash_name` is only set in a child (`ChildMemory`), so
the handler stays silent there, and `CrashNamed` claims the name only under `--isolate`.
`test.h` 602-603 has diagnostics under the test point; a child prints them before its
parent prints the point (`ChildReturns`, `ReportForked`). `test.h` 826 calls the
XML file a report of the run; it lists every registered test, also those a filter
or a bail out left out (`XmlReport`).

## Proofs

`TypeCorrect` (`ArenaProofs`): `Spec => []TypeOK`, for every set of blocks, every
layout and policy that satisfies the named assumptions of `Arena`, and every
width of `size_t`. `TypeOK` is inductive as it stands, except that the cursor of
a resized region needs the guard of `arena_is_last_alloc` that its size is at
most the cursor. The step goes through `NextEffect`: whatever entry point was
called, and whatever its guards decided, the step is one of a few effects
(nothing, a recorded failure, a served request, a resize, a rollback, a bulk operation),
so an invariant is proved once per effect and not once per entry point.
`ProductExact` shows for every width that the guard of `arena_alloc_impl` lets no
wrapped product through.

`BlocksAlwaysAccounted` (`ArenaProofs`): `Spec => []BlocksAccounted`. With `TypeOK`
the property is inductive. Three lemmas carry it: a retained block that moves to
the chain, a lent block that enters it (`LendCounts` raises the bytes lent by its
size), and `DiscardAccounted`, which covers temp_end and reset: the blocks of a
set leave the chain, those that go back to the parent lower the bytes lent by
what the ledger says (`ReturnCounts`), which is what `Footprint` subtracts.

`RegionsAlwaysSafe` and `ScopesAlwaysConsistent` (`ArenaProofs`). Neither property is
inductive alone. A rewind is safe because every region that survives it lies
below the mark of the scope, which is `ScopesConsistent`; that in turn holds
because the handlers only carve above cursors no region reaches over, and only
resize or free the last region of the innermost scope, which is `RegionsSafe`
with `BlocksAccounted`. `SafetyInv` is the conjunction, with one fact more:
a scope begun in an arena without blocks has its mark at zero (`NullMarks`), without which two scopes begun there could not be ordered.

`FreeListAlwaysClean` (`ArenaProofs`): `Spec => []FreeListClean`. Growth only ever raises
`next_block`, so what was normal when it was lent stays within the policy. That a fixed
arena retains nothing needs `FixedChain`: a scope opened on its block names that block, so
its end pops nothing.

`AlwaysServedExactly` and `ArenaKeepsContract` (`ArenaPromises`). `ImplOutcome` says once for
every entry point what an allocation did: nothing, a failure, or a region of exactly the
product asked for, carved above every other region of its block (`Carved`). The first
theorem follows with `ProductExact`. For the second, `Spec => ImplementsAlloc`, each entry
point maps to a step of `AllocContract` or to a stutter: a carved region is fresh because it
lies above the others, a resize in place because the others lie below the last region
(`BelowLast`), and the end of a scope leaves the older regions where they are because
their blocks stay on the chain (`ScopesConsistent`).

`ShadowAlwaysExact`, `UsedAlwaysExact`, `SnapshotsAlwaysExact`, `NeverAborts` and
`TempEndAlwaysRestores` (`ArenaPromises`), all from one invariant, `CountsInv`. None of its parts
stands alone: `temp_end` restores a counter from a snapshot, so `UsedExact` needs
`ScopesUsed`; a snapshot is taken of a counter, so `ScopesUsed` needs `UsedExact`; and which bytes
an end drops depends on where blocks, regions and marks are, so both need `SafetyInv` and
`RetainedInv`. The counting itself is done on sets of bytes: a handler that moves one
cursor adds or removes one interval (`CursorMoved`), a region resized or rolled back holds none of
the bytes left behind (`LastMovedCount`), and an end leaves exactly the bytes below the mark
(`RewindBytes`). That an older snapshot survives a step is one lemma, `RecordedKept`: no
step moves a block below its mark or leaves one of the bytes there behind (`Undisturbed`). The
assertion after a growth holds because the need asked for has slack for any padding
(`NeedFits`), those of `temp_end` because the counts are exact (`TempEndCounts`).

`ChunksAlwaysAccounted`, `ShrinkAlwaysServed` and `BackendsKeepContract` (`BackendsProofs`) for the
libc and null backends. `BackendInv` adds to the two invariants that every block held came
through the guards (size in range, alignment supported) and that the null backend
never gave one out. `MaxAlignTAssumption` is arithmetic the provers do not have: a power of
two up to `MaxAlignT`, a power of two itself, divides it.

`TypesAlwaysHold`, `BuffersAlwaysSound`, `OneOwnerAlways`, `FailuresAreAtomic` and
`ReservationsLast` (`StrProofs`), for every `size_t`, every `MinCap`, and every set of strings and
blocks. Each helper of `str.c` is proved once, as an operator from a machine state: the blocks that
are not the string's own stay as they are (`Others`), and the string is left `Sound`, with a block
as large as recorded, room for its content and a NUL behind it. A block taken on the way,
for a staged alias or a rendered payload, is `lodged` in the heap until it is released, and releasing it gives
back the heap that was there before. One lemma says what a call of any entry point leaves
(`Outcome`); from it the properties follow together, because a call on one string keeps the others
sound only if no block has two owners, and has one owner only if a sound string frees the block it holds.
Only move, detach and free pass a buffer on, and they are cases of their own.
`StrInv` adds that the heap is finite, which the choice of a fresh block address needs.

`StringsAreValues` and `ReservationsHold` (`StrRefines`): `Spec => ImplementsStrValue` and `Spec =>
ReservedNeverFails`. `StrProofs` says of every helper that it leaves the string sound; here each
is followed once more, for the text it leaves (`Becomes`) and for the reasons it may fail. A write
that moves the tail first, an alias of the string's own bytes that is staged, and a buffer that
moves while the source lies in it all leave the sequence `Result` of `StrValue`, and a failure is one
of its `Faults` or a lack of memory `StrValue` allows at that length. Blocks other than the one that
is written keep their bytes, so the other strings and the span of the caller keep theirs. The
mutators are then taken one by one, as the arguments of their calls differ, and the calls that pass a buffer on after them.

`SearchIsTyped`, `WalksComplete`, `FactorsAreCritical`, `MemoryIsSound` and `SearchIsExact`
(`SearchProofs`), for every alphabet and needles and texts of every length. This is the correctness of
the two-way algorithm, from its parts:

* the walk: at every iteration what it has compared so far (`Knows`) is the maximal suffix of
  the part of the needle it has read, and its period. Each of the three outcomes of a comparison keeps
  that; the sum it advances bounds the number of iterations (`WalkCompletes`).
* the cut: a repetition around the shorter of the two maximal suffixes, one for each order of the bytes,
  would make a longer suffix greater in one of the orders, so the local period at the cut is the period of the needle.
* the shift: an occurrence at a place the search jumps over would repeat something around the
  cut that is shorter than the period (`SkipSafe`); what `memory` stands for has matched
  already, because the last shift was a period (`MemoryFits`).
* `SearchInv`, the inductive invariant: before `idx` there is no occurrence (`Searching`), the context is
  that of the needle (`ContextSound`), and a walk knows its suffix (`Walking`).

Facts about all lengths are proved from the least number that would be an exception
(`LeastNumber`), which is the well-foundedness of the order on the naturals.

`AnswersAreExact`, `SubviewsAreExact` and `SplitsAreExact` (`ViewsProofs`), for every buffer, alphabet and
length. `ViewsSound` says that every view a caller holds lies in the buffer or is invalid
(`ViewOK`); then an expression of the code over pointers is one over contents (`BytesAt`): the first byte
two spans differ in decides both `Memcmp` and the lexical order. The loops of a trim are recursive
functions: `TrimLeftEquation` and `TrimRightEquation` show that a function with their
equation exists, and a least exception that it is the one that stops at the first byte to keep.
For the split, `Going` counts the ends of parts before `start`: the next separator is the end that exactly
`count` others precede (`BelowNext`), so the part stored is the one `Part` asks for, and `count` can wrap
only when every byte of a view of `SizeMax` bytes is a separator, which the code refuses.

`ReportAlwaysExact`, `CountsAlwaysMatch`, `VerdictAlwaysHonest`, `TeardownAlwaysPaired` and
`CrashAlwaysNamed` (`RunnerProofs`), for any section and link order, any capacity of the two
arrays, any flags and filter, and any sequence of body steps. All that is ever printed is appended to one stream
(`Full`), whichever process prints it and whatever stays in a buffer: a lemma per action says what the
action appends. `ProcessInv` ties the memory of the process that runs the test to
what the test did (`Told`), and what waitpid tells to how the child ended (`ChildTold`). `Rounds`
counts the stream against the loop: the points are numbered and name the selected tests up to `i`, and
the counters are their numbers by verdict; a round adds exactly one point behind the others (`Grown`).
`Ended` is what `Finish` leaves. `Honest` needs one fact more than
`VerdictHonest`: a failed child prints its diagnostics before its parent prints the point they belong to, so in
between they are `Awaited`. It speaks of the verdict the code prints (`Shown`), which `ShownDue` compares with
the one that is due. `Handed` says that tt_register drops nothing before its array is full. `VerdictAlwaysHonest` assumes that SIGCHLD is not
ignored; `test_sigchld` shows that it is false otherwise.

Only model-checked: the liveness property `RunEnds`, which rests on fairness. Every
invariant, action property and refinement of the passing runs is a theorem; TLC checks them all
the same, on the instances above.

## Plan

An arena over `Backends` instead of a parent of its own, and an arena as the parent of another:
compositions of modules that are proved one by one.
