# A verification of the ALDA runtime and its analyses

ALDA is a language for dynamic analyses. An analysis (`G-parser/algorithm/*/*.txt`) declares types,
maps, handlers and the program points the handlers are inserted at. `G-parser` reads it and writes two
JSON files; `template/generate_cpp.py` and `template/generate_opt.py` turn them into a C++ runtime
(`rtLib/cxx_gen.cpp`, over the containers of `rtLib/`) and an LLVM pass (`pass/opt_gen.cpp`). The pass
inserts calls of the handlers into a program; the handlers then run on the program's own threads.

Everything that makes this hard to get right happens there: handlers of several threads share the
shadow table, the table of thread ids and the maps of the analysis, with spin locks, atomics, a pool
of address locks and, in places, nothing at all between them. The sources come without tests. These
modules state what that code has to keep, TLC checks it on small instances, and TLAPS proves the part
that can be proved for instances of every size.

## Inventory

| Component | Code | State | Operations | Hard because | Modelled in |
|---|---|---|---|---|---|
| synchronised shadow table | `rtLib/PageMap.h` | three levels of pages, a spin lock per inner page | `get`, `test` (`add`, `remove`, `get_size`) | slots are read without the lock; an allocation may throw with it held; references outlive the walk | `PageMap`, `ShadowMap` |
| unsynchronised shadow table | `rtLib/PageMapUnsync.h` | as above, no lock, no atomics | the same | chosen for every type not declared `sync`, and used by multi-threaded programs all the same | `PageMapUnsync` |
| offset shadow | `rtLib/PageMapUnsyncOffset.h` | one flat mapping | sized reads and writes, ranges | address arithmetic; cells narrower than a granule | `OffsetMap` |
| `universe::map`, `rt_lib::map` | `rtLib/rtLib.cpp` 9-321, 743-931 | one of the three tables | find, get, remove, plain and fused range operations | keys are shifted, ranges need not start at a granule | `PageMap`, `RtMaps`, `OffsetMap` |
| `bottom::map` | `rtLib.cpp` 471-554 | `std::map` and one spin lock | find, get, remove, `remove_range` | a reference returned after the unlock; an operation that calls another with the lock held | `Handlers` |
| sets | `rtLib.cpp` 933-1148, `util_bitmap_sparse_bitmap.h` | lists of bit words, a complement flag | add, remove, find, `\|`, `-`, `&` and their assigning forms, iterator, `==` | loops over two lists with many cases; a universe and a bottom set meet in all of them | `SparseSets`, `RtSets` |
| `bit_vector`, `array_map` | `rtLib/bit_vector.h` | fixed arrays | add, remove, find, `&`, `\|=`, `<=` | index 1 is entry 0; nothing checks the bounds | `Eraser`, `FastTrack` |
| thread ids | `cxx_rtlib_template.ctt` 255-290 | slots, `tidlock`; or a counter | `get_id` | unlocked scan, then a second one under an unfair lock; a table that fills up | `ThreadId`, `IdAssign` |
| lock placement, id compression | `generator.h` 1039-1344, `generate_cpp.py` 131-220 | pool of address locks, `std::map` of lock ids | code put around handlers | the lock must fall where the first reference needs it and be released on every path; an unlocked look-up in a `std::map` | `LookupElim`, `Handlers` |
| DSL passes | `generator.h` 217-1344 | syntax tree | copy elimination, map fusion, lookup elimination | trees rewritten while they are walked, by pointers and by types | `CopyElision`, `MapFusion`, `LookupElim` |
| DSL front end | `tokens.l`, `parser.y`, `statement.*` | syntax tree | lexing, parsing, printing, comparison of nodes | | what the passes use of it |
| eraser | `algorithm/*/eraser.txt` | lock sets by thread and by address, state of each address | six handlers | a handler runs before or after the call it reports; addresses are reused | `Eraser`, `Handlers` |
| fast_track | `algorithm/*/fast_track.txt` | clocks of threads and locks, epochs of addresses | six handlers | clock rows are changed by several threads without a lock; 16-bit clocks | `FastTrack`, `ClockOrder` |
| other analyses | use-after-free, taint, all-in-one, `msan.txt` | maps of metadata | handlers | rest on range operations | their maps only |
| start-up, metadata stacks | `cxx_rtlib_template.ctt` 94-252, 294-332 | flags, thread-local arrays | `initEraser`, param and result keys | order of start-up; stale entries | no |
| instrumentation pass | `llvm_opt_template.ctt` | LLVM IR | insertion of handler calls | caller and callee agree through thread-local stacks | its order of calls only |
| libc interceptors, build files, lists | `msan_header.h`, `sanitizer_common_*`, CMake | none | derived or configuration | | no |

How they meet: the passes of `G-parser` decide which map operations a handler performs and where its
lock stands; `generate_cpp.py` and the templates give it ids, the lock pool and the thread slots; the
handler calls `rt_lib::map` and `rt_lib::set`, which hand on to one of the three tables, to
`bottom::map` or to the bitmaps. Nothing calls back; what several threads share is memory.

What makes the modelled ones correct:

- *shadow tables*: one cell per key, for ever; a page is never lost or replaced; no walk leaves the
  table; every operation ends and looks like one atomic access to one cell. Without locks: cells of
  different keys are never mixed up, and a key nobody is racing on keeps its leaf;
- *maps and the linear shadow*: a cell reads what the calls on its granule have left, ranges included;
- *sets*: a list is in order and without empty nodes; a set holds what the operators say;
- *thread ids*: one id per `pthread_t`, dense, stable, the same for everybody who asks; every call ends;
- *passes*: an assignment keeps its value, a map its cells, a handler locks once and unlocks once and
  declares every reference where it is used;
- *handlers under the generated locks*: no lost update, no reference to a removed entry, `onFree` in
  the order of the frees, every handler returns;
- *eraser*: records equal to what a thread holds; the state and the lock set of an address those of the
  accesses reported for it;
- *fast_track*: a row that covers the clock of an access has heard of it, as long as that clock has
  neither wrapped nor been overwritten; without races rows order everything the program does; nobody
  knows a clock before it is reached.

`PROJECT.json` lists the hazards behind these, each at its line, the uncovered ones with the reason.

## Modules

| Module | Models |
|---|---|
| `ShadowMap` | abstract: a map of cells in which every operation takes effect at one instant |
| `PageMap` | `PageMap.h` under the one-key operations of `universe::map`, one action per atomic access |
| `PageMapUnsync` | `PageMapUnsync.h`: the same walk without lock, in a program of several threads |
| `RtMaps` | the operations of `rt_lib::map` on keys and ranges, plain and fused, over a page table |
| `OffsetMap` | the same over the linear shadow, byte by byte |
| `SparseSets`, `RtSets` | the sparse bitmap and its operators; `rt_lib::set` over two of them |
| `IdAssign` | abstract: ids handed out densely, once each |
| `ThreadId` | `get_id()` over the slot table, one action per access to a slot or to `tidlock` |
| `CopyElision`, `MapFusion`, `LookupElim` | the generator's three passes, the last with the text and the run of the handler it leads to |
| `Handlers` | generated handlers of several threads under the lock pool, with `bottom::map` and the heap |
| `Eraser` | the handlers and insert statements of `eraser.txt` in a program of several threads |
| `FastTrack` | the handlers and insert statements of `fast_track.txt` in such a program |
| `ClockOrder` | `FastTrack` with an observer of the clocks that accesses are stamped with |
| `MC*` | instances for TLC: symmetry sets, the meaning of the small values, and in `MCAlgorithms` the components that work alone, side by side |
| `*Proofs` | theorems and their proofs |

Modules that prove something use no recursive operators. Definitions whose name ends in `Bug` are slips
of the kind a change to the code could bring in: with one of them in place of the definition after it,
the property named for it in `PROJECT.json` fails. They are part of no specification.

### PageMap

`slot`, `lock` and `cell` are `map_` and `lock` of the inner pages and `map_` of the leaves; `level`
says which pages exist and as what. `pc`, `page` and `fresh` are a thread's place in `get()` or
`test()`: the page it has reached and the page it has allocated and not yet stored. An operation
begins with `Begin`, climbs down by `LookPresent`/`LookAbsent` (line 95) or `ProbeAbsent` (73), `Lock`
(96), `Retest` (97), `Allocate` or `AllocateThrows` (98, 111-125), `Store` (99), `Unlock` (102) and
`Descend` (107, the third load of the slot), and ends with `Use`, the client's access through the
reference. Keys are numbers and `Ix` is `keyMask()`, so that aliasing is about the real arithmetic.

*Dirty memory.* The constructor of an inner page sets no slot: the loop that would is commented out
(63-68). The root lies in static memory, but a middle page comes from `malloc`. With `DirtyHeap` a new
middle page holds any mixture of `Null` and `Wild`. Allocators hand out zeroed memory while they take
it fresh from the system, and do so for the large pages of this table until the program has freed
blocks of that size; the other runs and the theorems on the table's contents therefore assume
`DirtyHeap = FALSE` where they need it, and name it.

*Refinement.* `ShadowCell` maps a key to the entry of its leaf, and to `Zero` while it has none: a key
whose pages do not exist reads as zero through `get()`, which creates them, and is reported missing by
`test()`. `getOrDefault()` of a missing key returns a reference to its own argument, gone when the caller
reads it (`rtLib.cpp` 164-184): such a read may give any value (`ProbeAbsent`), and `ShadowMap` promises
no more of a peek at a key that holds zero (`Answers`). A step of a fused `remove_range` walks twice, with
`test()` and then with `get()`; the second walk goes over pages the first has found installed, which are
never replaced, and is not a walk of its own here. `begin` and `end` of operations map to those of `ShadowMap`, everything
between to stutters but `Use` (or the probe that finds nothing).

### PageMapUnsync

It extends `PageMap` and replaces the steps the missing lock changes: a walk that sees an empty slot
allocates (`LookAbsentUnsync`), stores (`StoreUnsync`) whatever has been stored in between, and loads
the slot again (`Descend`). Plain loads and stores of one word are taken to be whole and in order, which
is what the compilers the project builds with make of them; nothing is claimed beyond that. This table
does clear the slots of its middle pages, so that memory is never dirty. Two threads may install two
pages and writes to the first are lost: that is the design, and `OneCellPerKey` is false. What remains
is `LeavesNotMixed` (whoever is in a leaf, lost or not, is there with a key of it) and `SettledStays`.

### RtMaps and OffsetMap

One thread calls the operations in every order and with every range of the instance. Beside the cells
run `meant` (in OffsetMap `wanted`): what each call should leave, by the reading that a range call
covers the granules of its addresses; and `spoilt` (`unsure`): the granules of which nothing can be
said, because one of the calls that are known not to do that covered them (Observations). The
properties compare the rest. A range that does not start at a granule may miss the last one: the code
counts granules from the size alone (`Units`). A range call does the same to each granule it visits, so
that the visited ones are a set (`Visits`); only `check_range` stops at the first that differs (`Looked`).
`GranuleSizes` and `Grains` are the values of 2^shift; nothing depends on their being powers of two,
but that blocks are whole numbers of granules.

In OffsetMap the address space has eight blocks in place of eight values of the top three bits of an
address, which is all `mem2shadow` looks at, and the program lives in the first and the last, as the
constants of `init()` have it. `ShadowsApart` says that no two granules share a byte and every byte is
mapped. Cells have one to three bytes, the sizes for which `rtLib.h` chooses this table.

### SparseSets and RtSets

A bitmap is a list of nodes of `Width` bits, as in the code, where a node also has chunks of
`BitsPerSet` bits, over which the iterator goes (`Visit`). A loop over two lists takes one of them node
by node (`Loop`); its state is the list it makes and where it stands in the other, which it only ever
walks forwards (`OrNode`, `AndNode`, `AndFullNode`). `RtSets` sends two sets through any sequence
of calls of `rt_lib::set`; `ideal` runs beside them and `grade` says how far the code's set can be
trusted: exact; too large, since `-` and `&` of bottom sets only shrink the nodes both have, or the nodes
the right list reaches; or nothing, after an operator between a universe that was cut and a bottom set.
`SetsHoldWhatTheyShould` is the claim that the grade is never too good.

### ThreadId

`idx` and `tidlock` are the code's; `pc`, `asked` and `i` a caller's place in the unrolled loops. After
the last slot `RescanTaken` leads to `threw`: the exception leaves `tidlock` held (289). Callers ask
about any `pthread_t`, as `onCreate` and `onDestroy` do. The counter used by analyses that name only
the running thread (255-265) is an increment of an atomic and is left out.

### CopyElision, MapFusion, LookupElim

Each pass runs on every input of its kind up to a size. Grammar chains of one-child nodes are left out.

*CopyElision* takes an assignment `x = e` where `x` occurs up to twice in `e` and brings an occurrence
to the top (`Climb`, `Extracted`). As in the code an expression is nodes and pointers, and the pass only
turns pointers: `op` says what each node is, `of` where the pointer at each place leads. The value of
the assignment must stay, which is computed for one member of the sets, since the operators treat
members alike. The climb takes parentheses for the top, so that an `x` within them is excepted.

*MapFusion* takes the declarations of an analysis: maps with the same scope and key become fields of one
class, `Joins` decides by the comparison of types the code uses, and every use (`m[k]`, `m[k][j]`, a
range call) is redirected. `FusionKeepsCells` follows each use to the cell it ends in and demands that
two uses meet if and only if they did before. Two kinds of declarations are excluded by name, because the
code gets them wrong (`Nested`, `Mistaken`; see Observations).

*LookupElim* goes on where the others end. A body of uses, an `if` and a `return` is rewritten until
nothing changes (`Eliminate`); then the text of the handler is made from it with the marks, of which
`Locked` and `Unlocked` choose those that become the lock and the unlock (`Generate`); then the text is
run on every path (`Step`, `Jump`, `Leave`). `LockPaired` and `RefsCovered` hold for the bodies
`Regular` describes: whatever is looked up more than once is first met outside a branch, and only the
last statement returns. The properties say that only other bodies go wrong.

### Handlers

`PTHREAD_LOCK` and `PTHREAD_UNLOCK` around a handler are `LockPool` and `UnlockPool`; `addr2size` is a
`bottom::map` whose calls take its own lock (`LockMap`, `Get`, `UnlockMap`, `RemoveEntry`) and return a
reference that `AssignSize` and `LoadSize` use after the unlock, which is why `ref` can go stale. The
handler of an access stands for those that read and write one cell; `onMalloc` and `onFree` are those
of eraser and of the other heap analyses. `onFree` clears its cells one by one (`ClearCell`) and holds
only the pool lock of the first address. The program frees a block at most once and not while it uses
it. `hook` is where the analysis inserts `onFree`: `eraser.txt` and `use_after_free.txt` after `free()`, the
all-in-one analyses before it.
`torn` remembers cells that were cleared between the read and the write of an access.

### Eraser

The maps are the analysis's: `thread2WLock`, `thread2Lock` by thread, `addr2Lock`, `addr2Thread`,
`addr2type` by address. The program's side is `mode` (who holds which lock, how), `alive` (the heap
block is allocated) and `pending`: the second half of what a thread is doing. A lock call is followed
by its handler (`Acquire`, then `OnLock` or `OnRLock`), an unlock call preceded by it (`OnUnlock`, then
`Release`), an access followed by it (`Access`, then `OnLoad` or `OnStore`), `malloc` and `free`
followed by it, all as the insert statements (70-78) say. `Wait` and `Wake` are `pthread_cond_wait`,
which no handler sees. The generated handlers hold the pool lock of their address throughout, and
lookups are merged into one cell per address, so that a handler is one action.

`log` is a history variable: the accesses reported for each cell, with the locks that guarded them. The
properties compare the cell with it. `NewSet` is the lock set of a cell nobody has written:
`eraser.txt` declares the set of all locks, the generated code starts with none (see Findings).
`LockSetExact` says what the declaration is for: the set of a shared address is what guarded every
access. The generated code does not do that. `LockSetFrom` says what the handlers do whatever the cells
start with: of that set exactly those locks are left that guarded every access, and the cell of a heap
block may be empty instead, since `onFree` erases its set to nothing. The run starts from the declared
set, where most can go wrong; the theorem holds for every set, the generated one included.

### FastTrack

`C`, `L`, `R`, `W`, `RE` are the analysis's maps. Handlers on clocks take no lock. The handler of
`pthread_create` runs after the call, when the new thread may be inside a handler of its own, and both
change the new thread's row: a row is therefore loaded (`LoadRow`) and stored (`StoreRow`) in two
actions, and so is a count (`LoadTick`, `StoreTick`). The code goes through a row entry by entry. Rows
are whole in the model without loss: entries of a row never mix with each other, they do not decide
which handler runs or what it does to other entries, and the properties are conjunctions over entries,
so that every schedule of accesses to single entries is, for each entry, a schedule of the model.
`onLoad` and `onStore` hold the pool lock of the address and read the running thread's own clock: one
action each. Clocks are as wide as `Top` says and wrap as `int16` does.

`life` and `mode` are the program; `know` and `pub` are histories, what happened before each thread and
before each lock's next holder, counted exactly as the handlers count but in unbounded numbers and with
nothing lost; `users` remembers who accessed an address since it was last unread.

`Prompt` restricts the program: with it a new thread does nothing before its `onCreate` has run. It is
FALSE for `NoOrderInvented`, and TRUE for `ClockExact` and `OrderKept`, which are false without it.

The handlers of accesses do not compare rows with the program's history but with stamps: clocks
`C[u][u]` an address keeps of earlier accesses. `ClockOrder` adds what an access of `u` may carry at each
moment it runs (`stamps`): the clock, and what the access is for the program, the unbounded count of `u`.
`NoOrderInvented` says: where `t`'s row covers the stamp of an access of `u` (`operator<=` of line 53), `t`
has heard from `u` since. The code breaks this in places, and those accesses the property leaves out:
- those a thread makes when its clock has wrapped: the others' old entries cover all its stamps;
- those a thread makes after its creator's row has overwritten what it had counted (`spoilt`): its stamps
  are too low;
- those before a thread's first count: the stamp 0 is covered by every row.

It says nothing of the rules that put the stamp of one thread next to the own clock of another: `W`,
which keeps no thread, in lines 28-38 and 50-58, and line 33. What it does say is that nothing else
goes wrong: rows two handlers change at once, other threads' clocks that wrap or are lost, and waits
that no handler sees take order away and never feign it.

## Checks

| Run | Instance | Shows | Distinct states |
|---|---|---|---|
| `shadow_threads` | 3 threads, keys 0 and 2 (one root slot, two middle slots), write and probe | `FullInv`, `OneCellPerKey`, `NoPageLost`, `SlotsWriteOnce`, `ImplementsShadowMapSafely` | 1 470 000 |
| `shadow_live` | 2 threads, keys 0, 1, 4 (sharing leaf, middle page, root), 3 pages to allocate, dirty memory, fair | `NoAliasing`, `InstalledKeysServed`, `WalkEnds` | 124 000 |
| `shadow_dirty` | 1 thread, 1 key, dirty memory | *violation* of `NoWildWalk` | |
| `ids` | 3 callers, 3 threads to name, 2 slots, fair | `OneSlotPerPid`, `IInv`, `SlotsStay`, `RegisteredServed`, both refinements | 307 000 |
| `eraser_threads` | 3 threads, a mutex with waits, an rwlock, an address, full start | `TypeOK`, `LockSetFrom` | 7 110 000 |
| `eraser_heap` | 2 threads, a mutex, an rwlock, a heap block | `RecordsHeld`, `CellFollowsAccesses`, `LockSetSound` | 1 130 000 |
| `eraser_empty` | 2 threads, lock sets as generated | *violation* of `LockSetExact` | |
| `clocks_race` | 3 threads, a mutex with waits, clocks of two values, 2 ticks each | `NoOrderInvented`, `OrderInv` | 5 190 000 |
| `clocks_prompt` | 3 threads, 2 mutexes, prompt creation, wide clocks | `ClockExact` | 176 000 |
| `clocks_rw` | 2 threads, a mutex, an rwlock, an address, prompt creation | `OrderKept`, `NoFutureClock`, `ReaderFollowsAccesses` | 691 000 |
| `handlers` | 3 threads, blocks of 1 or 2 cells at one base, 2 pool locks, both places of `onFree`, fair | `NoLostUpdate`, `NoStaleReference`, `FreedInOrder`, `HandlersReturn` | 246 000 |
| `algorithms` | the seven parts below | | 947 000 |

`algorithms` explores seven components in one state space; `part` says which of them a behaviour is
about, and the others rest in their initial states.

| Part | Instance | Shows | Distinct states |
|---|---|---|---|
| `table` | 2 threads on the table without locks, keys 0, 2, 4, 5 pages to allocate | `LeavesNotMixed`, `SettledStays` | 377 000 |
| `sets` | 2 sets, nodes of 4 bits in chunks of 2, members 1, 2, 4, every sequence of calls | `ListsCanonical`, `SetsHoldWhatTheyShould`, `ListsReadBack` | 48 000 |
| `maps` | 3 granules of 1 or 2 addresses, cells of 1 or 2 fields, every call and range | `MapsReadAsMeant` | 6 300 |
| `offset` | 8 blocks of 4 bytes, cells of 1 or 2 bytes run, of 1 to 3 placed, granules of 1 or 2 | `OffsetReadsAsMeant` | 10 700 |
| `copies` | every expression of up to 3 operators and parentheses | `CopyKeepsMeaning` | 10 900 |
| `fusion` | every analysis of up to 3 maps, 2 scopes, 2 key names, 4 kinds of values | `FusedCellsKept` | 32 700 |
| `lookups` | every body of up to 3 statements and a return, branches of 1, three expressions of two maps | `GeneratedLockPaired`, `GeneratedRefsCovered` | 461 000 |

Every property is violated by a mutant of a mapped definition (`PROJECT.json`, "mutants").

**Bounds.** *Tables*: two entries per page on three levels are the least in which two keys can share a
root slot, a middle page or a leaf and still differ; three threads let one wait at a lock while another
installs and a third reads past both; without locks two threads already race on every slot, and the
pages suffice for two complete paths and one page more. Nothing else is bounded: the operations go on
for ever. *Ids*: three callers, two of which may ask about the same thread while the third holds the
lock, and one thread more than slots. *Eraser*: `MaxLog` bounds the accesses logged for an address
(accesses in flight may exceed it by one per thread); a cell goes through all its states in three
accesses, which three threads in flight reach, and afterwards only its lock set shrinks. *FastTrack*: `MaxTicks` bounds how often a thread is
counted up, `Top` how wide its clock is: with `Top = 1` clocks wrap at the second tick. *Handlers*:
`Wrap` is the modulus of the counted updates; an update that is lost shows as long as fewer than `Wrap`
are lost at once, and at most two threads can have read before a third writes. Two pool locks let the
two cells of a block be guarded by different ones. *Algorithms*: `MaxNodes` stops a universe's list from
growing past one node, while bottom lists meet with two (members 1 and 2 share a node, 4 has its own);
ranges go up to two granules, so that they start, end and pass inside one; the passes' inputs are all
of the stated size, in which every case of the code occurs. Pages in `table` are allocated in order.
Threads, locks and addresses are interchangeable where a run uses symmetry; thread ids in FastTrack are
numbers that handlers compare, so only its locks and addresses are permuted. Liveness is checked without
symmetry.

Every action happens in some run. TLC counts the steps of `clocks_race` under one name, `OrderNext`; its
coverage shows all of `Next` there but `OnLoad` and `OnStore`, which change no clock and happen in
`clocks_rw` (the observer notes at every moment what an access would carry). `Wait` and `Wake` happen in
`clocks_race` only: `PlainNext`, of the other two runs, leaves them out.

**Deadlock** is checked except where the system really may stop: `shadow_live` and `ids` after an
exception with a lock held, `shadow_dirty` after a fault, FastTrack, whose programs end when all threads
have exited and when all ticks are used, and `algorithms`, whose passes end.

**Fairness.** A thread that is inside a map operation, inside `get_id()` or inside a handler keeps
running: weak fairness of its own steps. The operating system grants that much, and nothing in the code
blocks but the spin locks. Those get no fairness of their own: a waiting thread may lose every race for
the lock. Operations on the table end all the same, because a lock is only taken for a slot seen empty
and each slot is filled once, and so does `get_id()`. A handler may wait for ever while the program calls
other handlers for ever, and only then (`HandlersReturn`). Clients are not obliged to begin anything.
The passes of the generator are sequential, and Eraser and FastTrack claim no liveness.

## Proofs

All theorems hold for any number of threads, keys, locks, addresses, blocks and pages. Each rests on an
inductive invariant that TLC has confirmed on the instance of the run (those
that no run lists can be added to its cfg; the ranks in `CopyInv` need a bound then, as many as there
are nested operators).

*PageMapProofs.* `OneCellPerKey` is not inductive: it says nothing of threads still on their way.
`FullInv` adds the tree shape (every slot leads one level down and no page hangs in two slots), who
owns a page that is in no slot, that who fills a page holds its lock, that a walk stands on the path of
its key, and that a page in flight is blank. From it follow `TypeOK`, `OneCellPerKey`, `SlotsWriteOnce`,
`NoPageLost`, `FullInv`, `NoAliasing` (arithmetic of `Ix`, which needs the capacity as a bound of the
keys), and `ImplementsShadowMapSafely`: `Use`
and an unsuccessful probe map to the abstract operation, every other step to a stutter. For the latter
blankness matters: installing a page must not change what any key reads. What the liveness
properties have besides fairness is proved too: a walk has at most 15 steps left, its own step leaves
fewer and no other thread's step leaves it more (`NoRetries`); the holder of a page's lock is at a step
that waits for nothing, unless it threw, so that waiting threads form no chain (`NoLockChain`); and a
walk whose path is installed goes on without ever asking for a lock (`InstalledNeedNoLock`).

For the table without locks `UnsyncInv` says: the table is a tree, a page in flight is empty and nobody is in it,
and whatever way led to a page, it was the same for all who are there (`OneWay`), also when the page is
no longer in the slot. `LeavesNotMixed` follows with the arithmetic of `Ix`; `SettledStays` is an action
property: a store can replace a settled slot only if its thread is racing on it. `SerialRefinement` says
what the missing locks ask of a program: as long as no two handlers overlap (`OneAtATime`, a premise of
the theorem and not of the code, which nowhere sees to it) the table implements `ShadowMap` like the one
with locks. Its invariant `SerialInv` adds that a walk stands on the path of its key and that the slot it
has seen empty is still so; that a blank page in an empty slot changes no key's value
(`InstallInvisible`) is shared with the table with locks. With overlaps the invariant and the refinement are
false.

*ThreadIdProofs.* `IInv`: no `pthread_t` has two slots, slots are filled from the first one on, and a
caller under the lock has passed only slots of others. Hence `OneSlotPerPid`, `SlotsStay`, and the
refinement of `IdAssign`, where a claim is the registration and a hit or an unlock the answer. As for the
table, `NoRetries`, `NoLockChain` and `RegisteredNeedNoLock` are what the progress of `get_id()` has
besides fairness: the scan is counted down, the spin lock's holder runs, and the call of a registered
thread finds its slot before it would ask for the lock.

*HandlersProofs.* `Core`: between lock and unlock a thread owns the pool lock of its address, and what it
has read or looked up is still so, unless the cell is torn. Hence `NoLostUpdate` and `NoStaleReference`
wherever `onFree` is inserted. `Order`, for programs with `onFree` before `free()`: blocks lie apart,
each is in one thread's hands while it is made or freed, accesses keep to blocks nobody frees; with it
`FreedInOrder`, which says that nothing is torn then. `HandlersNeverDeadlock` is the part of
`HandlersReturn` that needs no fairness: who holds a pool lock is past waiting for one, who holds the
map's waits for nothing (`HoldersWork`), so that while handlers run one of them is not waiting.
`HandlersShorten` adds that a handler's own steps bring it to its end and nobody else's send it back.

*EraserProofs.* `IInv`: at every step a thread's records are what it holds, but for the lock it is busy
with, and every cell agrees with its log. Lemmas on logs say what one more access does to the counted
and to the shared accesses. Hence `RecordsHeld`, `CellFollowsAccesses`, `LockSetSound` and `LockSetFrom`
without assumptions on what is freed or on what lock sets start with.

*FastTrackProofs.* `NoOrderInvented` is about stamps; that a row does not know more of a thread than the
history does is only half of it, and is not inductive either, since it is silent about rows in the hands
of a handler. `ClockInv` is that half: a lock's row is known to whoever takes it next; what a handler has
loaded, or is about to merge, is known to the thread of the row; a value about to be counted up is below
the history's; who joins a thread is alone in doing so; a row of a thread that has not begun is empty.
The other half is `OwnClocks`: the clock of a thread that has neither wrapped nor been overwritten is its
count, but between the load and the store of a tick, and `StampsTrue`, the same of what its accesses
carry. Together they are `OrderInv` (`OrderHolds`), from which `NoOrderInvented` follows: a stamp that is
a count and is covered by a row is covered by what the row's thread knows. Both hold without rwlocks; with
them `NoOrderInvented` is false (see Observations).

`NoFutureClock` asks less and holds with rwlocks: its invariant `ReachInv` only
says that every row, also one in a handler's hands, has been reached by the threads it names, and that
who has not begun has counted nothing. `TypeOK`, also when clocks wrap, is part of it.
`ReaderFollowsAccesses` is inductive with the types.

`OrderKept` and `ClockExact` are the converse, and only hold under premises (`Plainly`): no waits,
`Prompt`, clocks that stay below their top, and for `ClockExact` no rwlocks. `ExactInv` says that
nothing is missing: a thread's row between handlers, a lock's row, and what a handler has loaded or is
about to merge, are at least what they are to be; who is being created is idle, and so neither counts
nor merges into the row its creator is storing; a holder knows what the lock publishes, so that
overwriting the row of a lock loses nothing a writer has saved there. That is `OrderKept`, which
the run also checks for clocks that wrap; with `ClockInv` from the other side the rows are equal.

*UniverseMapProofs.* For maps over the page table the invariant (`MapsInv`) is `MapsAsMeant` with the
types; the work is in the arithmetic of ranges: the granules a call visits are granules of its range
(`VisitsCovered`), and all of them but perhaps the last (`CoveredVisits`), which is why a range that
starts with a granule reads back (`RangesRead`). For the linear shadow `Halves` evaluates
`mem2shadow()` on both parts of the address space, from which `ShadowsNeverMeet` follows for blocks of
any size, and that the cells of a range follow each other without a gap (`InStep`), which carries every
call that writes a range of bytes (`PokedHere`, `PokedElsewhere`); `CellsDiffer` carries those that
write some of the fields. Granules need only divide a block (`AlignInSpace`). Both parts share the
lemmas on division.

*RtSetsProofs.* The provers cannot instantiate an induction theorem whose hypothesis is a predicate; the
loops are recursive functions of the round, and `Upwards` (a set that has 0 and with each number the
next) and `Rounds` (a function that follows the rounds exists) are proved once from the well-foundedness
of the natural numbers. A lemma on one round then gives one on each operator: what `|=` makes of two
lists in order is in order and holds what both hold (`OrMergeMeaning`), what `&=` makes loses no common
member, and gains none if the left list does not outlast the right one (`AndMergeMeaning`); `count()` is
the number of members (`CountMeaning`). For reading back, `SameBits` shows that two lists in order which
hold the same are the same list, so that `==` decides on members (`EqualMeaning`). The iterator has read
what it has passed, and what it has passed is smaller than what it has not (`PassedBelow`,
`VisitReads`); every visit is worth a round (`VisitGains`) and a list is worth its nodes times their
bits and chunks (`WorthBound`), so that it comes to the end (`IterateReads`). The invariant (`SetsInv`) adds to `ListsCanonical` and
`SetsHoldWhatTheyShould` the types and that a list holds members only, also the bottom list of a set
that is a universe at the moment, which a later call may uncover. Nothing is claimed of a universe's own
list, which `&=` and `-=` leave out of order.

*CopyElisionProofs.* `Value` is recursive over the pointers, so the proof first shows that in an
expression without circles (`Grounded`: ranks fall along the pointers) exactly one valuation of the
nodes fits (`OneValuation`, `HasValuation`), and works with that from then on (`ValueIs`). `Sound` adds
what keeps the exchanges right: two pointers never lead to one node (`Paired`), a right operand binds
closer than its operator (`CloserRight`), and what is within parentheses has its operands there
(`Walled`). An exchange of a node's two operands keeps all this and the value
(`ExchangeSides`). One between the right operands of two operators some levels apart keeps it because
the operators from one to the other, a `Spine` of left operands, are all the same and it commutes
(`ExchangeUpSound`, `ExchangeUpValue`): their partial results change, the topmost one does not. The
climb is a sequence of those (`ClimbKeeps`). The operator `x` is extracted from is the whole: under
another one the extraction is refused, and parentheses around it would be around `x`. `CopyInv` is that the pointers are sound and the value the written one until the
extraction, and after it that the compound assignment has that value; `CopiesKept` follows.

*Only model-checked:* the liveness properties themselves, `WalkEnds`, `InstalledKeysServed`,
`RegisteredServed`, `HandlersReturn` and the refinement of `IdAssign` with fairness (fairness and ENABLED
are out of the prover's reach; what they need besides is proved, see above); `OrderKept` where clocks wrap;
look-up elimination and the fusion of maps, which are recursive over nested statements and declarations;
the behaviour after an exception.

*Assumed:* the named ASSUMEs of the modules, all of which say that constants have their types, that
marks are not values, and in `UnsyncAssumption` that memory is not dirty, since `PageMapUnsync` clears
it; and the premises written in the theorems. TLC evaluates every one of them.

## Findings

1. `NoWildWalk` (run `shadow_dirty`): `get()` follows a slot of a middle page that was never set, if
   `malloc` returns memory in use before. `PageMap.h` 65-67 has the missing loop as a comment,
   `PageMapUnsync.h` 64-66 has it in force.
2. `LockSetExact` (run `eraser_empty`): `eraser.txt` line 8 declares lock sets that contain every lock
   until intersected (`universe::set`). `get_cpp_type()` makes a `bit_vector<512>` of every set with a
   size, in zeroed cells: the set starts empty, and an address that a mutex always protects looks
   unprotected.

## Observations without a run of their own

What the code does in these places contradicts nothing written down, or lies outside of what a shipped
analysis does; the models contain it where they can, and the properties then say where they stop.

Some properties are about what surrounds a fault and are no evidence against it: `MapsReadAsMeant` leaves
out the granules that faulty range calls covered, `FusedCellsKept` the declarations that confuse the
fusion, `NoOrderInvented` the accesses whose clock has wrapped or was overwritten.

*Maps and sets.*
- The plain `add_range` shifts its key twice; plain `remove_range`, `cpy_range`, `move_range` and
  `or_range` never advance it, and `remove_range` stores an uninitialised value. The fused ones are right.
- `cpy_range(k1, k2, n)` copies from `k1` to `k2` on a page table, but from `k2` to `k1` on the linear
  shadow, where it also counts `n` bytes instead of `n` cells.
- A range that starts inside a granule may miss its last granule.
- `bottom::map::remove_range` calls `remove` with its own lock held and never returns. No generated
  handler calls it on a bottom map.
- `-` on sets of either kind cuts the nodes of a copy in some branches, so that nothing is removed;
  `&` of bottom sets keeps the nodes behind the right list's last; `rt_lib::set`'s `operator|` is its
  `operator&`; `&=` of a universe with a bottom set forgets what was removed from the universe. `find()`
  in a universe is false where no node is, `operator&` of two universe bitmaps does not end when the
  left list is behind. `grade` keeps account of these.
- `small_hash_map` (`bit_vector.h` 197) probes with a precedence slip; nothing uses it.

*Passes and generated code.*
- `x = (x + a) & b` becomes `x += (a) & b`: the climb takes parentheses for the top.
- `CopyKeepsMeaning` reads `|`, `-` and `&` as the operators of sets, which is what the rewriting counts
  on. The runtime's `rt_lib::set::operator|` is its `operator&`, so that `x = a | x` and the `x |= a` it
  becomes differ there. The levels of `^` and `*` are left out; the case of `^` (723) stores the wrong
  parent.
- Two inner maps of one group with the same scope and key lose their field, and the generated code does
  not compile. A map whose value has the C type of a fused map's field is taken for the fused map.
- If what is looked up twice is first met inside a branch, a path may unlock without having locked, lock
  twice or not at all; a reference may be declared after its use. Look-ups before the first mark are not
  under the lock. If a universe mark and a bottom mark are both there, the universe one becomes the lock
  even when it is the later one.
- A handler's returned expression is evaluated after the unlock, and only the first `return` unlocks.
- A handler with two synchronised parameters would take two pool locks in the order of its parameters,
  and the same lock twice if both fall on it. No shipped analysis declares one.
- `bool(unit['sync'])` is true for the string `"false"`; nothing depends on it today.
- The compression of lock ids searches a `std::map` without its lock while others insert: a data race on
  a tree. It has no defined set of outcomes to choose from and is not modelled; lock ids are taken to be
  right. They are also made from the low 32 bits of the lock's address.

*Analyses.*
- `onFree` after `free()`: the block may have been given away, its new size is dropped and the cells of
  its new owner are erased. `Handlers` shows it by excluding that case from `FreedInOrder`.
- `all_in_new.txt` 142-148 removes the entry of `addr2size` and then uses it: the two look-ups share one
  reference, which dangles by then.
- Readers of an rwlock overwrite each other's row in `L` (line 20): what the first one did is not
  ordered before the next writer, and a reader that comes while another leaves is given an order that
  does not exist. `OrderKept` counts on nothing that readers leave, `NoOrderInvented` is about mutexes.
- A clock wraps after 32767 unlocks (lines 5-8, 21). From then on the thread's stamps are below what the
  others know of it, and all its accesses seem ordered before theirs.
- When `onCreate`'s row (65) overwrites what the new thread has counted meanwhile, its clock falls back:
  later accesses carry a stamp that whoever took its lock already covers. Before its first count a
  thread's stamp is 0, which every row covers.
- `W` holds a clock without its thread, and lines 32-33 give the first reader's entry the second
  reader's clock: comparisons mix clocks of different threads.
- Ids of threads are never given back, and a reused `pthread_t` inherits everything. The models give
  each thread an id of its own.
- Recursive mutexes are recorded once and forgotten at the first unlock; trylock and timed locks are
  not instrumented. The models' programs use plain locks.

## Not modelled

- *`add`, `remove` and `get_size` of the tables*: a size counter that is not atomic, which no generated
  handler reads. *`or_range` on a page table, sized reads of several cells*: they only combine cells that
  the modelled operations show right.
- *Thread-local thread counter*: one atomic increment.
- *Lock-id compression*: see above.
- *Start-up*: `initEraser()` tests and sets a plain flag; two threads in it at once have no defined
  outcome. What it leaves behind is the initial state of `ThreadId` and `Handlers`.
- *Instrumentation pass and metadata stacks*: LLVM IR rewriting. The order of program steps and handlers
  it establishes is in `Eraser`, `FastTrack` and `Handlers`; what travels through thread-local arrays
  between instrumented code and other code is not.
- *Lexer and grammar, printing of the tree*: sequential, no state worth exploring.
- *What the handlers of the taint, use-after-free, all-in-one and memory sanitizer analyses compute*:
  values of metadata; their containers and locks are those modelled.
- *libc interceptors, build files, lists of functions*: derived from compiler-rt, or configuration.

Worth doing next: the metadata stacks, as a model of calls that do and do not pass through instrumented
code.
