# TLA+ model of the learned index (AIDEL / FINEdex)

This directory models the index in `src/`: a *learned* ordered map from keys to
values. A read-only trained part tells where a key should be; what is inserted
later goes into small *level bins* hung between the trained keys, and a bin that
grows too large is trained in turn and replaced by a model. Modules are checked
with TLC on small instances; the theorems in `*Proofs.tla` are proved with
TLAPS for every value of the constants.

Run one check with `tlc -config LevelBin.cfg MCLevelBin`, one proof module with
`tlapm AidelModelProofs.tla` (from nothing, minutes for each of the larger ones).

## 1. The system

| Component | Code | State | Operations | Works with |
|---|---|---|---|---|
| AIDEL | `aidel.h`, `aidel_impl.h` | `aimodels`, `model_keys` (the last key of each), `cht` over `model_keys` | `train`, `find`, `insert`, `update`, `remove`, `scan` | picks an AidelModel with `find_model` and calls it |
| AidelModel | `aidel_model.h`, `aidel_model_impl.h` | sorted `keys`, `vals`, `valid_flag`, one slot (`mobs`) per gap | `con_find_retrain`, `con_insert_retrain`, `update`, `remove`, `scan`, `resort` | PlexModel to predict, LevelBinCon or a further AidelModel in each slot |
| model_or_bin | `aidel_model.h:18` | a spin lock, `isbin`, the bin or the model | `lock`, `unlock` | |
| LevelBinCon | `level_bin_con.h` | one root of separators and child arrays in a chain, `is_retraining` | two protocols: the *retrain* one (sequential, under the slot's lock) and the older *con* one (its own locks and versions) | |
| PlexModel | `plex_model*.h`, `plex/ts/` | a greedy spline and a compact history tree over its points | `train`, `predict` | |
| CHT | `cht/`, `plex/ts/ts_cht/` | a table of a tree flattened; built in two phases or in one pass, in breadth-first or cache-oblivious order | `AddKey`, `Finalize`, `GetSearchBound` | |
| RadixSpline | `plex/rs/` | spline, radix table, and a multimap of sorted data over them | `AddKey`, `Finalize`, `GetSearchBound`, `lower_bound`, `find` | not used by the index |
| stx B+ tree | `stx/btree*.h` | nodes, root, leaf chain, counters | `insert`, `operator[]`, `erase`, `bulk_load`, copying, dump and restore, lookups, iterators | a vendored library, included by nothing else |
| FINEdex, LRModel, PGM | `finedex*.h`, `lr_model*.h`, `piecewise_linear_model.h`, `levelindex.h` | the older index: linear models, their segmentation, a directory of up to three levels | as AIDEL | |
| AtomicVal | `util.h:257` | a value or pointer with a status word (version, lock, removed, pointer) | `read`, `update`, `remove`, `replace_pointer` | not used by the index |
| drivers | `finedex_*.cpp`, `function.h` | `running`, `ready_threads`, a throughput per thread | start, wait, run, join | AIDEL |

How they interact: a driver trains an AIDEL, starts threads, and all of them
call `find`, `insert`, `update`, `remove` and `scan` at once. AIDEL's own arrays are
immutable after `train`. An AidelModel's `keys` are immutable too; `vals` and
`valid_flag` are read and written by all threads without a lock; a slot is
created by whoever inserts into it first and from then on is used under its
`model_or_bin` lock, which stays held while the call goes on in a nested model.

What is hard here: unlocked reads and writes of an array entry; the creation of a
slot, which is checked and published in two steps; a bin replaced by a
model while others wait for its lock; locks of several levels held at once; the
shape of a bin after long mixes of insertions (which borrow, split, and update
separators) and removals (which unchain and free arrays).

What makes each part correct:

- *LevelBinCon*: it is a map (each call answers as a map would, and changes only
  its key; the code keeps this until a removal breaks the root); root, child arrays and
  chain describe the same sorted data; what it hands to training is all of its data,
  sorted; whoever gives an array back is the only one that knew it.
- *AidelModel*: every answer was true at some moment of the call; only calls on a
  key change the key; one thread at a time in a slot; no thread sees a bin that
  is retraining; calls return.
- *AIDEL*: `find_model` and `scan` choose the same model, the one the key was trained
  in; `scan` returns consecutive entries; training and scans end.
- *CHT, PlexModel*: the bound starts at or before the position of the key; the
  spline keeps its error; `predict` is exact for stored keys and names the
  predecessor for all others; building ends.
- *The parts that could replace these*: a tree built in one pass or laid out for
  caches answers as AIDEL's own; the radix spline's multimap finds the lower bound;
  FINEdex's segmentation cuts exactly where no line fits any more; every search and
  every level index finds the first key that is not smaller.
- *B+ tree*: after every operation nodes are half full, separators are the last keys
  below them and the leaf chain follows the tree; it is a sorted sequence of entries.
- *AtomicVal*: every read returns a value the cell held during the read.
- *drivers*: no thread works before all are ready; the main thread joins them all.

The full list of components, with those that are not modelled and why, is
`components` in `PROJECT.json`; `hazards` there names the lines where each of these can
go wrong.

## 2. The modules

| Module | Models | Uses | Checked by |
|---|---|---|---|
| `BinMap` | what a level bin promises its caller | | property of `LevelBin` |
| `LevelBin` | `LevelBinCon` under the slot's lock (retrain protocol) | `BinMap` | `MCLevelBin` |
| `LevelBinProofs` | theorems about it, among them the refinement | `LevelBin` | TLAPS |
| `AidelModel` | arrays, slots, retraining, nested models, threads | `BinMap`'s promise, as a map | `MCAidelModel` |
| `AidelScan` | `scan` of a model, on the states of `AidelModel` | `AidelModel` | `MCAidelModel` |
| `AidelModelProofs` | theorems about `AidelModel` | `AidelModel` | TLAPS |
| `Basics` | lemmas: induction up to a bound and walks, by counting finite sets; sequences with one entry more or less, and joined ones | | TLAPS |
| `ConBin` | `LevelBinCon` with its own locks and versions | | `MCConBin` |
| `ConBinProofs` | theorems about its locks | `ConBin` | TLAPS |
| `ConBinRootProofs` | theorems about structure and answers below a root, and about stored keys with and without one | `ConBinProofs` | TLAPS |
| `AtomicCell` | what `AtomicVal` promises | | property of `AtomicVal` |
| `AtomicVal` | `AtomicVal` access by access | `AtomicCell` | `MCAtomicVal` |
| `AtomicValProofs` | theorems about it, among them the refinement | `AtomicVal` | TLAPS |
| `Cht` | the history tree: operators on a builder and a tree | | with `Aidel` and `Plex` |
| `ChtBuilders` | the single pass and the cache-oblivious order | `Cht` | with `AidelVariants` |
| `LevelIndex` | the searches of `util.h`, level indexes | | with `AidelVariants` |
| `Aidel` | training of an index, `find_model`, `scan` | `Cht` | with `AidelVariants` |
| `AidelVariants` | other builders, searches and FINEdex's `find_model` beside AIDEL's | `Aidel`, `ChtBuilders`, `LevelIndex` | `MCAidel` |
| `Plex` | training of a model, `predict` | `Cht` | with `RadixSpline`, `Segmentation` |
| `PlexProofs` | theorems about its spline | `Plex` | TLAPS |
| `RadixSpline` | radix spline and multimap beside the model's spline | `Plex` | `MCPlex` |
| `Segmentation` | the optimal piecewise linear model of FINEdex | `Plex` | `MCPlex` |
| `SortedEntries` | what set, multiset, map and multimap promise | | property of `BTree` |
| `BTreeOps` | the B+ tree: nodes, searching, inserting | | with `BTree` |
| `BTreeErase` | erasing, merging, shifting | `BTreeOps` | with `BTree` |
| `BTree` | loading, copying, `verify`, the four facades | `BTreeErase`, `SortedEntries` | `MCBTree` |
| `Driver` | the three programs' main thread and workers | | `MCDriver` |
| `DriverProofs` | theorems about them | `Driver` | TLAPS |

Two conventions hold everywhere. Sequences are 1-based: slot `s` of the code is
slot `s + 1` of a sequence (`Cht`, `Aidel`, `Plex` and the modules beside them keep positions and node numbers
0-based as *values*, since the code stores them). A definition whose comment
starts with `Fault:` is a wrong version of the definition after it: no specification uses
it, it stands for the bug that the property named with it in `PROJECT.json`
(`mutants`) must notice.

**LevelBin.** State: the child arrays (`slotkey`, `slotdata`; the length is `slotuse`), the
chain (`prevbin`, `nextbin`, `headbin`, `tailbin`), the root (`rootkey`, `children`, empty while `m_root`
is null), `is_retraining`, and the addresses allocated. One call is one action,
because every caller holds the slot's lock; the actions are the paths of
`con_insert_start_retrain` (duplicate, first array, room, borrow in two shapes,
split with and without a root, retraining), `remove` (in the array, the only
array, one of several), `find`, `update` and the refusals while retraining.
Once the root points to a freed array (finding `bin_self_check`) the program
reads freed memory; operations are defined only while `Intact` holds, and so are the
properties. `scan` changes nothing and is the operator `ScanFrom`.
`BinMap` is the abstract map and `ImplementsMap` the refinement. The map is what searches find:
a key has the value of its entry in an array that a search for it is routed to (`Contents`, `Holders`, `Reached`);
an array that is allocated but that the root has dropped does not count. With it
the code keeps less than a map: the removal of that finding forgets, beside the key it names, every greater key.
`BinMap` says just this (`MapForget`, `broken`) and promises nothing of what comes after.

**AidelModel.** State: per model its array (`arr`, `valid`, `vals`) and slots (`mobs`); per
`model_or_bin` record whether it holds a bin, the bin as a map, `retraining`, and the
owner of the lock; per thread a program counter, the call, the model it is in
and the locks it holds. One action per memory access that another thread can
see: reading and writing `valid_flag` and `vals` (the two plain stores of an insert
that revives an entry in either order), reading a slot, creating, checking
again, publishing, locking and unlocking. What happens under a slot's lock is one
step, for nobody else looks: the bin's operation (as `BinMap` says while it promises a map: keys that a removal loses
inside a bin are the subject of `LevelBin`), and
retraining with the publication of the new model. `predict` is taken to find the
position of the key: that is what `Plex` shows. `seen` and `lost` are history variables.
`seen` collects what the index held for the called key during the call; `lost`
says that a slot in use was overwritten, which the code does when two inserts
create the same slot at once (hazard `aidel_model_impl.h:439`).

`AidelScan` adds `scan`: an operator that walks positions, slots and nested models as the code does, evaluated at
every state. A scan takes no lock, so it may meet any of these states, but here it sees one of them from
beginning to end. What lies behind the last entry of a bin, which the code pushes when nothing in it is at or above the start key (a fresh
bin among them), is `Stray`. `ScanMeetsKeys` says which keys a scan meets. It does not say that they are sorted: the code pushes
`keys[pos]` before the smaller keys of the slot in front of it, so that a scan with a limit can leave smaller keys out; nor
that removed keys of the array are left out, whose flag is not read.

**ConBin.** The older protocol: `con_insert` and `con_find` with lock bytes and versions,
called by several threads with no lock around them. A writer's reads, waits,
locks and unlocks are steps of their own; what it writes between its last lock
and its first unlock is one step with the version increments, because every
reader checks lock and version afterwards. Readers take one step per access.
A check made before a lock is taken, or before the store it allows, is a step of its own: the room of the left
neighbour (`ChooseLeft`, then `LockLeft`, then `Borrow`), the room in the root (`NewChild`, then `Split`), that there is no first array
(`NewHead`, then `PublishHead`) and no root (`LookAgain`, then `StoreRoot`). A thread whose check no longer holds
when it acts on it (`Stale`) would write behind the end of an array, or over a root that is there; it takes the step `Overrun` and stands
there for good, with the locks it has. The others go on. `Defined` says that no thread stands there.
Without a root the code goes wrong in several ways, all in the list of hazards;
the answers, the structure and with it the capacities and `Defined` are claimed for bins that had a root from the
start (`rooted`); exclusion of writers and that nothing leads to an array that was given back (`NothingDangles`) for all;
that no key is lost for all, too, as long as `m_headbin` was not overwritten (`lost`) and no thread has acted on an
outdated check. `moved` marks readers that left the root
before a borrow moved keys to the left, or before a split they could not
notice.

**AtomicVal.** Two cells, one of which may point to the other; one step per access to the
status word and per word of the value. `Implements` is the refinement of the atomic
cell; `read_ignoring_ptr` looks at the lock bit of its first status only, so it
maps to the weaker `read_words`, each word of which was held.

**Cht, Aidel, Plex.** `Cht` has no state: a builder is a record and a tree a sequence of
nodes, and `SplitNode` is one turn of `BuildOffline`'s queue. Both users build the tree
one node a step, so that endless building is a behaviour. Shifts by negative
counts are taken modulo the word, as the processor does. `Aidel` trains chunk by
chunk, with one model's training as one step (its outcome is `Plex`'s: fails an
assertion, writes outside an array, or done), builds the tree over the last
keys, and serves scans; models hold the keys they were trained with, since what happens to
them later is `AidelModel`. `Plex` adds key after key to the corridor, computes all
tunings, takes one of the best, builds the tree and is then asked for every
key. Coordinates are integers and comparisons of slopes and costs exact; the
interpolated position, which the code computes in doubles and cuts to an
integer, may come out one lower when it is a whole number. `pc = "aborted"` is a failed
assertion, `pc = "undefined"` an access outside an array.

**ChtBuilders, LevelIndex, AidelVariants, RadixSpline, Segmentation.** Sequential code
without state of its own between calls, written as operators: a pass over the keys
is a fold, a builder a record. They extend `Aidel` or `Plex` to be evaluated on the keys
those are given, in the state in which training is about to begin, and are compared with
what these modules compute or with a definition that looks at all keys at once.
`AllKeys` grows the single pass's tree key by key; `Prune` visits its nodes and turns
small ones into leaves; `Fill` is the recursion that numbers the nodes by halves of levels, which
takes the nodes of a level below one node to be neighbours. `Covered` and `FirstTurn` are the two
loops over a hull; the code's `lower_start` and `upper_start` are not kept, what lies before
them is dropped. Slopes are compared as the code does (products of integers); the middle line, there a
`long double`, is an exact quotient.

**BTreeOps, BTreeErase, BTree.** State: `tree`, a record with the heap of live nodes (level, keys,
data, children, leaf links), root, head and tail of the leaf chain and the counters
`m_stats`; `kind`, the facade; `answer`, what the last call returned. Recursive member functions
are recursive operators that return the tree and what the code returns by reference
(the split node and its key) or as flags (`result_t`: not found, merge, new last key). Each node on
the way up is one call of `AddChild` or `AfterChild`. A failed `BTREE_ASSERT` makes
`tree.sane` false and the operators go on, as release builds do. One public call is one action,
since a tree has no concurrency. `SetNext`, `MultisetNext`, `MapNext` and `MultimapNext`
are the facades; `EraseAt` is an erase at any position an iterator can have. `ImplementsEntries`
is the refinement of `SortedEntries`, with the leaf chain as the entries.

**Driver.** A program is a sequence of phases: a *window* (work while `running`) or a
*batch* (a fixed number of calls). `ready` is not reset between phases, as in the code. Every second a worker's
throughput is read for the figure that is printed (`Sample`) and again for the next second's difference
(`Remember`), with calls in between; `shown` adds up the figures.

## 3. What is checked

| Run | Question | Instance | Result |
|---|---|---|---|
| `bin` | Is a bin the map of `BinMap`, are root, arrays and chain one structure, are scans exact, is retraining's input right? | 6 keys, 2 values, 3 arrays of 3, root of 2 | holds |
| `bin_self_check` | Does `self_check` always pass? | as above, 1 value | violated: finding |
| `model` | Are slots exclusive, answers true, keys changed only by their calls, and all met by a scan? | 2 threads, 2 calls each, 3 keys, 4 records | holds |
| `model_live` | Does every call return? | 2 threads, 1 call each, 3 records | holds |
| `con` | Are writers exclusive, keys kept, answers true, the structure whole and every check still true when it is acted on? | 2 threads, 2 calls each, 5 keys, 3 arrays of 2, root of 2, seven starting shapes | holds |
| `con_live` | Does every call on a bin with a root return? | 2 threads, 1 call each | holds |
| `con_self_check` | Does `self_check` pass between calls? | 2 threads, 2 calls each, from one array or none | violated: finding |
| `cell` | Is an `AtomicVal` an atomic cell? | 3 threads, 1 call each, 2 values of 2 words, a pointer or none | holds |
| `driver` | Start together, end together, report what was done, end | 3 workers, batch of 2 then window of 2 s | holds |
| `aidel` | Do training, tree, `find_model` and `scan` fit together, and end? Do the other builders, searches and FINEdex agree? | every subset of 12 keys in 0..110, chunks of 2, 16 bins | holds |
| `plex` | Does the spline keep its error, does `predict` find every key, does building end? Are radix spline and segmentation exact? | every subset of 9 keys in 0..108, error 0 and 1 | holds |
| `btree` | Is a tree valid after every operation, do lookups agree, is it a sorted sequence? | leaves of 4, inner nodes of 2, 3 or 5, ten trees of up to 45 entries, one to three operations | holds |

**Bounds, and why they are enough.**
*Capacities* are as small as lets everything happen: two separators and arrays of
two or three keys still give every path of insertion (room, borrow at either
end, split with and without a root, full root) and of removal (first, middle,
next-to-last, last child). A root of *n* separators has at most *n* + 1 arrays, so
three addresses never run out. `RootSlotMax <= ChildSlotMax` is kept, because the retrain
protocol tests a child's room against `rootslotmax`.
*Threads*: every conflict in the code is between two (a slot, a lock, a reader and
a writer); `cell` takes three because an update through a pointer, a replacement
of the pointer and a reader can meet.
*Calls* per thread (`MaxOps`) are bounded; two are enough for a call to meet what
an earlier one has left. Initial states include those an earlier phase can leave
(removed entries, a bin already filled, bins with one array or a root).
In `con` an outdated check is met at `borrow`: one thread fills the only array without a root, the
other fills and splits it and looks at the room to the left. For a second root, given back or stored over the first,
two threads must first publish two first arrays and then fill and split each, which takes three calls, three keys and four arrays from nothing
(an instance of 1.5 million states of its own); a root that is filled between the check and the split takes more still.
The theorems cover both.
*Records* in `model` (four): two slots created at once, one that is retrained and
one below it.
*Numbers* in `Aidel` and `Plex`: what counts is how the word, the number of bins and the
gaps between keys are related. `WordBits = 9` with 16 bins in `Aidel`, since 9 and 4 are
coprime as 64 and 7 are; the tree then ends only after several levels of shifts
taken modulo the word, which the keys 67, 70, 73 reach. `WordBits = 8` in `Plex`, where the number
of bins is chosen by the tuning and a shift that goes round the word meets
even logarithms as it does with 64. Keys come in near groups with gaps between, so
that splines have several segments, and some sets span a power of two.
`RadixSplineFinds` takes tables of 1, 2 and 4 bits, keys in the wrong order and repeated keys; `SegmentsFit`
epsilon 1 and 2, with and without repeated keys; `BuildersAgree` every number of bins that divides the
range, for with others a leaf of the single pass can cover more keys than its error.
`FewPoints = 2` (32 in the code) makes both searches for a segment happen.
`MaxTreeError` equals the number of keys, beyond which errors make no difference;
`MaxNodes` bounds a tree that does not end; those that do have fewer nodes, or `BuildEnds` and `CallsEnd` would fail.

*Trees* in `btree`: what an operation does depends on how full the nodes along its path and their
neighbours are. The starting trees are loaded in bulk and then thinned until every leaf is at the minimum,
or on one side only, in up to four levels; every key in turn is then inserted or erased, so that each
case of splitting (with the new child left, right and between), merging and shifting
occurs at leaves and inner nodes, and two operations meet a tree the first has changed.
A leaf has four slots, because the assertions of `merge_leaves` and the underflow of a leaf need
a minimum of two; the code's own traits give eight or more. Inner nodes of five are needed
for a shift of two children at once.

`CHECK_DEADLOCK FALSE` everywhere, for the systems stop by design: calls are bounded, a bin
that retrains or is no longer intact is left alone, training ends. Where a stop would be
a fault (a lock nobody releases) a liveness property asks for it. Symmetry
permutes addresses, threads and values in safety runs only; keys are ordered and never
permuted.

**Fairness.** Weak fairness of each thread's steps: a thread that can take a step
and is not prevented for ever takes it, which any preemptive scheduler gives.
No strong fairness is assumed. A spin lock is then live only because the calls
that compete for it are bounded: with endless calls of others the
compare-and-swap loops of the code can starve. Calls themselves are not fair:
nobody has to call. In `Driver`, main and each worker are threads; the liveness property
names the case the code does not exclude, a worker that never saw
`running` set (`missed`). In `Aidel` and `Plex` one sequential program is fair to itself; a scan may
go on for ever only where its model has nothing to give. `CallsReturn` of `AidelModel` takes
it that training ends, and `Plex` (`BuildEnds`) names the chunks for which it does
not.

**Findings.** Two runs end in a violation, each of a statement of the repository:

- `bin_self_check`: `remove` leaves the root as it was when the next-to-last child becomes empty,
  but counts one slot less: the root keeps the freed array and loses the last one.
- `con_self_check`: an insert that started without a root counts arrays along the chain; a
  split of one it has passed makes it overwrite the wrong separator.

That building a model's tree need not end is an exception `BuildEnds` names: for keys 0, 1, 7, 55, 106
the same node comes again for ever.

What the code does in other odd cases (a chunk of one key, keys spanning a power
of two, a scan past the end of a model, two threads creating one slot, repeated largest keys in a radix spline) is part of the
models, as outcomes or history variables that the properties name; see
`hazards`.

## 4. What is proved

Each theorem holds for every value of the constants that meets the assumptions of its module; the
property it states is also checked on the small instance of section 3.

| Module | Theorem | States |
|---|---|---|
| `AidelModelProofs` | `TypeCorrect` | `Spec => []TypeOK`, with it that a deleted record is never left locked |
| | `SlotsAreExclusive` | `Spec => []MutualExclusion` |
| | `RetrainIsNeverSeen` | `Spec => []NoRetrainSeen`, the assertions after find, update and remove |
| | `KeysAreFound` | `Spec => []KeysAreRouted` |
| | `KeysChangeInCalls` | `Spec => OnlyCallsChangeKeys` |
| | `CallsAnswerTruly` | `Spec => []AnswersAreTrue` |
| `LevelBinProofs` | `BinIsStructured` | `Spec => []Structure`: types, capacities, `self_check`, chain and root |
| | `StoredKeysAreRouted` | `Spec => []KeysAreRouted` |
| | `BinIsTheMap` | `Spec => ImplementsMap`: a map until the root breaks, and what is forgotten then |
| | `RetrainingHasItsInput` | `Spec => []RetrainInput` |
| | `ScansAreExact` | `Spec => []ScanIsExact` |
| `AtomicValProofs` | `PointersAreAlwaysSafe` | `Spec => []PointersAreSafe`, the assertions about pointers |
| | `AtomicValIsAtomic` | `Spec => Implements`: an atomic cell |
| `ConBinProofs` | `WritersNeverMeet` | `Spec => []WritersExclude`, with a root and without |
| | `FreedIsGone` | `Spec => []NothingDangles`, from any start |
| `ConBinRootProofs` | `BinKeepsItsStructure` | `Spec => []Structure`, with the capacities and no outdated check |
| | `FindsAndInsertsAreTrue` | `Spec => []AnswersAreTrue` |
| | `NothingIsLost` | below a root no step loses a stored key |
| | `KeysNeverLeave` | `Spec => KeysStay`, from any start, up to an overwritten `m_headbin` or an outdated check |
| `PlexProofs` | `SplineIsWithinError` | `Spec => []SplineWithinError`, with the assertions of the pass |
| `DriverProofs` | `WorkersStartTogether` | `Spec => []StartTogether` |
| | `NoWorkerIsLeft` | `Spec => []WorkersAreGone` |
| | `ReportsAreTrue` | `Spec => []ReportIsTrue` |

**Assumptions.** `AidelModel`: keys are integers, finitely many, the array's keys among them (the
finiteness bounds the number of slots of a model); there are finitely many records, as memory has, so that the
search for a key comes to an end; the null values are none of the real ones. `LevelBin`: keys are integers, the null
values are none of the real ones, there are finitely many addresses, a root has room for one separator and an array for two keys, and `rootslotmax` is
not greater than `childslotmax` (the code tests a child's room against the former). `Plex`: keys are finitely many
natural numbers, and so is each error. `AtomicVal`: a value
has at least one word; the inner cell's name and the answers are no values. `ConBin`: keys are integers; there are
finitely many addresses, and neither null nor the root's lock is one of them; a root has room for one separator and
an array for two keys; `StartAssumption` says what a starting shape is: ascending arrays that fit, more than one of
them only if they are not empty and in order. `Driver`: finitely many workers, at least one, and at least one
phase. `MaxOps`, `MaxCalls` and `Batch` may be any numbers: the bounds of section 3 bound no theorem.

**Exclusion by locks.** Mutual exclusion is not inductive: a lock says that someone may be inside, but not who, and a thread that
creates something comes inside without taking a lock, by publishing what nobody could see before.

- `AidelModelProofs`: a held lock is owned and held once (`HeldInv`); whoever is inside a slot holds that slot's lock as its
  innermost (`InsideInv`); a record not yet published is locked by its creator, is in no slot,
  and is what no other thread waits for (`PrivateInv`); slots and waiting threads
  refer to allocated records only, so that a fresh one is in neither (`AllocatedInv`). A bin that is
  retraining has a thread at `retrain` inside it (`RetrainInv`), so whoever locks the slot later finds a
  model there. `CallInv` gives a running call a key, and so its slot.
- `ConBinProofs`: a lock is a byte and has no owner, so ownership is defined from where each thread is (`Owns`: what it changes, and
  what it has still to unlock), and `LockInv` says that owned locks are set and owned once. `Named` are
  the arrays someone can come to; a new array that is not yet linked is not among them (last line of `ThreadOK`), so
  that it can be given back.
  `RootInv` says the same of the root, for bins that had one from the start. A step of one thread
  preserves what the others know if it `Keeps` their locks, the arrays they are at, and the names (`OtherThreadOK`,
  `LocksKept`), so each action needs a lemma about the thread that takes it and the facts of `Keeps` only.
- `AtomicValProofs`: `LockInv` names the one that may change the outer cell; whoever holds the inner lock holds the
  outer one too.
- `DriverProofs`: `StartInv` says what `ready_threads` counts in the first phase, `JoinInv` who has been joined,
  `CountInv` by how much a count lags behind the calls.

**The refinement of `AtomicVal`.** `PointerInv` and `CellInv` say what lies in both cells with and without a pointer; `FetchInv` that what a replacement
has fetched cannot change; `ContentInv` that the atomic cell's content is what the cell holds but for the words a
writer has still to write; `ReadInv` that a reader whose version is still the cell's has copied what is there. `Steady` is what each step
owes a reader: the version grows, or nothing has changed. `SeenInv` adds what a call has seen since it began; each of
the nineteen actions is then one step of the cell or none (`CellStep`).

**The structure of a bin.** In `LevelBin` nothing interrupts a call, but what a call finds is what any number of earlier ones have left.
`Row` are the arrays from left to right, with a root or without. `RowInv` says that they are all there is, that each ascends, and all keys of one are
below all keys of the next; `ChainInv` that the chain runs through the row. Neither holds once the root
points to a freed array, so the invariant has two parts: types and capacities, and that no key is in
two arrays (`Apart`), always; `RowInv` and `ChainInv` while `Intact`. An operation begins at a routed array
(`RouteIs`: its slot is the lower bound of the key among the separators; `OnlyWhereRouted`: the key is
nowhere else) and ends in one of a few changes of the row: a key put in or taken out, an array put in beside its left half
(`SplitStep`, `LinkKeepsChain`), an array taken out (`RowCloses`, `UnchainKeepsChain`), keys moved to the
left neighbour (`AppendToLeftStep`, `ShiftToLeftStep`); `LowerSplits`, `PutIn`, `TakenOut`, `HalvesAre` say what
these do to one ascending array.

**The refinement of a bin.** `Stock` is the bin as a set of entries. Each action has, beside the invariant, one fact about
it: `Adds`, `Replaces`, `Drops`, or that it stays what it is, also where keys move from array to array. While the bin is intact the separators ascend
(`SeparatorsAscend`), so that an entry is in an array its key is routed to (`HoldersAre`), and `ContentsIs` makes a function of the set, the
map of `BinMap`. `SearchIsRight` gives the answers of finds, and `IntactStep` maps each of the actions to one of the map's. A bin ceases to be intact in one
case only (`StaysIntact`): the array before the last loses its only key (`Gap`). For it `BreakStep` compares the routes on both sides: a search for a
key below the removed one ends where it did, since the separators before the gap are the same; one for the removed key or a greater one ends at the slot of the freed
array. `MapStep` joins the two cases.

**What a retraining and a scan of a bin find.** `RetrainInput` needs two facts beside `IInv`. `Filled`: below a root no array is empty, since a
removal that empties an array takes it out, and a split leaves both halves with keys (`HalvesAreFilled`; here two slots per array are
needed). `Retrained`: the flag is set only at a full root above a full array, and nothing changes them while it is set. So
there are at least as many keys as that array has, and one for each separator (`JoinIsLong`). `resort` and `scan` are folds: each
is a chosen function that meets an equation over sets of indices. `JoinExists` gives a function that meets it, so that the chosen one
does; `JoinIs` reads off the arrays joined one after the other, and `JoinAscends` carries over what `RowInv` says of them.
A scan begins in the routed array and walks the chain, as many steps as there are addresses: `ScanWalk` says
that it visits the rest of the row and then stays at its end, `RowIsShort` that it gets there (arrays of the row are distinct addresses),
`CutFrom` that what is cut off an ascending array from the lower bound of a key on is the smallest keys not below it, and `Between`, from the
separators, that no such key lies to the left of where the walk began. The property asks for one to three keys; `ScanStep` holds for
any number.

**The structure of a bin without its lock.** Below a root `Structure` is one ascending sequence cut by separators. It is proved from `Below`, which adds that separators ascend and
that no array is empty or in the root twice, and from what the holder of the root knows until it changes
something (`AtSlot`: its slot is the lower bound of its key, the array is the one of that slot, the neighbour
has room). The lemmas about borrowing and splitting (`BorrowFits`, `HalvesFit`, `SplitFits`) go through the
arrays around the slot. `NothingStale` is where the capacities come from: with a root from the start everyone who adds to an array or
to the root holds the root's lock, so the room that was seen is still there, and `OnlyOverrun` that no other step
leads to `overrun`. Where a statement about sequences would need induction (the lower bound, keys in one
array against keys in a later one), `NoGaps` and `OneByOne` of `Basics` take its place: a set of numbers from 1 on that is
closed under adding one has as many members as its interval, and the cardinality of finite sets is in the library.

**What is stored in `AidelModel`.** `KeysAreRouted` says where the search for a key ends, but a step changes where it comes by, so
the invariant (`RouteInv`) is about its way. `OnPath(m, k)`: every set of models that has the top model in it and that
the search for `k` does not leave has `m` in it. The way only gets longer (`Grows`): publishing puts a bin where the search
ended in an empty slot, retraining replaces the bin where it ended by a model. Then a running call is in a
model on its key's way, and has the record of its key's slot (`WayOf`, not so once a slot was overwritten, hence `~lost`), and each entry of an array
or a bin is on the way of its key (`WayInv`). `PlaceInv` says in which models a call can be and what it is about; `BinInv` that an
untrained record has no array, a trained one no bin, and a record that is not published nothing at all. `DepthInv` gives the
models depths that grow along the slots: from it, and the finite number of records, `LeafEnds` shows that `Leaf`, a
recursive function that takes as many steps as there are records, returns the one model on the way that the
search does not leave. It uses the lemmas of `Basics` about walks, which say what repeating a step leads to without induction over data.
Given the invariant before and after a step, `PublishKeeps` and `RetrainKeeps` compare what is held on both sides,
`FlagServes` and `BinServes` name the call behind a change. For the answers, `SeenOf` says what a call that is about to answer has already seen;
`EntrySees` and `BinSees` that what it reads of an array entry or under the lock of a bin is what the index holds at that moment.

**The corridor of a spline.** A knot is drawn without a look back at the keys since the last one, so the invariant has to carry what they
allow. `CorridorInv`: seen from the spline's last point, `upper` is nowhere steeper than the upper limit of any
key since, `lower` nowhere flatter than their lower limits, and the last key lies between the two. A key that does not cut
the corridor moves a limit to its own only inwards (`NarrowedCorridor`), since comparing slopes by products is transitive
(`TurnChains`); a knot at the last key is then within the limits of all keys before it, which is to be within the error of each
(`LimitsMeanClose`). `SteeperRises` gives the assertion that the upper limit is never below the last point.
That the sorted keys are an ascending sequence, where `Sorted` defines them by rank, is a count of finite sets (`SortedIs`).

**Answers of a bin without its lock.** `con_find` holds no lock, so what it has read may change. `FindKnows` says for each of its steps what is still
true: while the version it remembers is the root's, its slot is the one of its key; while it is the
array's, what it has read of that array still holds; the array it is at holds the key or lies to the left of it (`Right`), from where the chain
leads on to it. `Effects` is the guarantee every step gives to the finds of others: no key is lost, versions never
fall, who changes separators counts up the root's version, who takes keys from an array counts up that array's,
and whoever moves keys to the left marks the finds it may have misled (`moved`). `OthersAnswer` derives from it
that their knowledge lasts, and each action is shown to have these effects. `Reach`, the chain from `head`, is a
recursive function: `ReachIs` gives the function that returns the arrays of the root from a place on, shows that it fits the definition at
every place, and compares the two by `OneByOne`.

**What is stored without a root.** A bin that was empty or one array has no `Structure` to rely on: several inserts
may find its first array full before there is a root, and the root is published while its second array is still in no chain. So
`KeysStay` is proved from the chain alone. `ChainIs`, by a walk through sets of arrays, says what the recursive `Chain` is: the least set with `head` in it
that no link leaves (`Linked`). A step that sets a link is then judged by a set that remains linked, without following the chain:
a new array to which nothing leads yet can be left out of it (`NewChildStays`, `GivenBackStays`), and a link to an array
that leads where its left neighbour led only adds to it (`LinkGrows`). The invariant `LinkInv` has three parts. `KidsPlaced`: a child of the root is in the chain or waits
to be linked by an insert at `halve` (`Pending`); such an insert holds the array's lock, so whoever gets a lock finds its array
linked (`LockedIsLinked`). `Knowing`: an insert that reads the version of an array, waits for its lock or holds it is at an array of the chain (below a root, from the lock on). `Halved`: between its copying
and its linking, a new array holds exactly the upper half of the one being split and its link; without it the final step, which writes both
halves, could drop keys (`HalvesKeep`). The first two hold only until `head` is overwritten, which is what `~lost` in the property stands for.
The locks of a thread at `overrun` stay set and nobody owns them; what it would write is not modelled, and so `KeysStay` says
nothing from there on. `NothingDangles` needs no such exception: it is about pointers, and follows from what `IInv` says of each thread and of `Named`.

**Only model-checked.**

- Liveness (`CallsReturn`, `Finishes`, `CallsEnd`, `BuildEnds`): the prover does not do liveness under fairness.
- What recursive functions compute on data (`Descend`, `Bisect` and all of `BTreeOps`, `BTreeErase`, `ChtBuilders`, `LevelIndex`)
  would need induction over data: so `ScanMeetsKeys` of `AidelScan` and the properties of `Aidel`, `AidelVariants`, `RadixSpline`, `Segmentation`, `BTree`
  (with its refinement `ImplementsEntries`) stay with TLC.
- The same holds for `SegmentIsRight` and `PredictIsRight` of `Plex`, which search a history tree. The bins of these trees, the steps of the
  bisection and the prefixes of the radix tables are powers of two besides, and no backend knows anything of `2 ^ k`, not even `2 ^ (k + 1) = 2 * 2 ^ k`.

## 5. What is not modelled

- `AidelModel::scan` over several steps of others: it walks bins and nested models without a lock while
  an insert may delete them; what it reads then is not defined by the code. It is modelled as one step.
- what a thread of `ConBin` writes when it acts on an outdated check (behind the end of an array, or a second root over the first), and
  what calls do to a `LevelBin` whose root points to a freed array: neither is defined by the code;
- `AidelModel::con_insert` and `con_find`, which no program calls; `LevelBinCon`'s side of
  them is `ConBin`.
- which value a find returns while an entry is revived or updated (`AnswersAreTrue` speaks of
  presence);
- rounding in doubles other than the one position down, and keys of 2^53 and more;
- `train` of FINEdex, which does not compile once it is instantiated (`plexmodel_type model();` declares a
  function, `key_type` is undeclared, and its include guard clashes with AIDEL's);
- LRModel, which is floating point throughout, `level_bin.h` and the copies of `plex_model*`, which are copies;
  the serializer of the radix spline;
- of the B+ tree: `swap` and the comparison operators, the erasure of a range (it aborts), and a stream that
  ends early while a dump is restored;
- `interpolation_search`, `cmpxchg` and the fences of `util.h`, which the index does not use;
- reading files, command lines, timing.

## 6. Plan

Done: the modules and runs above (the core first, then the parts that could stand in for it and the B+ tree), and the
theorems of section 4. In this order, next:

1. *AidelModel.* `scan` slot by slot beside inserts, with the outcome of reading a deleted bin as a
   nondeterministic choice; values as well as presence in `AnswersAreTrue`.
2. *Composition.* `Aidel` over `AidelModel` (an index of two models) and `Plex` as the `predict` it
   uses, with one abstract map as the promise of the whole.
