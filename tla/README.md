# Verification of ihtab

ihtab is a header-only library of hash tables in C and C++. This directory holds
TLA+ models of its code, the TLC configurations that check them on small
instances, and TLAPS proofs for every instance.

## The system

| part | source | state | operations |
|---|---|---|---|
| ihtab | `ihtab.h`, `ihtab.hpp` | `els_num`, one bin: dense `els`, `deleted` bitmap, groups of 8 tags and 8 indexes, `groups_mask` | `create`, `destroy`, `perform` (FIND, INSERT, DELETE), `rebuild`, `do_1`, `size`, `els_count`, light iterator; C++: forward iterator |
| ixhtab | `ixhtab.h`, `ixhtab.hpp` | a directory of bins, each with 16-bit indexes, a `mask` and a `depth` | `create`, `destroy`, `perform`, `split_bin`, growth in place, `do_1`, iterators as above |
| v0 tables | `ihtab-v0.*`, `ixhtab-v0.*` | as above; tags and indexes are two arrays, a deleted slot keeps its tag and has the index `INDEX_DELETED` | as above; INSERT uses slots of deleted elements again |
| group matching | in all eight headers | none | SSE2, NEON and SWAR versions of `match_mask`, `match_empty` |
| vmum | `vmum.h` | the factors | `vmum_hash64`, `vmum_hash`, `vmum_hash_randomize` |
| tests, benchmarks | `tests/`, `benchmarks/` | | drivers |

The library has no threads, no I/O and no persistent state. What is hard in it
is long sequences of calls: tags, indexes, the bitmap, the mask and the counter
are views of the same set of elements, `do_1` checks no bound and has no exit but
a match or an empty lane, and a rebuild or split replaces all of it in the middle
of a call. In vmum it is lengths and tails, and that one header compiles to many
programs which ought to compute the same hash.

## Modules

| module | models |
|---|---|
| `Bin` | the memory of one bin and what `do_1` does to one group of it; the parts of the bin invariant |
| `BinV0` | the bin of the v0 tables, and matching a group as one integer; extends `Bin` |
| `IHTab` | ihtab: `create`, `destroy`, `perform`, `rebuild`, `do_1`, and the caller's store through `*res` |
| `IHTabIter` | loops over an ihtab with calls between their steps; extends `IHTab` |
| `IHTabV0` | ihtab-v0, on `BinV0` |
| `IXHTab` | ixhtab, and with `V0 = TRUE` ixhtab-v0: `create`, `destroy`, `perform`, compaction and doubling in place, `split_bin`; on `BinV0` |
| `IXHTabIter` | loops over an ixhtab with calls between their steps; extends `IXHTab` |
| `IndexedMap` | what the repository's README promises of `perform`: a map without buckets or rebuilds; all four tables are shown to implement it |
| `VMum` | `vmum.h`: several builds of it run the same call side by side |
| `MCIHTab`, `MCIHTabIter`, `MCIHTabV0`, `MCIXHTab`, `MCIXHTabIter`, `MCVMum` | hash functions, factors, keys and symmetries of the small instances |
| `BinProofs` | lemmas on `Bin`: what insert, delete, overwrite and probing do to a bin |
| `IHTabSteps` | which steps outside `rebuild` preserve the inductive invariant of `IHTab` |
| `IHTabProofs` | those of `rebuild`, the invariant and the safety theorems |
| `IHTabRefines` | `IHTab` implements `IndexedMap` |
| `IHTabIterProofs` | the properties of loops over an ihtab |
| `VMumArith` | the two products are equal, and so are the two lane products |
| `VMumWalk` | which bytes and which factors `vmum_hash` uses |
| `VMumBuilds` | all builds have the same hash when the carries are computed |

### State and actions of the tables

*Data.* A group mask is the set of its lanes, the bitmap a set of indices, a
pointer into `els` an index. An element is a key, which `Hash` and `Eq` see, and
a value. Memory that nobody wrote is `Garbage`. A stored index is cut to the
width of `ind_t` (`% IND_MOD`). `x & mask` is `x % (mask + 1)`, the masks being
one less than a power of two. `H7_WEIGHT` stands for 2^(bits - 7), the group
size for 8; the proofs hold for every value of both. `SWAR` says whether a build
of a v0 table matches tags as one integer, which also reports lanes whose tag
differs in the lowest bit above a lane that matches.

*Control.* The library is sequential; `pc` says where the running call is.
In `IHTab` every loop iteration is a step:

| code | action |
|---|---|
| `iht_create` | `iht_create`, `create_double` per doubling, `create_done` |
| `iht_perform` | `perform_direct`, or `perform_rebuild` when the bin is full |
| `iht_rebuild` | `rebuild_skip`, `rebuild_take` per element, `reinsert_next`, `reinsert_put` in its `do_1`, `rebuild_done` |
| `iht_do_1` | `probe_next` per group, `probe_found`, `probe_delete`, `probe_absent`, `probe_insert` |
| the caller's `*res = e` | `caller_store`, required after a new INSERT; `caller_replace`, allowed after an old one |

In `IHTabV0` and `IXHTab` a `do_1` is one step (`do_found`, `do_delete`,
`do_absent`, `do_insert`), since `IHTab` has its loop. The `rebuild` of
`IHTabV0` is one step too; nothing but its result is seen by the caller. In
`IXHTab` the moving loops take a step per element (`resize_one`, `divide_one`,
`skip_one`) and `split_bin` a step per round (`split_round`, then `split_again`
or `split_done`), since they read and write the same array. A hash of 0 is
replaced by 1 as in the code. `els_start`, only ever set to 0, is left out.

In `IHTabIter` and `IXHTabIter` the light iterator (`iter_begin`, `iter_next`,
`iter_valid`) and the forward iterator of a range-based `for` share their actions;
`seen`, `must`, and `moved` or `moves`, are history variables. A loop is composed
with the whole table: any call may run between two of its steps, except that the
caller of a forward iterator makes no INSERT (ihtab) and causes no split (ixhtab),
after which its `end()` would not be the table's.

### State and actions of vmum

A call is `vmum_hash(a)` for a key, a length, a seed and whether the address is
aligned. `h` and `blk` have one value per member of `Builds`: with and without
128-bit products, with and without vectors. `conf` has the macros. `vmum_hash64`
is one step; `vmum_hash` has a step per iteration of each loop:

| code | action |
|---|---|
| `_vmum_hash_default` | `default_block` per piece of 1024 bytes |
| `_vmum_hash_aligned` | `aligned_start`, `block_step` per 512 bytes, `blocks_done`, `words_step` per 128 bytes, `pair_step` per 16 bytes, `tail_step` |
| `_vmum_final` at the end | `hash_final` |
| `vmum_hash_randomize` | `vmum_hash_randomize`: any other set of factors |

A word is 8 bytes, but a byte has `BYTE` values: all lengths and offsets are the
code's, while TLC's words have 8 bits. The proofs are for every `BYTE`. `^` is a
function from words to words (`BitXor`) of which the proofs use nothing else.

## Runs

| run | instance | what it shows |
|---|---|---|
| `ihtab_grow` | 3 keys of one hash, so that every probe overflows and wraps round; groups of 2; starts of 1 and of 4 groups | types and bounds, no stale index, no lost element, exact counts, half load, faithful rebuilds, honest probes; the inductive invariant of the proofs |
| `ihtab_live` | 2 keys, 2 values, starts of 1 and 2 groups | refinement of the map, with elements overwritten through `*res`; every call returns |
| `ihtab_iter` | 2 keys, groups of 4; any calls inside a light loop, no INSERT inside a forward one | a loop meets every element that stays, none twice; after a rebuild it may miss some but repeats none |
| `ihtab_v0` | 4 keys, 2 values, groups of 2, tags that differ in one bit, matched as one integer; 2-bit indexes | slots used again never hide an element, no element gets the index that means deleted, lanes reported too many do no harm; refinement |
| `ixhtab_split` | 4 keys, an even and an odd one deletable; bins of 2 and 4 elements; "one entry" and "both sides" | directory, bins, counts, room and limits through compaction, doubling and splits, with and without a doubled directory; refinement |
| `ixhtab_rounds` | 4 keys that force a split of three rounds and one that comes in through an entry left by it; bins of 4 elements, 2 at the start; no DELETE | the rounds end and lose nothing, and every element is where FIND looks; refinement; every call returns |
| `ixhtab_iter` | ixhtab-v0, 4 keys, 1 deletable; "one entry" and "both sides" | loops over a table that is compacted, doubled and split: what stays is met unless it was moved, only a split makes a loop repeat an element; the v0 table is searchable and a map |
| `vmum` | a key of 1-bit bytes; 32 lengths: 0 to 17, and those at and around the edges of words, blocks and the buffer, up to 2049; 2 sets of factors, 3 builds, 3 sets of macros | no byte outside the key is read and none twice or never, no factor serves two words, the builds agree, the address matters only where it does in the code, every call returns |
| `ixhtab_entries`, `ixhtab_bitmap`, `ixhtab_endless`, `vmum_targets` | see Findings | violations |

### Bounds, and why they are enough

`IND_MOD` bounds the size of an ihtab (the guard of `perform_rebuild`), so every
state space is finite. Groups of 2 lanes give bins of 1, 2 and 4 elements, groups
of 4 bins of 2 and more. An ixhtab has bins of at least two groups; `MAX_BIN_SIZE`
(4 or 8 slots) stands for 2^15. Reachability of the cases that matter was checked
by asking TLC for a counterexample to their absence:

| case | reached in |
|---|---|
| a rebuild that keeps and one that doubles the size; a rebuild for an INSERT of a present key | `ihtab_grow`, `ihtab_live`; the first two also in `ihtab_v0` |
| a probe past a full group and round the last group to the first | `ihtab_grow`, `ihtab_live`, `ihtab_v0` |
| the same inside a rebuild | `ihtab_grow` only |
| the greatest size that `ind_t` allows; a slot used again, also for another tag; a lane reported too many | `ihtab_v0` |
| compaction of a bin in place | `ixhtab_split`, `ixhtab_iter` |
| doubling of a bin in place | `ixhtab_split`, `ixhtab_iter` |
| a split of a bin with deleted elements; a split that finds the directory one level deeper than the bin and does not double it; both at once | `ixhtab_split` only |
| a split of more than one round; one that swaps the bins; a directory of depth 3 and more; an element in a bin whose mask its hash does not match | of the passing runs, `ixhtab_rounds` only |
| a bin both doubled and split in one loop; an element met again after a split | `ixhtab_iter` |

For ihtab the group size and the number of keys are no limit of the result, since
the proofs are for all of them. For ixhtab and the v0 tables they are: what the
runs show, they show for the instances above. For vmum only `SameKeySameHash` and
`HashReturns` are limited to the instance.

`SYMMETRY` is used where the permuted keys have the same hash and are deleted
alike, in runs that check safety only.

`Deletable` is the set of keys the caller of an ixhtab deletes. `SplitsOnly` limits
the splits the caller causes: "one entry" means that the directory is at most one
level deeper than the bin, "both sides" that its live elements differ in the next
bit of the hash. `ixhtab_split` and `ixhtab_iter` hold under both; the violation
runs show what happens without. "both sides" leaves every split with one round. A
split of several rounds is covered by `ixhtab_rounds`, which has neither limit:
its keys are such that any four of them differ in some bit, so that every split
ends, and that a bin which such a split has given a new mask does not fill up
again. `DirectoryRight` is not checked there: entries of earlier rounds keep
leading to that bin, with a mask that is no longer theirs. That a split needs no
more bits than the hash has (`DepthBounded`) is not checked under "both sides",
where it could not fail; `ixhtab_endless` shows that it fails without. The caller of `vmum_hash` hashes a key once or twice, then maybe
another (`Repeats`), which is what `SameKeySameHash` compares.

### Fairness

`FairSpec` has weak fairness of `Code`, the steps of a running call: a call that
was made is executed. Nothing is assumed of the caller, not even that it stores
what it owes; `Returns` counts a call as finished when `perform` has returned.

## Findings

1 to 3 concern the splitting of bins: 1 and 2 are in `ixht_split_bin`, 3 in the
test of `ixht_perform` that leads there. `ixhtab.hpp` and the v0 headers have the
same statements. Each run gives a trace of the model with its small bins.

1. `ixhtab_entries`: a split sets one directory entry (`ixhtab.h` 217). If the
   directory is two or more levels deeper than the bin, other entries that now
   belong to the new bin keep leading to the old one: FIND misses elements that
   were moved. INSERTs alone get there. It needs bins of unequal depth, that is,
   hashes with unevenly distributed low bits. The C code was also run: with the
   identity as hash function, 110000 keys of which the odd ones outnumber the even
   ones, FIND missed 11703. With a mixing hash function and consecutive keys,
   4 * 10^4 to 2 * 10^7 of them, none was missed and all bins had the same depth at
   the end.
2. `ixhtab_bitmap`: each round closes the gaps in `els`, the bitmap is cleared
   only after the last (245-248). A second round drops live elements; `els_num`
   still counts them. Met in the model only.
3. `ixhtab_endless`: whether a full bin is compacted or split depends on the
   count of the whole table (290). A bin full of deleted elements with one live
   one is split, and the loop at 200 never finds elements for both halves. Met in
   the model only.
4. `vmum_targets`: a comment (`vmum.h` 549) says that `vmum_hash64` has the same
   hash on any target. The portable product computes its carries only if
   `VMUM_TARGET_INDEPENDENT_HASH` is defined. The formulas were also evaluated with
   64-bit words and the header's own factors: of the keys 0 to 999 with seed 0, 650
   have another hash than with 128-bit products.

Related to 1: when all elements fall on one side, the loop goes round again and
gives a bin a second mask (216), while the entry of its first mask still leads to
it. Elements that come in through that entry are found (`ixhtab_rounds`), until the
bin is split again: then those whose next bit is on move to a bin behind an entry
of the second mask, where FIND does not look. "both sides" excludes it, "one entry"
does not: in bins of 2 elements, the hashes 3, 11 and 21 inserted in this order
violate `ElementsAtHome`.

Two more things that `VMum` states in its properties and no document contradicts:
where unaligned access is not used, a key at an unaligned address has another hash
than an aligned copy of it if it is empty or longer than 1024 bytes
(`SameKeySameHash`); and a word of a block that equals its factor is replaced by
the factor in the scalar code and by all ones in the vector code (`BuildsAgree`
leaves these keys out, unless `VMUM_V1` is defined).

No disagreement was found in ihtab, ihtab-v0 or the iterators.

## Proofs

### ihtab

For every set of keys and values, every hash function, every group size of at
least 2, every index width and every set of creation sizes that fits it
(`BinAssumption`, `IHTabAssumption`), TLAPS proves the following of `Spec`, in
which the caller never grows a table past what an index can hold (the guard of
`perform_rebuild`; the code does not check it, and what happens beyond is not
covered):

- `Invariance`: `Spec => []IInv`;
- from it `TypeCorrect`, `StaleIndexFree`, `AllReachable`, `CountCorrect`,
  `LoadBounded`, `RebuildCorrect`, `ProbeCorrect`, the invariants of `ihtab_grow`;
- `Refinement`: `Spec => RefinesMap`.

*The argument.* None of the safety properties is inductive alone. That a probe
ends at the right place needs that no element lies behind an empty lane of its
path (`SlotsReachable`), which DELETE keeps by leaving a tag that is not EMPTY,
and INSERT because it takes the first empty lane of its path and has passed only
full groups (`Probed`). That there is an empty lane at all needs `LoadExact`
(slots in use are as many as elements handed out) and the bound on `els_bound`,
which needs that a rebuild leaves room (`RoomToInsert`), which needs
that `els_num` is exact when `rebuild` chooses the size. `IInv` is the
conjunction; `TableInv` and `RebuildInv` say it for the table and for the bin
under construction, where the caller's pending store is applied first (`View`):
between `probe_insert` and `caller_store` a slot leads to an unwritten element.

`BinProofs` states what each operation does to a bin as a relation (`Placed`,
`Struck`, `Overwrote`, ...), so that the step proofs never open the arrays.

### The iterators of ihtab

Under the same assumptions, and for every sequence of calls a caller may make
inside a loop (`table_step` in `IterSpec`: no INSERT during a loop with the forward
iterator, and no `destroy`), TLAPS proves `LoopReads`, `LoopMeetsAll` and
`LoopMeetsOnce`: the properties `CurrentReadable`, `MeetsAll` and `MeetsOnce` of
`ihtab_iter`.

*The argument.* The properties speak of the end of a loop and of single steps;
`LoopInv` says what holds between: no live element ahead of the iterator has been
met, and, as long as the table was not rebuilt, every element still to be met is
ahead of it and the one under it was written. The table's steps keep it because of
how they change a bin, each stated as a relation: FIND, DELETE and a write over an
element move nothing and unwrite nothing (`Kept`); INSERT adds one element at
`els_bound`, behind all others (`Grown`); a rebuild closes up the elements in
their order, so that none gets a greater index (`Packed`). This is why a loop with
a rebuild inside may miss elements, but never meets one twice. These relations rest
on `IInv` of the table, which the steps of a loop leave alone (`IterTable`).

### vmum

For every number of values of a byte, every function as `^`, every key, length,
seed, set of factors, set of builds and set of macros (`VMumAssumption`):

- `WalkInside`, `WalkOnce`, `WalkFactors`: no byte outside the key is read, each
  is read exactly once, and after the blocks no factor serves two words;
- `SameOnAllBuilds`: with `VMUM_TARGET_INDEPENDENT_HASH` all builds compute the
  same hash of every key without a word that equals its factor.

*The argument.* `WInv` ties the position to the histories: the bytes read are
exactly those before `str + 8 * i`; `str`, the bytes of the words and what is left
add up to the length; the factors used are those below `i`. `i` stays below 64
because the word loops run only when less than 512 bytes are left, so that the
tail's factor, at most 7 further, is still one of the 80.

`SameOnAllBuilds` has `BInv`: as long as no word has equalled its factor, `h` and
`blk` are words, and are the same in all builds. A step keeps it because it applies the same function
to equal states. That the functions are the same is `ProductSame` and
`LaneProduct` of `VMumArith`: the half-word products add up to the full one, each
of the two sums cut to a word loses at most one carry, which the comparison finds
(`Carry`), and the sign-extended high half of an AVX2 shift is cut off before it
is multiplied (`SignedShift`).

### Only model-checked

- Liveness (`Returns`, `HashReturns`): out of the prover's reach.
- `IXHTab`, `IXHTabIter` and `IHTabV0`. The invariants of `ixhtab_split`
  hold only under the conditions of `SplitsOnly`; an inductive invariant would have
  to carry these through every round of a split.
- `SameKeySameHash`: it compares two calls, one of which may be cut into pieces.

## Not modelled

| part | why |
|---|---|
| vmum on big-endian targets whose bytes are not swapped (`VMUM_TARGET_INDEPENDENT_HASH` undefined, or the vectors of ALTIVEC, which are read as they are) | their hashes differ by design; the walk over the bytes is the same |
| `vmum_hash64` where `size_t` has 32 bits | the result is cut after the last step modelled |
| the values of vmum's factors, and how well it mixes | statistics, not correctness; `FactorSets` is any set of them |
| tables of 2^31 elements and more | the sums in 32 bits that wrap there are listed as hazards; no allocator meets them in a small instance |
| copies of the C++ classes | made by the compiler; tests and benchmarks never copy a table |
| allocation failure | the code checks none; what follows is undefined |
| the iterators of ihtab-v0 | word for word those of ihtab |
| tests, benchmarks | drivers and vendored tables with no state of the library's own; the tests are read as documentation |
