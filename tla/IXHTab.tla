-------------------------------- MODULE IXHTab --------------------------------
(***************************************************************************)
(* ixhtab: extendible hashing (ixhtab.h, ixhtab.hpp).  A directory, indexed *)
(* by the low max_depth bits of the hash, leads to bins; each is a Bin with *)
(* 16-bit indices.  A full bin is compacted or doubled in place until it   *)
(* reaches its largest size; from then on it is split in two by the next   *)
(* bit of the hash.                                                        *)
(*                                                                         *)
(* do_1 is one step here: IHTab has its loop.  The loops that move the     *)
(* elements of a bin take one step per element, and the loop of            *)
(* ixht_split_bin one per round.                                           *)
(*                                                                         *)
(* pc  "none"    no table             "idle"    no call is running         *)
(*     "do"      in ixht_do_1, called by ixht_perform                      *)
(*     "split"   at the head of the loop of ixht_split_bin                 *)
(*     "divide"  in its loop over the elements                             *)
(*     "resize"  in the loop of ixht_perform over the elements of a bin    *)
(*               that is compacted or doubled                              *)
(*     "store"   INSERT returned false: the caller owes `*res = e'         *)
(*                                                                         *)
(* els_start, which the code only ever sets to 0, is left out.  The v0     *)
(* table (ixhtab-v0.h, ixhtab-v0.hpp) differs in its bins only: V0.        *)
(***************************************************************************)
EXTENDS Integers, FiniteSets, FiniteSetsExt

CONSTANTS Keys, Values, Garbage, Hash, H7_WEIGHT, GROUP_SIZE, IND_MOD, SWAR
CONSTANTS
  V0,            \* whether this is the v0 table
  MinSizes,      \* the arguments of ixht_create
  Deletable,     \* bound: the keys the caller deletes
  MAX_BIN_SIZE,  \* 1 << IXHT_MAX_BIN_SIZE_POWER
  HASH_BITS,     \* the bits of ixht_hash_t that Hash uses
  SplitsOnly     \* bound: the caller only causes splits with these qualities

ASSUME IXHTabAssumption ==
  /\ V0 \in BOOLEAN
  /\ MinSizes \subseteq Nat
  /\ Deletable \subseteq Keys
  /\ MAX_BIN_SIZE \in Nat /\ GROUP_SIZE < MAX_BIN_SIZE /\ MAX_BIN_SIZE <= IND_MOD
  /\ HASH_BITS \in Nat /\ \A k \in Keys : Hash[k] < 2 ^ HASH_BITS
  /\ SplitsOnly \subseteq {"one entry", "both sides"}

(* ixhtab has no use for a hash of 0.                                      *)
hash == [k \in Keys |-> IF Hash[k] = 0 THEN 1 ELSE Hash[k]]

INSTANCE BinV0 WITH Hash <- hash

VARIABLES
  els_num,      \* t->els_num
  max_depth,    \* t->max_depth; bin_mask is 2^max_depth - 1
  dir,          \* t->dir
  bins,         \* t->bins
  depth, mask,  \* the fields of the bins that Bin does not have
  pc, call,     \* where the running call is, and its arguments
  bin_ind,      \* the bin it works on
  new_ind,      \* the other bin of a split
  i, bound,     \* the elements being moved
  old_deleted,  \* the bitmap that says which of them not to move
  added,        \* old_added, new_added
  saved,        \* the copy of els_num
  res, ret      \* *res, as a bin and an index, and the result of the last call

table == <<els_num, max_depth, dir, bins, depth, mask>>
work  == <<bin_ind, new_ind, i, bound, old_deleted, added, saved>>
vars  == <<els_num, max_depth, dir, bins, depth, mask, pc, call, bin_ind, new_ind, i, bound,
           old_deleted, added, saved, res, ret>>

Queries == [key : Keys, val : {Garbage}]
Calls   == {c \in [action : {"INSERT"}, el : El] \cup [action : {"FIND", "DELETE"}, el : Queries] :
              c.action = "DELETE" => c.el.key \in Deletable}
NoCall  == [action |-> "none", el |-> Uninit]
NoTable == [b \in {} |-> Garbage]

NoWork ==
  /\ bin_ind' = 0 /\ new_ind' = 0 /\ i' = 0 /\ bound' = 0
  /\ old_deleted' = {} /\ added' = {} /\ saved' = 0

Init ==
  /\ pc = "none" /\ els_num = 0 /\ max_depth = 0
  /\ dir = NoTable /\ bins = NoTable /\ depth = NoTable /\ mask = NoTable
  /\ call = NoCall /\ res = Garbage /\ ret = FALSE
  /\ bin_ind = 0 /\ new_ind = 0 /\ i = 0 /\ bound = 0
  /\ old_deleted = {} /\ added = {} /\ saved = 0

-----------------------------------------------------------------------------
(* ixht_do_1: the probe for k ends at the first group that has the key or  *)
(* an empty lane.                                                          *)

probe_end(b, k) ==
  LET home == first_group(k, b.groups_mask)
      n    == num_groups(b)
      ends == {g \in Groups(b) : eq_lanes(b, g, k) # {} \/ match_empty(b, g) # {}}
  IN  CHOOSE g \in ends : \A q \in ends : Dist(home, g, n) <= Dist(home, q, n)

found(b, k) ==
  IF V0 THEN found0(b, k) ELSE eq_lanes(b, probe_end(b, k), k) # {}

found_ind(b, k) ==
  IF V0 THEN found0_ind(b, k) ELSE hit_ind(b, probe_end(b, k), k)

removed(b, k) ==
  IF V0 THEN remove0(b, k) ELSE remove_hit(b, probe_end(b, k), k)

reserved(b, k) ==
  IF V0 THEN reserve0(b, k) ELSE reserve(b, probe_end(b, k), k)

(* INSERT and the store through r that follows it in the moving loops.     *)
insert_el(b, e) ==
  IF found(b, e.key)
  THEN store(b, found_ind(b, e.key), e)
  ELSE store(reserved(b, e.key), b.els_bound, e)

-----------------------------------------------------------------------------
(* Creation and destruction.                                               *)

(* ixht_create_bin: at least a group's worth of elements, half as many as  *)
(* slots.                                                                  *)
create_bin(size) ==
  new_bin((2 * (IF size < GROUP_SIZE THEN GROUP_SIZE ELSE size)) \div GROUP_SIZE)

(* The smallest power of two, 2 or more, that is not below min_size.       *)
table_size(min_size) == Min({2 ^ p : p \in {q \in 1 .. min_size + 1 : 2 ^ q >= min_size}})

(* ixht_get_params: halve the size until it is one bin's.                  *)
bin_power2(size) == Min({p \in 0 .. size : size \div 2 ^ p < MAX_BIN_SIZE})

ixht_create(min_size) ==
  LET size == table_size(min_size)
      p    == bin_power2(size)
      Inds == 0 .. 2 ^ p - 1
  IN  /\ pc = "none" /\ pc' = "idle"
      /\ els_num' = 0 /\ max_depth' = p
      /\ dir' = [d \in Inds |-> d]
      /\ bins' = [b \in Inds |-> create_bin(size \div 2 ^ p)]
      /\ depth' = [b \in Inds |-> p] /\ mask' = [b \in Inds |-> b]
      /\ UNCHANGED <<call, work, res, ret>>

ixht_destroy ==
  /\ pc = "idle" /\ pc' = "none"
  /\ els_num' = 0 /\ max_depth' = 0
  /\ dir' = NoTable /\ bins' = NoTable /\ depth' = NoTable /\ mask' = NoTable
  /\ call' = NoCall /\ res' = Garbage /\ ret' = FALSE
  /\ UNCHANGED work

-----------------------------------------------------------------------------
(* ixht_perform up to its call of ixht_do_1.                               *)

dir_bin(k) == dir[hash[k] % 2 ^ max_depth]

(* els_bound == els_size; then, that the table, not the bin, is half full. *)
full_for(c) ==
  LET b == bins[dir_bin(c.el.key)]
  IN  c.action = "INSERT" /\ b.els_bound = els_size(num_groups(b))

(* Mutant: a table that is exactly half full does not grow.                *)
grow_strict(b) == 2 * els_num > indexes_size(num_groups(b))
grow(b) == 2 * els_num >= indexes_size(num_groups(b))

(* Mutant: a bin may grow to the limit itself.                             *)
at_limit_late(b) == grow(b) /\ 2 * els_size(num_groups(b)) > MAX_BIN_SIZE
at_limit(b) == grow(b) /\ 2 * els_size(num_groups(b)) >= MAX_BIN_SIZE

enter(c) ==
  /\ pc = "idle" /\ call' = c /\ res' = Garbage /\ ret' = FALSE

perform_direct(c) ==
  /\ enter(c) /\ ~full_for(c)
  /\ pc' = "do" /\ bin_ind' = dir_bin(c.el.key)
  /\ UNCHANGED <<table, new_ind, i, bound, old_deleted, added, saved>>

(* Mutant: the tags of the groups that were there are not cleared.         *)
reset_h7_new_only(b, n) ==
  [g \in 0 .. n - 1 |-> IF g \in Groups(b) THEN b.h7[g] ELSE [s \in Lanes |-> EMPTY_H7]]
reset_h7(b, n) == empty_h7(n)

(* The bin's arrays get n groups: realloc keeps what they held, calloc     *)
(* gives a new bitmap and memset makes every tag EMPTY.                    *)
resized(b, n) ==
  [ els_bound   |-> 0,
    els         |-> [j \in 0 .. els_size(n) - 1 |-> IF j \in DOMAIN b.els THEN b.els[j] ELSE Uninit],
    deleted     |-> {},
    h7          |-> reset_h7(b, n),
    indexes     |-> [g \in 0 .. n - 1 |-> IF g \in Groups(b) THEN b.indexes[g]
                                          ELSE [s \in Lanes |-> Garbage]],
    groups_mask |-> n - 1 ]

(* The elements of the old bitmap.                                         *)
to_skip(b) == b.deleted

perform_resize(c) ==
  LET bi == dir_bin(c.el.key)
      b  == bins[bi]
      n  == IF grow(b) THEN 2 * num_groups(b) ELSE num_groups(b)
  IN  /\ enter(c) /\ full_for(c) /\ ~at_limit(b)
      /\ pc' = "resize" /\ bin_ind' = bi
      /\ bins' = [bins EXCEPT ![bi] = resized(b, n)]
      /\ old_deleted' = to_skip(b) /\ i' = 0 /\ bound' = b.els_bound
      /\ saved' = els_num /\ els_num' = 0
      /\ UNCHANGED <<max_depth, dir, depth, mask, new_ind, added>>

(* ixht_split_bin makes one directory entry lead to the new bin and stops  *)
(* when both bins have elements.  A split of bin bi has the quality "one   *)
(* entry" if no other entry ought to lead there, and "both sides" if live  *)
(* elements differ in the next bit of the hash.                            *)
bit(k, d) == (hash[k] \div 2 ^ d) % 2
qualities(bi) ==
  {q \in {"one entry", "both sides"} :
     CASE q = "one entry"  -> max_depth <= depth[bi] + 1
       [] q = "both sides" ->
            {bit(bins[bi].els[j].key, depth[bi]) : j \in Live(bins[bi])} = {0, 1}}

perform_split(c) ==
  LET bi == dir_bin(c.el.key)
      b  == bins[bi]
      ni == Cardinality(DOMAIN bins)
      Inds == 0 .. ni
  IN  /\ enter(c) /\ full_for(c) /\ at_limit(b)
      /\ SplitsOnly \subseteq qualities(bi)
      /\ pc' = "split" /\ bin_ind' = bi /\ new_ind' = ni
      /\ bins' = [q \in Inds |-> IF q = ni THEN create_bin(els_size(num_groups(b))) ELSE bins[q]]
      /\ depth' = [q \in Inds |-> IF q = ni THEN Garbage ELSE depth[q]]
      /\ mask' = [q \in Inds |-> IF q = ni THEN Garbage ELSE mask[q]]
      /\ UNCHANGED <<els_num, max_depth, dir, i, bound, old_deleted, added, saved>>

-----------------------------------------------------------------------------
(* The loop of ixht_split_bin.  Only depth + 1 bits of the mask can be on, *)
(* so `bin->mask | split_mask' is a sum.                                   *)

new_depth == depth[bin_ind] + 1

(* Mutant: the new bin's mask is the split bit alone.                      *)
new_mask_bare == 2 ^ depth[bin_ind]
new_mask == mask[bin_ind] + 2 ^ depth[bin_ind]

(* Mutant: the new half of the directory is not filled.                    *)
deeper_dir_uncopied ==
  LET len == 2 ^ max_depth
  IN  IF new_depth <= max_depth THEN dir
      ELSE [j \in 0 .. 2 * len - 1 |-> IF j < len THEN dir[j] ELSE Garbage]

(* The directory, doubled if the bins' depth exceeds its own.              *)
deeper_dir ==
  LET len == 2 ^ max_depth
  IN  IF new_depth <= max_depth THEN dir ELSE [j \in 0 .. 2 * len - 1 |-> dir[j % len]]

(* Mutant: the entry is set in the first round only.                       *)
entry_set_once == IF mask[new_ind] = Garbage THEN [deeper_dir EXCEPT ![new_mask] = new_ind] ELSE deeper_dir

(* One entry of it leads to the new bin.                                   *)
entry_set == [deeper_dir EXCEPT ![new_mask] = new_ind]

(* Mutant: the bin's tags are not cleared.                                 *)
emptied_keeps_tags(b) == [b EXCEPT !.els_bound = 0]

(* No slot is used; els and the bitmap are as they were.                   *)
emptied(b) == [b EXCEPT !.h7 = empty_h7(num_groups(b)), !.els_bound = 0]

split_round ==
  /\ pc = "split" /\ pc' = "divide"
  /\ depth' = [depth EXCEPT ![bin_ind] = new_depth, ![new_ind] = new_depth]
  /\ max_depth' = IF new_depth > max_depth THEN new_depth ELSE max_depth
  /\ mask' = [mask EXCEPT ![new_ind] = new_mask]
  /\ dir' = entry_set
  /\ bins' = [bins EXCEPT ![bin_ind] = emptied(@)]
  /\ i' = 0 /\ bound' = bins[bin_ind].els_bound /\ old_deleted' = bins[bin_ind].deleted
  /\ saved' = els_num /\ added' = {}
  /\ UNCHANGED <<els_num, call, bin_ind, new_ind, res, ret>>

at_element == i < bound /\ i \notin old_deleted

(* Mutant: the loop counter is not incremented.                            *)
move_to_stuck(d) ==
  LET e == bins[bin_ind].els[i]
  IN  /\ bins' = [bins EXCEPT ![d] = insert_el(@, e)]
      /\ els_num' = els_num + (IF found(bins[d], e.key) THEN 0 ELSE 1)
      /\ i' = i

(* One element of bin_ind goes to bin d, which may be bin_ind itself.      *)
move_to(d) ==
  LET e == bins[bin_ind].els[i]
  IN  /\ bins' = [bins EXCEPT ![d] = insert_el(@, e)]
      /\ els_num' = els_num + (IF found(bins[d], e.key) THEN 0 ELSE 1)
      /\ i' = i + 1

(* Mutant: the bit is taken after depth was incremented.                   *)
is_old_late(k) == bit(k, depth[bin_ind]) = 0
is_old(k)      == bit(k, depth[bin_ind] - 1) = 0

divide_one ==
  LET old == is_old(bins[bin_ind].els[i].key)
  IN  /\ pc = "divide" /\ at_element
      /\ move_to(IF old THEN bin_ind ELSE new_ind)
      /\ added' = added \cup {IF old THEN "old" ELSE "new"}
      /\ UNCHANGED <<max_depth, dir, depth, mask, pc, call, bin_ind, new_ind, bound,
                     old_deleted, saved, res, ret>>

resize_one ==
  /\ pc = "resize" /\ at_element /\ move_to(bin_ind)
  /\ UNCHANGED <<max_depth, dir, depth, mask, pc, call, bin_ind, new_ind, bound,
                 old_deleted, added, saved, res, ret>>

skip_one ==
  /\ pc \in {"divide", "resize"} /\ i < bound /\ i \in old_deleted
  /\ i' = i + 1
  /\ UNCHANGED <<table, pc, call, bin_ind, new_ind, bound, old_deleted, added, saved, res, ret>>

(* Mutant: els_num is left at the number of elements moved.                *)
resize_done_unrestored ==
  /\ pc = "resize" /\ i = bound
  /\ pc' = "do"
  /\ i' = 0 /\ bound' = 0 /\ old_deleted' = {} /\ saved' = 0
  /\ UNCHANGED <<table, call, bin_ind, new_ind, added, res, ret>>

resize_done ==
  /\ pc = "resize" /\ i = bound
  /\ pc' = "do" /\ els_num' = saved
  /\ i' = 0 /\ bound' = 0 /\ old_deleted' = {} /\ saved' = 0
  /\ UNCHANGED <<max_depth, dir, bins, depth, mask, call, bin_ind, new_ind, added, res, ret>>

(* Another round: with the two bins swapped if every element is now in the *)
(* new one.                                                                *)
split_again ==
  /\ pc = "divide" /\ i = bound /\ added # {"old", "new"}
  /\ pc' = "split" /\ els_num' = saved
  /\ IF "old" \in added THEN UNCHANGED <<bin_ind, new_ind>>
     ELSE bin_ind' = new_ind /\ new_ind' = bin_ind
  /\ UNCHANGED <<max_depth, dir, bins, depth, mask, call, i, bound, old_deleted, added, saved, res, ret>>

(* The elements have moved together, so none is deleted.                   *)
undeleted(b) == [b EXCEPT !.deleted = {}]

(* Mutant: the directory is not consulted again.                           *)
bin_after_split_stale(k) == bin_ind
bin_after_split(k) == dir_bin(k)

split_done ==
  /\ pc = "divide" /\ i = bound /\ added = {"old", "new"}
  /\ pc' = "do" /\ els_num' = saved
  /\ bins' = [bins EXCEPT ![bin_ind] = undeleted(@), ![new_ind] = undeleted(@)]
  /\ bin_ind' = bin_after_split(call.el.key)
  /\ new_ind' = 0 /\ i' = 0 /\ bound' = 0 /\ old_deleted' = {} /\ added' = {} /\ saved' = 0
  /\ UNCHANGED <<max_depth, dir, depth, mask, call, res, ret>>

-----------------------------------------------------------------------------
(* ixht_do_1 on behalf of ixht_perform, and the caller's store.            *)

do_found ==
  LET b == bins[bin_ind]
  IN  /\ pc = "do" /\ call.action # "DELETE" /\ found(b, call.el.key)
      /\ pc' = "idle" /\ ret' = TRUE
      /\ res' = [bin |-> bin_ind, ind |-> found_ind(b, call.el.key)]
      /\ NoWork
      /\ UNCHANGED <<table, call>>

do_delete ==
  LET b == bins[bin_ind]
      k == call.el.key
  IN  /\ pc = "do" /\ call.action = "DELETE" /\ found(b, k)
      /\ pc' = "idle" /\ ret' = TRUE
      /\ bins' = [bins EXCEPT ![bin_ind] = removed(@, k)]
      /\ els_num' = els_num - 1
      /\ NoWork
      /\ UNCHANGED <<max_depth, dir, depth, mask, call, res>>

do_absent ==
  /\ pc = "do" /\ call.action # "INSERT" /\ ~found(bins[bin_ind], call.el.key)
  /\ pc' = "idle" /\ ret' = FALSE
  /\ NoWork
  /\ UNCHANGED <<table, call, res>>

do_insert ==
  LET b == bins[bin_ind]
      k == call.el.key
  IN  /\ pc = "do" /\ call.action = "INSERT" /\ ~found(b, k)
      /\ pc' = "store" /\ ret' = FALSE
      /\ res' = [bin |-> bin_ind, ind |-> b.els_bound]
      /\ bins' = [bins EXCEPT ![bin_ind] = reserved(@, k)]
      /\ els_num' = els_num + 1
      /\ NoWork
      /\ UNCHANGED <<max_depth, dir, depth, mask, call>>

caller_store ==
  /\ pc = "store" /\ pc' = "idle"
  /\ bins' = [bins EXCEPT ![res.bin] = store(@, res.ind, call.el)]
  /\ UNCHANGED <<els_num, max_depth, dir, depth, mask, call, work, res, ret>>

caller_replace ==
  /\ pc = "idle" /\ ret = TRUE /\ call.action = "INSERT"
  /\ bins' = [bins EXCEPT ![res.bin] = store(@, res.ind, call.el)]
  /\ UNCHANGED <<els_num, max_depth, dir, depth, mask, pc, call, work, res, ret>>

Code ==
  \/ split_round \/ divide_one \/ resize_one \/ skip_one \/ resize_done \/ split_again \/ split_done
  \/ do_found \/ do_delete \/ do_absent \/ do_insert

Caller ==
  \/ \E m \in MinSizes : ixht_create(m)
  \/ \E c \in Calls : perform_direct(c) \/ perform_resize(c) \/ perform_split(c)
  \/ ixht_destroy \/ caller_store \/ caller_replace

Next == Code \/ Caller

Spec == Init /\ [][Next]_vars

(* A running call is never suspended.                                      *)
FairSpec == Spec /\ WF_vars(Code)

-----------------------------------------------------------------------------
(* Properties.                                                             *)

Moving == pc \in {"split", "divide", "resize"}

(* A bin as it is once the caller has stored what it owes.                 *)
View(q) == IF pc = "store" /\ res.bin = q THEN store(bins[q], res.ind, call.el) ELSE bins[q]

(* The elements a bin has.  Of a bin whose elements are being moved: those *)
(* that it has received and those that still have to be moved.             *)
Received(q) == {bins[q].els[j] : j \in 0 .. bins[q].els_bound - 1}
ToMove      == {bins[bin_ind].els[j] : j \in (i .. bound - 1) \ old_deleted}
Held(q) ==
  CASE pc \in {"divide", "resize"} /\ q = bin_ind -> Received(q) \cup ToMove
    [] pc = "divide" /\ q = new_ind               -> Received(q)
    [] OTHER                                      -> {View(q).els[j] : j \in Live(bins[q])}
Elements == UNION {Held(q) : q \in DOMAIN bins}

(* Types: one directory entry for each value of the low max_depth bits,    *)
(* bins that exist behind all of them.                                     *)
TypeOK ==
  /\ pc \in {"none", "idle", "do", "split", "divide", "resize", "store"}
  /\ els_num \in Nat /\ max_depth \in Nat /\ saved \in Nat /\ i \in Nat /\ bound \in Nat
  /\ pc # "none" => dir \in [0 .. 2 ^ max_depth - 1 -> DOMAIN bins]
  /\ DOMAIN depth = DOMAIN bins /\ DOMAIN mask = DOMAIN bins
  /\ ~Moving => \A q \in DOMAIN bins : IsBin(bins[q])
  /\ added \subseteq {"old", "new"}
  /\ call \in Calls \cup {NoCall} /\ ret \in BOOLEAN
  /\ res # Garbage => res.bin \in DOMAIN bins /\ res.ind \in DOMAIN bins[res.bin].els

(* Every bin is searchable whenever do_1 runs on one: compaction, doubling *)
(* and splitting leave no slot that leads nowhere and no live element that *)
(* has no slot.                                                            *)
BinsSearchable ==
  ~Moving => \A q \in DOMAIN bins :
    IF V0 THEN BinOK(Shown(View(q))) /\ LoadBelow(bins[q])
    ELSE BinOK(View(q)) /\ LoadExact(bins[q])

(* The directory: entry d leads to the bin whose mask is the low depth     *)
(* bits of d.                                                              *)
DirectoryRight ==
  pc \notin {"split", "divide"} =>
    \A d \in DOMAIN dir :
      /\ depth[dir[d]] <= max_depth
      /\ mask[dir[d]] = d % 2 ^ depth[dir[d]]

(* Every element is in the bin that a call with its key searches.          *)
ElementsAtHome ==
  ~Moving => \A q \in DOMAIN bins : \A e \in Held(q) : dir_bin(e.key) = q

(* ixht_els_count, and the copy of it that is put back after a move.       *)
CountExact ==
  (IF pc \in {"divide", "resize"} THEN saved ELSE els_num) = Cardinality(Elements)

(* ixht_els_count is the number of elements an iteration over all bins     *)
(* meets (tests/test.cpp and tests/test_c.c assert it).                    *)
CountAtRest ==
  pc = "idle" => els_num = Cardinality(Elements)

(* do_1 checks no bound: when it may insert there is a free element.       *)
RoomToInsert ==
  pc = "do" /\ call.action = "INSERT" =>
    bins[bin_ind].els_bound < els_size(num_groups(bins[bin_ind]))

(* No bin outgrows the 16-bit index.                                       *)
BinsBounded ==
  \A q \in DOMAIN bins : els_size(num_groups(bins[q])) < MAX_BIN_SIZE

(* A split uses no more bits than the hash has.                            *)
DepthBounded ==
  pc # "split" => \A q \in DOMAIN bins : depth[q] <= HASH_BITS

(* Every call returns.                                                     *)
Returns == (Moving \/ pc = "do") ~> (pc \in {"idle", "store"})

(* What the table shows of the map of IndexedMap.                          *)
MapPhase ==
  IF pc = "none" THEN "none" ELSE IF pc \in {"idle", "store"} THEN "idle" ELSE "busy"
MapContents ==
  LET els == Elements
  IN  [k \in {e.key : e \in els} |-> (CHOOSE e \in els : e.key = k).val]
MapOut == IF res = Garbage THEN Garbage ELSE View(res.bin).els[res.ind].val

Map == INSTANCE IndexedMap WITH phase <- MapPhase, map <- MapContents, out <- MapOut

(* ixht_perform does what README.md says of it: the caller cannot tell the *)
(* directory, its bins and their growth from a plain map.                  *)
RefinesMap == Map!Spec

=============================================================================
