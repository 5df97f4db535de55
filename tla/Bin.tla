--------------------------------- MODULE Bin ---------------------------------
(***************************************************************************)
(* One bin of an indexed hash table: a dense element array `els` with a    *)
(* `deleted` bitmap, and groups of GROUP_SIZE slots, each slot an 8-bit    *)
(* tag (h7) and an index into els.  ihtab owns a single bin; ixhtab owns   *)
(* one bin per directory bucket.  This module holds the bin's memory and   *)
(* what do_1 does to one group of it; it has no behaviour of its own.      *)
(*                                                                         *)
(* A group mask (match_mask, match_empty) is the set of its lanes.  The    *)
(* masks of the code are groups_mask = (number of groups) - 1 with a power *)
(* of two groups, so `x & groups_mask' is x % (groups_mask + 1).  The      *)
(* `deleted' bitmap is the set of indices whose bit is on.                 *)
(***************************************************************************)
EXTENDS Integers, FiniteSets, FiniteSetsExt

CONSTANTS
  Keys,        \* what Eq compares and Hash reads in an element
  Values,      \* the rest of an element
  Garbage,     \* what memory holds that nobody has written
  Hash,        \* the user's hash function
  H7_WEIGHT,   \* 2^(bits of hash_t - 7): weight of the lowest tag bit
  GROUP_SIZE,  \* slots of a group, 8 in the code
  IND_MOD      \* 2^(bits of ind_t): 2^32 in ihtab, 2^16 in ixhtab

ASSUME BinAssumption ==
  /\ Garbage \notin Keys
  /\ Garbage \notin Values
  /\ Garbage \notin Nat
  /\ Hash \in [Keys -> Nat]
  /\ H7_WEIGHT \in Nat \ {0}
  /\ GROUP_SIZE \in Nat \ {0, 1}
  /\ IND_MOD \in Nat \ {0}

EMPTY_H7   == 192  \* 0xc0
DELETED_H7 == 128  \* 0x80
H7         == 0 .. 127

Lanes  == 0 .. GROUP_SIZE - 1
El     == [key : Keys, val : Values]
Uninit == [key |-> Garbage, val |-> Garbage]

(* Mutant: the probe runs into the last group instead of wrapping round.   *)
next_group_no_wrap(g, mask) == IF g = mask THEN g ELSE g + 1

(* The tag and the first group of a key, and the group probed after g.     *)
h7_val(k)             == (Hash[k] \div H7_WEIGHT) % 128
first_group(k, mask)  == (Hash[k] \div GROUP_SIZE) % (mask + 1)
next_group(g, mask)   == (g + 1) % (mask + 1)

(* Sizes, in slots and in elements, of a bin with n groups.                *)
indexes_size(n) == n * GROUP_SIZE
els_size(n)     == indexes_size(n) \div 2

num_groups(b) == b.groups_mask + 1
Groups(b)     == 0 .. b.groups_mask

(* Fresh arrays: malloc and aligned_alloc leave els and the indexes        *)
(* unwritten, calloc clears the bitmap, memset makes every tag EMPTY.      *)
empty_h7(n) == [g \in 0 .. n - 1 |-> [s \in Lanes |-> EMPTY_H7]]
new_bin(n) ==
  [ els_bound   |-> 0,
    els         |-> [j \in 0 .. els_size(n) - 1 |-> Uninit],
    deleted     |-> {},
    h7          |-> empty_h7(n),
    indexes     |-> [g \in 0 .. n - 1 |-> [s \in Lanes |-> Garbage]],
    groups_mask |-> n - 1 ]

-----------------------------------------------------------------------------
(* The body of do_1's loop on group g of bin b, for an element of key k.   *)

match_mask(b, g, tag) == {s \in Lanes : b.h7[g][s] = tag}
match_empty(b, g)     == {s \in Lanes : b.h7[g][s] = EMPTY_H7}

(* Mutant: a matching tag is taken for an equal key.                       *)
eq_lanes_by_tag(b, g, k) == match_mask(b, g, h7_val(k))

(* Lanes whose tag matches and whose element Eq accepts.  The code visits  *)
(* the matching lanes in increasing order and stops at the first of these. *)
eq_lanes(b, g, k) ==
  {s \in match_mask(b, g, h7_val(k)) : b.els[b.indexes[g][s]].key = k}

hit_ind(b, g, k) == b.indexes[g][Min(eq_lanes(b, g, k))]

(* Mutant: DELETE frees the slot as EMPTY.                                 *)
remove_hit_empties(b, g, k) ==
  [b EXCEPT !.deleted = @ \cup {hit_ind(b, g, k)},
            !.h7[g][Min(eq_lanes(b, g, k))] = EMPTY_H7]

(* DELETE of the hit: mark the element and free the slot for no one.       *)
remove_hit(b, g, k) ==
  [b EXCEPT !.deleted = @ \cup {hit_ind(b, g, k)},
            !.h7[g][Min(eq_lanes(b, g, k))] = DELETED_H7]

(* Mutant: the index is stored after els_bound was incremented.            *)
reserve_late_index(b, g, k) ==
  LET bit == Min(match_empty(b, g))
  IN  [b EXCEPT !.h7[g][bit]      = h7_val(k),
                !.indexes[g][bit] = (b.els_bound + 1) % IND_MOD,
                !.els_bound       = @ + 1]

(* INSERT of an absent key: take the first empty lane of g and the next    *)
(* element; the stored index is cut to the width of ind_t.                 *)
reserve(b, g, k) ==
  LET bit == Min(match_empty(b, g))
  IN  [b EXCEPT !.h7[g][bit]      = h7_val(k),
                !.indexes[g][bit] = b.els_bound % IND_MOD,
                !.els_bound       = @ + 1]

(* *res = e                                                                *)
store(b, ind, e) == [b EXCEPT !.els[ind] = e]

-----------------------------------------------------------------------------
(* What the bin holds.                                                     *)

Live(b) == (0 .. b.els_bound - 1) \ b.deleted

(* Probe distance from group h to group g, going up and wrapping round.    *)
Dist(h, g, n) == IF h <= g THEN g - h ELSE g - h + n

(* The groups a probe for key k visits before group g.                     *)
Before(b, k, g) ==
  LET home == first_group(k, b.groups_mask)
  IN  {q \in Groups(b) : Dist(home, q, num_groups(b)) < Dist(home, g, num_groups(b))}

(* Slots are pairs of a group and a lane; a tagged one holds an element.   *)
Slots(b)     == Groups(b) \X Lanes
Tag(b, sl)   == b.h7[sl[1]][sl[2]]
Index(b, sl) == b.indexes[sl[1]][sl[2]]
Tagged(b)    == {sl \in Slots(b) : Tag(b, sl) \in H7}

Contents(b) ==
  [k \in {b.els[j].key : j \in Live(b)} |->
     b.els[CHOOSE j \in Live(b) : b.els[j].key = k].val]

IsBin(b) ==
  /\ b \in [ els_bound   : Nat,
             els         : [0 .. els_size(num_groups(b)) - 1 -> El \cup {Uninit}],
             deleted     : SUBSET (0 .. b.els_bound - 1),
             h7          : [Groups(b) -> [Lanes -> H7 \cup {EMPTY_H7, DELETED_H7}]],
             indexes     : [Groups(b) -> [Lanes -> 0 .. IND_MOD - 1 \cup {Garbage}]],
             groups_mask : Nat ]
  /\ b.els_bound <= els_size(num_groups(b))

-----------------------------------------------------------------------------
(* What keeps a bin searchable, part by part.                              *)

(* A slot that can match leads to a live element that has been written.    *)
SlotsSound(b) ==
  \A sl \in Tagged(b) : Index(b, sl) \in Live(b)

(* The tag of a slot is its element's, and a probe for that element meets  *)
(* no empty lane before it meets the slot.                                 *)
SlotsReachable(b) ==
  \A sl \in Tagged(b) :
    LET k == b.els[Index(b, sl)].key
    IN  /\ Tag(b, sl) = h7_val(k)
        /\ \A q \in Before(b, k, sl[1]) : match_empty(b, q) = {}

(* Every live element has a slot, and no two slots share one.              *)
SlotsExact(b) ==
  /\ \A j \in Live(b) : \E sl \in Tagged(b) : Index(b, sl) = j
  /\ \A s1, s2 \in Tagged(b) : Index(b, s1) = Index(b, s2) => s1 = s2

(* Live elements are initialised and no key occurs twice among them.       *)
ElsDistinct(b) ==
  /\ \A j \in Live(b) : b.els[j] \in El
  /\ \A j1, j2 \in Live(b) : b.els[j1].key = b.els[j2].key => j1 = j2

(* Slots that are not empty are as many as elements handed out.            *)
Used(b) == {sl \in Slots(b) : Tag(b, sl) # EMPTY_H7}
LoadExact(b) == Cardinality(Used(b)) = b.els_bound

(* A bin in which every element can be found, and only live ones are.      *)
BinOK(b) ==
  IsBin(b) /\ SlotsSound(b) /\ SlotsReachable(b) /\ SlotsExact(b) /\ ElsDistinct(b)

(* A probe for key k that is now at group g has missed nothing: the groups *)
(* behind it have neither the key nor an empty lane.                       *)
Probed(b, k, g) ==
  /\ g \in Groups(b)
  /\ \A q \in Before(b, k, g) : match_empty(b, q) = {} /\ eq_lanes(b, q, k) = {}

=============================================================================
