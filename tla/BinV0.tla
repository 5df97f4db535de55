-------------------------------- MODULE BinV0 --------------------------------
(***************************************************************************)
(* The bin of the v0 tables (ihtab-v0, ixhtab-v0), kept for comparison.    *)
(* Tags and indices are two arrays there, which Bin's record describes as  *)
(* well.  DELETE leaves the tag and puts INDEX_DELETED for the index; an   *)
(* INSERT whose probe has come by such a slot takes it instead of an empty *)
(* one.  EMPTY_H7, 0x80 in v0, is the only tag with bit 7 on, which is all *)
(* that its match_empty looks at.                                          *)
(*                                                                         *)
(* Where there are no vector instructions the tags of a group are compared *)
(* as one integer (SWAR).  The byte-wise difference of the xor and 0x01..  *)
(* borrows from the next lane, so that above a lane that matches a lane    *)
(* whose tag differs in the lowest bit only is reported too.               *)
(***************************************************************************)
EXTENDS Bin

CONSTANT SWAR  \* whether the build matches tags that way

ASSUME BinV0Assumption == SWAR \in BOOLEAN

(* The greatest value of ind_t.                                            *)
INDEX_DELETED == IND_MOD - 1

(* A tag xor h7 is 0, 1, or something greater.                             *)
xor_is_1(tag, h7) == tag # h7 /\ tag \div 2 = h7 \div 2

(* Whether the subtraction borrows from lane s + 1.                        *)
borrows(b, g, h7) ==
  LET out[s \in Lanes] ==
        \/ b.h7[g][s] = h7
        \/ xor_is_1(b.h7[g][s], h7) /\ s > 0 /\ out[s - 1]
  IN  out

(* Mutant: without `& ~cmp', which leaves out lanes with bit 7 on.         *)
swar_mask_or_empty(b, g, h7) ==
  LET out == borrows(b, g, h7)
      low(s) == IF s > 0 /\ out[s - 1] THEN 1 ELSE 0
  IN  {s \in Lanes : out[s] \/ (b.h7[g][s] = EMPTY_H7 /\ h7 > low(s))}

(* A lane is reported if the difference turns its bit 7 on.                *)
swar_mask(b, g, h7) == {s \in Lanes : borrows(b, g, h7)[s]}

mmask(b, g, h7) == IF SWAR THEN swar_mask(b, g, h7) ELSE match_mask(b, g, h7)

(* The reported lanes of group g that have key k, and those to use again.  *)
hits(b, g, k) ==
  {s \in mmask(b, g, h7_val(k)) :
     b.indexes[g][s] # INDEX_DELETED /\ b.els[b.indexes[g][s]].key = k}
reusable(b, g, k) ==
  {s \in mmask(b, g, h7_val(k)) : b.indexes[g][s] = INDEX_DELETED}

(* The group where the probe for k ends: it has the key or an empty lane.  *)
nearest(b, k, gs) ==
  LET d(g) == Dist(first_group(k, b.groups_mask), g, num_groups(b))
  IN  CHOOSE g \in gs : \A q \in gs : d(g) <= d(q)
last_group(b, k) ==
  nearest(b, k, {g \in Groups(b) : hits(b, g, k) # {} \/ match_empty(b, g) # {}})

found0(b, k)     == hits(b, last_group(b, k), k) # {}
found0_ind(b, k) ==
  LET g == last_group(b, k) IN b.indexes[g][Min(hits(b, g, k))]

(* Mutant: the tag becomes EMPTY, as if nothing could lie behind it.       *)
remove0_empties(b, k) ==
  LET g == last_group(b, k)
      s == Min(hits(b, g, k))
  IN  [b EXCEPT !.deleted = @ \cup {b.indexes[g][s]}, !.h7[g][s] = EMPTY_H7]

(* DELETE: the slot keeps its tag.                                         *)
remove0(b, k) ==
  LET g == last_group(b, k)
      s == Min(hits(b, g, k))
  IN  [b EXCEPT !.deleted = @ \cup {b.indexes[g][s]}, !.indexes[g][s] = INDEX_DELETED]

(* Mutant: any deleted slot will do, also one the probe did not come by.   *)
insert_slot_anywhere(b, k) ==
  LET end   == last_group(b, k)
      freed == {g \in Groups(b) : reusable(b, g, k) # {}}
      g     == IF freed = {} THEN end ELSE Min(freed)
  IN  <<g, Min(IF freed = {} THEN match_empty(b, g) ELSE reusable(b, g, k))>>

(* first_deleted_slot if the probe has set it, else the empty lane.        *)
insert_slot(b, k) ==
  LET end   == last_group(b, k)
      freed == {g \in Before(b, k, end) \cup {end} : reusable(b, g, k) # {}}
      g     == IF freed = {} THEN end ELSE nearest(b, k, freed)
  IN  <<g, Min(IF freed = {} THEN match_empty(b, g) ELSE reusable(b, g, k))>>

(* INSERT of an absent key.                                                *)
reserve0(b, k) ==
  LET sl == insert_slot(b, k)
  IN  [b EXCEPT !.h7[sl[1]][sl[2]]      = h7_val(k),
                !.indexes[sl[1]][sl[2]] = b.els_bound % IND_MOD,
                !.els_bound             = @ + 1]

-----------------------------------------------------------------------------
(* A v0 bin as a bin of the current tables: a slot whose index is          *)
(* INDEX_DELETED is one whose tag is DELETED_H7.                           *)
Shown(b) ==
  [b EXCEPT !.h7 = [g \in Groups(b) |-> [s \in Lanes |->
     IF b.h7[g][s] # EMPTY_H7 /\ b.indexes[g][s] = INDEX_DELETED
     THEN DELETED_H7 ELSE b.h7[g][s]]]]

(* Slots are used again, elements are not.                                 *)
LoadBelow(b) == Cardinality(Used(b)) <= b.els_bound

=============================================================================
