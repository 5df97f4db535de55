-------------------------------- MODULE IHTab --------------------------------
(***************************************************************************)
(* ihtab: the hash table with a single bin (ihtab.h, ihtab.hpp).           *)
(*                                                                         *)
(* The library is sequential: a call runs to its end before the next one.  *)
(* A call is modelled step by step, one step per iteration of each loop of *)
(* the code (probing groups in do_1, doubling in create, re-inserting in   *)
(* rebuild), so that whether those loops end is a property of the model.   *)
(*                                                                         *)
(* pc  "none"     no table                                                 *)
(*     "size"     in iht_create, in the loop that doubles indexes_size     *)
(*     "idle"     no call is running                                       *)
(*     "probe"    in iht_do_1 on t->bin, called by iht_perform             *)
(*     "rebuild"  at the head of the loop of iht_rebuild                   *)
(*     "reinsert" in iht_do_1 on rb, called by iht_rebuild                 *)
(*     "store"    INSERT returned false: the caller owes `*res = e'        *)
(***************************************************************************)
EXTENDS Bin

CONSTANT MinSizes  \* the arguments of iht_create

ASSUME IHTabAssumption ==
  /\ MinSizes \subseteq Nat
  /\ els_size(1) <= IND_MOD
  /\ \A m \in MinSizes : 2 * m <= IND_MOD

VARIABLES
  els_num,    \* t->els_num
  bin,        \* t->bin
  rb,         \* the bin iht_rebuild is filling
  i,          \* its loop counter; in iht_create, the number of groups
  saved,      \* its copy of els_num
  pc,         \* where the running call is
  call,       \* the arguments of the running, or of the last, call
  group_ind,  \* the group iht_do_1 looks at
  res,        \* *res as an index into bin.els, Garbage if it was not set
  ret         \* what the last call returned

vars == <<els_num, bin, rb, i, saved, pc, call, group_ind, res, ret>>

Queries  == [key : Keys, val : {Garbage}]
Calls    == [action : {"INSERT"}, el : El] \cup
            [action : {"FIND", "DELETE"}, el : Queries]
NoCall   == [action |-> "none", el |-> Uninit]

Init ==
  /\ pc = "none"
  /\ els_num = 0 /\ bin = Garbage
  /\ rb = Garbage /\ i = 0 /\ saved = 0
  /\ call = NoCall /\ group_ind = 0 /\ res = Garbage /\ ret = FALSE

-----------------------------------------------------------------------------
(* Creation and destruction.                                               *)

iht_create(min_size) ==
  /\ pc = "none"
  /\ pc' = "size" /\ i' = 1 /\ saved' = min_size
  /\ UNCHANGED <<els_num, bin, rb, call, group_ind, res, ret>>

create_double ==
  /\ pc = "size" /\ els_size(i) < saved
  /\ i' = 2 * i
  /\ UNCHANGED <<els_num, bin, rb, saved, pc, call, group_ind, res, ret>>

create_done ==
  /\ pc = "size" /\ els_size(i) >= saved
  /\ els_num' = 0 /\ bin' = new_bin(i)
  /\ pc' = "idle" /\ i' = 0 /\ saved' = 0
  /\ UNCHANGED <<rb, call, group_ind, res, ret>>

iht_destroy ==
  /\ pc = "idle"
  /\ pc' = "none" /\ bin' = Garbage /\ els_num' = 0
  /\ call' = NoCall /\ res' = Garbage /\ ret' = FALSE
  /\ UNCHANGED <<rb, i, saved, group_ind>>

-----------------------------------------------------------------------------
(* iht_perform: an INSERT into a bin with no element to spare rebuilds it  *)
(* first, whether or not the key is there; then iht_do_1 runs.             *)

(* Mutant: a table that holds more than its elements still is not full.    *)
full_for_late(action) ==
  action = "INSERT" /\ bin.els_bound > els_size(num_groups(bin))

full_for(action) ==
  action = "INSERT" /\ bin.els_bound >= els_size(num_groups(bin)) - 1

(* Twice the groups when the live elements are half of what fits.          *)
rebuilt_groups ==
  IF 4 * els_num >= indexes_size(num_groups(bin))
  THEN 2 * num_groups(bin) ELSE num_groups(bin)

enter_perform(c) ==
  /\ pc = "idle"
  /\ call' = c /\ res' = Garbage /\ ret' = FALSE

(* Mutant: the first group comes from the hash's low bits.                 *)
perform_direct_undivided(c) ==
  /\ enter_perform(c)
  /\ ~full_for(c.action)
  /\ pc' = "probe" /\ group_ind' = Hash[c.el.key] % num_groups(bin)
  /\ UNCHANGED <<els_num, bin, rb, i, saved>>

perform_direct(c) ==
  /\ enter_perform(c)
  /\ ~full_for(c.action)
  /\ pc' = "probe" /\ group_ind' = first_group(c.el.key, bin.groups_mask)
  /\ UNCHANGED <<els_num, bin, rb, i, saved>>

(* The bound: the caller never grows a table past what ind_t can index.    *)
perform_rebuild(c) ==
  /\ enter_perform(c)
  /\ full_for(c.action)
  /\ els_size(rebuilt_groups) <= IND_MOD
  /\ pc' = "rebuild" /\ rb' = new_bin(rebuilt_groups)
  /\ i' = 0 /\ saved' = els_num
  /\ UNCHANGED <<els_num, bin, group_ind>>

iht_perform(c) == perform_direct(c) \/ perform_rebuild(c)

-----------------------------------------------------------------------------
(* iht_rebuild: each element that is not deleted goes into rb, in order.   *)

rebuild_skip ==
  /\ pc = "rebuild" /\ i < bin.els_bound /\ i \in bin.deleted
  /\ i' = i + 1
  /\ UNCHANGED <<els_num, bin, rb, saved, pc, call, group_ind, res, ret>>

(* Mutant: the bitmap is not looked at.                                    *)
rebuild_take_all ==
  /\ pc = "rebuild" /\ i < bin.els_bound
  /\ pc' = "reinsert"
  /\ group_ind' = first_group(bin.els[i].key, rb.groups_mask)
  /\ UNCHANGED <<els_num, bin, rb, i, saved, call, res, ret>>

(* Mutant: the first group of rb comes from the old mask.                  *)
rebuild_take_old_mask ==
  /\ pc = "rebuild" /\ i < bin.els_bound /\ i \notin bin.deleted
  /\ pc' = "reinsert"
  /\ group_ind' = first_group(bin.els[i].key, bin.groups_mask)
  /\ UNCHANGED <<els_num, bin, rb, i, saved, call, res, ret>>

rebuild_take ==
  /\ pc = "rebuild" /\ i < bin.els_bound /\ i \notin bin.deleted
  /\ pc' = "reinsert"
  /\ group_ind' = first_group(bin.els[i].key, rb.groups_mask)
  /\ UNCHANGED <<els_num, bin, rb, i, saved, call, res, ret>>

reinsert_next ==
  /\ pc = "reinsert"
  /\ eq_lanes(rb, group_ind, bin.els[i].key) = {}
  /\ match_empty(rb, group_ind) = {}
  /\ group_ind' = next_group(group_ind, rb.groups_mask)
  /\ UNCHANGED <<els_num, bin, rb, i, saved, pc, call, res, ret>>

(* iht_do_1 returns and iht_rebuild stores the element through r.  Had rb  *)
(* an equal element, iht_do_1 would return that one's place.               *)
reinsert_put ==
  LET el    == bin.els[i]
      found == eq_lanes(rb, group_ind, el.key) # {}
      r     == IF found THEN hit_ind(rb, group_ind, el.key) ELSE rb.els_bound
  IN  /\ pc = "reinsert"
      /\ found \/ match_empty(rb, group_ind) # {}
      /\ rb' = store(IF found THEN rb ELSE reserve(rb, group_ind, el.key), r, el)
      /\ els_num' = IF found THEN els_num ELSE els_num + 1
      /\ pc' = "rebuild" /\ i' = i + 1 /\ group_ind' = 0
      /\ UNCHANGED <<bin, saved, call, res, ret>>

(* Mutant: the probe after a rebuild starts at a group of the old mask.    *)
rebuild_done_old_mask ==
  /\ pc = "rebuild" /\ i >= bin.els_bound
  /\ els_num' = saved /\ bin' = rb
  /\ rb' = Garbage /\ i' = 0 /\ saved' = 0
  /\ pc' = "probe" /\ group_ind' = first_group(call.el.key, bin.groups_mask)
  /\ UNCHANGED <<call, res, ret>>

(* Mutant: els_num is not restored.                                        *)
rebuild_done_unrestored ==
  /\ pc = "rebuild" /\ i >= bin.els_bound
  /\ bin' = rb /\ rb' = Garbage /\ i' = 0 /\ saved' = 0
  /\ pc' = "probe" /\ group_ind' = first_group(call.el.key, rb.groups_mask)
  /\ UNCHANGED <<els_num, call, res, ret>>

rebuild_done ==
  /\ pc = "rebuild" /\ i >= bin.els_bound
  /\ els_num' = saved /\ bin' = rb
  /\ rb' = Garbage /\ i' = 0 /\ saved' = 0
  /\ pc' = "probe" /\ group_ind' = first_group(call.el.key, rb.groups_mask)
  /\ UNCHANGED <<call, res, ret>>

-----------------------------------------------------------------------------
(* iht_do_1 on t->bin for the running call.                                *)

probe_next ==
  /\ pc = "probe"
  /\ eq_lanes(bin, group_ind, call.el.key) = {}
  /\ match_empty(bin, group_ind) = {}
  /\ group_ind' = next_group(group_ind, bin.groups_mask)
  /\ UNCHANGED <<els_num, bin, rb, i, saved, pc, call, res, ret>>

probe_hit ==
  /\ pc = "probe"
  /\ eq_lanes(bin, group_ind, call.el.key) # {}
  /\ ret' = TRUE /\ pc' = "idle" /\ group_ind' = 0
  /\ UNCHANGED <<rb, i, saved, call>>

probe_found ==
  /\ probe_hit
  /\ call.action # "DELETE"
  /\ res' = hit_ind(bin, group_ind, call.el.key)
  /\ UNCHANGED <<els_num, bin>>

probe_delete ==
  /\ probe_hit
  /\ call.action = "DELETE"
  /\ els_num' = els_num - 1
  /\ bin' = remove_hit(bin, group_ind, call.el.key)
  /\ UNCHANGED res

probe_miss ==
  /\ pc = "probe"
  /\ eq_lanes(bin, group_ind, call.el.key) = {}
  /\ match_empty(bin, group_ind) # {}
  /\ ret' = FALSE /\ group_ind' = 0
  /\ UNCHANGED <<rb, i, saved, call>>

probe_absent ==
  /\ probe_miss
  /\ call.action # "INSERT"
  /\ pc' = "idle"
  /\ UNCHANGED <<els_num, bin, res>>

probe_insert ==
  /\ probe_miss
  /\ call.action = "INSERT"
  /\ els_num' = els_num + 1
  /\ bin' = reserve(bin, group_ind, call.el.key)
  /\ res' = bin.els_bound
  /\ pc' = "store"

-----------------------------------------------------------------------------
(* The caller: `*res = e' after a false INSERT, which the API requires,    *)
(* and after a true one, which replaces the element (test_replace).        *)

caller_store ==
  /\ pc = "store"
  /\ bin' = store(bin, res, call.el)
  /\ pc' = "idle"
  /\ UNCHANGED <<els_num, rb, i, saved, call, group_ind, res, ret>>

caller_replace ==
  /\ pc = "idle" /\ ret = TRUE /\ call.action = "INSERT"
  /\ bin' = store(bin, res, call.el)
  /\ UNCHANGED <<els_num, rb, i, saved, pc, call, group_ind, res, ret>>

(* The steps of the code, and those the caller chooses.                    *)
Code ==
  \/ create_double \/ create_done
  \/ rebuild_skip \/ rebuild_take \/ reinsert_next \/ reinsert_put \/ rebuild_done
  \/ probe_next \/ probe_found \/ probe_delete \/ probe_absent \/ probe_insert

Caller ==
  \/ \E m \in MinSizes : iht_create(m)
  \/ \E c \in Calls : iht_perform(c)
  \/ iht_destroy \/ caller_store \/ caller_replace

Next == Code \/ Caller

Spec == Init /\ [][Next]_vars

(* A running call is never suspended: the processor executes its steps.    *)
FairSpec == Spec /\ WF_vars(Code)

-----------------------------------------------------------------------------
(* Properties.                                                             *)

(* The table as it is once the caller has stored what it owes.             *)
View == IF pc = "store" THEN store(bin, res, call.el) ELSE bin

Exists == pc \notin {"none", "size"}

Rebuilding == pc \in {"rebuild", "reinsert"}

(* Types: arrays have the sizes allocated for them, els_bound stays within *)
(* els (iht_do_1 checks no bound), and stored indices fit ind_t.           *)
TypeOK ==
  /\ pc \in {"none", "size", "idle", "probe", "rebuild", "reinsert", "store"}
  /\ els_num \in Nat /\ i \in Nat /\ saved \in Nat /\ ret \in BOOLEAN
  /\ IF Exists THEN IsBin(bin) ELSE bin = Garbage
  /\ IF Rebuilding THEN IsBin(rb) ELSE rb = Garbage
  /\ call \in Calls \cup {NoCall}
  /\ group_ind \in Nat
  /\ res \in Nat \cup {Garbage}

(* A tag match never leads iht_do_1 to a deleted or unwritten element: Eq  *)
(* is only called on live, initialised elements with the right index.      *)
NoStaleIndex ==
  Exists => SlotsSound(View) /\ ElsDistinct(View)

(* Probing stops at the first empty lane, so no element may sit behind one *)
(* on its own probe path, whatever was deleted or inserted in between.     *)
NoElementLost ==
  Exists => SlotsReachable(View) /\ SlotsExact(View)

(* iht_els_count: between calls els_num counts the live elements, although *)
(* iht_rebuild runs it up while it re-inserts and then restores it.        *)
CountExact ==
  Exists /\ ~Rebuilding => els_num = Cardinality(Live(bin))

(* README.md "50 % load factor": at most half of the slots are not empty,  *)
(* which is what iht_do_1 needs to find an empty lane in every table.      *)
HalfLoad ==
  /\ Exists => LoadExact(bin) /\ 2 * bin.els_bound <= indexes_size(num_groups(bin))
  /\ Rebuilding => LoadExact(rb) /\ 2 * rb.els_bound <= indexes_size(num_groups(rb))

(* While iht_rebuild runs, rb is a sound bin that holds exactly the live   *)
(* elements it has passed, in their old order.                             *)
RebuildFaithful ==
  Rebuilding =>
    LET passed == {j \in Live(bin) : j < i}
    IN  /\ rb.deleted = {} /\ rb.els_bound = Cardinality(passed)
        /\ \A j \in passed :
             rb.els[Cardinality({m \in passed : m < j})] = bin.els[j]
        /\ SlotsSound(rb) /\ SlotsReachable(rb) /\ SlotsExact(rb) /\ ElsDistinct(rb)

(* A probe never leaves a group behind that holds its key or an empty      *)
(* lane, also after rebuild has changed the mask its groups come from.     *)
ProbeSound ==
  /\ pc = "probe" => Probed(bin, call.el.key, group_ind)
  /\ pc = "reinsert" => i \in Live(bin) /\ Probed(rb, bin.els[i].key, group_ind)

(* When iht_do_1 inserts, els has room for one more element: iht_perform   *)
(* checks before it calls, and iht_rebuild chooses the new size for that.  *)
RoomToInsert ==
  /\ pc = "probe" /\ call.action = "INSERT" => bin.els_bound < els_size(num_groups(bin))
  /\ Rebuilding => Cardinality(Live(bin)) < els_size(num_groups(rb))

(* A call that returned true left *res at a live element with its key, and *)
(* it stays there until the next call.                                     *)
SlotReturned ==
  pc = "idle" /\ ret /\ call.action # "DELETE" =>
    res \in Live(bin) /\ bin.els[res].key = call.el.key

(* The inductive invariant of the proofs: the above, and what links them.  *)
SizeInv == pc = "size" => i > 0 /\ els_size(i) <= IND_MOD /\ 2 * saved <= IND_MOD

TableInv ==
  Exists => BinOK(View) /\ LoadExact(bin) /\ els_size(num_groups(bin)) <= IND_MOD

CallInv ==
  /\ ~Exists => call = NoCall /\ ret = FALSE /\ res = Garbage
  /\ pc \in {"probe", "rebuild", "reinsert", "store"} => call \in Calls
  /\ pc \in {"probe", "rebuild", "reinsert"} => res = Garbage
  /\ pc \in {"rebuild", "reinsert", "store"} => call.action = "INSERT"
  /\ pc = "store" => res \in Live(bin) /\ ret = FALSE

RebuildInv ==
  Rebuilding =>
    /\ BinOK(rb) /\ LoadExact(rb) /\ els_size(num_groups(rb)) <= IND_MOD
    /\ saved = Cardinality(Live(bin)) /\ i <= bin.els_bound
    /\ \A x \in Live(rb) : \E j \in Live(bin) : j < i /\ rb.els[x] = bin.els[j]

IInv ==
  /\ TypeOK /\ SizeInv /\ TableInv /\ CallInv /\ RebuildInv
  /\ CountExact /\ ProbeSound /\ RoomToInsert /\ SlotReturned /\ RebuildFaithful

(* Every call of the library returns: do_1 meets a match or an empty lane, *)
(* rebuild and create leave their loops.                                   *)
Returns == (pc \in {"size", "probe", "rebuild", "reinsert"}) ~> (pc \in {"idle", "store"})

(* What the table shows of the map of IndexedMap.                          *)
MapPhase ==
  IF ~Exists THEN "none" ELSE IF pc \in {"idle", "store"} THEN "idle" ELSE "busy"
MapContents == IF Exists THEN Contents(View) ELSE [k \in {} |-> Garbage]
MapOut == IF res = Garbage THEN Garbage ELSE View.els[res].val

Map == INSTANCE IndexedMap WITH phase <- MapPhase, map <- MapContents, out <- MapOut

(* iht_perform does what README.md says of it, for every sequence of calls *)
(* and whatever rebuilds they cause.                                       *)
RefinesMap == Map!Spec

=============================================================================
