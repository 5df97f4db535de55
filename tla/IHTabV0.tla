------------------------------- MODULE IHTabV0 -------------------------------
(***************************************************************************)
(* ihtab-v0: IHTab with the bin of BinV0 (ihtab-v0.h, ihtab-v0.hpp).       *)
(* iht_do_1 is one step here and so is iht_rebuild: IHTab has their loops. *)
(*                                                                         *)
(* pc  "none"  no table            "idle"   no call is running             *)
(*     "full"  iht_perform is about to call iht_rebuild                    *)
(*     "do"    about to call iht_do_1                                      *)
(*     "store" INSERT returned false: the caller owes `*res = e'           *)
(***************************************************************************)
EXTENDS BinV0

CONSTANT MinSizes  \* the arguments of iht_create

ASSUME IHTabV0Assumption ==
  MinSizes \subseteq Nat /\ \A m \in MinSizes : 2 * m <= IND_MOD

VARIABLES els_num, bin, pc, call, res, ret

vars == <<els_num, bin, pc, call, res, ret>>

Queries == [key : Keys, val : {Garbage}]
Calls   == [action : {"INSERT"}, el : El] \cup [action : {"FIND", "DELETE"}, el : Queries]
NoCall  == [action |-> "none", el |-> Uninit]

Init ==
  /\ pc = "none" /\ els_num = 0 /\ bin = Garbage
  /\ call = NoCall /\ res = Garbage /\ ret = FALSE

(* The loop of iht_create: the groups are doubled until els is big enough. *)
created_groups(min_size) ==
  Min({2 ^ p : p \in {q \in 0 .. min_size : els_size(2 ^ q) >= min_size}})

iht_create(min_size) ==
  /\ pc = "none" /\ pc' = "idle"
  /\ els_num' = 0 /\ bin' = new_bin(created_groups(min_size))
  /\ UNCHANGED <<call, res, ret>>

iht_destroy ==
  /\ pc = "idle" /\ pc' = "none" /\ bin' = Garbage /\ els_num' = 0
  /\ call' = NoCall /\ res' = Garbage /\ ret' = FALSE

-----------------------------------------------------------------------------
(* iht_perform and iht_rebuild.                                            *)

(* Mutant: els may be filled, so that the last index is INDEX_DELETED.     *)
full_for_late(action) == action = "INSERT" /\ bin.els_bound >= els_size(num_groups(bin))

full_for(action) == action = "INSERT" /\ bin.els_bound >= els_size(num_groups(bin)) - 1

rebuilt_groups ==
  IF 4 * els_num >= indexes_size(num_groups(bin)) THEN 2 * num_groups(bin) ELSE num_groups(bin)

enter_perform(c) == pc = "idle" /\ call' = c /\ res' = Garbage /\ ret' = FALSE

perform_direct(c) ==
  /\ enter_perform(c) /\ ~full_for(c.action)
  /\ pc' = "do"
  /\ UNCHANGED <<els_num, bin>>

(* The bound: the caller never grows a table past what ind_t can index.    *)
perform_full(c) ==
  /\ enter_perform(c) /\ full_for(c.action)
  /\ els_size(rebuilt_groups) <= IND_MOD
  /\ pc' = "full"
  /\ UNCHANGED <<els_num, bin>>

(* iht_do_1 on the new bin and the store through r.                        *)
insert_el(b, e) ==
  IF found0(b, e.key)
  THEN store(b, found0_ind(b, e.key), e)
  ELSE store(reserve0(b, e.key), b.els_bound, e)

(* Mutant: deleted elements are put into the new bin as well.              *)
rebuilt_all(b, n) ==
  LET upto[j \in 0 .. b.els_bound] ==
        IF j = 0 THEN new_bin(n) ELSE insert_el(upto[j - 1], b.els[j - 1])
  IN  upto[b.els_bound]

(* The loop over els, up to element j: deleted elements are left behind.   *)
rebuilt(b, n) ==
  LET upto[j \in 0 .. b.els_bound] ==
        IF j = 0 THEN new_bin(n)
        ELSE IF j - 1 \in b.deleted THEN upto[j - 1]
        ELSE insert_el(upto[j - 1], b.els[j - 1])
  IN  upto[b.els_bound]

(* els_num, which the loop counts up, gets its old value back.             *)
iht_rebuild ==
  /\ pc = "full" /\ pc' = "do"
  /\ bin' = rebuilt(bin, rebuilt_groups)
  /\ UNCHANGED <<els_num, call, res, ret>>

-----------------------------------------------------------------------------
(* iht_do_1 on t->bin.                                                     *)

do_found ==
  /\ pc = "do" /\ call.action # "DELETE" /\ found0(bin, call.el.key)
  /\ pc' = "idle" /\ ret' = TRUE /\ res' = found0_ind(bin, call.el.key)
  /\ UNCHANGED <<els_num, bin, call>>

do_delete ==
  /\ pc = "do" /\ call.action = "DELETE" /\ found0(bin, call.el.key)
  /\ pc' = "idle" /\ ret' = TRUE
  /\ els_num' = els_num - 1 /\ bin' = remove0(bin, call.el.key)
  /\ UNCHANGED <<call, res>>

do_absent ==
  /\ pc = "do" /\ call.action # "INSERT" /\ ~found0(bin, call.el.key)
  /\ pc' = "idle" /\ ret' = FALSE
  /\ UNCHANGED <<els_num, bin, call, res>>

do_insert ==
  /\ pc = "do" /\ call.action = "INSERT" /\ ~found0(bin, call.el.key)
  /\ pc' = "store" /\ ret' = FALSE /\ res' = bin.els_bound
  /\ els_num' = els_num + 1 /\ bin' = reserve0(bin, call.el.key)
  /\ UNCHANGED <<call>>

caller_store ==
  /\ pc = "store" /\ pc' = "idle" /\ bin' = store(bin, res, call.el)
  /\ UNCHANGED <<els_num, call, res, ret>>

caller_replace ==
  /\ pc = "idle" /\ ret = TRUE /\ call.action = "INSERT"
  /\ bin' = store(bin, res, call.el)
  /\ UNCHANGED <<els_num, pc, call, res, ret>>

Next ==
  \/ \E m \in MinSizes : iht_create(m)
  \/ \E c \in Calls : perform_direct(c) \/ perform_full(c)
  \/ iht_destroy \/ iht_rebuild
  \/ do_found \/ do_delete \/ do_absent \/ do_insert \/ caller_store \/ caller_replace

Spec == Init /\ [][Next]_vars

-----------------------------------------------------------------------------
(* Properties.                                                             *)

View == IF pc = "store" THEN store(bin, res, call.el) ELSE bin

(* With its deleted slots shown as such, a v0 bin is searchable as one of  *)
(* the current tables is: a slot used again lies on its new key's probe    *)
(* path and has its tag, and no more slots are in use than elements.       *)
V0Searchable == pc # "none" => BinOK(Shown(View)) /\ LoadBelow(View)

(* No element has INDEX_DELETED for its index: at the greatest size ind_t  *)
(* allows, iht_perform leaves the last element of els unused.              *)
IndexNotReserved ==
  pc # "none" => \A j \in Live(bin) : j # INDEX_DELETED

(* The lanes an integer comparison reports beyond the equal ones differ in *)
(* the lowest bit and hold an element or INDEX_DELETED, so looking at them *)
(* is harmless; the lowest lane reported always is an equal one.           *)
SwarHarmless ==
  pc # "none" =>
    \A g \in Groups(bin), k \in Keys :
      LET all == swar_mask(bin, g, h7_val(k))
          eq  == match_mask(bin, g, h7_val(k))
      IN  /\ eq \subseteq all
          /\ all # {} => Min(all) \in eq
          /\ \A s \in all : bin.h7[g][s] \in H7 /\ bin.indexes[g][s] # Garbage

(* iht_els_count.                                                          *)
CountExact == pc # "none" => els_num = Cardinality(Live(bin))

(* What the table shows of the map of IndexedMap.                          *)
MapPhase == IF pc \in {"idle", "store"} THEN "idle" ELSE IF pc = "none" THEN "none" ELSE "busy"
MapContents == IF pc = "none" THEN [k \in {} |-> Garbage] ELSE Contents(View)
MapOut == IF res = Garbage THEN Garbage ELSE View.els[res].val

Map == INSTANCE IndexedMap WITH phase <- MapPhase, map <- MapContents, out <- MapOut

(* The v0 table is the same map as the current one.                        *)
RefinesMap == Map!Spec

=============================================================================
