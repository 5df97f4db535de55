----------------------------- MODULE IXHTabIter ------------------------------
(***************************************************************************)
(* A loop over the elements of an ixhtab, with calls of the table between  *)
(* its steps: see IHTabIter.  An iterator is a bin and an index into its   *)
(* els.  The light one of the four headers has a ptr that is NULL at the   *)
(* end; the forward one of the C++ headers is compared with the end() that *)
(* a range-based for takes before the first step.                          *)
(*                                                                         *)
(* The caller of the forward iterator splits no bin during the loop: its   *)
(* end() is not the table's any more after that.  The loop with the light  *)
(* iterator may contain any call.                                          *)
(***************************************************************************)
EXTENDS IXHTab

VARIABLES
  loop,             \* which iterator is in use: "off", "light", "forward"
  bin_idx, el_idx,  \* its position
  ptr,              \* it.ptr of the light one, as a position; Garbage for NULL
  stop,             \* bin_idx of the end() of the forward one; its el_idx is 0
  seen,             \* history: keys met by the loop and not deleted since
  must,             \* history: keys in the table all the time since the loop began
  moves             \* history: how elements were moved since then

ivars == <<loop, bin_idx, el_idx, ptr, stop, seen, must, moves>>
allvars == <<vars, ivars>>

IterInit ==
  /\ Init
  /\ loop = "off" /\ bin_idx = 0 /\ el_idx = 0 /\ ptr = Garbage /\ stop = 0
  /\ seen = {} /\ must = {} /\ moves = {}

bins_num == Cardinality(DOMAIN bins)

(* Positions are ordered by bin, then by index.                            *)
reaches(p, q, j) == p[1] > q \/ (p[1] = q /\ p[2] >= j)

(* The live elements at or after position q, j, and the first of them.     *)
ahead(q, j) ==
  {p \in UNION {{b} \X Live(bins[b]) : b \in DOMAIN bins} : reaches(p, q, j)}
first(ps) == CHOOSE p \in ps : \A r \in ps : reaches(r, p[1], p[2])

(* el_idx when no bin is left: the light iterator keeps the value it had   *)
(* in the last one.                                                        *)
end_idx(kind, q, j) ==
  IF q >= bins_num THEN j
  ELSE IF kind = "forward" THEN 0
  ELSE Max({IF q = bins_num - 1 THEN j ELSE 0, bins[bins_num - 1].els_bound})

(* Mutant: in the next bin the loop goes on with the index it has.         *)
advance_same_index(kind, q, j) ==
  LET ps == {p \in ahead(q, j) : p[2] >= j}
  IN  IF ps # {} THEN first(ps) ELSE <<bins_num, end_idx(kind, q, j)>>

(* Mutant: the bitmap is not looked at.                                    *)
advance_to_any(kind, q, j) ==
  IF q < bins_num /\ j < bins[q].els_bound THEN <<q, j>>
  ELSE IF ahead(q, j) # {} THEN first(ahead(q, j))
  ELSE <<bins_num, end_idx(kind, q, j)>>

(* Mutant: the loop over a bin goes on to els_bound itself.                *)
advance_past_bound(kind, q, j) ==
  IF q < bins_num /\ j <= bins[q].els_bound /\ \A p \in ahead(q, j) : p[1] # q
  THEN <<q, bins[q].els_bound>>
  ELSE IF ahead(q, j) # {} THEN first(ahead(q, j))
  ELSE <<bins_num, end_idx(kind, q, j)>>

(* iter_advance and the forward iterator's advance, from q, j.             *)
advance(kind, q, j) ==
  IF ahead(q, j) # {} THEN first(ahead(q, j)) ELSE <<bins_num, end_idx(kind, q, j)>>

goto(kind, q, j) ==
  LET p == advance(kind, q, j)
  IN  /\ bin_idx' = p[1] /\ el_idx' = p[2]
      /\ ptr' = IF kind = "light" /\ p[1] < bins_num THEN p ELSE Garbage

(* iter_valid, and operator!= with the end of the loop.                    *)
valid == IF loop = "light" THEN ptr # Garbage ELSE <<bin_idx, el_idx>> # <<stop, 0>>

keys_now == {e.key : e \in Elements}

met(was) == was \cup (IF valid' THEN {bins[bin_idx'].els[el_idx'].key} ELSE {})

iter_begin(kind) ==
  /\ pc = "idle" /\ loop = "off"
  /\ loop' = kind /\ goto(kind, 0, 0)
  /\ stop' = IF kind = "forward" THEN bins_num ELSE 0
  /\ seen' = met({}) /\ must' = keys_now /\ moves' = {}
  /\ UNCHANGED vars

iter_next ==
  /\ pc = "idle" /\ loop # "off" /\ valid
  /\ goto(loop, bin_idx, el_idx + 1)
  /\ UNCHANGED <<vars, loop, stop, must, moves>>
  /\ seen' = met(seen)

leave_loop ==
  /\ pc = "idle" /\ loop # "off" /\ ~valid
  /\ loop' = "off" /\ bin_idx' = 0 /\ el_idx' = 0 /\ ptr' = Garbage /\ stop' = 0
  /\ seen' = {} /\ must' = {} /\ moves' = {}
  /\ UNCHANGED vars

(* A step of the table, in or out of the loop.                             *)
table_step ==
  /\ Next
  /\ loop # "off" => pc' # "none"
  /\ loop = "forward" => pc' # "split"
  /\ \E now \in {keys_now'} : seen' = seen \cap now /\ must' = must \cap now
  /\ moves' = moves \cup ({pc'} \cap (IF loop # "off" THEN {"resize", "split"} ELSE {}))
  /\ UNCHANGED <<loop, bin_idx, el_idx, ptr, stop>>

IterNext ==
  \/ \E kind \in {"light", "forward"} : iter_begin(kind)
  \/ iter_next \/ leave_loop \/ table_step

IterSpec == IterInit /\ [][IterNext]_allvars

-----------------------------------------------------------------------------
(* Properties.                                                             *)

(* While no bin is compacted, doubled or split, the element under the      *)
(* iterator has been written, whatever was inserted or deleted meanwhile.  *)
CurrentReadable ==
  loop # "off" /\ pc # "none" /\ valid /\ moves = {} =>
    /\ bin_idx \in DOMAIN bins
    /\ el_idx < bins[bin_idx].els_bound
    /\ View(bin_idx).els[el_idx] \in El

(* A loop during which no element was moved has met, when it ends, every   *)
(* element that was in the table all the time.                             *)
MeetsAll == loop # "off" /\ ~valid /\ moves = {} => must \subseteq seen

(* Each step meets a live element; a key met before is met again only if   *)
(* it was deleted and inserted, or if a split moved it to a later bin.     *)
(* Compacting or doubling a bin never makes the loop repeat one.           *)
MeetsOnce ==
  [][iter_next /\ valid' =>
       /\ el_idx' \in Live(bins[bin_idx'])
       /\ "split" \notin moves => bins[bin_idx'].els[el_idx'].key \notin seen]_allvars

=============================================================================
