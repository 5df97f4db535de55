------------------------------ MODULE IHTabIter ------------------------------
(***************************************************************************)
(* A loop over the elements of an ihtab, with calls of the table between   *)
(* its steps.  There are two iterators: the light one of ihtab.h and       *)
(* ihtab.hpp, whose ptr is NULL at the end, and the forward iterator of    *)
(* ihtab.hpp, which a range-based for compares with the end() it took      *)
(* before its first step.  Both are an index into els that skips deleted   *)
(* elements.                                                               *)
(*                                                                         *)
(* The caller of the forward iterator makes no INSERT during the loop: its *)
(* end() is not the table's any more after one.  The loop with the light   *)
(* iterator may contain any call, even one that rebuilds the table.        *)
(***************************************************************************)
EXTENDS IHTab

VARIABLES
  loop,    \* which iterator is in use: "off", "light", "forward"
  el_idx,  \* its index
  ptr,     \* it.ptr of the light one, as an index; Garbage for NULL
  stop,    \* el_idx of the end() of the forward one
  seen,    \* history: keys met by the loop and not deleted since
  must,    \* history: keys in the table all the time since the loop began
  moved    \* history: whether the table was rebuilt since then

ivars == <<loop, el_idx, ptr, stop, seen, must, moved>>
allvars == <<vars, ivars>>

IterInit ==
  /\ Init
  /\ loop = "off" /\ el_idx = 0 /\ ptr = Garbage /\ stop = 0
  /\ seen = {} /\ must = {} /\ moved = FALSE

(* Mutant: the bitmap is not looked at.                                    *)
advance_to_any(idx) == idx

(* Mutant: a deleted element ends the loop.                                *)
advance_to_gap(idx) ==
  IF idx \in Live(bin) THEN idx ELSE Max({idx, bin.els_bound})

(* The first element from idx on that is not deleted, else els_bound; an   *)
(* idx beyond els_bound stays.                                             *)
advance(idx) ==
  Min({j \in Live(bin) : j >= idx} \cup {Max({idx, bin.els_bound})})

(* Mutant: the element at els_bound is taken for one.                      *)
goto_past_end(kind, idx) ==
  LET j == advance(idx)
  IN  /\ el_idx' = j
      /\ ptr' = IF kind = "light" /\ j <= bin.els_bound THEN j ELSE Garbage

(* iter_advance and the forward iterator's advance, from idx.              *)
goto(kind, idx) ==
  LET j == advance(idx)
  IN  /\ el_idx' = j
      /\ ptr' = IF kind = "light" /\ j < bin.els_bound THEN j ELSE Garbage

(* iter_valid, and operator!= with the end of the loop.                    *)
valid == IF loop = "light" THEN ptr # Garbage ELSE el_idx # stop

keys_now == DOMAIN MapContents

met(was) == was \cup (IF valid' THEN {bin.els[el_idx'].key} ELSE {})

iter_begin(kind) ==
  /\ pc = "idle" /\ loop = "off"
  /\ loop' = kind /\ goto(kind, 0)
  /\ stop' = IF kind = "forward" THEN bin.els_bound ELSE 0
  /\ seen' = met({}) /\ must' = keys_now /\ moved' = FALSE
  /\ UNCHANGED vars

iter_next ==
  /\ pc = "idle" /\ loop # "off" /\ valid
  /\ goto(loop, el_idx + 1)
  /\ UNCHANGED <<vars, loop, stop, must, moved>>
  /\ seen' = met(seen)

leave_loop ==
  /\ pc = "idle" /\ loop # "off" /\ ~valid
  /\ loop' = "off" /\ el_idx' = 0 /\ ptr' = Garbage /\ stop' = 0
  /\ seen' = {} /\ must' = {} /\ moved' = FALSE
  /\ UNCHANGED vars

(* A step of the table, in or out of the loop.                             *)
table_step ==
  /\ Next
  /\ loop # "off" => pc' # "none"
  /\ loop = "forward" /\ pc = "idle" /\ pc' \in {"probe", "rebuild"} => call'.action # "INSERT"
  /\ seen' = seen \cap keys_now' /\ must' = must \cap keys_now'
  /\ moved' = (loop # "off" /\ (moved \/ (pc = "rebuild" /\ pc' = "probe")))
  /\ UNCHANGED <<loop, el_idx, ptr, stop>>

IterNext ==
  \/ \E kind \in {"light", "forward"} : iter_begin(kind)
  \/ iter_next \/ leave_loop \/ table_step

IterSpec == IterInit /\ [][IterNext]_allvars

-----------------------------------------------------------------------------
(* Properties.                                                             *)

(* While no rebuild has moved the elements, the one under the iterator has *)
(* been written and stays inside els, whatever was deleted meanwhile.      *)
CurrentReadable ==
  loop # "off" /\ Exists /\ valid /\ ~moved =>
    el_idx < bin.els_bound /\ View.els[el_idx] \in El

(* A loop that ends without a rebuild has met every element that was in    *)
(* the table all the time.                                                 *)
MeetsAll == loop # "off" /\ ~valid /\ ~moved => must \subseteq seen

(* Each step meets a live element that the loop has not met before, unless *)
(* it was deleted and inserted again; a rebuild, which gives the elements  *)
(* new indices, makes the loop miss elements but never repeat one.         *)
MeetsOnce ==
  [][iter_next /\ valid' => /\ el_idx' \in Live(bin)
                            /\ bin.els[el_idx'].key \notin seen]_allvars

=============================================================================
