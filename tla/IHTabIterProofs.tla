--------------------------- MODULE IHTabIterProofs ---------------------------
(***************************************************************************)
(* Loops over an ihtab, for every value of the constants and whatever is   *)
(* called between their steps: they read written elements, meet all that   *)
(* stay and repeat none.                                                   *)
(***************************************************************************)
EXTENDS IHTabIter, IHTabProofs

-----------------------------------------------------------------------------
(* What a step of the table does to the elements a loop is over.  b is the *)
(* bin before the step and c the one after it.                             *)

WrittenStays(b, c) == \A j \in 0 .. b.els_bound - 1 : b.els[j] \in El => c.els[j] \in El

(* No element moves and none is added.                                     *)
Kept(b, c) ==
  /\ c.els_bound = b.els_bound /\ Live(c) \subseteq Live(b)
  /\ \A j \in Live(c) : c.els[j].key = b.els[j].key
  /\ WrittenStays(b, c)

(* An element is added behind the others.                                  *)
Grown(b, c) ==
  /\ c.els_bound = b.els_bound + 1 /\ Live(c) = Live(b) \cup {b.els_bound}
  /\ \A j \in Live(b) : c.els[j].key = b.els[j].key
  /\ \A j \in Live(b) : b.els[j].key # c.els[b.els_bound].key
  /\ WrittenStays(b, c)

(* The elements close up: none gets a greater index than it had.           *)
Packed(b, c) ==
  \A x \in Live(c) : \E j \in Live(b) : x <= j /\ c.els[x] = b.els[j]

(* Most steps leave the elements alone.                                    *)
LEMMA SameKept ==
  ASSUME NEW b, NEW c, c = b
  PROVE  Kept(b, c)
BY DEF Kept, WrittenStays

(* DELETE: the elements stay where they are.                               *)
LEMMA DeleteKept == ASSUME IInv, probe_delete PROVE Kept(bin, bin')
<1> DEFINE k == call.el.key
<1>1. pc = "probe" /\ bin' = remove_hit(bin, group_ind, k) /\ eq_lanes(bin, group_ind, k) # {}
  BY DEF probe_delete, probe_hit
<1>2. BinOK(bin) /\ k \in Keys /\ group_ind \in Groups(bin)
  BY <1>1, ProbeFacts
<1>3. Lost(bin, hit_ind(bin, group_ind, k), bin')
  BY <1>1, <1>2, RemoveOK
<1> QED BY <1>3 DEF Lost, Kept, WrittenStays

(* `*res = e' after a true INSERT replaces an element by one of its key.   *)
LEMMA ReplaceKept == ASSUME IInv, caller_replace PROVE Kept(bin, bin')
<1>1. /\ pc = "idle" /\ bin' = store(bin, res, call.el) /\ ret = TRUE /\ call.action = "INSERT"
  BY DEF caller_replace
<1>2. IsBin(bin) /\ BinOK(bin)
  BY <1>1, IdleFacts
<1>3. res \in Live(bin) /\ bin.els[res].key = call.el.key
  BY <1>1 DEF IInv, SlotReturned
<1>4. call.el \in El
  <2>1. call \in Calls
    BY <1>1 DEF IInv, TypeOK, NoCall
  <2> QED BY <1>1, <2>1, CallTypes
<1>5. /\ bin'.els_bound = bin.els_bound /\ Live(bin') = Live(bin)
      /\ \A m \in Live(bin) : bin'.els[m].key = bin.els[m].key
  <2>1. Overwrote(bin, res, call.el, bin')
    BY <1>1, <1>2, <1>3, <1>4, ReplaceOK
  <2> QED BY <2>1, Zenon DEF Overwrote
<1>6. WrittenStays(bin, bin')
  <2>1. /\ bin.els \in [0 .. els_size(num_groups(bin)) - 1 -> El \cup {Uninit}]
        /\ bin.els_bound \in Nat /\ bin.els_bound <= els_size(num_groups(bin))
        /\ els_size(num_groups(bin)) \in Nat
    BY <1>2, BinFields
  <2>2. bin'.els = [bin.els EXCEPT ![res] = call.el]
    BY <1>1, <1>2 DEF store, IsBin
  <2> QED BY <1>4, <2>1, <2>2 DEF WrittenStays
<1> QED BY <1>5, <1>6 DEF Kept

(* INSERT of an absent key adds an element at els_bound.                   *)
LEMMA InsertGrown == ASSUME IInv, probe_insert PROVE Grown(bin, View')
<1> DEFINE e == call.el
           c == put(bin, group_ind, e)
<1>1. /\ pc = "probe" /\ pc' = "store" /\ call' = call /\ call.action = "INSERT"
      /\ bin' = reserve(bin, group_ind, e.key) /\ res' = bin.els_bound
      /\ eq_lanes(bin, group_ind, e.key) = {} /\ match_empty(bin, group_ind) # {}
  BY DEF probe_insert, probe_miss
<1>2. /\ BinOK(bin) /\ IsBin(bin) /\ group_ind \in Groups(bin)
      /\ els_size(num_groups(bin)) <= IND_MOD /\ Probed(bin, e.key, group_ind) /\ call \in Calls
  BY <1>1, ProbeFacts
<1>3. e \in El /\ e.key \in Keys
  BY <1>1, <1>2, CallTypes
<1>4. bin.els_bound < els_size(num_groups(bin))
  BY <1>1 DEF IInv, RoomToInsert
<1>5. View' = c
  BY <1>1 DEF View, put
<1> HIDE DEF c
<1>6. Gained(bin, e, c)
  BY SMTT(20), <1>1, <1>2, <1>3, <1>4, PutOK DEF c
<1>7. c.els = [bin.els EXCEPT ![bin.els_bound] = e]
  <2>1. Placed(bin, group_ind, Min(match_empty(bin, group_ind)), e, c)
    BY SMTT(20), <1>1, <1>2, <1>3, <1>4, PutFields DEF c
  <2> QED BY <2>1 DEF Placed
<1>8. \A j \in Live(bin) : bin.els[j].key # e.key
  BY SMTT(20), <1>1, <1>2, <1>3, ProbeAbsent
<1>9. WrittenStays(bin, c)
  <2>1. /\ bin.els \in [0 .. els_size(num_groups(bin)) - 1 -> El \cup {Uninit}]
        /\ bin.els_bound \in Nat /\ els_size(num_groups(bin)) \in Nat
    BY <1>2, BinFields
  <2> QED BY <1>4, <1>7, <2>1 DEF WrittenStays
<1> QED BY <1>5, <1>6, <1>8, <1>9, Zenon DEF Gained, Grown

(* A rebuild puts each element behind those that were before it, so never  *)
(* further on than it was.                                                 *)
LEMMA RebuildPacked == ASSUME IInv, rebuild_done PROVE Packed(bin, bin')
<1>1. pc = "rebuild" /\ i >= bin.els_bound /\ bin' = rb
  BY DEF rebuild_done
<1>2. Rebuilding
  BY <1>1 DEF Rebuilding
<1>3. /\ BinOK(rb) /\ bin.els_bound \in Nat /\ IsFiniteSet(Live(bin))
      /\ Live(bin) \subseteq 0 .. bin.els_bound - 1
      /\ rb.deleted = {} /\ rb.els_bound = Cardinality(Passed) /\ rb.els_bound \in Nat
      /\ \A j \in Passed : rb.els[Cardinality({m \in Passed : m < j})] = bin.els[j]
      /\ \A x \in Live(rb) : \E j \in Passed : rb.els[x] = bin.els[j]
  BY <1>2, RebuildFacts
<1> SUFFICES ASSUME NEW x \in Live(rb)
             PROVE  \E j \in Live(bin) : x <= j /\ rb.els[x] = bin.els[j]
  BY <1>1 DEF Packed
<1>4. PICK j \in Passed : rb.els[x] = bin.els[j]
  BY <1>3
<1> DEFINE P == Passed
           Q == {m \in P : m < j}
<1>5. j \in Live(bin) /\ j \in Nat /\ P \in SUBSET Live(bin) /\ IsFiniteSet(P)
  <2>1. Passed \in SUBSET Live(bin)
    BY DEF Passed
  <2>2. IsFiniteSet(Passed)
    BY <1>3, <2>1, FS_Subset
  <2> QED BY <1>3, <2>1, <2>2
<1>6. Q \in SUBSET P /\ j \notin Q /\ Q \in SUBSET (0 .. j - 1)
  <2>1. \A m \in P : m \in Nat
    BY <1>3, <1>5
  <2> HIDE DEF P
  <2>2. Q \in SUBSET P /\ \A m \in Q : m \in Nat /\ m < j
    BY <2>1
  <2>3. j \notin Q
    BY <1>5, <2>2
  <2>4. \A m \in Q : m \in 0 .. j - 1
    BY <1>5, <2>2
  <2> QED BY <2>2, <2>3, <2>4
<1>7. rb.els[Cardinality(Q)] = bin.els[j]
  BY <1>3
<1>8. IsFiniteSet(0 .. j - 1) /\ Cardinality(0 .. j - 1) = j
  <2>1. 0 \in Int /\ j - 1 \in Int
    BY <1>5
  <2>2. /\ IsFiniteSet(0 .. j - 1)
        /\ Cardinality(0 .. j - 1) = IF 0 > j - 1 THEN 0 ELSE j - 1 - 0 + 1
    BY <2>1, FS_Interval
  <2> QED BY <1>5, <2>2
<1>9. Cardinality(Q) \in Nat /\ Cardinality(Q) <= j /\ Cardinality(Q) < rb.els_bound
  <2>1. j \in P /\ Cardinality(P) = rb.els_bound
    BY <1>3
  <2> HIDE DEF P, Q
  <2>2. IsFiniteSet(Q) /\ Cardinality(Q) <= Cardinality(P) /\ Cardinality(P) # Cardinality(Q)
    BY <1>5, <1>6, <2>1, FS_Subset
  <2>3. Cardinality(Q) <= Cardinality(0 .. j - 1)
    BY <1>6, <1>8, FS_Subset
  <2>4. Cardinality(Q) \in Nat
    BY <2>2, FS_CardinalityType
  <2> QED BY <1>3, <1>5, <1>8, <2>1, <2>2, <2>3, <2>4
<1> HIDE DEF P, Q
<1>10. Cardinality(Q) \in Live(rb)
  BY <1>3, <1>9 DEF Live
<1>11. x = Cardinality(Q)
  BY <1>3, <1>4, <1>7, <1>10 DEF BinOK, ElsDistinct
<1> QED BY <1>4, <1>5, <1>9, <1>11

(* Whether a step ends a rebuild.                                          *)
Moving == pc = "rebuild" /\ pc' = "probe"

(* What any step of the table does, while there is one.                    *)
LEMMA TableEffect ==
  ASSUME IInv, Exists, [Next]_vars, pc' # "none"
  PROVE  /\ Exists'
         /\ \/ ~Moving /\ Kept(View, View')
            \/ ~Moving /\ Grown(View, View') /\ pc = "probe" /\ call.action = "INSERT"
            \/ Moving /\ Packed(View, View')
<1>1. CASE UNCHANGED vars
  <2>1. Exists' /\ ~Moving /\ View' = View
    BY <1>1 DEF vars, Exists, Moving, View
  <2> QED BY <2>1, SameKept
<1>2. CASE \/ rebuild_skip \/ rebuild_take \/ reinsert_next \/ reinsert_put \/ probe_next
           \/ probe_found \/ probe_absent \/ \E c \in Calls : iht_perform(c)
  <2>1. /\ pc # "store" /\ pc' \in {"idle", "probe", "rebuild", "reinsert"} /\ bin' = bin /\ ~Moving
    BY <1>2 DEF rebuild_skip, rebuild_take, reinsert_next, reinsert_put, probe_next, probe_found,
                probe_hit, probe_absent, probe_miss, iht_perform, perform_direct, perform_rebuild,
                enter_perform, Moving
  <2>2. Exists' /\ View' = View
    BY <2>1 DEF Exists, View
  <2> QED BY <2>1, <2>2, SameKept
<1>3. CASE probe_delete
  <2>1. pc = "probe" /\ pc' = "idle"
    BY <1>3 DEF probe_delete, probe_hit
  <2>2. View = bin /\ View' = bin' /\ Exists' /\ ~Moving
    BY <2>1 DEF View, Exists, Moving
  <2> QED BY <1>3, <2>2, DeleteKept
<1>4. CASE probe_insert
  <2>1. pc = "probe" /\ pc' = "store" /\ call.action = "INSERT"
    BY <1>4 DEF probe_insert, probe_miss
  <2>2. View = bin /\ Exists' /\ ~Moving
    BY <2>1 DEF View, Exists, Moving
  <2> QED BY <1>4, <2>1, <2>2, InsertGrown
<1>5. CASE caller_store
  <2>1. pc = "store" /\ pc' = "idle" /\ bin' = View
    BY <1>5 DEF caller_store, View
  <2>2. View' = View /\ Exists' /\ ~Moving
    BY <2>1 DEF View, Exists, Moving
  <2> QED BY <2>2, SameKept
<1>6. CASE caller_replace
  <2>1. pc = "idle" /\ pc' = "idle"
    BY <1>6 DEF caller_replace
  <2>2. View = bin /\ View' = bin' /\ Exists' /\ ~Moving
    BY <2>1 DEF View, Exists, Moving
  <2> QED BY <1>6, <2>2, ReplaceKept
<1>7. CASE rebuild_done
  <2>1. pc = "rebuild" /\ pc' = "probe"
    BY <1>7 DEF rebuild_done
  <2>2. View = bin /\ View' = bin' /\ Exists' /\ Moving
    BY <2>1 DEF View, Exists, Moving
  <2> QED BY <1>7, <2>2, RebuildPacked
<1>8. CASE create_double \/ create_done \/ iht_destroy \/ \E m \in MinSizes : iht_create(m)
  BY <1>8 DEF create_double, create_done, iht_destroy, iht_create, Exists
<1> QED BY <1>1, <1>2, <1>3, <1>4, <1>5, <1>6, <1>7, <1>8 DEF Next, Code, Caller

-----------------------------------------------------------------------------
(* The position of the loop.                                               *)

(* The loop has met nothing ahead of its position, and of what it must     *)
(* meet nothing is behind it unmet; deleted elements stay readable.  The   *)
(* end() of the forward iterator is the table's.                           *)
LoopInv ==
  /\ loop \in {"off", "light", "forward"}
  /\ loop # "off" =>
       /\ Exists /\ el_idx \in Nat /\ seen \subseteq keys_now
       /\ \A j \in Live(View) : View.els[j].key \in seen => j <= el_idx
       /\ ~moved =>
            /\ \A k \in must \ seen : \E j \in Live(View) : j > el_idx /\ View.els[j].key = k
            /\ IF valid THEN el_idx < View.els_bound /\ View.els[el_idx] \in El
                        ELSE must \subseteq seen
       /\ loop = "forward" =>
            /\ stop = View.els_bound /\ el_idx <= stop
            /\ pc \in {"idle", "probe"} /\ (pc = "probe" => call.action # "INSERT")

(* The greater of two numbers.                                             *)
LEMMA MaxPair ==
  ASSUME NEW x \in Nat, NEW y \in Nat
  PROVE  Max({x, y}) = IF x >= y THEN x ELSE y
<1> DEFINE z == IF x >= y THEN x ELSE y
<1>1. z \in {x, y} /\ \A w \in {x, y} : z >= w
  OBVIOUS
<1>2. Max({x, y}) \in {x, y} /\ \A w \in {x, y} : Max({x, y}) >= w
  BY <1>1, Zenon DEF Max
<1> QED BY <1>1, <1>2

(* The least element of a set is not above any other.                      *)
LEMMA MinLeast ==
  ASSUME NEW S \in SUBSET Nat, NEW x \in S
  PROVE  Min(S) <= x
<1>1. PICK z \in S : \A y \in S : ~(<<y, z>> \in OpToRel(<, Nat))
  BY WFMin, NatLessThanWellFounded, Zenon
<1>2. ASSUME NEW y \in S
      PROVE  z <= y
  <2>1. <<y, z>> \in Nat \X Nat
    OBVIOUS
  <2>2. (y < z) => <<y, z>> \in OpToRel(<, Nat)
    BY <2>1 DEF OpToRel
  <2>3. ~(y < z)
    BY <1>1, <2>2, Zenon
  <2> QED BY <2>3
<1> QED BY <1>2, Zenon DEF Min

(* iter_advance stops at the first live element from idx on, or not before *)
(* els_bound.                                                              *)
LEMMA AdvanceFirst ==
  ASSUME IsBin(bin), NEW idx \in Nat
  PROVE  /\ advance(idx) \in Nat /\ advance(idx) >= idx
         /\ \A m \in Live(bin) : m >= idx => m >= advance(idx)
         /\ advance(idx) < bin.els_bound => advance(idx) \in Live(bin)
         /\ idx <= bin.els_bound => advance(idx) <= bin.els_bound
<1> DEFINE e == bin.els_bound
           M == Max({idx, e})
           S == {j \in Live(bin) : j >= idx} \cup {M}
<1>1. e \in Nat /\ Live(bin) \subseteq 0 .. e - 1
  BY BinFields DEF Live
<1>2. M = IF idx >= e THEN idx ELSE e
  BY <1>1, MaxPair
<1> HIDE DEF M
<1>3. S \in SUBSET Nat /\ M \in S
  BY <1>1, <1>2
<1>4. advance(idx) = Min(S)
  BY DEF advance, M
<1> HIDE DEF S
<1>5. Min(S) \in S /\ \A m \in S : Min(S) <= m
  BY <1>3, MinInSet, MinLeast
<1> QED BY <1>1, <1>2, <1>3, <1>4, <1>5 DEF S

(* Where iter_begin and iter_next lead, and whether that is the end.       *)
LEMMA GotoFirst ==
  ASSUME IInv, pc = "idle", NEW kind \in {"light", "forward"}, NEW idx \in Nat,
         goto(kind, idx), loop' = kind,
         kind = "forward" => stop' = bin.els_bound /\ idx <= bin.els_bound
  PROVE  /\ el_idx' \in Nat /\ el_idx' >= idx
         /\ \A m \in Live(bin) : m >= idx => m >= el_idx'
         /\ IF valid' THEN el_idx' \in Live(bin) ELSE \A m \in Live(bin) : m < idx
         /\ kind = "forward" => el_idx' <= stop'
<1>1. IsBin(bin) /\ bin.els_bound \in Nat /\ Live(bin) \subseteq 0 .. bin.els_bound - 1
  BY IdleFacts, BinFields DEF Live
<1>2. /\ el_idx' \in Nat /\ el_idx' >= idx
      /\ \A m \in Live(bin) : m >= idx => m >= el_idx'
      /\ el_idx' < bin.els_bound => el_idx' \in Live(bin)
      /\ idx <= bin.els_bound => el_idx' <= bin.els_bound
  BY <1>1, AdvanceFirst DEF goto
<1>3. valid' <=> el_idx' < bin.els_bound
  <2>1. CASE kind = "light"
    <3>1. ptr' = IF el_idx' < bin.els_bound THEN el_idx' ELSE Garbage
      BY <2>1 DEF goto
    <3>2. valid' <=> ptr' # Garbage
      BY <2>1 DEF valid
    <3> QED BY <1>2, <3>1, <3>2, BinAssumption
  <2>2. CASE kind = "forward"
    <3>1. valid' <=> el_idx' # stop'
      BY <2>2 DEF valid
    <3> QED BY <1>1, <1>2, <2>2, <3>1
  <2> QED BY <2>1, <2>2
<1>4. ~valid' => \A m \in Live(bin) : m < idx
  BY <1>1, <1>2, <1>3
<1> QED BY <1>2, <1>3, <1>4, <1>1

-----------------------------------------------------------------------------
(* LoopInv is inductive.                                                   *)

(* The keys in the table.                                                  *)
LEMMA KeysNow == Exists => keys_now = {View.els[j].key : j \in Live(View)}
BY DEF keys_now, MapContents, Contents

(* The same after a step.                                                  *)
LEMMA KeysNext == Exists' => keys_now' = {View'.els[j].key : j \in Live(View')}
BY DEF keys_now, MapContents, Contents

(* A new position, reached from idx, in a table that no call runs on.      *)
LEMMA LoopMoved ==
  ASSUME IInv, pc = "idle", UNCHANGED vars, NEW kind \in {"light", "forward"}, NEW idx \in Nat,
         goto(kind, idx), loop' = kind,
         kind = "forward" => stop' = bin.els_bound /\ idx <= bin.els_bound,
         NEW was, seen' = met(was), was \subseteq keys_now,
         \A j \in Live(bin) : bin.els[j].key \in was => j < idx,
         ~moved' => \A k \in must' \ was : \E j \in Live(bin) : j >= idx /\ bin.els[j].key = k
  PROVE  LoopInv'
<1>1. View = bin /\ View' = bin /\ Exists /\ Exists'
  BY DEF vars, View, Exists
<1>2. /\ BinOK(bin) /\ bin.els_bound \in Nat /\ Live(bin) \subseteq 0 .. bin.els_bound - 1
      /\ \A j \in Live(bin) : bin.els[j] \in El
  BY IdleFacts, BinFields DEF Live, BinOK, ElsDistinct
<1>3. /\ el_idx' \in Nat /\ el_idx' >= idx
      /\ \A m \in Live(bin) : m >= idx => m >= el_idx'
      /\ IF valid' THEN el_idx' \in Live(bin) ELSE \A m \in Live(bin) : m < idx
      /\ kind = "forward" => el_idx' <= stop'
  BY GotoFirst
<1>4. seen' = was \cup (IF valid' THEN {bin.els[el_idx'].key} ELSE {})
  BY DEF met
<1>5. seen' \subseteq keys_now'
  <2>1. keys_now' = {bin.els[j].key : j \in Live(bin)}
    <3>1. Live(View') = Live(bin)
      BY <1>1, Zenon
    <3> QED BY <1>1, <3>1, KeysNext, Zenon
  <2>2. keys_now = {bin.els[j].key : j \in Live(bin)}
    BY <1>1, KeysNow, Zenon
  <2> QED BY <1>3, <1>4, <2>1, <2>2
<1>6. \A j \in Live(bin) : bin.els[j].key \in seen' => j <= el_idx'
  <2> SUFFICES ASSUME NEW j \in Live(bin), bin.els[j].key \in seen' PROVE j <= el_idx'
    OBVIOUS
  <2>1. CASE bin.els[j].key \in was
    BY <1>2, <1>3, <2>1
  <2>2. CASE bin.els[j].key \notin was
    <3>1. valid' /\ bin.els[j].key = bin.els[el_idx'].key
      BY <1>4, <2>2
    <3>2. j = el_idx'
      BY <1>2, <1>3, <3>1 DEF BinOK, ElsDistinct
    <3> QED BY <1>3, <3>2
  <2> QED BY <2>1, <2>2
<1>7. ASSUME ~moved'
      PROVE  /\ \A k \in must' \ seen' : \E j \in Live(bin) : j > el_idx' /\ bin.els[j].key = k
             /\ IF valid' THEN el_idx' < bin.els_bound /\ bin.els[el_idx'] \in El
                          ELSE must' \subseteq seen'
  <2>1. ASSUME NEW k \in must' \ seen'
        PROVE  \E j \in Live(bin) : j > el_idx' /\ bin.els[j].key = k
    <3>1. k \in must' \ was
      BY <1>4
    <3>2. PICK j \in Live(bin) : j >= idx /\ bin.els[j].key = k
      BY <1>7, <3>1
    <3>3. valid' /\ j # el_idx'
      BY <1>2, <1>3, <1>4, <3>2
    <3> QED BY <1>2, <1>3, <3>2, <3>3
  <2>2. CASE valid'
    BY <1>2, <1>3, <2>1, <2>2
  <2>3. CASE ~valid'
    <3>1. ASSUME NEW k \in must', k \notin seen' PROVE FALSE
      <4>1. PICK j \in Live(bin) : j >= idx /\ bin.els[j].key = k
        BY <1>4, <1>7, <3>1
      <4> QED BY <1>2, <1>3, <2>3, <4>1
    <3> QED BY <2>1, <2>3, <3>1
  <2> QED BY <2>2, <2>3
<1>8. pc' = "idle"
  BY DEF vars
<1> QED BY <1>1, <1>3, <1>5, <1>6, <1>7, <1>8 DEF LoopInv

(* begin: nothing is met, everything is ahead.                             *)
LEMMA BeginInv ==
  ASSUME IInv, NEW kind \in {"light", "forward"}, iter_begin(kind)
  PROVE  LoopInv'
<1>1. /\ pc = "idle" /\ UNCHANGED vars /\ goto(kind, 0) /\ loop' = kind
      /\ seen' = met({}) /\ must' = keys_now
      /\ kind = "forward" => stop' = bin.els_bound
  BY DEF iter_begin
<1>2. IsBin(bin) /\ bin.els_bound \in Nat /\ Live(bin) \subseteq 0 .. bin.els_bound - 1
  BY <1>1, IdleFacts, BinFields DEF Live
<1>3. keys_now = {bin.els[j].key : j \in Live(bin)}
  BY <1>1, KeysNow DEF Exists, View
<1>4. \A k \in must' \ {} : \E j \in Live(bin) : j >= 0 /\ bin.els[j].key = k
  BY <1>1, <1>2, <1>3
<1> QED BY <1>1, <1>2, <1>4, LoopMoved

(* operator++ and iter_next: one further.                                  *)
LEMMA NextInv == ASSUME IInv, LoopInv, iter_next PROVE LoopInv'
<1>1. /\ pc = "idle" /\ loop # "off" /\ valid /\ goto(loop, el_idx + 1) /\ seen' = met(seen)
      /\ UNCHANGED <<vars, loop, stop, must, moved>>
  BY DEF iter_next
<1>2. View = bin /\ IsBin(bin) /\ bin.els_bound \in Nat /\ Live(bin) \subseteq 0 .. bin.els_bound - 1
  BY <1>1, IdleFacts, BinFields DEF Live, View
<1>3. /\ loop \in {"light", "forward"} /\ el_idx \in Nat /\ seen \subseteq keys_now
      /\ \A j \in Live(bin) : bin.els[j].key \in seen => j <= el_idx
      /\ ~moved => \A k \in must \ seen : \E j \in Live(bin) : j > el_idx /\ bin.els[j].key = k
      /\ loop = "forward" => stop = bin.els_bound /\ el_idx <= stop
  BY <1>1, <1>2 DEF LoopInv
<1>4. loop = "forward" => stop' = bin.els_bound /\ el_idx + 1 <= bin.els_bound
  <2>1. loop = "forward" => el_idx # stop
    BY <1>1 DEF valid
  <2> QED BY <1>1, <1>2, <1>3, <2>1
<1>5. /\ el_idx + 1 \in Nat
      /\ \A j \in Live(bin) : bin.els[j].key \in seen => j < el_idx + 1
  BY <1>2, <1>3
<1>6. ~moved' => \A k \in must' \ seen : \E j \in Live(bin) : j >= el_idx + 1 /\ bin.els[j].key = k
  <2> SUFFICES ASSUME ~moved', NEW k \in must' \ seen
               PROVE  \E j \in Live(bin) : j >= el_idx + 1 /\ bin.els[j].key = k
    OBVIOUS
  <2>1. PICK j \in Live(bin) : j > el_idx /\ bin.els[j].key = k
    BY <1>1, <1>3
  <2> QED BY <1>2, <1>3, <2>1
<1> QED BY <1>1, <1>3, <1>4, <1>5, <1>6, LoopMoved

(* In a loop with the forward iterator no INSERT is under way.             *)
LEMMA ForwardStays ==
  ASSUME table_step, loop = "forward", pc \in {"idle", "probe"}, pc = "probe" => call.action # "INSERT"
  PROVE  pc' \in {"idle", "probe"} /\ (pc' = "probe" => call'.action # "INSERT")
<1>1. /\ Next /\ pc' # "none"
      /\ pc = "idle" /\ pc' \in {"probe", "rebuild"} => call'.action # "INSERT"
  BY DEF table_step
<1>2. CASE \E c \in Calls : iht_perform(c)
  <2>1. PICK c \in Calls : perform_direct(c) \/ perform_rebuild(c)
    BY <1>2 DEF iht_perform
  <2>2. CASE perform_direct(c)
    BY <1>1, <2>2 DEF perform_direct, enter_perform
  <2>3. CASE perform_rebuild(c)
    BY <1>1, <2>3 DEF perform_rebuild, enter_perform, full_for
  <2> QED BY <2>1, <2>2, <2>3
<1>3. CASE Code
  BY <1>3 DEF Code, create_double, create_done, rebuild_skip, rebuild_take, reinsert_next, reinsert_put,
              rebuild_done, probe_next, probe_found, probe_delete, probe_hit, probe_absent,
              probe_insert, probe_miss
<1>4. CASE (\E m \in MinSizes : iht_create(m)) \/ iht_destroy \/ caller_store \/ caller_replace
  BY <1>1, <1>4 DEF iht_create, iht_destroy, caller_store, caller_replace
<1> QED BY <1>1, <1>2, <1>3, <1>4 DEF Next, Caller

(* A call between two steps of the loop.                                   *)
LEMMA TableStepInv == ASSUME IInv, IInv', LoopInv, table_step PROVE LoopInv'
<1>1. /\ Next /\ (loop # "off" => pc' # "none")
      /\ seen' = seen \cap keys_now' /\ must' = must \cap keys_now'
      /\ moved' = (loop # "off" /\ (moved \/ Moving))
      /\ UNCHANGED <<loop, el_idx, ptr, stop>>
  BY DEF table_step, Moving
<1>2. CASE loop = "off"
  BY <1>1, <1>2 DEF LoopInv
<1>3. CASE loop # "off"
  <2> DEFINE b == View
             c == View'
  <2>1. /\ loop \in {"light", "forward"} /\ Exists /\ el_idx \in Nat /\ seen \subseteq keys_now
        /\ \A j \in Live(b) : b.els[j].key \in seen => j <= el_idx
        /\ ~moved =>
             /\ \A k \in must \ seen : \E j \in Live(b) : j > el_idx /\ b.els[j].key = k
             /\ IF valid THEN el_idx < b.els_bound /\ b.els[el_idx] \in El
                         ELSE must \subseteq seen
        /\ loop = "forward" =>
             /\ stop = b.els_bound /\ el_idx <= stop
             /\ pc \in {"idle", "probe"} /\ (pc = "probe" => call.action # "INSERT")
    BY <1>3 DEF LoopInv
  <2>2. /\ Exists'
        /\ \/ ~Moving /\ Kept(b, c)
           \/ ~Moving /\ Grown(b, c) /\ pc = "probe" /\ call.action = "INSERT"
           \/ Moving /\ Packed(b, c)
    BY <1>1, <1>3, <2>1, TableEffect
  <2>3. valid' <=> valid
    BY <1>1 DEF valid
  <2>4. keys_now = {b.els[j].key : j \in Live(b)} /\ keys_now' = {c.els[j].key : j \in Live(c)}
    BY <2>1, <2>2, KeysNow, KeysNext, Zenon
  <2>5. BinOK(b) /\ BinOK(c)
    BY <2>1, <2>2 DEF IInv, TableInv
  <2> HIDE DEF b, c
  <2>6. /\ ElsDistinct(b) /\ ElsDistinct(c) /\ b.els_bound \in Nat /\ Live(b) \subseteq 0 .. b.els_bound - 1
        /\ Live(c) \subseteq Nat
    <3>1. IsBin(b) /\ IsBin(c) /\ ElsDistinct(b) /\ ElsDistinct(c)
      BY <2>5 DEF BinOK
    <3>2. b.els_bound \in Nat /\ Live(b) \subseteq 0 .. b.els_bound - 1
      BY <3>1, BinFields DEF Live
    <3>3. c.els_bound \in Nat /\ Live(c) \subseteq 0 .. c.els_bound - 1
      BY <3>1, BinFields DEF Live
    <3> QED BY <3>1, <3>2, <3>3
  (* Nothing ahead of the position has been met. *)
  <2>7. \A j \in Live(c) : c.els[j].key \in seen' => j <= el_idx'
    <3> SUFFICES ASSUME NEW x \in Live(c), c.els[x].key \in seen
                 PROVE  x <= el_idx
      BY <1>1
    <3>1. CASE Kept(b, c)
      BY <2>1, <3>1 DEF Kept
    <3>2. CASE Grown(b, c)
      <4>1. x # b.els_bound
        BY <2>1, <2>4, <3>2 DEF Grown
      <4> QED BY <2>1, <3>2, <4>1 DEF Grown
    <3>3. CASE Packed(b, c)
      <4>1. PICK j \in Live(b) : x <= j /\ c.els[x] = b.els[j]
        BY <3>3 DEF Packed
      <4>2. j <= el_idx
        BY <2>1, <4>1
      <4> QED BY <2>1, <2>6, <4>1, <4>2
    <3> QED BY <2>2, <3>1, <3>2, <3>3
  (* What is still to be met stays ahead. *)
  <2>8. ASSUME ~moved', NEW k \in must' \ seen'
        PROVE  \E j \in Live(c) : j > el_idx' /\ c.els[j].key = k
    <3>1. ~moved /\ ~Moving /\ k \in must \ seen /\ k \in keys_now'
      BY <1>1, <1>3, <2>8
    <3>2. PICK j \in Live(b) : j > el_idx /\ b.els[j].key = k
      BY <2>1, <3>1
    <3>3. PICK m \in Live(c) : c.els[m].key = k
      BY <2>4, <3>1
    <3>4. CASE Kept(b, c)
      <4>1. m \in Live(b) /\ b.els[m].key = k
        BY <3>3, <3>4 DEF Kept
      <4>2. m = j
        BY <2>6, <3>2, <4>1 DEF ElsDistinct
      <4> QED BY <1>1, <3>2, <3>3, <4>2
    <3>5. CASE Grown(b, c)
      BY <1>1, <3>2, <3>5 DEF Grown
    <3> QED BY <2>2, <3>1, <3>4, <3>5
  <2>9. ASSUME ~moved'
        PROVE  IF valid' THEN el_idx' < c.els_bound /\ c.els[el_idx'] \in El
                         ELSE must' \subseteq seen'
    <3>1. ~moved /\ ~Moving
      BY <1>1, <1>3, <2>9
    <3>2. CASE ~valid
      BY <1>1, <2>1, <2>3, <3>1, <3>2
    <3>3. CASE valid
      <4>1. el_idx \in 0 .. b.els_bound - 1 /\ b.els[el_idx] \in El
        BY <2>1, <2>6, <3>1, <3>3
      <4>2. (c.els_bound = b.els_bound \/ c.els_bound = b.els_bound + 1) /\ WrittenStays(b, c)
        BY <2>2, <3>1 DEF Kept, Grown
      <4>3. c.els[el_idx] \in El /\ el_idx < c.els_bound
        BY <2>6, <4>1, <4>2 DEF WrittenStays
      <4> QED BY <1>1, <2>3, <3>3, <4>3
    <3> QED BY <3>2, <3>3
  <2>10. loop' = "forward" =>
           /\ stop' = c.els_bound /\ el_idx' <= stop'
           /\ pc' \in {"idle", "probe"} /\ (pc' = "probe" => call'.action # "INSERT")
    <3> SUFFICES ASSUME loop = "forward"
                 PROVE  /\ stop' = c.els_bound /\ el_idx' <= stop'
                        /\ pc' \in {"idle", "probe"} /\ (pc' = "probe" => call'.action # "INSERT")
      BY <1>1
    <3>1. ~Moving /\ ~(pc = "probe" /\ call.action = "INSERT")
      BY <2>1 DEF Moving
    <3>2. c.els_bound = b.els_bound
      BY <2>2, <3>1 DEF Kept
    <3>3. pc' \in {"idle", "probe"} /\ (pc' = "probe" => call'.action # "INSERT")
      BY <2>1, ForwardStays
    <3> QED BY <1>1, <2>1, <3>2, <3>3
  <2>11. seen' \subseteq keys_now' /\ el_idx' \in Nat /\ loop' \in {"off", "light", "forward"}
    BY <1>1, <2>1
  <2> QED BY <2>2, <2>7, <2>8, <2>9, <2>10, <2>11 DEF LoopInv, c
<1> QED BY <1>2, <1>3

-----------------------------------------------------------------------------
(* The theorems.                                                           *)

IterInv == IInv /\ LoopInv

(* No loop has begun.                                                      *)
LEMMA IterInitInv == IterInit => IterInv
BY InitInv DEF IterInit, IterInv, LoopInv

(* The steps of the loop leave the table alone; those of the table keep    *)
(* its own invariant.                                                      *)
LEMMA IterTable == IInv /\ [IterNext]_allvars => IInv' /\ [Next]_vars
<1> SUFFICES ASSUME IInv, [IterNext]_allvars PROVE IInv' /\ [Next]_vars
  OBVIOUS
<1>1. [Next]_vars
  BY DEF IterNext, iter_begin, iter_next, leave_loop, table_step, allvars
<1> QED BY <1>1, Inductive

(* Every step of a loop and of the table keeps the invariant.              *)
LEMMA IterInductive == IterInv /\ [IterNext]_allvars => IterInv'
<1> SUFFICES ASSUME IInv, LoopInv, [IterNext]_allvars PROVE IInv' /\ LoopInv'
  BY DEF IterInv
<1>1. IInv'
  BY IterTable
<1>2. CASE \E kind \in {"light", "forward"} : iter_begin(kind)
  BY <1>1, <1>2, BeginInv
<1>3. CASE iter_next
  BY <1>1, <1>3, NextInv
<1>4. CASE leave_loop
  BY <1>1, <1>4 DEF leave_loop, LoopInv
<1>5. CASE table_step
  BY <1>1, <1>5, TableStepInv
<1>6. CASE UNCHANGED allvars
  <2>1. /\ UNCHANGED <<loop, el_idx, ptr, stop, seen, must, moved>> /\ UNCHANGED <<pc, call, bin, res>>
    BY <1>6 DEF allvars, ivars, vars
  <2>2. View' = View /\ Exists' = Exists /\ keys_now' = keys_now /\ valid' = valid
    BY <2>1 DEF View, Exists, keys_now, MapContents, valid
  <2> QED BY <1>1, <2>1, <2>2 DEF LoopInv
<1> QED BY <1>2, <1>3, <1>4, <1>5, <1>6 DEF IterNext

(* The invariant of loops, for every caller and every table.               *)
THEOREM LoopInvariance == IterSpec => []IterInv
BY IterInitInv, IterInductive, PTL DEF IterSpec

(* While no rebuild has moved the elements, iter_valid and != end() vouch  *)
(* for an element that was written, even if it was deleted since.          *)
THEOREM LoopReads == IterSpec => []CurrentReadable
<1>1. IterInv => CurrentReadable
  <2> SUFFICES ASSUME IInv, LoopInv, loop # "off", Exists, valid, ~moved
               PROVE  el_idx < bin.els_bound /\ View.els[el_idx] \in El
    BY DEF IterInv, CurrentReadable
  <2>1. el_idx < View.els_bound /\ View.els[el_idx] \in El
    BY DEF LoopInv
  <2>2. IsBin(bin)
    BY DEF IInv, TypeOK
  <2>3. View.els_bound = bin.els_bound
    BY <2>2 DEF View, store, IsBin
  <2> QED BY <2>1, <2>3
<1> QED BY <1>1, LoopInvariance, PTL

(* A loop that ends without a rebuild has met every element that was in    *)
(* the table all the time, whatever was inserted and deleted meanwhile.    *)
THEOREM LoopMeetsAll == IterSpec => []MeetsAll
<1>1. IterInv => MeetsAll
  BY DEF IterInv, LoopInv, MeetsAll
<1> QED BY <1>1, LoopInvariance, PTL

(* No step of a loop meets a deleted element or one the loop has met, also *)
(* after calls that rebuilt the table.                                     *)
THEOREM LoopMeetsOnce == IterSpec => MeetsOnce
<1> DEFINE A == iter_next /\ valid' => /\ el_idx' \in Live(bin)
                                       /\ bin.els[el_idx'].key \notin seen
<1>1. IterInv /\ [IterNext]_allvars => [A]_allvars
  <2> SUFFICES ASSUME IInv, LoopInv, iter_next, valid'
               PROVE  el_idx' \in Live(bin) /\ bin.els[el_idx'].key \notin seen
    BY DEF IterInv
  <2>1. /\ pc = "idle" /\ loop # "off" /\ valid /\ goto(loop, el_idx + 1)
        /\ UNCHANGED <<vars, loop, stop, must, moved>>
    BY DEF iter_next
  <2>2. View = bin /\ bin.els_bound \in Nat /\ Live(bin) \subseteq 0 .. bin.els_bound - 1
    BY <2>1, IdleFacts, BinFields DEF Live, View
  <2>3. /\ loop \in {"light", "forward"} /\ el_idx \in Nat
        /\ \A j \in Live(bin) : bin.els[j].key \in seen => j <= el_idx
        /\ loop = "forward" => stop = bin.els_bound /\ el_idx <= stop
    BY <2>1, <2>2 DEF LoopInv
  <2>4. loop = "forward" => stop' = bin.els_bound /\ el_idx + 1 <= bin.els_bound
    <3>1. loop = "forward" => el_idx # stop
      BY <2>1 DEF valid
    <3> QED BY <2>1, <2>2, <2>3, <3>1
  <2>5. el_idx' \in Live(bin) /\ el_idx' >= el_idx + 1 /\ el_idx' \in Nat
    <3>1. el_idx + 1 \in Nat /\ loop' = loop
      BY <2>1, <2>3
    <3> QED BY <2>1, <2>3, <2>4, <3>1, GotoFirst
  <2> QED BY <2>3, <2>5
<1> QED BY <1>1, LoopInvariance, PTL DEF IterSpec, MeetsOnce

=============================================================================
