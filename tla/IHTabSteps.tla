------------------------------ MODULE IHTabSteps ------------------------------
(***************************************************************************)
(* IInv is inductive, first part: creation, destruction, the probes of a   *)
(* call and the caller's own steps keep it.  IHTabProofs has the steps of  *)
(* iht_rebuild and draws the conclusions.                                  *)
(***************************************************************************)
EXTENDS IHTab, BinProofs

-----------------------------------------------------------------------------
(* The first state, creation and destruction, the start of a call.         *)

(* The types of the fields of a call.                                      *)
LEMMA CallTypes ==
  ASSUME NEW c \in Calls
  PROVE  /\ c.el.key \in Keys
         /\ c.action \in {"INSERT", "FIND", "DELETE"}
         /\ c.action = "INSERT" => c.el \in El
         /\ c # NoCall
BY DEF Calls, NoCall, El, Queries

(* IInv holds before iht_create.                                           *)
LEMMA InitInv == Init => IInv
<1> SUFFICES ASSUME Init PROVE IInv
  OBVIOUS
<1>1. TypeOK
  BY Zenon DEF Init, TypeOK, Exists, Rebuilding
<1> QED BY <1>1 DEF Init, IInv, SizeInv, TableInv, CallInv, RebuildInv, CountExact, ProbeSound,
       RoomToInsert, SlotReturned, RebuildFaithful, Exists, Rebuilding

(* IInv depends on the table's variables alone.                            *)
LEMMA StutterInv == IInv /\ UNCHANGED vars => IInv'
BY DEF vars, IInv, TypeOK, SizeInv, TableInv, CallInv, RebuildInv, CountExact, ProbeSound,
       RoomToInsert, SlotReturned, RebuildFaithful, Exists, Rebuilding, View

(* The start of iht_create keeps IInv.                                     *)
LEMMA CreateInv == ASSUME IInv, NEW m \in MinSizes, iht_create(m) PROVE IInv'
BY IHTabAssumption DEF iht_create, IInv, TypeOK, SizeInv, TableInv, CallInv, RebuildInv, CountExact,
       ProbeSound, RoomToInsert, SlotReturned, RebuildFaithful, Exists, Rebuilding

(* Doubling the number of groups in iht_create keeps IInv.                 *)
LEMMA DoubleInv == ASSUME IInv, create_double PROVE IInv'
<1>1. i \in Nat \ {0} /\ saved \in Nat /\ IND_MOD \in Nat
  BY BinAssumption DEF create_double, IInv, TypeOK, SizeInv
<1>2. els_size(2 * i) <= IND_MOD
  BY <1>1, Sizes DEF create_double, IInv, SizeInv
<1>3. SizeInv'
  BY <1>1, <1>2 DEF create_double, IInv, SizeInv
<1> QED BY <1>1, <1>3 DEF create_double, IInv, TypeOK, TableInv, CallInv, RebuildInv, CountExact,
       ProbeSound, RoomToInsert, SlotReturned, RebuildFaithful, Exists, Rebuilding

(* The allocation of the first bin establishes what IInv says of it.       *)
LEMMA CreateDoneInv == ASSUME IInv, create_done PROVE IInv'
<1>1. i \in Nat \ {0} /\ bin' = new_bin(i) /\ pc' = "idle" /\ els_num' = 0
  BY DEF create_done, IInv, TypeOK, SizeInv
<1>2. /\ BinOK(new_bin(i)) /\ IsBin(new_bin(i)) /\ LoadExact(new_bin(i))
      /\ num_groups(new_bin(i)) = i /\ Cardinality(Live(new_bin(i))) = 0
  BY <1>1, NewBin, NewLoad, FS_EmptySet DEF BinOK
<1>3. TableInv'
  BY <1>1, <1>2 DEF create_done, IInv, SizeInv, TableInv, Exists, View
<1>4. call = NoCall /\ ret = FALSE
  BY DEF create_done, IInv, CallInv, Exists
<1> QED BY SMTT(20), <1>1, <1>2, <1>3, <1>4 DEF create_done, IInv, TypeOK, SizeInv, CallInv, RebuildInv, CountExact,
       ProbeSound, RoomToInsert, SlotReturned, RebuildFaithful, Exists, Rebuilding

(* iht_destroy keeps IInv.                                                 *)
LEMMA DestroyInv == ASSUME IInv, iht_destroy PROVE IInv'
BY Zenon DEF iht_destroy, IInv, TypeOK, SizeInv, TableInv, CallInv, RebuildInv, CountExact,
       ProbeSound, RoomToInsert, SlotReturned, RebuildFaithful, Exists, Rebuilding

(* What IInv says of a table that no call is running on.                   *)
LEMMA IdleFacts ==
  ASSUME IInv, pc = "idle"
  PROVE  /\ IsBin(bin) /\ BinOK(bin) /\ LoadExact(bin)
         /\ els_size(num_groups(bin)) <= IND_MOD
         /\ els_num = Cardinality(Live(bin)) /\ els_num \in Nat /\ rb = Garbage
BY DEF IInv, TypeOK, TableInv, CountExact, Exists, Rebuilding, View

(* A call that needs no rebuild starts its probe in a sound state.         *)
LEMMA PerformDirectInv == ASSUME IInv, NEW c \in Calls, perform_direct(c) PROVE IInv'
<1>1. /\ pc = "idle" /\ pc' = "probe" /\ call' = c /\ bin' = bin /\ rb' = rb /\ els_num' = els_num
      /\ res' = Garbage
  BY DEF perform_direct, enter_perform
<1>2. /\ IsBin(bin) /\ BinOK(bin) /\ LoadExact(bin) /\ els_size(num_groups(bin)) <= IND_MOD
      /\ els_num = Cardinality(Live(bin)) /\ rb = Garbage
  BY <1>1, IdleFacts
<1>3. c.el.key \in Keys
  BY CallTypes
<1>4. Probed(bin, c.el.key, group_ind')
  BY <1>2, <1>3, ProbeStart DEF perform_direct
<1>5. c.action = "INSERT" => bin.els_bound < els_size(num_groups(bin))
  <2>1. bin.els_bound \in Nat /\ els_size(num_groups(bin)) \in Nat
    BY <1>2, BinFields
  <2> QED BY <2>1 DEF perform_direct, full_for
<1>6. group_ind' \in Nat
  BY <1>2, <1>4, BinFields DEF Probed
<1>7. TypeOK'
  BY <1>1, <1>2, <1>6, Zenon DEF perform_direct, enter_perform, IInv, TypeOK, Exists, Rebuilding
<1>8. TableInv' /\ CountExact' /\ ProbeSound' /\ RoomToInsert'
  BY <1>1, <1>2, <1>4, <1>5 DEF TableInv, CountExact, ProbeSound, RoomToInsert, Exists, Rebuilding, View
<1> QED BY <1>1, <1>7, <1>8 DEF IInv, SizeInv, CallInv, RebuildInv, SlotReturned, RebuildFaithful,
                               Exists, Rebuilding

(* iht_rebuild chooses a size that holds the live elements and one more.   *)
LEMMA RebuiltSize ==
  ASSUME IInv, pc = "idle"
  PROVE  /\ rebuilt_groups \in Nat \ {0}
         /\ Cardinality(Live(bin)) < els_size(rebuilt_groups)
<1> DEFINE n == num_groups(bin)
           l == Cardinality(Live(bin))
<1>1. IsBin(bin) /\ l = els_num
  BY IdleFacts
<1>2. n \in Nat \ {0} /\ bin.els_bound \in Nat /\ bin.els_bound <= els_size(n)
  BY <1>1, BinFields
<1>3. l \in Nat /\ l <= bin.els_bound
  <2>1. IsFiniteSet(0 .. bin.els_bound - 1) /\ Cardinality(0 .. bin.els_bound - 1) = bin.els_bound
    <3>1. 0 \in Int /\ bin.els_bound - 1 \in Int
      BY <1>2
    <3>2. /\ IsFiniteSet(0 .. bin.els_bound - 1)
          /\ Cardinality(0 .. bin.els_bound - 1) =
               IF 0 > bin.els_bound - 1 THEN 0 ELSE bin.els_bound - 1 - 0 + 1
      BY <3>1, FS_Interval
    <3> QED BY <1>2, <3>2
  <2>2. Live(bin) \in SUBSET (0 .. bin.els_bound - 1)
    BY DEF Live
  <2>3. IsFiniteSet(Live(bin)) /\ l <= Cardinality(0 .. bin.els_bound - 1)
    BY <2>1, <2>2, FS_Subset, Zenon
  <2> QED BY <2>1, <2>3, FS_CardinalityType
<1>4. /\ indexes_size(n) \in Nat /\ indexes_size(n) >= 2 /\ els_size(n) \in Nat \ {0}
      /\ 2 * els_size(n) <= indexes_size(n) /\ indexes_size(n) <= 2 * els_size(n) + 1
      /\ els_size(2 * n) = indexes_size(n)
  BY <1>2, Sizes
<1> HIDE DEF n, l
<1>5. rebuilt_groups = IF 4 * l >= indexes_size(n) THEN 2 * n ELSE n
  BY <1>1 DEF rebuilt_groups, n
<1>6. rebuilt_groups \in Nat \ {0}
  BY <1>2, <1>5
<1>7. l < els_size(rebuilt_groups)
  <2>1. CASE 4 * l >= indexes_size(n)
    BY <1>2, <1>3, <1>4, <1>5, <2>1
  <2>2. CASE ~(4 * l >= indexes_size(n))
    <3>1. l < els_size(n)
      BY <1>3, <1>4, <2>2
    <3> QED BY <1>5, <2>2, <3>1
  <2> QED BY <2>1, <2>2
<1> QED BY <1>6, <1>7 DEF l

(* A call that finds els full starts its rebuild with a faithful bin.      *)
LEMMA PerformRebuildInv == ASSUME IInv, NEW c \in Calls, perform_rebuild(c) PROVE IInv'
<1> DEFINE n == rebuilt_groups
<1>1. /\ pc = "idle" /\ pc' = "rebuild" /\ call' = c /\ c.action = "INSERT"
      /\ rb' = new_bin(n) /\ i' = 0 /\ saved' = els_num /\ els_size(n) <= IND_MOD
      /\ UNCHANGED <<els_num, bin, group_ind>> /\ res' = Garbage /\ ret' = FALSE
  BY DEF perform_rebuild, enter_perform, full_for
<1>2. /\ IsBin(bin) /\ BinOK(bin) /\ LoadExact(bin) /\ els_size(num_groups(bin)) <= IND_MOD
      /\ els_num = Cardinality(Live(bin)) /\ els_num \in Nat
  BY <1>1, IdleFacts
<1>3. n \in Nat \ {0} /\ Cardinality(Live(bin)) < els_size(n)
  BY <1>1, RebuiltSize
<1> HIDE DEF n
<1>4. /\ BinOK(rb') /\ IsBin(rb') /\ LoadExact(rb') /\ num_groups(rb') = n
      /\ rb'.els_bound = 0 /\ rb'.deleted = {} /\ Live(rb') = {}
  BY <1>1, <1>3, NewBin, NewLoad DEF BinOK
<1>5. bin.els_bound \in Nat /\ Live(bin) \subseteq Nat
  BY <1>2, BinFields
<1>6. TypeOK'
  BY <1>1, <1>2, <1>4, Zenon DEF IInv, TypeOK, Exists, Rebuilding
<1>7. RebuildInv'
  BY <1>1, <1>2, <1>3, <1>4, <1>5 DEF RebuildInv, Rebuilding
<1>8. RebuildFaithful'
  <2>1. {j \in Live(bin') : j < i'} = {}
    BY <1>1, <1>5
  <2> QED BY <1>4, <2>1, FS_EmptySet DEF RebuildFaithful, BinOK
<1>9. TableInv' /\ RoomToInsert'
  BY SMTT(20), <1>1, <1>2, <1>3, <1>4 DEF TableInv, RoomToInsert, Exists, Rebuilding, View
<1> QED BY SMTT(20), <1>1, <1>6, <1>7, <1>8, <1>9 DEF IInv, SizeInv, CallInv, CountExact, ProbeSound, SlotReturned,
                                           Exists, Rebuilding

-----------------------------------------------------------------------------
(* iht_do_1 on the table.                                                  *)

(* What IInv says of a table that is being probed.                         *)
LEMMA ProbeFacts ==
  ASSUME IInv, pc = "probe"
  PROVE  /\ IsBin(bin) /\ BinOK(bin) /\ LoadExact(bin)
         /\ els_size(num_groups(bin)) <= IND_MOD
         /\ els_num = Cardinality(Live(bin)) /\ els_num \in Nat /\ rb = Garbage
         /\ call \in Calls /\ call.el.key \in Keys
         /\ Probed(bin, call.el.key, group_ind) /\ group_ind \in Groups(bin)
         /\ IsFiniteSet(Live(bin))
<1>1. IsBin(bin) /\ BinOK(bin) /\ LoadExact(bin) /\ els_size(num_groups(bin)) <= IND_MOD
  BY DEF IInv, TableInv, TypeOK, Exists, View
<1>2. els_num = Cardinality(Live(bin)) /\ els_num \in Nat /\ rb = Garbage
  BY DEF IInv, TypeOK, CountExact, Exists, Rebuilding
<1>3. call \in Calls
  BY DEF IInv, CallInv
<1>4. Probed(bin, call.el.key, group_ind)
  BY SMTT(20) DEF IInv, ProbeSound
<1> QED BY <1>1, <1>2, <1>3, <1>4, CallTypes, BinFields DEF Probed

(* Going on to the next group leaves neither key nor empty lane behind.    *)
LEMMA ProbeNextInv == ASSUME IInv, probe_next PROVE IInv'
<1>1. pc = "probe" /\ pc' = "probe" /\ UNCHANGED <<els_num, bin, rb, i, saved, call, res, ret>>
  BY DEF probe_next
<1>2. IsBin(bin) /\ call.el.key \in Keys /\ Probed(bin, call.el.key, group_ind)
  BY <1>1, ProbeFacts
<1>3. Probed(bin, call.el.key, group_ind')
  BY SMTT(20), <1>2, ProbeStep DEF probe_next
<1>4. group_ind' \in Nat
  BY <1>2, <1>3, BinFields DEF Probed
<1>5. TypeOK'
  BY <1>1, <1>4 DEF IInv, TypeOK, Exists, Rebuilding
<1>6. ProbeSound'
  BY SMTT(20), <1>1, <1>3 DEF ProbeSound
<1> QED BY SMTT(20), <1>1, <1>5, <1>6 DEF IInv, SizeInv, TableInv, CallInv, RebuildInv, CountExact, RoomToInsert,
                               SlotReturned, RebuildFaithful, Exists, Rebuilding, View

(* FIND or INSERT of a key that is there returns a live element.           *)
LEMMA ProbeFoundInv == ASSUME IInv, probe_found PROVE IInv'
<1>1. /\ pc = "probe" /\ pc' = "idle" /\ UNCHANGED <<els_num, bin, rb, i, saved, call>>
      /\ ret' = TRUE /\ group_ind' = 0 /\ res' = hit_ind(bin, group_ind, call.el.key)
      /\ eq_lanes(bin, group_ind, call.el.key) # {}
  BY DEF probe_found, probe_hit
<1>2. BinOK(bin) /\ IsBin(bin) /\ call.el.key \in Keys /\ group_ind \in Groups(bin)
  BY <1>1, ProbeFacts
<1>3. res' \in Live(bin) /\ bin.els[res'].key = call.el.key
  BY <1>1, <1>2, ProbeHit, Zenon
<1>4. res' \in Nat
  BY <1>2, <1>3, BinFields
<1>5. TypeOK'
  BY SMTT(20), <1>1, <1>4 DEF IInv, TypeOK, Exists, Rebuilding
<1> QED BY SMTT(20), <1>1, <1>3, <1>5 DEF IInv, SizeInv, TableInv, CallInv, RebuildInv, CountExact, ProbeSound,
                               RoomToInsert, SlotReturned, RebuildFaithful, Exists, Rebuilding, View

(* FIND or DELETE of a key that is not there changes nothing.              *)
LEMMA ProbeAbsentInv == ASSUME IInv, probe_absent PROVE IInv'
<1>1. /\ pc = "probe" /\ pc' = "idle" /\ UNCHANGED <<els_num, bin, rb, i, saved, call, res>>
      /\ ret' = FALSE /\ group_ind' = 0
  BY DEF probe_absent, probe_miss
<1>2. TypeOK'
  BY <1>1, ZenonT(30) DEF IInv, TypeOK, Exists, Rebuilding
<1> QED BY SMTT(20), <1>1, <1>2 DEF IInv, SizeInv, TableInv, CallInv, RebuildInv, CountExact, ProbeSound,
                         RoomToInsert, SlotReturned, RebuildFaithful, Exists, Rebuilding, View

(* DELETE of a key that is there keeps IInv.                               *)
LEMMA ProbeDeleteInv == ASSUME IInv, probe_delete PROVE IInv'
<1> DEFINE k == call.el.key
<1>1. /\ pc = "probe" /\ pc' = "idle" /\ UNCHANGED <<rb, i, saved, call, res>>
      /\ ret' = TRUE /\ group_ind' = 0 /\ call.action = "DELETE"
      /\ els_num' = els_num - 1 /\ bin' = remove_hit(bin, group_ind, k)
      /\ eq_lanes(bin, group_ind, k) # {}
  BY DEF probe_delete, probe_hit
<1>2. /\ BinOK(bin) /\ LoadExact(bin) /\ k \in Keys /\ group_ind \in Groups(bin)
      /\ IsFiniteSet(Live(bin)) /\ els_num = Cardinality(Live(bin)) /\ els_num \in Nat
      /\ els_size(num_groups(bin)) <= IND_MOD
  BY <1>1, ProbeFacts
<1>3. /\ BinOK(bin') /\ IsBin(bin') /\ bin'.groups_mask = bin.groups_mask
      /\ Live(bin') = Live(bin) \ {hit_ind(bin, group_ind, k)}
  <2>1. Lost(bin, hit_ind(bin, group_ind, k), bin')
    BY <1>1, <1>2, RemoveOK
  <2> QED BY <2>1 DEF Lost, BinOK
<1>4. LoadExact(bin')
  BY <1>1, <1>2, RemoveLoad
<1>5. hit_ind(bin, group_ind, k) \in Live(bin)
  BY <1>1, <1>2, ProbeHit, Zenon
<1>6. els_num' = Cardinality(Live(bin'))
  <2> DEFINE L == Live(bin)
             h == hit_ind(bin, group_ind, k)
  <2>1. h \in L /\ IsFiniteSet(L)
    BY <1>2, <1>5
  <2> HIDE DEF L, h
  <2>2. Cardinality(L \ {h}) = Cardinality(L) - 1
    BY <2>1, FS_RemoveElement
  <2> QED BY <1>1, <1>2, <1>3, <2>2 DEF L, h
<1>7. els_num' \in Nat
  <2>1. IsFiniteSet(Live(bin'))
    BY <1>3, BinFields, Zenon
  <2> QED BY <1>6, <2>1, FS_CardinalityType
<1>8. TypeOK'
  BY <1>1, <1>3, <1>7 DEF IInv, TypeOK, Exists, Rebuilding
<1>9. num_groups(bin') = num_groups(bin)
  BY <1>3 DEF num_groups
<1>10. TableInv'
  BY SMTT(20), <1>1, <1>2, <1>3, <1>4, <1>9 DEF TableInv, View
<1>11. CountExact' /\ SlotReturned'
  BY <1>1, <1>6 DEF CountExact, SlotReturned
<1> QED BY <1>1, <1>8, <1>10, <1>11 DEF IInv, SizeInv, CallInv, RebuildInv, ProbeSound, RoomToInsert,
                                       RebuildFaithful, Exists, Rebuilding

(* INSERT of a new key keeps IInv while its element is unwritten.          *)
LEMMA ProbeInsertInv == ASSUME IInv, probe_insert PROVE IInv'
<1> DEFINE e == call.el
<1>1. /\ pc = "probe" /\ pc' = "store" /\ UNCHANGED <<rb, i, saved, call>>
      /\ ret' = FALSE /\ group_ind' = 0 /\ call.action = "INSERT"
      /\ els_num' = els_num + 1 /\ bin' = reserve(bin, group_ind, e.key)
      /\ res' = bin.els_bound
      /\ eq_lanes(bin, group_ind, e.key) = {} /\ match_empty(bin, group_ind) # {}
  BY DEF probe_insert, probe_miss
<1>2. /\ BinOK(bin) /\ IsBin(bin) /\ LoadExact(bin) /\ group_ind \in Groups(bin)
      /\ IsFiniteSet(Live(bin)) /\ els_num = Cardinality(Live(bin)) /\ els_num \in Nat
      /\ els_size(num_groups(bin)) <= IND_MOD /\ Probed(bin, e.key, group_ind)
      /\ call \in Calls
  BY <1>1, ProbeFacts
<1>3. e \in El
  BY <1>1, <1>2, CallTypes
<1>4. bin.els_bound < els_size(num_groups(bin))
  BY <1>1 DEF IInv, RoomToInsert
<1> DEFINE c == put(bin, group_ind, e)
<1> HIDE DEF c
<1>5. /\ BinOK(c)
      /\ c.groups_mask = bin.groups_mask
      /\ c.els_bound = bin.els_bound + 1 /\ c.deleted = bin.deleted
      /\ bin.els_bound \notin Live(bin)
      /\ Live(c) = Live(bin) \cup {bin.els_bound}
      /\ c.els[bin.els_bound] = e
      /\ \A j \in Live(bin) : c.els[j] = bin.els[j]
  <2>1. Gained(bin, e, c)
    BY SMTT(20), <1>1, <1>2, <1>3, <1>4, PutOK DEF c
  <2> QED BY <2>1 DEF Gained
<1>6. LoadExact(c)
  BY SMTT(20), <1>1, <1>2, <1>3, <1>4, PutLoad DEF c
<1>7. /\ IsBin(bin') /\ bin'.groups_mask = c.groups_mask /\ store(bin', bin.els_bound, e) = c
      /\ LoadExact(bin') /\ Live(bin') = Live(c)
  <2> DEFINE r == reserve(bin, group_ind, e.key)
  <2> HIDE DEF r
  <2>1. Reserved(bin, e, r, c)
    BY SMTT(20), <1>1, <1>2, <1>3, <1>4, ReserveFields DEF c, r
  <2> QED BY <1>1, <1>6, <2>1 DEF r, Reserved
<1>8. els_num' = Cardinality(Live(bin'))
  <2>1. Cardinality(Live(bin) \cup {bin.els_bound}) = Cardinality(Live(bin)) + 1
    BY <1>2, <1>5, FS_AddElement, Zenon
  <2> QED BY <1>1, <1>2, <1>5, <1>7, <2>1
<1>9. res' \in Nat
  BY <1>1, <1>2, BinFields
<1>10. TypeOK'
  <2>1. els_num + 1 \in Nat /\ 0 \in Nat
    BY <1>2
  <2>2. FALSE \in BOOLEAN
    OBVIOUS
  <2> QED BY <1>1, <1>7, <1>9, <2>1, <2>2, Zenon DEF IInv, TypeOK, Exists, Rebuilding
<1>11. num_groups(bin') = num_groups(bin)
  BY SMTT(20), <1>5, <1>7 DEF num_groups
<1>12. TableInv'
  BY <1>1, <1>2, <1>5, <1>7, <1>11 DEF TableInv, View
<1>13. CallInv'
  BY <1>1, <1>2, <1>5, <1>7, Zenon DEF CallInv, Exists
<1> QED BY <1>1, <1>8, <1>10, <1>12, <1>13, Zenon DEF IInv, SizeInv, RebuildInv, CountExact, ProbeSound,
                      RoomToInsert, SlotReturned, RebuildFaithful, Exists, Rebuilding

-----------------------------------------------------------------------------
(* The caller.                                                             *)

(* The caller's write through *res completes the element.                  *)
LEMMA StoreInv == ASSUME IInv, caller_store PROVE IInv'
<1>1. /\ pc = "store" /\ pc' = "idle" /\ bin' = View
      /\ UNCHANGED <<els_num, rb, i, saved, call, group_ind, res, ret>>
  BY DEF caller_store, View
<1>2. BinOK(bin') /\ IsBin(bin') /\ IsBin(bin) /\ LoadExact(bin) /\ els_size(num_groups(bin)) <= IND_MOD
  BY <1>1 DEF IInv, TableInv, TypeOK, Exists, BinOK
<1>3. bin' = store(bin, res, call.el)
  BY <1>1 DEF View
<1>4. LoadExact(bin')
  BY <1>2, <1>3, StoreLoad
<1>5. bin'.els_bound = bin.els_bound /\ bin'.deleted = bin.deleted /\ bin'.groups_mask = bin.groups_mask
  BY <1>2, <1>3 DEF store, IsBin
<1>6. Live(bin') = Live(bin) /\ num_groups(bin') = num_groups(bin)
  BY <1>5 DEF Live, num_groups
<1>7. ret = FALSE
  BY <1>1 DEF IInv, CallInv
<1>8. TypeOK'
  BY <1>1, <1>2 DEF IInv, TypeOK, Exists, Rebuilding
<1>9. TableInv'
  BY <1>1, <1>2, <1>4, <1>6 DEF TableInv, View
<1>10. CountExact'
  BY <1>1, <1>6 DEF IInv, CountExact, Exists, Rebuilding
<1> QED BY <1>1, <1>7, <1>8, <1>9, <1>10, Zenon DEF IInv, SizeInv, CallInv, RebuildInv, ProbeSound,
                      RoomToInsert, SlotReturned, RebuildFaithful, Exists, Rebuilding

(* The caller's write over an element with its key keeps IInv.             *)
LEMMA ReplaceInv == ASSUME IInv, caller_replace PROVE IInv'
<1>1. /\ pc = "idle" /\ pc' = "idle" /\ bin' = store(bin, res, call.el) /\ ret = TRUE
      /\ UNCHANGED <<els_num, rb, i, saved, call, group_ind, res, ret>> /\ call.action = "INSERT"
  BY DEF caller_replace
<1>2. /\ IsBin(bin) /\ BinOK(bin) /\ LoadExact(bin) /\ els_size(num_groups(bin)) <= IND_MOD
      /\ els_num = Cardinality(Live(bin)) /\ els_num \in Nat /\ rb = Garbage
  BY <1>1, IdleFacts
<1>3. res \in Live(bin) /\ bin.els[res].key = call.el.key
  BY <1>1 DEF IInv, SlotReturned
<1>4. call \in Calls
  BY <1>1 DEF IInv, TypeOK, NoCall
<1>5. call.el \in El
  BY <1>1, <1>4, CallTypes
<1>6. /\ BinOK(bin') /\ IsBin(bin') /\ bin'.groups_mask = bin.groups_mask
      /\ Live(bin') = Live(bin) /\ bin'.els[res] = call.el
  <2>1. Overwrote(bin, res, call.el, bin')
    BY <1>1, <1>2, <1>3, <1>5, ReplaceOK
  <2> QED BY <2>1, Zenon DEF Overwrote, BinOK
<1>7. LoadExact(bin')
  BY SMTT(20), <1>1, <1>2, StoreLoad
<1>8. num_groups(bin') = num_groups(bin)
  BY <1>6 DEF num_groups
<1>9. TypeOK'
  BY SMTT(20), <1>1, <1>6 DEF IInv, TypeOK, Exists, Rebuilding
<1>10. TableInv'
  BY SMTT(20), <1>1, <1>2, <1>6, <1>7, <1>8 DEF TableInv, View
<1>11. CountExact' /\ SlotReturned'
  BY <1>1, <1>2, <1>3, <1>6 DEF CountExact, SlotReturned
<1> QED BY <1>1, <1>9, <1>10, <1>11, Zenon DEF IInv, SizeInv, CallInv, RebuildInv, ProbeSound, RoomToInsert,
                                       RebuildFaithful, Exists, Rebuilding

=============================================================================
