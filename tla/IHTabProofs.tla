----------------------------- MODULE IHTabProofs -----------------------------
(***************************************************************************)
(* ihtab's safety for every hash function, every key set and every size:   *)
(* the steps of iht_rebuild keep IInv, so every step does (IHTabSteps has  *)
(* the others), and the safety properties follow.                          *)
(***************************************************************************)
EXTENDS IHTabSteps

-----------------------------------------------------------------------------
(* iht_rebuild.                                                            *)

Passed == {j \in Live(bin) : j < i}

(* What IInv says of the old bin and the new one during iht_rebuild.       *)
LEMMA RebuildFacts ==
  ASSUME IInv, Rebuilding
  PROVE  /\ IsBin(bin) /\ BinOK(bin) /\ LoadExact(bin) /\ els_size(num_groups(bin)) <= IND_MOD
         /\ IsBin(rb) /\ BinOK(rb) /\ LoadExact(rb) /\ els_size(num_groups(rb)) <= IND_MOD
         /\ IsFiniteSet(Live(bin)) /\ bin.els_bound \in Nat /\ Live(bin) \subseteq 0 .. bin.els_bound - 1
         /\ rb.els_bound \in Nat /\ i \in Nat /\ i <= bin.els_bound
         /\ call \in Calls /\ call.action = "INSERT" /\ call.el.key \in Keys
         /\ saved = Cardinality(Live(bin)) /\ els_num \in Nat /\ saved \in Nat
         /\ saved < els_size(num_groups(rb))
         /\ rb.deleted = {} /\ rb.els_bound = Cardinality(Passed)
         /\ \A j \in Passed : rb.els[Cardinality({m \in Passed : m < j})] = bin.els[j]
         /\ \A x \in Live(rb) : \E j \in Passed : rb.els[x] = bin.els[j]
<1>1. pc \in {"rebuild", "reinsert"}
  BY DEF Rebuilding
<1>2. IsBin(bin) /\ BinOK(bin) /\ LoadExact(bin) /\ els_size(num_groups(bin)) <= IND_MOD
  BY <1>1 DEF IInv, TypeOK, TableInv, Exists, View
<1>3. /\ IsBin(rb) /\ BinOK(rb) /\ LoadExact(rb) /\ els_size(num_groups(rb)) <= IND_MOD
      /\ saved = Cardinality(Live(bin)) /\ i <= bin.els_bound
      /\ \A x \in Live(rb) : \E j \in Passed : rb.els[x] = bin.els[j]
  BY DEF IInv, TypeOK, RebuildInv, Passed
<1>4. IsFiniteSet(Live(bin)) /\ bin.els_bound \in Nat /\ rb.els_bound \in Nat
  BY <1>2, <1>3, BinFields
<1>5. Live(bin) \subseteq 0 .. bin.els_bound - 1
  BY DEF Live
<1>6. call \in Calls /\ call.action = "INSERT"
  BY <1>1 DEF IInv, CallInv
<1>7. i \in Nat /\ els_num \in Nat /\ saved \in Nat
  BY DEF IInv, TypeOK
<1>8. saved < els_size(num_groups(rb))
  BY <1>3 DEF IInv, RoomToInsert
<1>9. /\ rb.deleted = {} /\ rb.els_bound = Cardinality(Passed)
      /\ \A j \in Passed : rb.els[Cardinality({m \in Passed : m < j})] = bin.els[j]
  BY DEF IInv, RebuildFaithful, Passed
<1> QED BY SMTT(20), <1>2, <1>3, <1>4, <1>5, <1>6, <1>7, <1>8, <1>9, CallTypes

(* iht_rebuild may pass a deleted element.                                 *)
LEMMA SkipInv == ASSUME IInv, rebuild_skip PROVE IInv'
<1>1. /\ pc = "rebuild" /\ pc' = "rebuild" /\ i' = i + 1 /\ i < bin.els_bound /\ i \in bin.deleted
      /\ UNCHANGED <<els_num, bin, rb, saved, call, group_ind, res, ret>>
  BY DEF rebuild_skip
<1>2. Rebuilding
  BY <1>1 DEF Rebuilding
<1>3. i \in Nat /\ bin.els_bound \in Nat /\ Live(bin) \subseteq 0 .. bin.els_bound - 1
  BY <1>2, RebuildFacts
<1>4. i \notin Live(bin)
  BY <1>1 DEF Live
<1>5. Passed' = Passed
  BY <1>1, <1>3, <1>4 DEF Passed
<1>6. i' <= bin'.els_bound /\ i' \in Nat
  BY <1>1, <1>3
<1>7. TypeOK'
  BY <1>1, <1>6 DEF IInv, TypeOK, Exists, Rebuilding
<1>8. RebuildInv' /\ RebuildFaithful'
  <2>1. /\ BinOK(rb) /\ LoadExact(rb) /\ els_size(num_groups(rb)) <= IND_MOD
        /\ saved = Cardinality(Live(bin))
        /\ rb.deleted = {} /\ rb.els_bound = Cardinality(Passed)
        /\ \A j \in Passed : rb.els[Cardinality({m \in Passed : m < j})] = bin.els[j]
        /\ \A x \in Live(rb) : \E j \in Passed : rb.els[x] = bin.els[j]
    BY <1>2, RebuildFacts
  <2>2. {j \in Live(bin) : j < i + 1} = Passed
    BY <1>1, <1>5 DEF Passed
  <2>3. RebuildFaithful'
    BY <1>1, <2>1, <2>2 DEF RebuildFaithful, Rebuilding, BinOK
  <2>4. \A x \in Live(rb) : \E j \in Live(bin) : j < i + 1 /\ rb.els[x] = bin.els[j]
    BY <2>1, <2>2
  <2>5. RebuildInv'
    BY SMTT(20), <1>1, <1>6, <2>1, <2>4 DEF RebuildInv, Rebuilding
  <2> QED BY <2>3, <2>5
<1> QED BY SMTT(20), <1>1, <1>7, <1>8 DEF IInv, SizeInv, TableInv, CallInv, CountExact, ProbeSound, RoomToInsert,
                               SlotReturned, Exists, Rebuilding, View

(* iht_rebuild starts a sound probe of the new bin for a live element.     *)
LEMMA TakeInv == ASSUME IInv, rebuild_take PROVE IInv'
<1>1. /\ pc = "rebuild" /\ pc' = "reinsert" /\ i < bin.els_bound /\ i \notin bin.deleted
      /\ group_ind' = first_group(bin.els[i].key, rb.groups_mask)
      /\ UNCHANGED <<els_num, bin, rb, i, saved, call, res, ret>>
  BY DEF rebuild_take
<1>2. Rebuilding
  BY <1>1 DEF Rebuilding
<1>3. i \in Nat /\ bin.els_bound \in Nat /\ BinOK(bin) /\ IsBin(rb)
  BY <1>2, RebuildFacts
<1>4. i \in Live(bin)
  BY <1>1, <1>3 DEF Live
<1>5. bin.els[i].key \in Keys
  BY <1>3, <1>4 DEF BinOK, ElsDistinct, El
<1>6. Probed(rb, bin.els[i].key, group_ind')
  BY <1>1, <1>3, <1>5, ProbeStart
<1>7. group_ind' \in Nat
  BY <1>3, <1>6, BinFields DEF Probed
<1>8. TypeOK'
  BY <1>1, <1>7 DEF IInv, TypeOK, Exists, Rebuilding
<1>9. ProbeSound'
  BY <1>1, <1>4, <1>6 DEF ProbeSound
<1>10. RebuildFaithful' /\ RebuildInv'
  BY <1>1, <1>2, Zenon DEF IInv, RebuildFaithful, RebuildInv, Rebuilding
<1> QED BY SMTT(20), <1>1, <1>8, <1>9, <1>10 DEF IInv, SizeInv, TableInv, CallInv, CountExact,
                               RoomToInsert, SlotReturned, Exists, Rebuilding, View

(* Going on to the next group of the new bin keeps IInv.                   *)
LEMMA ReinsertNextInv == ASSUME IInv, reinsert_next PROVE IInv'
<1>1. /\ pc = "reinsert" /\ pc' = "reinsert"
      /\ eq_lanes(rb, group_ind, bin.els[i].key) = {} /\ match_empty(rb, group_ind) = {}
      /\ group_ind' = next_group(group_ind, rb.groups_mask)
      /\ UNCHANGED <<els_num, bin, rb, i, saved, call, res, ret>>
  BY DEF reinsert_next
<1>2. Rebuilding
  BY <1>1 DEF Rebuilding
<1>3. BinOK(bin) /\ IsBin(rb)
  BY <1>2, RebuildFacts
<1>4. i \in Live(bin) /\ Probed(rb, bin.els[i].key, group_ind)
  BY <1>1 DEF IInv, ProbeSound
<1>5. bin.els[i].key \in Keys
  BY <1>3, <1>4 DEF BinOK, ElsDistinct, El
<1>6. Probed(rb, bin.els[i].key, group_ind')
  BY <1>1, <1>3, <1>4, <1>5, ProbeStep
<1>7. group_ind' \in Nat
  BY <1>3, <1>6, BinFields DEF Probed
<1>8. TypeOK'
  BY <1>1, <1>7 DEF IInv, TypeOK, Exists, Rebuilding
<1>9. ProbeSound'
  BY <1>1, <1>4, <1>6 DEF ProbeSound
<1>10. RebuildFaithful' /\ RebuildInv'
  BY <1>1, <1>2, Zenon DEF IInv, RebuildFaithful, RebuildInv, Rebuilding
<1> QED BY <1>1, <1>8, <1>9, <1>10, Zenon DEF IInv, SizeInv, TableInv, CallInv, CountExact,
                               RoomToInsert, SlotReturned, Exists, Rebuilding, View

(* Storing an element in the new bin keeps it faithful to the old one.     *)
LEMMA ReinsertPutInv == ASSUME IInv, reinsert_put PROVE IInv'
<1> DEFINE e   == bin.els[i]
           new == rb.els_bound
           c   == put(rb, group_ind, e)
<1>1. pc = "reinsert" /\ Rebuilding
  BY Zenon DEF reinsert_put, Rebuilding
<1>2. /\ BinOK(bin) /\ IsBin(bin) /\ BinOK(rb) /\ IsBin(rb) /\ LoadExact(rb) /\ new \in Nat
      /\ els_size(num_groups(rb)) <= IND_MOD /\ IsFiniteSet(Live(bin)) /\ bin.els_bound \in Nat
      /\ Live(bin) \subseteq 0 .. bin.els_bound - 1 /\ i \in Nat /\ els_num \in Nat
      /\ saved = Cardinality(Live(bin)) /\ saved < els_size(num_groups(rb))
      /\ rb.deleted = {} /\ new = Cardinality(Passed)
      /\ \A j \in Passed : rb.els[Cardinality({m \in Passed : m < j})] = bin.els[j]
      /\ \A x \in Live(rb) : \E j \in Passed : rb.els[x] = bin.els[j]
  BY <1>1, RebuildFacts, Zenon
<1>3. i \in Live(bin) /\ Probed(rb, e.key, group_ind) /\ group_ind \in Groups(rb)
  BY <1>1 DEF IInv, ProbeSound, Probed
<1>4. e \in El /\ e.key \in Keys
  BY <1>2, <1>3 DEF BinOK, ElsDistinct, El
<1>5. i \notin Passed /\ Passed \subseteq Live(bin)
  BY <1>2 DEF Passed
(* rb holds passed elements only, so do_1 does not find this one there.    *)
<1>6. eq_lanes(rb, group_ind, e.key) = {}
  <2> SUFFICES ASSUME eq_lanes(rb, group_ind, e.key) # {}
               PROVE  FALSE
    OBVIOUS
  <2> DEFINE h == hit_ind(rb, group_ind, e.key)
  <2>1. h \in Live(rb) /\ rb.els[h].key = e.key
    BY <1>2, <1>3, <1>4, ProbeHit, Zenon
  <2>2. PICK j \in Passed : rb.els[h] = bin.els[j]
    BY <1>2, <2>1, Zenon
  <2>3. j \in Live(bin) /\ j # i /\ bin.els[j].key = bin.els[i].key
    BY <1>5, <2>1, <2>2
  <2> QED BY <1>2, <1>3, <2>3 DEF BinOK, ElsDistinct
<1>7. /\ match_empty(rb, group_ind) # {} /\ rb' = c /\ els_num' = els_num + 1
      /\ pc' = "rebuild" /\ i' = i + 1 /\ group_ind' = 0
      /\ UNCHANGED <<bin, saved, call, res, ret>>
  BY <1>6 DEF reinsert_put, put
<1>8. IsFiniteSet(Passed) /\ new < els_size(num_groups(rb))
  <2> DEFINE L == Live(bin)
             P == Passed
  <2>1. P \in SUBSET L /\ IsFiniteSet(L) /\ i \in L /\ i \notin P
    BY <1>2, <1>3, <1>5, Zenon
  <2> HIDE DEF L, P
  <2>2. IsFiniteSet(P) /\ Cardinality(P) <= Cardinality(L) /\ Cardinality(L) # Cardinality(P)
    BY <2>1, FS_Subset
  <2>3. Cardinality(L) \in Nat /\ Cardinality(P) \in Nat
    BY <2>1, <2>2, FS_CardinalityType
  <2>4. els_size(num_groups(rb)) \in Nat
    BY <1>2, BinFields
  <2> QED BY <1>2, <2>2, <2>3, <2>4 DEF L, P
<1> HIDE DEF e, c, new
<1>9. /\ BinOK(c)
      /\ c.groups_mask = rb.groups_mask
      /\ c.els_bound = rb.els_bound + 1 /\ c.deleted = rb.deleted
      /\ rb.els_bound \notin Live(rb)
      /\ Live(c) = Live(rb) \cup {rb.els_bound}
      /\ c.els[rb.els_bound] = e
      /\ \A j \in Live(rb) : c.els[j] = rb.els[j]
  <2>1. Gained(rb, e, c)
    BY <1>2, <1>3, <1>4, <1>6, <1>7, <1>8, PutOK, Zenon DEF c, new
  <2> QED BY <2>1 DEF Gained
<1>10. LoadExact(c)
  BY SMTT(20), <1>2, <1>3, <1>4, <1>7, <1>8, PutLoad DEF c, new
<1>11. IsBin(c) /\ num_groups(c) = num_groups(rb)
  BY <1>9 DEF BinOK, num_groups
<1>12. Passed' = Passed \cup {i}
  BY <1>2, <1>3, <1>7 DEF Passed
<1>13. Cardinality(Passed') = new + 1
  <2>1. Cardinality(Passed \cup {i}) = Cardinality(Passed) + 1
    BY <1>5, <1>8, FS_AddElement
  <2> QED BY <1>2, <1>12, <2>1
<1>14. \A j \in Passed \cup {i} : c.els[Cardinality({m \in Passed \cup {i} : m < j})] = bin.els[j]
  <2> SUFFICES ASSUME NEW j \in Passed \cup {i}
               PROVE  c.els[Cardinality({m \in Passed \cup {i} : m < j})] = bin.els[j]
    OBVIOUS
  <2> DEFINE P == Passed
             Q == {m \in P : m < j}
  <2>1. P \subseteq Nat /\ \A m \in P : m < i
    BY <1>2 DEF Passed
  <2>2. {m \in P \cup {i} : m < j} = Q
    BY <1>2, <2>1
  <2>3. CASE j = i
    <3>1. Q = P
      BY <2>1, <2>3, Zenon
    <3>2. c.els[new] = e
      BY <1>9 DEF new
    <3> QED BY <1>2, <2>2, <2>3, <3>1, <3>2, Zenon DEF e
  <2>4. CASE j # i
    <3>1. j \in P
      BY <2>4
    <3>2. rb.els[Cardinality(Q)] = bin.els[j]
      BY <1>2, <3>1
    <3>3. Cardinality(Q) \in 0 .. new - 1
      <4>1. IsFiniteSet(P) /\ Q \in SUBSET P /\ j \in P /\ j \notin Q
        BY <1>8, <2>1, <3>1
      <4>2. Cardinality(P) = new
        BY <1>2
      <4> HIDE DEF P, Q
      <4>3. IsFiniteSet(Q) /\ Cardinality(Q) <= Cardinality(P) /\ Cardinality(P) # Cardinality(Q)
        BY <4>1, FS_Subset
      <4>4. Cardinality(Q) \in Nat
        BY SMTT(20), <4>3, FS_CardinalityType
      <4> QED BY SMTT(20), <1>2, <4>2, <4>3, <4>4
    <3>4. Cardinality(Q) \in Live(rb)
      BY SMTT(20), <1>2, <3>3 DEF Live, new
    <3> QED BY <1>9, <2>2, <3>2, <3>4
  <2> QED BY <2>3, <2>4
<1>15. \A x \in Live(c) : \E j \in Passed \cup {i} : c.els[x] = bin.els[j]
  BY <1>2, <1>9 DEF e
<1>16. {j \in Live(bin) : j < i + 1} = Passed \cup {i}
  BY <1>7, <1>12 DEF Passed
<1>17. RebuildFaithful'
  BY <1>2, <1>7, <1>9, <1>12, <1>13, <1>14, <1>16, ZenonT(30) DEF RebuildFaithful, Rebuilding, BinOK, new
<1>18. RebuildInv'
  <2>1. \A x \in Live(c) : \E j \in Live(bin) : j < i + 1 /\ c.els[x] = bin.els[j]
    BY <1>15, <1>16
  <2>2. i + 1 <= bin.els_bound
    BY <1>2, <1>3
  <2> QED BY <1>2, <1>7, <1>9, <1>10, <1>11, <2>1, <2>2, Zenon DEF RebuildInv, Rebuilding
<1>19. TypeOK'
  <2>1. els_num + 1 \in Nat /\ i + 1 \in Nat /\ 0 \in Nat
    BY SMTT(20), <1>2
  <2> QED BY SMTT(20), <1>1, <1>7, <1>11, <2>1 DEF IInv, TypeOK, Exists, Rebuilding
<1>20. RoomToInsert'
  BY SMTT(20), <1>2, <1>7, <1>11 DEF RoomToInsert, Rebuilding
<1> QED BY SMTT(20), <1>1, <1>7, <1>17, <1>18, <1>19, <1>20 DEF IInv, SizeInv, TableInv, CallInv, CountExact,
                      ProbeSound, SlotReturned, Exists, Rebuilding, View

(* The new bin takes the place of the old one with room to insert.         *)
LEMMA RebuildDoneInv == ASSUME IInv, rebuild_done PROVE IInv'
<1>1. /\ pc = "rebuild" /\ pc' = "probe" /\ i >= bin.els_bound /\ els_num' = saved /\ bin' = rb
      /\ rb' = Garbage /\ i' = 0 /\ saved' = 0
      /\ group_ind' = first_group(call.el.key, rb.groups_mask)
      /\ UNCHANGED <<call, res, ret>>
  BY DEF rebuild_done
<1>2. Rebuilding
  BY <1>1 DEF Rebuilding
<1>3. /\ BinOK(rb) /\ IsBin(rb) /\ LoadExact(rb) /\ els_size(num_groups(rb)) <= IND_MOD
      /\ call \in Calls /\ call.el.key \in Keys /\ call.action = "INSERT"
      /\ bin.els_bound \in Nat /\ Live(bin) \subseteq 0 .. bin.els_bound - 1 /\ i \in Nat
      /\ saved = Cardinality(Live(bin)) /\ saved \in Nat /\ saved < els_size(num_groups(rb))
      /\ rb.deleted = {} /\ rb.els_bound = Cardinality(Passed) /\ rb.els_bound \in Nat
  BY <1>2, RebuildFacts
<1>4. Passed = Live(bin)
  BY <1>1, <1>3 DEF Passed
<1>5. rb.els_bound = saved
  BY <1>3, <1>4
<1>6. Live(rb) = 0 .. rb.els_bound - 1
  BY <1>3 DEF Live
<1>7. Cardinality(Live(rb)) = rb.els_bound
  <2>1. 0 \in Int /\ rb.els_bound - 1 \in Int
    BY <1>3
  <2>2. Cardinality(0 .. rb.els_bound - 1) =
          IF 0 > rb.els_bound - 1 THEN 0 ELSE rb.els_bound - 1 - 0 + 1
    BY <2>1, FS_Interval
  <2> QED BY <1>3, <1>6, <2>2
<1>8. Probed(rb, call.el.key, group_ind')
  BY <1>1, <1>3, ProbeStart
<1>9. group_ind' \in Nat
  BY <1>3, <1>8, BinFields, Zenon DEF Probed
<1>10. TypeOK'
  BY <1>1, <1>3, <1>9, Zenon DEF IInv, TypeOK, Exists, Rebuilding
<1>11. TableInv' /\ ProbeSound'
  BY <1>1, <1>3, <1>8, Zenon DEF TableInv, ProbeSound, View
<1>12. CountExact' /\ RoomToInsert'
  BY SMTT(20), <1>1, <1>3, <1>5, <1>7 DEF CountExact, RoomToInsert, Rebuilding
<1>13. CallInv'
  BY <1>1, <1>3 DEF IInv, CallInv, Exists
<1> QED BY <1>1, <1>10, <1>11, <1>12, <1>13, Zenon DEF IInv, SizeInv, RebuildInv, SlotReturned, RebuildFaithful,
                                               Exists, Rebuilding

-----------------------------------------------------------------------------
(* The theorems.                                                           *)

(* Every step of the code and of its caller keeps IInv.                    *)
LEMMA Inductive == IInv /\ [Next]_vars => IInv'
<1> SUFFICES ASSUME IInv, [Next]_vars PROVE IInv'
  OBVIOUS
<1>1. CASE UNCHANGED vars
  BY <1>1, StutterInv
<1>2. CASE Code
  BY SMTT(20), <1>2, DoubleInv, CreateDoneInv, SkipInv, TakeInv, ReinsertNextInv, ReinsertPutInv,
     RebuildDoneInv, ProbeNextInv, ProbeFoundInv, ProbeDeleteInv, ProbeAbsentInv, ProbeInsertInv
  DEF Code
<1>3. CASE Caller
  BY SMTT(20), <1>3, CreateInv, PerformDirectInv, PerformRebuildInv, DestroyInv, StoreInv, ReplaceInv
  DEF Caller, iht_perform
<1> QED BY <1>1, <1>2, <1>3 DEF Next

(* Every step of the code and of its caller keeps the bin searchable, the  *)
(* probe honest, the count exact and the rebuild faithful.                 *)
THEOREM Invariance == Spec => []IInv
BY InitInv, Inductive, PTL DEF Spec

(* iht_do_1 and iht_rebuild stay within the arrays they were given.        *)
THEOREM TypeCorrect == Spec => []TypeOK
<1>1. IInv => TypeOK
  BY DEF IInv
<1> QED BY <1>1, Invariance, PTL

(* No match of iht_do_1 ever leads to a deleted or unwritten element, and  *)
(* no key is stored twice.                                                 *)
THEOREM StaleIndexFree == Spec => []NoStaleIndex
<1>1. IInv => NoStaleIndex
  BY DEF IInv, TableInv, NoStaleIndex, BinOK
<1> QED BY <1>1, Invariance, PTL

(* Every live element is found by its own probe sequence.                  *)
THEOREM AllReachable == Spec => []NoElementLost
<1>1. IInv => NoElementLost
  BY DEF IInv, TableInv, NoElementLost, BinOK
<1> QED BY <1>1, Invariance, PTL

(* iht_els_count is the number of live elements.                           *)
THEOREM CountCorrect == Spec => []CountExact
<1>1. IInv => CountExact
  BY DEF IInv
<1> QED BY <1>1, Invariance, PTL

(* Slots in use are exactly the elements handed out, at most half of all.  *)
THEOREM LoadBounded == Spec => []HalfLoad
<1>1. IInv => HalfLoad
  <2> SUFFICES ASSUME IInv PROVE HalfLoad
    OBVIOUS
  <2>1. ASSUME NEW b, IsBin(b)
        PROVE  2 * b.els_bound <= indexes_size(num_groups(b))
    <3>1. /\ num_groups(b) \in Nat \ {0} /\ b.els_bound \in Nat
          /\ b.els_bound <= els_size(num_groups(b))
      BY <2>1, BinFields
    <3>2. /\ els_size(num_groups(b)) \in Nat /\ indexes_size(num_groups(b)) \in Nat
          /\ 2 * els_size(num_groups(b)) <= indexes_size(num_groups(b))
      BY <3>1, Sizes
    <3> QED BY <3>1, <3>2
  <2>2. Exists => IsBin(bin) /\ LoadExact(bin)
    BY DEF IInv, TypeOK, TableInv
  <2>3. Rebuilding => IsBin(rb) /\ LoadExact(rb)
    BY DEF IInv, TypeOK, RebuildInv
  <2> QED BY <2>1, <2>2, <2>3 DEF HalfLoad
<1> QED BY <1>1, Invariance, PTL

(* A rebuild loses no element, repeats none and keeps their order.         *)
THEOREM RebuildCorrect == Spec => []RebuildFaithful
<1>1. IInv => RebuildFaithful
  BY DEF IInv
<1> QED BY <1>1, Invariance, PTL

(* A probe leaves neither its key nor an empty lane behind.                *)
THEOREM ProbeCorrect == Spec => []ProbeSound
<1>1. IInv => ProbeSound
  BY DEF IInv
<1> QED BY <1>1, Invariance, PTL

=============================================================================
