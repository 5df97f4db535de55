---------------------------- MODULE IHTabRefines -----------------------------
(***************************************************************************)
(* ihtab implements the map of IndexedMap, for every value of the          *)
(* constants: each step of IHTab is a step of the map or changes nothing   *)
(* the map shows.                                                          *)
(***************************************************************************)
EXTENDS IHTabProofs

-----------------------------------------------------------------------------
(* The map a bin holds.                                                    *)

(* The map of a bin has the keys and values of its live elements.          *)
LEMMA ContentsFacts ==
  ASSUME NEW b, BinOK(b)
  PROVE  /\ DOMAIN Contents(b) = {b.els[j].key : j \in Live(b)}
         /\ \A j \in Live(b) : Contents(b)[b.els[j].key] = b.els[j].val
<1>1. DOMAIN Contents(b) = {b.els[j].key : j \in Live(b)}
  BY DEF Contents
<1>2. ASSUME NEW j \in Live(b)
      PROVE  Contents(b)[b.els[j].key] = b.els[j].val
  <2> DEFINE k == b.els[j].key
             m == CHOOSE x \in Live(b) : b.els[x].key = k
  <2>1. k \in {b.els[x].key : x \in Live(b)}
    OBVIOUS
  <2>2. Contents(b)[k] = b.els[m].val
    BY <2>1, Zenon DEF Contents
  <2>3. m \in Live(b) /\ b.els[m].key = k
    OBVIOUS
  <2>4. m = j
    BY SMTT(20), <2>3 DEF BinOK, ElsDistinct
  <2> QED BY <2>2, <2>4, Zenon
<1> QED BY <1>1, <1>2

(* A function with the bin's keys and values is the bin's contents.        *)
LEMMA ContentsUnique ==
  ASSUME NEW b, BinOK(b), NEW D, NEW f, f = [x \in D |-> f[x]],
         D = {b.els[j].key : j \in Live(b)},
         \A j \in Live(b) : f[b.els[j].key] = b.els[j].val
  PROVE  Contents(b) = f
<1>1. DOMAIN Contents(b) = D /\ \A j \in Live(b) : Contents(b)[b.els[j].key] = b.els[j].val
  BY ContentsFacts, Zenon
<1>2. \A x \in D : Contents(b)[x] = f[x]
  BY <1>1
<1>3. Contents(b) = [x \in D |-> Contents(b)[x]]
  BY ZenonT(30) DEF Contents
<1> QED BY <1>2, <1>3

(* A new bin is the empty map.                                             *)
LEMMA ContentsNew ==
  ASSUME NEW n \in Nat \ {0}
  PROVE  Contents(new_bin(n)) = [k \in {} |-> Garbage]
<1>1. Live(new_bin(n)) = {}
  BY NewBin
<1> QED BY <1>1 DEF Contents

(* One more live element is one more key of the map.                       *)
LEMMA ContentsPut ==
  ASSUME NEW b, NEW c, BinOK(b), BinOK(c), NEW j, NEW e \in El,
         j \notin Live(b), Live(c) = Live(b) \cup {j}, c.els[j] = e,
         \A m \in Live(b) : c.els[m] = b.els[m]
  PROVE  Contents(c) = [x \in DOMAIN Contents(b) \cup {e.key} |->
                          IF x = e.key THEN e.val ELSE Contents(b)[x]]
<1> DEFINE D == DOMAIN Contents(b) \cup {e.key}
           f == [x \in D |-> IF x = e.key THEN e.val ELSE Contents(b)[x]]
<1>1. /\ DOMAIN Contents(b) = {b.els[m].key : m \in Live(b)}
      /\ \A m \in Live(b) : Contents(b)[b.els[m].key] = b.els[m].val
  BY ContentsFacts, Zenon
<1>2. D = {c.els[m].key : m \in Live(c)}
  BY <1>1
<1>3. \A m \in Live(b) : b.els[m].key # e.key
  BY SMTT(20) DEF BinOK, ElsDistinct
<1>4. \A m \in Live(c) : f[c.els[m].key] = c.els[m].val
  BY <1>1, <1>2, <1>3
<1>5. f = [x \in D |-> f[x]]
  OBVIOUS
<1> HIDE DEF f, D
<1>6. Contents(c) = f
  BY <1>2, <1>4, <1>5, ContentsUnique
<1> QED BY <1>6 DEF f, D

(* One live element less is one key less.                                  *)
LEMMA ContentsRemove ==
  ASSUME NEW b, NEW c, BinOK(b), BinOK(c), NEW j \in Live(b),
         Live(c) = Live(b) \ {j}, c.els = b.els
  PROVE  Contents(c) = [x \in DOMAIN Contents(b) \ {b.els[j].key} |-> Contents(b)[x]]
<1> DEFINE D == DOMAIN Contents(b) \ {b.els[j].key}
           f == [x \in D |-> Contents(b)[x]]
<1>1. /\ DOMAIN Contents(b) = {b.els[m].key : m \in Live(b)}
      /\ \A m \in Live(b) : Contents(b)[b.els[m].key] = b.els[m].val
  BY ContentsFacts, Zenon
<1>2. \A m \in Live(c) : b.els[m].key # b.els[j].key
  BY DEF BinOK, ElsDistinct
<1>3. D = {c.els[m].key : m \in Live(c)}
  BY <1>1, <1>2
<1>4. \A m \in Live(c) : f[c.els[m].key] = c.els[m].val
  BY <1>1, <1>3, Zenon
<1>5. f = [x \in D |-> f[x]]
  OBVIOUS
<1> HIDE DEF f, D
<1>6. Contents(c) = f
  BY <1>3, <1>4, <1>5, ContentsUnique
<1> QED BY <1>6 DEF f, D

(* Writing over an element with its key changes the key's value only.      *)
LEMMA ContentsReplace ==
  ASSUME NEW b, NEW c, BinOK(b), BinOK(c), NEW j \in Live(b), NEW e \in El,
         b.els[j].key = e.key, Live(c) = Live(b), c.els[j] = e,
         \A m \in Live(b) \ {j} : c.els[m] = b.els[m]
  PROVE  Contents(c) = [x \in DOMAIN Contents(b) \cup {e.key} |->
                          IF x = e.key THEN e.val ELSE Contents(b)[x]]
<1> DEFINE D == DOMAIN Contents(b) \cup {e.key}
           f == [x \in D |-> IF x = e.key THEN e.val ELSE Contents(b)[x]]
<1>1. /\ DOMAIN Contents(b) = {b.els[m].key : m \in Live(b)}
      /\ \A m \in Live(b) : Contents(b)[b.els[m].key] = b.els[m].val
  BY ContentsFacts, Zenon
<1>2. \A m \in Live(b) : c.els[m].key = b.els[m].key
  OBVIOUS
<1>3. D = {c.els[m].key : m \in Live(c)}
  BY <1>1, <1>2
<1>4. \A m \in Live(b) \ {j} : b.els[m].key # e.key
  BY SMTT(20) DEF BinOK, ElsDistinct
<1>5. \A m \in Live(c) : f[c.els[m].key] = c.els[m].val
  BY <1>1, <1>3, <1>4
<1>6. f = [x \in D |-> f[x]]
  OBVIOUS
<1> HIDE DEF f, D
<1>7. Contents(c) = f
  BY <1>3, <1>5, <1>6, ContentsUnique
<1> QED BY <1>7 DEF f, D

-----------------------------------------------------------------------------
(* What each step does to the map.                                         *)

(* Outside "store" the table shows its bin.                                *)
LEMMA Shown ==
  ASSUME Exists, pc # "store"
  PROVE  /\ MapContents = Contents(bin)
         /\ MapOut = IF res = Garbage THEN Garbage ELSE bin.els[res].val
BY DEF MapContents, MapOut, View

(* The table and the abstract map take the same calls.                     *)
LEMMA SameCalls == Map!Calls = Calls /\ Map!NoCall = NoCall /\ Map!EmptyMap = [k \in {} |-> Garbage]
BY DEF Map!Calls, Map!NoCall, Map!EmptyMap, Calls, NoCall, El, Queries, Uninit

(* Before iht_create there is no map.                                      *)
LEMMA InitMaps == Init => Map!Init
BY SameCalls DEF Init, Map!Init, MapPhase, MapContents, MapOut, Exists

(* iht_create shows nothing before it has allocated its bin.               *)
LEMMA CreateMaps ==
  ASSUME IInv, (\E m \in MinSizes : iht_create(m)) \/ create_double
  PROVE  UNCHANGED Map!mvars
BY DEF iht_create, create_double, Map!mvars, MapPhase, MapContents, MapOut, View, Exists

(* The end of iht_create is Create.                                        *)
LEMMA CreateDoneMaps == ASSUME IInv, create_done PROVE Map!Create
<1>1. i \in Nat \ {0} /\ pc = "size" /\ res = Garbage
  BY DEF create_done, IInv, TypeOK, SizeInv, CallInv, Exists
<1>2. MapContents' = MapContents
  BY <1>1, ContentsNew DEF create_done, MapContents, View, Exists
<1>3. MapOut' = MapOut
  BY <1>1 DEF create_done, MapOut
<1> QED BY SMTT(20), <1>1, <1>2, <1>3 DEF create_done, Map!Create, MapPhase, Exists

(* iht_destroy is Destroy.                                                 *)
LEMMA DestroyMaps == ASSUME IInv, iht_destroy PROVE Map!Destroy
BY SameCalls DEF iht_destroy, Map!Destroy, MapPhase, MapContents, MapOut, Exists

(* The start of iht_perform, with or without a rebuild, is Perform.        *)
LEMMA PerformMaps == ASSUME IInv, NEW c \in Calls, iht_perform(c) PROVE Map!Perform(c)
<1>1. /\ pc = "idle" /\ pc' \in {"probe", "rebuild"} /\ bin' = bin /\ call' = c
      /\ res' = Garbage /\ ret' = FALSE
  BY DEF iht_perform, perform_direct, perform_rebuild, enter_perform
<1> QED BY <1>1 DEF Map!Perform, MapPhase, MapContents, MapOut, View, Exists

(* The steps of a rebuild and of a probe cannot be seen.                   *)
LEMMA WorkMaps ==
  ASSUME IInv, rebuild_skip \/ rebuild_take \/ reinsert_next \/ reinsert_put \/ probe_next
  PROVE  UNCHANGED Map!mvars
<1>1. /\ pc \in {"rebuild", "reinsert", "probe"} /\ pc' \in {"rebuild", "reinsert", "probe"}
      /\ UNCHANGED <<bin, call, res, ret>>
  BY DEF rebuild_skip, rebuild_take, reinsert_next, reinsert_put, probe_next
<1> QED BY <1>1 DEF Map!mvars, MapPhase, MapContents, MapOut, View, Exists

(* A rebuild changes nothing the map shows.                                *)
LEMMA RebuildDoneMaps == ASSUME IInv, rebuild_done PROVE UNCHANGED Map!mvars
<1>1. /\ pc = "rebuild" /\ pc' = "probe" /\ i >= bin.els_bound /\ bin' = rb
      /\ UNCHANGED <<call, res, ret>>
  BY DEF rebuild_done
<1>2. Rebuilding /\ res = Garbage
  BY <1>1 DEF Rebuilding, IInv, CallInv
<1>3. /\ BinOK(bin) /\ BinOK(rb) /\ bin.els_bound \in Nat /\ i \in Nat
      /\ Live(bin) \subseteq 0 .. bin.els_bound - 1 /\ IsFiniteSet(Live(bin))
      /\ rb.deleted = {} /\ rb.els_bound = Cardinality(Passed) /\ rb.els_bound \in Nat
      /\ \A j \in Passed : rb.els[Cardinality({m \in Passed : m < j})] = bin.els[j]
      /\ \A x \in Live(rb) : \E j \in Passed : rb.els[x] = bin.els[j]
  BY <1>2, RebuildFacts
<1>4. Passed = Live(bin)
  BY <1>1, <1>3 DEF Passed
<1>5. \A j \in Live(bin) : \E x \in Live(rb) : rb.els[x] = bin.els[j]
  <2> SUFFICES ASSUME NEW j \in Live(bin)
               PROVE  \E x \in Live(rb) : rb.els[x] = bin.els[j]
    OBVIOUS
  <2> DEFINE P == Passed
             Q == {m \in P : m < j}
  <2>1. rb.els[Cardinality(Q)] = bin.els[j]
    BY <1>3, <1>4
  <2>2. Cardinality(Q) \in 0 .. rb.els_bound - 1
    <3>1. IsFiniteSet(P) /\ Q \in SUBSET P /\ j \in P /\ j \notin Q
      BY <1>3, <1>4
    <3>2. Cardinality(P) = rb.els_bound
      BY <1>3
    <3> HIDE DEF P, Q
    <3>3. IsFiniteSet(Q) /\ Cardinality(Q) <= Cardinality(P) /\ Cardinality(P) # Cardinality(Q)
      BY <3>1, FS_Subset
    <3>4. Cardinality(Q) \in Nat
      BY <3>3, FS_CardinalityType
    <3> QED BY <1>3, <3>2, <3>3, <3>4
  <2>3. Cardinality(Q) \in Live(rb)
    BY <1>3, <2>2 DEF Live
  <2> QED BY <2>1, <2>3
<1>6. Contents(rb) = Contents(bin)
  <2> DEFINE D == DOMAIN Contents(bin)
             f == Contents(bin)
  <2>1. /\ D = {bin.els[m].key : m \in Live(bin)}
        /\ \A m \in Live(bin) : f[bin.els[m].key] = bin.els[m].val
    BY <1>3, ContentsFacts, Zenon
  <2>2. D = {rb.els[x].key : x \in Live(rb)}
    BY SMTT(20), <1>3, <1>4, <1>5, <2>1
  <2>3. \A x \in Live(rb) : f[rb.els[x].key] = rb.els[x].val
    BY SMTT(20), <1>3, <1>4, <2>1
  <2>4. f = [x \in D |-> f[x]]
    BY DEF Contents
  <2> HIDE DEF D, f
  <2>5. Contents(rb) = f
    BY SMTT(20), <1>3, <2>2, <2>3, <2>4, ContentsUnique
  <2> QED BY <2>5 DEF f
<1>7. MapContents' = MapContents
  BY <1>1, <1>6 DEF MapContents, View, Exists
<1> QED BY <1>1, <1>2, <1>7 DEF Map!mvars, MapPhase, MapOut, Exists

(* The key of the running call is in the map iff it is in the bin.         *)
LEMMA ProbeShows ==
  ASSUME IInv, pc = "probe"
  PROVE  /\ MapPhase = "busy" /\ MapContents = Contents(bin) /\ MapOut = Garbage
         /\ DOMAIN Contents(bin) = {bin.els[j].key : j \in Live(bin)}
         /\ \A j \in Live(bin) : Contents(bin)[bin.els[j].key] = bin.els[j].val
<1>1. BinOK(bin) /\ res = Garbage
  BY ProbeFacts, Zenon DEF IInv, CallInv
<1>2. MapPhase = "busy" /\ MapContents = Contents(bin) /\ MapOut = Garbage
  BY <1>1 DEF MapPhase, MapContents, MapOut, View, Exists
<1> QED BY <1>1, <1>2, ContentsFacts, Zenon

(* A probe that finds its key answers as the map does.                     *)
LEMMA ProbeFoundMaps == ASSUME IInv, probe_found PROVE Map!Find \/ Map!Insert
<1> DEFINE k == call.el.key
<1>1. /\ pc = "probe" /\ pc' = "idle" /\ UNCHANGED <<bin, call>> /\ ret' = TRUE
      /\ res' = hit_ind(bin, group_ind, k) /\ eq_lanes(bin, group_ind, k) # {}
      /\ call.action # "DELETE"
  BY DEF probe_found, probe_hit
<1>2. BinOK(bin) /\ IsBin(bin) /\ k \in Keys /\ group_ind \in Groups(bin) /\ call \in Calls
  BY <1>1, ProbeFacts
<1>3. res' \in Live(bin) /\ bin.els[res'].key = k
  BY <1>1, <1>2, ProbeHit, Zenon
<1>4. /\ MapPhase = "busy" /\ MapContents = Contents(bin)
      /\ k \in DOMAIN Contents(bin) /\ Contents(bin)[k] = bin.els[res'].val
  BY <1>1, <1>3, ProbeShows
<1>5. res' # Garbage
  BY <1>2, <1>3, BinFields, BinAssumption
<1>6. MapPhase' = "idle" /\ MapContents' = Contents(bin) /\ MapOut' = bin.els[res'].val
  BY <1>1, <1>5 DEF MapPhase, MapContents, MapOut, View, Exists
<1>7. call.action \in {"FIND", "INSERT"}
  BY <1>1, <1>2, CallTypes
<1>8. CASE call.action = "FIND"
  BY <1>1, <1>4, <1>6, <1>8, Zenon DEF Map!Find, Map!Finish
<1>9. CASE call.action = "INSERT"
  BY <1>1, <1>4, <1>6, <1>9, Zenon DEF Map!Insert, Map!Finish
<1> QED BY <1>7, <1>8, <1>9

(* A probe that deletes its key is Delete.                                 *)
LEMMA ProbeDeleteMaps == ASSUME IInv, probe_delete PROVE Map!Delete
<1> DEFINE k == call.el.key
           h == hit_ind(bin, group_ind, k)
<1>1. /\ pc = "probe" /\ pc' = "idle" /\ UNCHANGED <<call, res>> /\ ret' = TRUE
      /\ bin' = remove_hit(bin, group_ind, k) /\ eq_lanes(bin, group_ind, k) # {}
      /\ call.action = "DELETE"
  BY DEF probe_delete, probe_hit
<1>2. BinOK(bin) /\ k \in Keys /\ group_ind \in Groups(bin) /\ res = Garbage
  BY <1>1, ProbeFacts, Zenon DEF IInv, CallInv
<1>3. h \in Live(bin) /\ bin.els[h].key = k
  BY <1>1, <1>2, ProbeHit, Zenon
<1>4. /\ MapPhase = "busy" /\ MapContents = Contents(bin) /\ MapOut = Garbage
      /\ k \in DOMAIN Contents(bin)
  BY <1>1, <1>3, ProbeShows
<1>5. BinOK(bin') /\ bin'.els = bin.els /\ Live(bin') = Live(bin) \ {h}
  <2>1. Lost(bin, h, bin')
    BY <1>1, <1>2, RemoveOK
  <2> QED BY <2>1 DEF Lost
<1> HIDE DEF h
<1>6. Contents(bin') = [x \in DOMAIN Contents(bin) \ {k} |-> Contents(bin)[x]]
  <2>1. Contents(bin') = [x \in DOMAIN Contents(bin) \ {bin.els[h].key} |-> Contents(bin)[x]]
    BY SMTT(20), <1>2, <1>3, <1>5, ContentsRemove
  <2> QED BY <1>3, <2>1
<1>7. MapPhase' = "idle" /\ MapContents' = Contents(bin') /\ MapOut' = Garbage
  BY <1>1, <1>2 DEF MapPhase, MapContents, MapOut, View, Exists
<1> QED BY <1>1, <1>4, <1>6, <1>7, Zenon DEF Map!Delete, Map!Finish, Map!Without

(* A probe that ends at an empty lane answers as the map does.             *)
LEMMA ProbeAbsentMaps == ASSUME IInv, probe_absent PROVE Map!Find \/ Map!Delete
<1> DEFINE k == call.el.key
<1>1. /\ pc = "probe" /\ pc' = "idle" /\ UNCHANGED <<bin, call, res>> /\ ret' = FALSE
      /\ eq_lanes(bin, group_ind, k) = {} /\ match_empty(bin, group_ind) # {}
      /\ call.action # "INSERT"
  BY DEF probe_absent, probe_miss
<1>2. /\ BinOK(bin) /\ k \in Keys /\ Probed(bin, k, group_ind) /\ call \in Calls /\ res = Garbage
  BY <1>1, ProbeFacts, Zenon DEF IInv, CallInv
<1>3. \A j \in Live(bin) : bin.els[j].key # k
  BY SMTT(20), <1>1, <1>2, ProbeAbsent
<1>4. /\ MapPhase = "busy" /\ MapContents = Contents(bin) /\ MapOut = Garbage
      /\ k \notin DOMAIN Contents(bin)
  BY <1>1, <1>3, ProbeShows
<1>5. MapPhase' = "idle" /\ MapContents' = Contents(bin) /\ MapOut' = Garbage
  BY <1>1, <1>2 DEF MapPhase, MapContents, MapOut, View, Exists
<1>6. call.action \in {"FIND", "DELETE"}
  BY <1>1, <1>2, CallTypes
<1>7. ret' = (call.el.key \in DOMAIN MapContents)
  <2>1. (call.el.key \in DOMAIN MapContents) = FALSE
    BY <1>4
  <2> QED BY <1>1, <2>1, Zenon
<1>8. CASE call.action = "FIND"
  <2>1. Map!Finish("FIND")
    BY SMTT(20), <1>1, <1>4, <1>5, <1>7, <1>8 DEF Map!Finish
  <2>2. MapOut' = IF ret' THEN MapContents[call.el.key] ELSE Garbage
    BY <1>1, <1>5
  <2>3. MapContents' = MapContents
    BY <1>4, <1>5
  <2> QED BY <2>1, <2>2, <2>3, Zenon DEF Map!Find
<1>9. CASE call.action = "DELETE"
  <2>1. [x \in DOMAIN Contents(bin) \ {k} |-> Contents(bin)[x]] = Contents(bin)
    BY <1>4 DEF Contents
  <2>2. Map!Finish("DELETE")
    BY SMTT(20), <1>1, <1>4, <1>5, <1>7, <1>9 DEF Map!Finish
  <2> QED BY SMTT(20), <1>4, <1>5, <2>1, <2>2 DEF Map!Delete, Map!Without
<1> QED BY <1>6, <1>8, <1>9

(* A probe that takes an empty lane is Insert.                             *)
LEMMA ProbeInsertMaps == ASSUME IInv, probe_insert PROVE Map!Insert
<1> DEFINE e == call.el
           c == put(bin, group_ind, e)
<1>1. /\ pc = "probe" /\ pc' = "store" /\ UNCHANGED call /\ ret' = FALSE
      /\ bin' = reserve(bin, group_ind, e.key) /\ res' = bin.els_bound
      /\ eq_lanes(bin, group_ind, e.key) = {} /\ match_empty(bin, group_ind) # {}
      /\ call.action = "INSERT"
  BY DEF probe_insert, probe_miss
<1>2. /\ BinOK(bin) /\ IsBin(bin) /\ e.key \in Keys /\ Probed(bin, e.key, group_ind) /\ call \in Calls
      /\ els_size(num_groups(bin)) <= IND_MOD /\ group_ind \in Groups(bin)
  BY <1>1, ProbeFacts
<1>3. e \in El /\ bin.els_bound < els_size(num_groups(bin))
  BY SMTT(20), <1>1, <1>2, CallTypes DEF IInv, RoomToInsert
<1>4. View' = c
  BY <1>1 DEF View, put
<1>5. \A j \in Live(bin) : bin.els[j].key # e.key
  BY SMTT(20), <1>1, <1>2, ProbeAbsent
<1>6. MapPhase = "busy" /\ MapContents = Contents(bin) /\ e.key \notin DOMAIN Contents(bin)
  BY <1>1, <1>5, ProbeShows
<1> HIDE DEF c
<1>7. /\ BinOK(c)
      /\ c.groups_mask = bin.groups_mask
      /\ c.els_bound = bin.els_bound + 1 /\ c.deleted = bin.deleted
      /\ bin.els_bound \notin Live(bin)
      /\ Live(c) = Live(bin) \cup {bin.els_bound}
      /\ c.els[bin.els_bound] = e
      /\ \A j \in Live(bin) : c.els[j] = bin.els[j]
  <2>1. Gained(bin, e, c)
    BY SMTT(20), <1>1, <1>2, <1>3, PutOK DEF c
  <2> QED BY <2>1 DEF Gained
<1>8. Contents(c) = [x \in DOMAIN Contents(bin) \cup {e.key} |->
                       IF x = e.key THEN e.val ELSE Contents(bin)[x]]
  BY SMTT(20), <1>2, <1>3, <1>7, ContentsPut
<1>9. res' # Garbage
  BY SMTT(20), <1>1, <1>2, BinFields, BinAssumption
<1>10. MapPhase' = "idle" /\ MapContents' = Contents(c) /\ MapOut' = e.val
  BY <1>1, <1>4, <1>7, <1>9 DEF MapPhase, MapContents, MapOut, Exists
<1>11. Contents(c)[e.key] = e.val
  BY <1>8
<1>12. Map!Finish("INSERT")
  <2>1. (call.el.key \in DOMAIN MapContents) = FALSE
    BY <1>6
  <2>2. ret' = (call.el.key \in DOMAIN MapContents)
    BY <1>1, <2>1, Zenon
  <2> QED BY SMTT(20), <1>1, <1>6, <1>10, <2>2 DEF Map!Finish
<1>13. MapContents' = Map!With(e.key, e.val)
  BY <1>6, <1>8, <1>10 DEF Map!With
<1>14. MapContents' = IF ret' THEN MapContents ELSE Map!With(e.key, e.val)
  BY <1>1, <1>13
<1> QED BY <1>10, <1>11, <1>12, <1>14 DEF Map!Insert

(* The write of a new element is part of Insert, which has happened.       *)
LEMMA StoreMaps == ASSUME IInv, caller_store PROVE UNCHANGED Map!mvars
<1>1. pc = "store" /\ pc' = "idle" /\ bin' = View /\ UNCHANGED <<call, res, ret>>
  BY DEF caller_store, View
<1>2. View' = View
  BY <1>1 DEF View
<1> QED BY <1>1, <1>2 DEF Map!mvars, MapPhase, MapContents, MapOut, Exists

(* The write over an element that was found is Replace.                    *)
LEMMA ReplaceMaps == ASSUME IInv, caller_replace PROVE Map!Replace
<1> DEFINE e == call.el
           c == store(bin, res, e)
<1>1. /\ pc = "idle" /\ pc' = "idle" /\ bin' = c /\ UNCHANGED <<call, res, ret>> /\ ret = TRUE
      /\ call.action = "INSERT"
  BY DEF caller_replace
<1>2. BinOK(bin) /\ IsBin(bin)
  BY <1>1, IdleFacts
<1>3. res \in Live(bin) /\ bin.els[res].key = e.key
  BY <1>1 DEF IInv, SlotReturned
<1>4. call \in Calls
  BY <1>1 DEF IInv, TypeOK, NoCall
<1>5. e \in El
  BY SMTT(20), <1>1, <1>4, CallTypes
<1> HIDE DEF c
<1>6. /\ BinOK(c)
      /\ c.groups_mask = bin.groups_mask /\ c.els_bound = bin.els_bound
      /\ Live(c) = Live(bin)
      /\ c.els[res] = e
      /\ \A m \in Live(bin) \ {res} : c.els[m] = bin.els[m]
      /\ \A m \in Live(bin) : c.els[m].key = bin.els[m].key
  <2>1. Overwrote(bin, res, e, c)
    BY SMTT(20), <1>2, <1>3, <1>5, ReplaceOK DEF c
  <2> QED BY <2>1 DEF Overwrote
<1>7. Contents(c) = [x \in DOMAIN Contents(bin) \cup {e.key} |->
                       IF x = e.key THEN e.val ELSE Contents(bin)[x]]
  BY SMTT(20), <1>2, <1>3, <1>5, <1>6, ContentsReplace
<1>8. res # Garbage
  BY SMTT(20), <1>2, <1>3, BinFields, BinAssumption
<1>9. /\ MapPhase = "idle" /\ MapPhase' = "idle" /\ MapContents = Contents(bin)
      /\ MapContents' = Contents(c) /\ MapOut' = e.val
  BY <1>1, <1>6, <1>8 DEF MapPhase, MapContents, MapOut, View, Exists
<1> QED BY <1>1, <1>7, <1>9 DEF Map!Replace, Map!With

-----------------------------------------------------------------------------

(* Every step of the table is a step of the map or cannot be seen.         *)
LEMMA StepMaps == IInv /\ [Next]_vars => [Map!Next]_Map!mvars
<1> SUFFICES ASSUME IInv, [Next]_vars PROVE [Map!Next]_Map!mvars
  OBVIOUS
<1>1. CASE UNCHANGED vars
  BY <1>1 DEF vars, Map!mvars, MapPhase, MapContents, MapOut, View, Exists
<1>2. CASE Code
  BY SMTT(20), <1>2, CreateMaps, CreateDoneMaps, WorkMaps, RebuildDoneMaps, ProbeFoundMaps, ProbeDeleteMaps,
     ProbeAbsentMaps, ProbeInsertMaps
  DEF Code, Map!Next
<1>3. CASE Caller
  <2>1. CASE \E c \in Calls : iht_perform(c)
    BY <2>1, PerformMaps, SameCalls DEF Map!Next
  <2>2. CASE (\E m \in MinSizes : iht_create(m)) \/ iht_destroy \/ caller_store \/ caller_replace
    BY SMTT(20), <2>2, CreateMaps, DestroyMaps, StoreMaps, ReplaceMaps DEF Map!Next
  <2> QED BY <1>3, <2>1, <2>2 DEF Caller
<1> QED BY <1>1, <1>2, <1>3 DEF Next

(* Every behaviour of ihtab is one of the map README.md describes: what    *)
(* iht_perform returns and shows through *res is what the map would.       *)
THEOREM Refinement == Spec => RefinesMap
<1>1. Init => Map!Init
  BY InitMaps
<1>2. IInv /\ [Next]_vars => [Map!Next]_Map!mvars
  BY StepMaps
<1> QED BY <1>1, <1>2, Invariance, PTL DEF Spec, RefinesMap, Map!Spec

=============================================================================
