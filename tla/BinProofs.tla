----------------------------- MODULE BinProofs -------------------------------
(***************************************************************************)
(* Facts about the operations of a bin, for every bin: what do_1 does to   *)
(* one group keeps the bin searchable.                                     *)
(***************************************************************************)
EXTENDS Bin, TLAPS, FiniteSetTheorems, NaturalsInduction, WellFoundedInduction

-----------------------------------------------------------------------------
(* Arithmetic.                                                             *)

(* A non-empty set of naturals has a least element: __builtin_ctzll on a   *)
(* mask that is not 0 finds a bit of it.                                   *)
LEMMA MinInSet ==
  ASSUME NEW S \in SUBSET Nat, S # {}
  PROVE  Min(S) \in S
<1>1. PICK x \in S : \A y \in S : ~(<<y, x>> \in OpToRel(<, Nat))
  BY WFMin, NatLessThanWellFounded, Zenon
<1>2. ASSUME NEW y \in S
      PROVE  x <= y
  <2>1. <<y, x>> \in Nat \X Nat
    OBVIOUS
  <2>2. (y < x) => <<y, x>> \in OpToRel(<, Nat)
    BY <2>1 DEF OpToRel
  <2>3. ~(y < x)
    BY <1>1, <2>2, Zenon
  <2> QED BY <2>3
<1> QED BY <1>2, Zenon DEF Min

(* `x & groups_mask' is a group.                                           *)
LEMMA ModRange ==
  ASSUME NEW a \in Nat, NEW n \in Nat \ {0}
  PROVE  a % n \in 0 .. n - 1
OBVIOUS

(* The probe goes up by one and wraps round.                               *)
LEMMA NextGroup ==
  ASSUME NEW m \in Nat, NEW g \in 0 .. m
  PROVE  next_group(g, m) = IF g = m THEN 0 ELSE g + 1
<1>1. CASE g = m
  BY <1>1 DEF next_group
<1>2. CASE g # m
  BY <1>2 DEF next_group
<1> QED BY <1>1, <1>2

(* A tag is never a reserved one, and a probe begins inside h7.            *)
LEMMA HashTypes ==
  ASSUME NEW k \in Keys, NEW m \in Nat
  PROVE  /\ h7_val(k) \in H7
         /\ first_group(k, m) \in 0 .. m
<1>1. Hash[k] \in Nat /\ H7_WEIGHT \in Nat \ {0} /\ GROUP_SIZE \in Nat \ {0}
  BY BinAssumption
<1>2. Hash[k] \div H7_WEIGHT \in Nat /\ Hash[k] \div GROUP_SIZE \in Nat
  BY <1>1
<1>3. h7_val(k) \in H7
  BY <1>2 DEF h7_val, H7
<1>4. first_group(k, m) \in 0 .. m
  <2> DEFINE a == Hash[k] \div GROUP_SIZE
             n == m + 1
  <2>1. a \in Nat /\ n \in Nat \ {0}
    BY <1>2
  <2>2. a % n \in 0 .. n - 1
    BY <2>1, ModRange, Zenon
  <2>3. first_group(k, m) = a % n
    BY DEF first_group
  <2> QED BY <2>2, <2>3
<1> QED BY <1>3, <1>4

(* The size of els is half the number of slots, and doubling the groups    *)
(* makes it the number of slots there were.                                *)
LEMMA Sizes ==
  ASSUME NEW n \in Nat \ {0}
  PROVE  /\ indexes_size(n) \in Nat /\ indexes_size(n) >= 2
         /\ els_size(n) \in Nat \ {0}
         /\ 2 * els_size(n) <= indexes_size(n)
         /\ indexes_size(n) <= 2 * els_size(n) + 1
         /\ els_size(2 * n) = indexes_size(n)
<1>1. GROUP_SIZE \in Nat /\ GROUP_SIZE >= 2
  BY BinAssumption
<1>2. n * GROUP_SIZE \in Nat /\ n * GROUP_SIZE >= 2
  BY <1>1
<1>3. 2 * n * GROUP_SIZE = 2 * (n * GROUP_SIZE)
  BY <1>1
<1> QED BY <1>2, <1>3 DEF indexes_size, els_size

-----------------------------------------------------------------------------
(* What the record operations do, field by field.                          *)

(* The types of what is read from a bin, for the proofs below.             *)
LEMMA BinFields ==
  ASSUME NEW b, IsBin(b)
  PROVE  /\ b.groups_mask \in Nat
         /\ num_groups(b) \in Nat \ {0}
         /\ Groups(b) \in SUBSET Nat
         /\ b.els_bound \in Nat /\ b.els_bound <= els_size(num_groups(b))
         /\ els_size(num_groups(b)) \in Nat \ {0}
         /\ b.deleted \subseteq 0 .. b.els_bound - 1
         /\ b.els \in [0 .. els_size(num_groups(b)) - 1 -> El \cup {Uninit}]
         /\ \A g \in Groups(b), s \in Lanes :
              /\ b.h7[g][s] \in H7 \cup {EMPTY_H7, DELETED_H7}
              /\ b.indexes[g][s] \in (0 .. IND_MOD - 1) \cup {Garbage}
         /\ IsFiniteSet(Live(b)) /\ Live(b) \subseteq 0 .. els_size(num_groups(b)) - 1
         /\ Lanes \in SUBSET Nat
<1>1. b.groups_mask \in Nat /\ num_groups(b) \in Nat \ {0}
  BY DEF IsBin, num_groups
<1>2. els_size(num_groups(b)) \in Nat \ {0}
  BY <1>1, Sizes
<1>3. b.els_bound \in Nat /\ b.els_bound <= els_size(num_groups(b))
  BY DEF IsBin
<1>4. /\ b.deleted \subseteq 0 .. b.els_bound - 1
      /\ b.els \in [0 .. els_size(num_groups(b)) - 1 -> El \cup {Uninit}]
  BY DEF IsBin
<1>5. \A g \in Groups(b), s \in Lanes :
        /\ b.h7[g][s] \in H7 \cup {EMPTY_H7, DELETED_H7}
        /\ b.indexes[g][s] \in (0 .. IND_MOD - 1) \cup {Garbage}
  BY DEF IsBin
<1>6. IsFiniteSet(Live(b)) /\ Live(b) \subseteq 0 .. els_size(num_groups(b)) - 1
  <2>1. IsFiniteSet(0 .. b.els_bound - 1)
    BY <1>3, FS_Interval
  <2>2. Live(b) \in SUBSET (0 .. b.els_bound - 1)
    BY DEF Live
  <2>3. IsFiniteSet(Live(b))
    BY <2>1, <2>2, FS_Subset, Zenon
  <2>4. 0 .. b.els_bound - 1 \subseteq 0 .. els_size(num_groups(b)) - 1
    BY <1>2, <1>3
  <2> QED BY <2>2, <2>3, <2>4
<1>7. Groups(b) \in SUBSET Nat
  BY <1>1 DEF Groups
<1>8. Lanes \in SUBSET Nat
  BY BinAssumption DEF Lanes
<1> QED BY <1>1, <1>2, <1>3, <1>4, <1>5, <1>6, <1>7, <1>8

(* A fresh bin is searchable: it holds nothing.                            *)
LEMMA NewBin ==
  ASSUME NEW n \in Nat \ {0}
  PROVE  /\ BinOK(new_bin(n))
         /\ num_groups(new_bin(n)) = n
         /\ new_bin(n).els_bound = 0 /\ new_bin(n).deleted = {}
         /\ Live(new_bin(n)) = {}
<1> DEFINE b == new_bin(n)
<1>1. /\ b.els_bound = 0 /\ b.deleted = {} /\ b.groups_mask = n - 1
      /\ b.els = [j \in 0 .. els_size(n) - 1 |-> Uninit]
      /\ b.h7 = [g \in 0 .. n - 1 |-> [s \in Lanes |-> EMPTY_H7]]
      /\ b.indexes = [g \in 0 .. n - 1 |-> [s \in Lanes |-> Garbage]]
  BY DEF new_bin, empty_h7
<1>2. num_groups(b) = n /\ Groups(b) = 0 .. n - 1
  BY <1>1 DEF num_groups, Groups
<1>3. Live(b) = {}
  BY <1>1 DEF Live
<1>4. els_size(n) \in Nat \ {0}
  BY Sizes
<1>5. IsBin(b)
  BY <1>1, <1>2, <1>4, n - 1 \in Nat DEF IsBin, new_bin, empty_h7
<1>6. Tagged(b) = {}
  BY <1>1, <1>2 DEF Tagged, Slots, Tag, EMPTY_H7, H7
<1>7. SlotsSound(b) /\ SlotsReachable(b) /\ SlotsExact(b) /\ ElsDistinct(b)
  BY <1>3, <1>6 DEF SlotsSound, SlotsReachable, SlotsExact, ElsDistinct
<1> QED BY <1>1, <1>2, <1>3, <1>5, <1>7 DEF BinOK

-----------------------------------------------------------------------------
(* Probing.                                                                *)

(* Distance along the probe sequence orders the groups.                    *)
LEMMA DistFacts ==
  ASSUME NEW n \in Nat \ {0}, NEW h \in 0 .. n - 1
  PROVE  /\ \A g \in 0 .. n - 1 : Dist(h, g, n) \in 0 .. n - 1
         /\ \A g \in 0 .. n - 1 : Dist(h, g, n) = 0 <=> g = h
         /\ \A g, q \in 0 .. n - 1 : Dist(h, g, n) = Dist(h, q, n) => g = q
         /\ \A g \in 0 .. n - 1 :
              LET g2 == IF g = n - 1 THEN 0 ELSE g + 1
              IN  Dist(h, g2, n) = Dist(h, g, n) + 1 \/ Dist(h, g2, n) = 0
BY DEF Dist

(* A probe starts having passed no group.                                  *)
LEMMA ProbeStart ==
  ASSUME NEW b, IsBin(b), NEW k \in Keys
  PROVE  Probed(b, k, first_group(k, b.groups_mask))
<1> DEFINE h == first_group(k, b.groups_mask)
<1>1. num_groups(b) \in Nat \ {0} /\ Groups(b) = 0 .. num_groups(b) - 1
  BY BinFields DEF Groups, num_groups
<1>2. h \in Groups(b)
  BY BinFields, HashTypes DEF Groups
<1>3. \A q \in Groups(b) : Dist(h, q, num_groups(b)) >= Dist(h, h, num_groups(b))
  BY <1>1, <1>2 DEF Dist
<1>4. \A q \in Groups(b) : Dist(h, q, num_groups(b)) \in Int /\ Dist(h, h, num_groups(b)) \in Int
  BY <1>1, <1>2 DEF Dist
<1>5. Before(b, k, h) = {}
  BY <1>3, <1>4 DEF Before
<1> QED BY <1>2, <1>5 DEF Probed

(* A probe that finds neither the key nor an empty lane goes on.           *)
LEMMA ProbeStep ==
  ASSUME NEW b, IsBin(b), NEW k \in Keys, NEW g, Probed(b, k, g),
         eq_lanes(b, g, k) = {}, match_empty(b, g) = {}
  PROVE  Probed(b, k, next_group(g, b.groups_mask))
<1> DEFINE h  == first_group(k, b.groups_mask)
           n  == num_groups(b)
           g2 == next_group(g, b.groups_mask)
<1>1. n \in Nat \ {0} /\ Groups(b) = 0 .. n - 1 /\ b.groups_mask = n - 1
  BY BinFields DEF Groups, num_groups
<1>2. h \in 0 .. n - 1 /\ g \in 0 .. n - 1
  BY <1>1, BinFields, HashTypes DEF Groups, Probed
<1>3. g2 = IF g = n - 1 THEN 0 ELSE g + 1
  BY <1>1, <1>2, BinFields, NextGroup
<1>4. g2 \in 0 .. n - 1
  BY <1>1, <1>2, <1>3
<1>5. Dist(h, g2, n) = Dist(h, g, n) + 1 \/ Dist(h, g2, n) = 0
  BY <1>1, <1>2, <1>3 DEF Dist
<1>6. ASSUME NEW q \in Before(b, k, g2)
      PROVE  q \in Before(b, k, g) \/ q = g
  <2>1. q \in 0 .. n - 1 /\ Dist(h, q, n) < Dist(h, g2, n)
    BY <1>1 DEF Before
  <2>2. Dist(h, q, n) \in 0 .. n - 1 /\ Dist(h, g, n) \in 0 .. n - 1
    BY <1>1, <1>2, <2>1, DistFacts
  <2>3. Dist(h, q, n) < Dist(h, g, n) \/ Dist(h, q, n) = Dist(h, g, n)
    BY <1>5, <2>1, <2>2
  <2>4. Dist(h, q, n) = Dist(h, g, n) => q = g
    BY <1>1, <1>2, <2>1, DistFacts
  <2> QED BY <1>1, <2>1, <2>3, <2>4 DEF Before
<1>7. \A q \in Before(b, k, g2) : match_empty(b, q) = {} /\ eq_lanes(b, q, k) = {}
  BY <1>6 DEF Probed
<1> QED BY <1>1, <1>4, <1>7 DEF Probed

(* A probe that stops at an empty lane proves that the key is absent.      *)
LEMMA ProbeAbsent ==
  ASSUME NEW b, BinOK(b), NEW k \in Keys, NEW g, Probed(b, k, g),
         eq_lanes(b, g, k) = {}, match_empty(b, g) # {}
  PROVE  \A j \in Live(b) : b.els[j].key # k
<1> SUFFICES ASSUME NEW j \in Live(b), b.els[j].key = k
             PROVE  FALSE
  OBVIOUS
<1> DEFINE h == first_group(k, b.groups_mask)
           n == num_groups(b)
<1>1. IsBin(b)
  BY DEF BinOK
<1>2. PICK sl \in Tagged(b) : Index(b, sl) = j
  BY DEF BinOK, SlotsExact
<1>3. Tag(b, sl) = h7_val(k) /\ \A q \in Before(b, k, sl[1]) : match_empty(b, q) = {}
  BY <1>2 DEF BinOK, SlotsReachable
<1>4. sl[1] \in Groups(b) /\ sl[2] \in Lanes
  BY SMTT(20) DEF Tagged, Slots
<1>5. sl[2] \in eq_lanes(b, sl[1], k)
  BY <1>2, <1>3, <1>4 DEF eq_lanes, match_mask, Tag, Index
<1>6. sl[1] \notin Before(b, k, g) /\ sl[1] # g
  BY <1>5 DEF Probed
<1>7. g \in Groups(b) /\ g \notin Before(b, k, sl[1])
  BY <1>3 DEF Probed
<1>8. n \in Nat \ {0} /\ Groups(b) = 0 .. n - 1
  BY <1>1, BinFields DEF Groups, num_groups
<1>9. h \in 0 .. n - 1
  BY <1>1, <1>8, BinFields, HashTypes, Zenon DEF Groups
<1>10. Dist(h, g, n) \in 0 .. n - 1 /\ Dist(h, sl[1], n) \in 0 .. n - 1
  BY <1>4, <1>7, <1>8, <1>9, DistFacts, Zenon
<1>11. ~(Dist(h, g, n) < Dist(h, sl[1], n)) /\ ~(Dist(h, sl[1], n) < Dist(h, g, n))
  BY <1>4, <1>6, <1>7 DEF Before
<1>12. Dist(h, g, n) = Dist(h, sl[1], n)
  BY <1>8, <1>10, <1>11
<1>13. g = sl[1]
  BY <1>4, <1>7, <1>8, <1>9, <1>12 DEF Dist
<1> QED BY <1>6, <1>13

(* What a probe hits is a live element with the key.                       *)
LEMMA ProbeHit ==
  ASSUME NEW b, BinOK(b), NEW k \in Keys, NEW g \in Groups(b),
         eq_lanes(b, g, k) # {}
  PROVE  /\ Min(eq_lanes(b, g, k)) \in Lanes
         /\ <<g, Min(eq_lanes(b, g, k))>> \in Tagged(b)
         /\ hit_ind(b, g, k) = Index(b, <<g, Min(eq_lanes(b, g, k))>>)
         /\ hit_ind(b, g, k) \in Live(b)
         /\ b.els[hit_ind(b, g, k)].key = k
<1> DEFINE s == Min(eq_lanes(b, g, k))
<1>1. eq_lanes(b, g, k) \in SUBSET Nat
  BY BinFields DEF eq_lanes, match_mask, BinOK
<1>2. s \in eq_lanes(b, g, k)
  BY <1>1, MinInSet, SMTT(20)
<1>3. s \in Lanes /\ b.h7[g][s] = h7_val(k) /\ b.els[b.indexes[g][s]].key = k
  BY <1>2, Zenon DEF eq_lanes, match_mask
<1>4. h7_val(k) \in H7
  BY HashTypes, 0 \in Nat
<1>5. <<g, s>> \in Tagged(b)
  BY <1>3, <1>4 DEF Tagged, Slots, Tag
<1>6. hit_ind(b, g, k) = Index(b, <<g, s>>) /\ Index(b, <<g, s>>) = b.indexes[g][s]
  BY DEF hit_ind, Index
<1>7. Index(b, <<g, s>>) \in Live(b)
  BY SMTT(20), <1>5 DEF BinOK, SlotsSound
<1> QED BY <1>3, <1>5, <1>6, <1>7

-----------------------------------------------------------------------------
(* INSERT of an absent key: reserve, then the store through *res.          *)

put(b, g, e) == store(reserve(b, g, e.key), b.els_bound, e)

(* c is b with e in its next place and in the empty lane `bit' of g.       *)
Placed(b, g, bit, e, c) ==
  /\ bit \in Lanes /\ b.h7[g][bit] = EMPTY_H7
  /\ IsBin(c) /\ c.groups_mask = b.groups_mask
  /\ c.els_bound = b.els_bound + 1 /\ c.deleted = b.deleted
  /\ c.els = [b.els EXCEPT ![b.els_bound] = e]
  /\ c.els[b.els_bound] = e
  /\ \A q \in Groups(b), s \in Lanes :
       IF q = g /\ s = bit
       THEN c.h7[q][s] = h7_val(e.key) /\ c.indexes[q][s] = b.els_bound
       ELSE c.h7[q][s] = b.h7[q][s] /\ c.indexes[q][s] = b.indexes[q][s]

(* What put changes: one empty lane, its index and the next element.       *)
LEMMA PutFields ==
  ASSUME NEW b, IsBin(b), NEW e \in El, NEW g \in Groups(b), match_empty(b, g) # {},
         b.els_bound < els_size(num_groups(b)), els_size(num_groups(b)) <= IND_MOD
  PROVE  Placed(b, g, Min(match_empty(b, g)), e, put(b, g, e))
<1> DEFINE c   == put(b, g, e)
           bit == Min(match_empty(b, g))
           n   == num_groups(b)
<1>1. match_empty(b, g) \in SUBSET Nat
  BY BinFields DEF match_empty
<1>2. bit \in match_empty(b, g)
  BY <1>1, MinInSet
<1>3. bit \in Lanes /\ b.h7[g][bit] = EMPTY_H7
  BY <1>2 DEF match_empty
<1>4. b.els_bound \in Nat /\ IND_MOD \in Nat \ {0} /\ els_size(n) \in Nat
  BY BinFields, BinAssumption
<1>5. b.els_bound % IND_MOD = b.els_bound
  BY <1>4
<1>6. h7_val(e.key) \in H7
  BY HashTypes, 0 \in Nat DEF El
<1>7. b \in [ els_bound   : Nat,
              els         : [0 .. els_size(n) - 1 -> El \cup {Uninit}],
              deleted     : SUBSET (0 .. b.els_bound - 1),
              h7          : [Groups(b) -> [Lanes -> H7 \cup {EMPTY_H7, DELETED_H7}]],
              indexes     : [Groups(b) -> [Lanes -> (0 .. IND_MOD - 1) \cup {Garbage}]],
              groups_mask : Nat ]
  BY DEF IsBin
<1>8. c = [b EXCEPT !.h7        = [b.h7 EXCEPT ![g] = [b.h7[g] EXCEPT ![bit] = h7_val(e.key)]],
                    !.indexes   = [b.indexes EXCEPT ![g] = [b.indexes[g] EXCEPT ![bit] = b.els_bound]],
                    !.els_bound = b.els_bound + 1,
                    !.els       = [b.els EXCEPT ![b.els_bound] = e]]
  BY <1>5, <1>7, Zenon DEF put, store, reserve
<1>9. /\ c.groups_mask = b.groups_mask /\ c.els_bound = b.els_bound + 1
      /\ c.deleted = b.deleted /\ c.els = [b.els EXCEPT ![b.els_bound] = e]
      /\ c.h7 = [b.h7 EXCEPT ![g] = [b.h7[g] EXCEPT ![bit] = h7_val(e.key)]]
      /\ c.indexes = [b.indexes EXCEPT ![g] = [b.indexes[g] EXCEPT ![bit] = b.els_bound]]
  BY <1>7, <1>8
<1>10. \A q \in Groups(b), s \in Lanes :
         IF q = g /\ s = bit
         THEN c.h7[q][s] = h7_val(e.key) /\ c.indexes[q][s] = b.els_bound
         ELSE c.h7[q][s] = b.h7[q][s] /\ c.indexes[q][s] = b.indexes[q][s]
  BY <1>3, <1>7, <1>9
<1>11. b.els_bound \in 0 .. IND_MOD - 1 /\ b.els_bound \in 0 .. els_size(n) - 1
  BY <1>4
<1>12. c.els[b.els_bound] = e
  BY <1>7, <1>9, <1>11, Zenon
<1>13. num_groups(c) = n /\ Groups(c) = Groups(b)
  BY <1>9 DEF num_groups, Groups
<1>14. /\ c.els \in [0 .. els_size(n) - 1 -> El \cup {Uninit}]
       /\ c.h7 \in [Groups(b) -> [Lanes -> H7 \cup {EMPTY_H7, DELETED_H7}]]
       /\ c.indexes \in [Groups(b) -> [Lanes -> (0 .. IND_MOD - 1) \cup {Garbage}]]
  BY <1>3, <1>6, <1>7, <1>9, <1>11
<1>15. c.deleted \in SUBSET (0 .. c.els_bound - 1) /\ c.els_bound \in Nat
  BY <1>4, <1>7, <1>9
<1>16. IsBin(c)
  <2>1. c \in [ els_bound   : Nat,
                els         : [0 .. els_size(n) - 1 -> El \cup {Uninit}],
                deleted     : SUBSET (0 .. c.els_bound - 1),
                h7          : [Groups(b) -> [Lanes -> H7 \cup {EMPTY_H7, DELETED_H7}]],
                indexes     : [Groups(b) -> [Lanes -> (0 .. IND_MOD - 1) \cup {Garbage}]],
                groups_mask : Nat ]
    BY <1>7, <1>8, <1>9, <1>14, <1>15, Zenon
  <2>2. c.els_bound <= els_size(n)
    BY <1>4, <1>9
  <2> QED BY <1>13, <2>1, <2>2 DEF IsBin
<1> QED BY <1>3, <1>9, <1>10, <1>12, <1>16 DEF Placed

(* c is b with one more element, e, and still searchable.                  *)
Gained(b, e, c) ==
  /\ BinOK(c)
  /\ c.groups_mask = b.groups_mask
  /\ c.els_bound = b.els_bound + 1 /\ c.deleted = b.deleted
  /\ b.els_bound \notin Live(b)
  /\ Live(c) = Live(b) \cup {b.els_bound}
  /\ c.els[b.els_bound] = e
  /\ \A j \in Live(b) : c.els[j] = b.els[j]

(* Putting an absent key where its probe stopped keeps the bin searchable  *)
(* and adds exactly that element.                                          *)
LEMMA PutOK ==
  ASSUME NEW b, BinOK(b), NEW e \in El, NEW g, Probed(b, e.key, g),
         eq_lanes(b, g, e.key) = {}, match_empty(b, g) # {},
         b.els_bound < els_size(num_groups(b)), els_size(num_groups(b)) <= IND_MOD
  PROVE  Gained(b, e, put(b, g, e))
<1> DEFINE c   == put(b, g, e)
           bit == Min(match_empty(b, g))
           k   == e.key
           new == b.els_bound
<1> HIDE DEF c, bit, k, new
<1>1. IsBin(b) /\ g \in Groups(b) /\ k \in Keys
  BY DEF BinOK, Probed, El, k
<1>2. /\ bit \in Lanes /\ b.h7[g][bit] = EMPTY_H7
      /\ IsBin(c) /\ c.groups_mask = b.groups_mask
      /\ c.els_bound = new + 1 /\ c.deleted = b.deleted
      /\ c.els = [b.els EXCEPT ![new] = e] /\ c.els[new] = e
      /\ \A q \in Groups(b), s \in Lanes :
           IF q = g /\ s = bit
           THEN c.h7[q][s] = h7_val(k) /\ c.indexes[q][s] = new
           ELSE c.h7[q][s] = b.h7[q][s] /\ c.indexes[q][s] = b.indexes[q][s]
  <2>1. Placed(b, g, bit, e, c)
    BY <1>1, PutFields DEF c, bit
  <2> QED BY <2>1 DEF Placed, k, new
<1>3. new \in Nat /\ b.deleted \subseteq 0 .. new - 1 /\ b.els \in [0 .. els_size(num_groups(b)) - 1 -> El \cup {Uninit}]
      /\ Live(b) \subseteq 0 .. els_size(num_groups(b)) - 1
  BY <1>1, BinFields DEF new
<1>4. new \notin Live(b) /\ Live(c) = Live(b) \cup {new}
  <2>1. c.els_bound = new + 1 /\ c.deleted = b.deleted /\ new = b.els_bound
    BY <1>2 DEF new
  <2>2. new \in Nat /\ b.deleted \subseteq 0 .. new - 1
    BY <1>3
  <2> QED BY <2>1, <2>2 DEF Live
<1>5. \A j \in Live(b) : c.els[j] = b.els[j]
  BY <1>2, <1>3, <1>4
<1>6. Groups(c) = Groups(b) /\ Slots(c) = Slots(b) /\ num_groups(c) = num_groups(b)
  BY <1>2 DEF Groups, Slots, num_groups
<1>7. h7_val(k) \in H7
  BY <1>1, HashTypes, 0 \in Nat
<1>8. \A sl \in Tagged(c) : \/ sl = <<g, bit>> /\ Index(c, sl) = new /\ Tag(c, sl) = h7_val(k)
                            \/ /\ sl # <<g, bit>> /\ sl \in Tagged(b)
                               /\ Index(c, sl) = Index(b, sl) /\ Tag(c, sl) = Tag(b, sl)
  BY SMTT(20), <1>1, <1>2, <1>6 DEF Tagged, Slots, Tag, Index
<1>9. ASSUME NEW sl \in Tagged(b)
      PROVE  sl \in Tagged(c) /\ Index(c, sl) = Index(b, sl)
  <2>1. sl \in Slots(b) /\ sl[1] \in Groups(b) /\ sl[2] \in Lanes
    BY DEF Tagged, Slots
  <2>2. b.h7[sl[1]][sl[2]] \in H7
    BY DEF Tagged, Tag
  <2>3. ~(sl[1] = g /\ sl[2] = bit)
    <3>1. EMPTY_H7 \notin H7
      BY DEF H7, EMPTY_H7
    <3>2. b.h7[g][bit] = EMPTY_H7
      BY <1>2
    <3> QED BY <2>2, <3>1, <3>2, Zenon
  <2>4. /\ c.h7[sl[1]][sl[2]] = b.h7[sl[1]][sl[2]]
        /\ c.indexes[sl[1]][sl[2]] = b.indexes[sl[1]][sl[2]]
    BY <1>2, <2>1, <2>3
  <2> QED BY <1>6, <2>1, <2>2, <2>4 DEF Tagged, Tag, Index
<1>10. <<g, bit>> \in Tagged(c) /\ Index(c, <<g, bit>>) = new
  BY <1>1, <1>2, <1>6, <1>7 DEF Tagged, Slots, Tag, Index
<1>11. \A q \in Groups(b) : match_empty(b, q) = {} => match_empty(c, q) = {}
  BY SMTT(20), <1>2, <1>7 DEF match_empty, H7, EMPTY_H7
<1>12. \A x, q : Before(c, x, q) = Before(b, x, q)
  BY <1>2, <1>6 DEF Before
<1>13. \A x, q : Before(b, x, q) \subseteq Groups(b)
  BY DEF Before
<1>14. SlotsSound(c)
  BY <1>4, <1>8 DEF BinOK, SlotsSound
<1>15. SlotsReachable(c)
  <2> SUFFICES ASSUME NEW sl \in Tagged(c)
               PROVE  LET x == c.els[Index(c, sl)].key
                      IN  /\ Tag(c, sl) = h7_val(x)
                          /\ \A q \in Before(c, x, sl[1]) : match_empty(c, q) = {}
    BY DEF SlotsReachable
  <2>1. CASE sl = <<g, bit>>
    <3>1. Index(c, sl) = new /\ Tag(c, sl) = h7_val(k)
      BY <1>8, <2>1
    <3>2. c.els[new].key = k
      BY <1>2 DEF k
    <3>3. \A q \in Before(b, k, g) : match_empty(b, q) = {}
      BY DEF Probed, k
    <3> QED BY <1>11, <1>12, <1>13, <2>1, <3>1, <3>2, <3>3
  <2>2. CASE sl # <<g, bit>>
    <3>1. sl \in Tagged(b) /\ Index(c, sl) = Index(b, sl) /\ Tag(c, sl) = Tag(b, sl)
      BY <1>8, <2>2
    <3>2. Index(b, sl) \in Live(b)
      BY <3>1 DEF BinOK, SlotsSound
    <3>3. c.els[Index(c, sl)] = b.els[Index(b, sl)]
      BY <1>5, <3>1, <3>2
    <3>4. /\ Tag(b, sl) = h7_val(b.els[Index(b, sl)].key)
          /\ \A q \in Before(b, b.els[Index(b, sl)].key, sl[1]) : match_empty(b, q) = {}
      BY <3>1 DEF BinOK, SlotsReachable
    <3> QED BY <1>11, <1>12, <1>13, <3>1, <3>3, <3>4
  <2> QED BY <2>1, <2>2
<1>16. SlotsExact(c)
  <2>1. \A j \in Live(c) : \E sl \in Tagged(c) : Index(c, sl) = j
    BY <1>4, <1>9, <1>10 DEF BinOK, SlotsExact
  <2>2. ASSUME NEW s1 \in Tagged(c), NEW s2 \in Tagged(c), Index(c, s1) = Index(c, s2)
        PROVE  s1 = s2
    <3>1. \A sl \in Tagged(b) : Index(b, sl) # new
      BY <1>4 DEF BinOK, SlotsSound
    <3> QED BY <1>8, <2>2, <3>1 DEF BinOK, SlotsExact
  <2> QED BY <2>1, <2>2 DEF SlotsExact
<1>17. ElsDistinct(c)
  <2>1. \A j \in Live(b) : b.els[j].key # k
    BY <1>1, ProbeAbsent DEF k
  <2>2. \A j \in Live(c) : c.els[j] \in El
    BY <1>2, <1>4, <1>5 DEF BinOK, ElsDistinct
  <2>3. c.els[new].key = k
    BY <1>2 DEF k
  <2>4. ASSUME NEW j1 \in Live(c), NEW j2 \in Live(c), c.els[j1].key = c.els[j2].key
        PROVE  j1 = j2
    BY SMTT(20), <1>4, <1>5, <2>1, <2>3, <2>4 DEF BinOK, ElsDistinct
  <2> QED BY <2>2, <2>4 DEF ElsDistinct
<1>18. BinOK(c)
  BY SMTT(20), <1>2, <1>14, <1>15, <1>16, <1>17 DEF BinOK
<1>19. Gained(b, e, c)
  BY SMTT(20), <1>2, <1>4, <1>5, <1>18 DEF Gained, new
<1> QED BY <1>19 DEF c

-----------------------------------------------------------------------------
(* DELETE of the element a probe hits.                                     *)

(* c is b with the lane `bit' of g and the element `hit' deleted.          *)
Struck(b, g, bit, hit, c) ==
  /\ IsBin(c) /\ c.groups_mask = b.groups_mask
  /\ c.els_bound = b.els_bound /\ c.deleted = b.deleted \cup {hit}
  /\ c.els = b.els /\ c.indexes = b.indexes
  /\ \A q \in Groups(b), s \in Lanes :
       c.h7[q][s] = IF q = g /\ s = bit THEN DELETED_H7 ELSE b.h7[q][s]

(* What remove_hit changes: the tag of one lane and the bitmap.            *)
LEMMA RemoveFields ==
  ASSUME NEW b, BinOK(b), NEW k \in Keys, NEW g \in Groups(b), eq_lanes(b, g, k) # {}
  PROVE  Struck(b, g, Min(eq_lanes(b, g, k)), hit_ind(b, g, k), remove_hit(b, g, k))
<1> DEFINE c   == remove_hit(b, g, k)
           bit == Min(eq_lanes(b, g, k))
           hit == hit_ind(b, g, k)
           n   == num_groups(b)
<1>1. IsBin(b) /\ bit \in Lanes /\ hit \in 0 .. b.els_bound - 1
  BY ProbeHit, Zenon DEF BinOK, Live
<1>2. b \in [ els_bound   : Nat,
              els         : [0 .. els_size(n) - 1 -> El \cup {Uninit}],
              deleted     : SUBSET (0 .. b.els_bound - 1),
              h7          : [Groups(b) -> [Lanes -> H7 \cup {EMPTY_H7, DELETED_H7}]],
              indexes     : [Groups(b) -> [Lanes -> (0 .. IND_MOD - 1) \cup {Garbage}]],
              groups_mask : Nat ]
  BY <1>1 DEF IsBin
<1>3. c = [b EXCEPT !.deleted = b.deleted \cup {hit},
                    !.h7      = [b.h7 EXCEPT ![g] = [b.h7[g] EXCEPT ![bit] = DELETED_H7]]]
  BY <1>2 DEF remove_hit
<1>4. /\ c.groups_mask = b.groups_mask /\ c.els_bound = b.els_bound
      /\ c.deleted = b.deleted \cup {hit} /\ c.els = b.els /\ c.indexes = b.indexes
      /\ c.h7 = [b.h7 EXCEPT ![g] = [b.h7[g] EXCEPT ![bit] = DELETED_H7]]
  BY <1>2, <1>3
<1>5. \A q \in Groups(b), s \in Lanes :
        c.h7[q][s] = IF q = g /\ s = bit THEN DELETED_H7 ELSE b.h7[q][s]
  BY <1>1, <1>2, <1>4
<1>6. c.h7 \in [Groups(b) -> [Lanes -> H7 \cup {EMPTY_H7, DELETED_H7}]]
  BY <1>1, <1>2, <1>4
<1>7. c.deleted \in SUBSET (0 .. c.els_bound - 1)
  BY SMTT(20), <1>1, <1>2, <1>4
<1>8. num_groups(c) = n /\ Groups(c) = Groups(b)
  BY <1>4 DEF num_groups, Groups
<1>9. c \in [ els_bound   : Nat,
              els         : [0 .. els_size(n) - 1 -> El \cup {Uninit}],
              deleted     : SUBSET (0 .. c.els_bound - 1),
              h7          : [Groups(b) -> [Lanes -> H7 \cup {EMPTY_H7, DELETED_H7}]],
              indexes     : [Groups(b) -> [Lanes -> (0 .. IND_MOD - 1) \cup {Garbage}]],
              groups_mask : Nat ]
  BY <1>2, <1>3, <1>4, <1>6, <1>7, Zenon
<1>10. IsBin(c)
  BY <1>1, <1>4, <1>8, <1>9 DEF IsBin
<1> QED BY <1>4, <1>5, <1>10 DEF Struck

(* c is b without the element `hit', and still searchable.                 *)
Lost(b, hit, c) ==
  /\ BinOK(c)
  /\ c.groups_mask = b.groups_mask /\ c.els_bound = b.els_bound
  /\ c.els = b.els
  /\ Live(c) = Live(b) \ {hit}

(* Deleting what a probe hit keeps the bin searchable and takes exactly    *)
(* that element: no element behind the slot is cut off.                    *)
LEMMA RemoveOK ==
  ASSUME NEW b, BinOK(b), NEW k \in Keys, NEW g \in Groups(b), eq_lanes(b, g, k) # {}
  PROVE  Lost(b, hit_ind(b, g, k), remove_hit(b, g, k))
<1> DEFINE c   == remove_hit(b, g, k)
           bit == Min(eq_lanes(b, g, k))
           hit == hit_ind(b, g, k)
<1> HIDE DEF c, bit, hit
<1>1. /\ IsBin(c) /\ c.groups_mask = b.groups_mask
      /\ c.els_bound = b.els_bound /\ c.deleted = b.deleted \cup {hit}
      /\ c.els = b.els /\ c.indexes = b.indexes
      /\ \A q \in Groups(b), s \in Lanes :
           c.h7[q][s] = IF q = g /\ s = bit THEN DELETED_H7 ELSE b.h7[q][s]
  <2>1. Struck(b, g, bit, hit, c)
    BY RemoveFields DEF c, bit, hit
  <2> QED BY <2>1 DEF Struck
<1>2. /\ bit \in Lanes /\ <<g, bit>> \in Tagged(b) /\ hit = Index(b, <<g, bit>>)
      /\ hit \in Live(b)
  BY ProbeHit DEF bit, hit
<1>3. Live(c) = Live(b) \ {hit}
  BY <1>1 DEF Live
<1>4. Groups(c) = Groups(b) /\ Slots(c) = Slots(b) /\ num_groups(c) = num_groups(b)
  BY <1>1 DEF Groups, Slots, num_groups
<1>5. ASSUME NEW sl \in Tagged(c)
      PROVE  /\ sl \in Tagged(b) /\ sl # <<g, bit>>
             /\ Index(c, sl) = Index(b, sl) /\ Tag(c, sl) = Tag(b, sl)
  <2>1. sl \in Slots(b) /\ sl[1] \in Groups(b) /\ sl[2] \in Lanes
    BY <1>4 DEF Tagged, Slots
  <2>2. c.h7[sl[1]][sl[2]] \in H7
    BY DEF Tagged, Tag
  <2>3. ~(sl[1] = g /\ sl[2] = bit)
    <3>1. DELETED_H7 \notin H7
      BY DEF H7, DELETED_H7
    <3>2. c.h7[g][bit] = DELETED_H7
      BY SMTT(20), <1>1, <1>2
    <3> QED BY <2>2, <3>1, <3>2, Zenon
  <2>4. c.h7[sl[1]][sl[2]] = b.h7[sl[1]][sl[2]]
    BY <1>1, <2>1, <2>3
  <2>5. sl \in Tagged(b) /\ Tag(c, sl) = Tag(b, sl)
    BY <2>1, <2>2, <2>4 DEF Tagged, Tag
  <2>6. Index(c, sl) = Index(b, sl)
    BY <1>1 DEF Index
  <2>7. sl # <<g, bit>>
    BY <2>3
  <2> QED BY <2>5, <2>6, <2>7
<1>6. ASSUME NEW sl \in Tagged(b), sl # <<g, bit>>
      PROVE  sl \in Tagged(c) /\ Index(c, sl) = Index(b, sl)
  <2>1. sl \in Slots(b) /\ sl[1] \in Groups(b) /\ sl[2] \in Lanes /\ sl = <<sl[1], sl[2]>>
    BY DEF Tagged, Slots
  <2>2. ~(sl[1] = g /\ sl[2] = bit)
    BY <1>6, <2>1
  <2>3. c.h7[sl[1]][sl[2]] = b.h7[sl[1]][sl[2]]
    BY <1>1, <2>1, <2>2
  <2> QED BY <1>1, <1>4, <2>1, <2>3 DEF Tagged, Tag, Index
<1>7. \A q \in Groups(b) : match_empty(b, q) = {} => match_empty(c, q) = {}
  BY SMTT(20), <1>1 DEF match_empty, EMPTY_H7, DELETED_H7
<1>8. \A x, q : Before(c, x, q) = Before(b, x, q) /\ Before(b, x, q) \subseteq Groups(b)
  BY <1>1, <1>4 DEF Before
<1>9. SlotsSound(c)
  BY <1>2, <1>3, <1>5 DEF BinOK, SlotsSound, SlotsExact
<1>10. SlotsReachable(c)
  <2> SUFFICES ASSUME NEW sl \in Tagged(c)
               PROVE  /\ Tag(c, sl) = h7_val(c.els[Index(c, sl)].key)
                      /\ \A q \in Before(c, c.els[Index(c, sl)].key, sl[1]) : match_empty(c, q) = {}
    BY SMTT(20) DEF SlotsReachable
  <2> DEFINE x == b.els[Index(b, sl)].key
  <2>1. sl \in Tagged(b) /\ Tag(c, sl) = Tag(b, sl) /\ c.els[Index(c, sl)].key = x
    BY <1>1, <1>5
  <2>2. Tag(b, sl) = h7_val(x) /\ \A q \in Before(b, x, sl[1]) : match_empty(b, q) = {}
    BY <2>1 DEF BinOK, SlotsReachable
  <2> HIDE DEF x
  <2> QED BY <1>7, <1>8, <2>1, <2>2
<1>11. SlotsExact(c)
  <2>1. \A j \in Live(c) : \E sl \in Tagged(c) : Index(c, sl) = j
    <3> SUFFICES ASSUME NEW j \in Live(c)
                 PROVE  \E sl \in Tagged(c) : Index(c, sl) = j
      OBVIOUS
    <3>1. PICK sl \in Tagged(b) : Index(b, sl) = j
      BY <1>3 DEF BinOK, SlotsExact
    <3>2. sl # <<g, bit>>
      BY <1>2, <1>3, <3>1
    <3> QED BY <1>6, <3>1, <3>2
  <2>2. \A s1, s2 \in Tagged(c) : Index(c, s1) = Index(c, s2) => s1 = s2
    BY <1>5 DEF BinOK, SlotsExact
  <2> QED BY <2>1, <2>2 DEF SlotsExact
<1>12. ElsDistinct(c)
  BY <1>1, <1>3 DEF BinOK, ElsDistinct
<1>13. BinOK(c)
  BY <1>1, <1>9, <1>10, <1>11, <1>12 DEF BinOK
<1>14. Lost(b, hit, c)
  BY <1>1, <1>3, <1>13 DEF Lost
<1> QED BY <1>14 DEF c, hit

-----------------------------------------------------------------------------
(* The caller overwrites a live element by one with the same key.          *)
(* c is b with e in place of its element j, which has the same key.        *)
Overwrote(b, j, e, c) ==
  /\ BinOK(c)
  /\ c.groups_mask = b.groups_mask /\ c.els_bound = b.els_bound
  /\ Live(c) = Live(b)
  /\ c.els[j] = e
  /\ \A m \in Live(b) \ {j} : c.els[m] = b.els[m]
  /\ \A m \in Live(b) : c.els[m].key = b.els[m].key

(* Writing an element over one with its key leaves the bin searchable.     *)
LEMMA ReplaceOK ==
  ASSUME NEW b, BinOK(b), NEW j \in Live(b), NEW e \in El, b.els[j].key = e.key
  PROVE  Overwrote(b, j, e, store(b, j, e))
<1> DEFINE c == store(b, j, e)
           n == num_groups(b)
<1> HIDE DEF c
<1>1. IsBin(b) /\ j \in 0 .. els_size(n) - 1 /\ Live(b) \subseteq 0 .. els_size(n) - 1
  BY BinFields DEF BinOK
<1>2. b \in [ els_bound   : Nat,
              els         : [0 .. els_size(n) - 1 -> El \cup {Uninit}],
              deleted     : SUBSET (0 .. b.els_bound - 1),
              h7          : [Groups(b) -> [Lanes -> H7 \cup {EMPTY_H7, DELETED_H7}]],
              indexes     : [Groups(b) -> [Lanes -> (0 .. IND_MOD - 1) \cup {Garbage}]],
              groups_mask : Nat ]
  BY <1>1 DEF IsBin
<1>3. /\ c.groups_mask = b.groups_mask /\ c.els_bound = b.els_bound
      /\ c.deleted = b.deleted /\ c.indexes = b.indexes /\ c.h7 = b.h7
      /\ c.els = [b.els EXCEPT ![j] = e]
  BY <1>2 DEF c, store
<1>4. num_groups(c) = n /\ Groups(c) = Groups(b)
  BY <1>3 DEF num_groups, Groups
<1>5. c \in [ els_bound   : Nat,
              els         : [0 .. els_size(n) - 1 -> El \cup {Uninit}],
              deleted     : SUBSET (0 .. c.els_bound - 1),
              h7          : [Groups(b) -> [Lanes -> H7 \cup {EMPTY_H7, DELETED_H7}]],
              indexes     : [Groups(b) -> [Lanes -> (0 .. IND_MOD - 1) \cup {Garbage}]],
              groups_mask : Nat ]
  BY <1>2, <1>3, Zenon DEF c, store
<1>6. IsBin(c)
  BY <1>1, <1>3, <1>4, <1>5 DEF IsBin
<1>7. Live(c) = Live(b)
  BY <1>3 DEF Live
<1>8. /\ c.els[j] = e
      /\ \A m \in Live(b) \ {j} : c.els[m] = b.els[m]
      /\ \A m \in Live(b) : c.els[m].key = b.els[m].key
  BY <1>1, <1>2, <1>3, Zenon
<1>9. Tagged(c) = Tagged(b) /\ \A sl : Index(c, sl) = Index(b, sl) /\ Tag(c, sl) = Tag(b, sl)
  BY <1>3, <1>4 DEF Tagged, Slots, Tag, Index
<1>10. \A q : match_empty(c, q) = match_empty(b, q)
  BY <1>3 DEF match_empty
<1>11. \A x, q : Before(c, x, q) = Before(b, x, q)
  BY SMTT(20), <1>3, <1>4 DEF Before
<1>12. SlotsSound(c) /\ SlotsExact(c)
  BY SMTT(20), <1>7, <1>9 DEF BinOK, SlotsSound, SlotsExact
<1>13. SlotsReachable(c)
  BY <1>8, <1>9, <1>10, <1>11 DEF BinOK, SlotsReachable, SlotsSound
<1>14. ElsDistinct(c)
  BY <1>7, <1>8 DEF BinOK, ElsDistinct
<1>15. BinOK(c)
  BY SMTT(20), <1>6, <1>12, <1>13, <1>14 DEF BinOK
<1>16. Overwrote(b, j, e, c)
  BY <1>3, <1>7, <1>8, <1>15 DEF Overwrote
<1> QED BY <1>16 DEF c

-----------------------------------------------------------------------------
(* How the operations change the number of used slots.                     *)

(* The slots in use can be counted.                                        *)
LEMMA UsedFinite ==
  ASSUME NEW b, IsBin(b)
  PROVE  IsFiniteSet(Used(b))
<1>1. IsFiniteSet(Groups(b)) /\ IsFiniteSet(Lanes)
  <2>1. b.groups_mask \in Int /\ GROUP_SIZE - 1 \in Int /\ 0 \in Int
    BY BinFields, BinAssumption
  <2>2. IsFiniteSet(0 .. b.groups_mask) /\ IsFiniteSet(0 .. GROUP_SIZE - 1)
    BY <2>1, FS_Interval
  <2> QED BY <2>2 DEF Groups, Lanes
<1>2. IsFiniteSet(Groups(b) \X Lanes)
  BY <1>1, FS_Product
<1>3. Used(b) \in SUBSET (Groups(b) \X Lanes)
  BY DEF Used, Slots
<1> QED BY <1>2, <1>3, FS_Subset

(* A new bin has no slot in use and has handed out no element.             *)
LEMMA NewLoad ==
  ASSUME NEW n \in Nat \ {0}
  PROVE  LoadExact(new_bin(n))
<1> DEFINE b == new_bin(n)
<1>1. /\ b.els_bound = 0 /\ Groups(b) = 0 .. n - 1
      /\ b.h7 = [g \in 0 .. n - 1 |-> [s \in Lanes |-> EMPTY_H7]]
  BY DEF new_bin, empty_h7, Groups
<1>2. Used(b) = {}
  BY <1>1 DEF Used, Slots, Tag
<1> QED BY <1>1, <1>2, FS_EmptySet DEF LoadExact

(* An insertion uses up one empty slot and one element.                    *)
LEMMA PutLoad ==
  ASSUME NEW b, BinOK(b), NEW e \in El, NEW g \in Groups(b), match_empty(b, g) # {},
         b.els_bound < els_size(num_groups(b)), els_size(num_groups(b)) <= IND_MOD,
         LoadExact(b)
  PROVE  LoadExact(put(b, g, e))
<1> DEFINE c   == put(b, g, e)
           bit == Min(match_empty(b, g))
           sl  == <<g, bit>>
<1> HIDE DEF c, bit
<1>1. /\ bit \in Lanes /\ b.h7[g][bit] = EMPTY_H7
      /\ c.groups_mask = b.groups_mask /\ c.els_bound = b.els_bound + 1
      /\ \A q \in Groups(b), s \in Lanes :
           c.h7[q][s] = IF q = g /\ s = bit THEN h7_val(e.key) ELSE b.h7[q][s]
  <2>1. IsBin(b)
    BY DEF BinOK
  <2>2. Placed(b, g, bit, e, c)
    BY <2>1, PutFields DEF c, bit
  <2> QED BY <2>2 DEF Placed
<1>2. h7_val(e.key) # EMPTY_H7
  BY HashTypes, 0 \in Nat DEF El, H7, EMPTY_H7
<1>3. Slots(c) = Slots(b)
  BY <1>1 DEF Slots, Groups
<1>4. Used(c) = Used(b) \cup {sl} /\ sl \notin Used(b)
  <2>1. \A x \in Slots(b) : x = <<x[1], x[2]>> /\ x[1] \in Groups(b) /\ x[2] \in Lanes
    BY DEF Slots
  <2>2. sl \in Slots(b) /\ sl \notin Used(b)
    BY <1>1 DEF Slots, Used, Tag
  <2>3. ASSUME NEW x \in Slots(b)
        PROVE  x \in Used(c) <=> (x \in Used(b) \/ x = sl)
    <3>1. CASE x = sl
      <4>1. Tag(c, x) = h7_val(e.key)
        BY <1>1, <3>1 DEF Tag
      <4> QED BY SMTT(20), <1>2, <1>3, <3>1, <4>1, <2>2 DEF Used
    <3>2. CASE x # sl
      <4>1. ~(x[1] = g /\ x[2] = bit)
        BY <2>1, <3>2
      <4>2. Tag(c, x) = Tag(b, x)
        BY <1>1, <2>1, <4>1 DEF Tag
      <4> QED BY <1>3, <3>2, <4>2 DEF Used
    <3> QED BY <3>1, <3>2
  <2>4. Used(c) \subseteq Slots(b) /\ Used(b) \subseteq Slots(b)
    BY <1>3 DEF Used
  <2> QED BY <2>2, <2>3, <2>4
<1>5. IsFiniteSet(Used(b))
  BY UsedFinite DEF BinOK
<1>6. Cardinality(Used(c)) = Cardinality(Used(b)) + 1
  BY <1>4, <1>5, FS_AddElement, Zenon
<1> QED BY SMTT(20), <1>1, <1>6 DEF LoadExact, c

(* A deletion frees none.                                                  *)
LEMMA RemoveLoad ==
  ASSUME NEW b, BinOK(b), NEW k \in Keys, NEW g \in Groups(b), eq_lanes(b, g, k) # {},
         LoadExact(b)
  PROVE  LoadExact(remove_hit(b, g, k))
<1> DEFINE c   == remove_hit(b, g, k)
           bit == Min(eq_lanes(b, g, k))
<1> HIDE DEF c, bit
<1>1. /\ c.groups_mask = b.groups_mask /\ c.els_bound = b.els_bound
      /\ \A q \in Groups(b), s \in Lanes :
           c.h7[q][s] = IF q = g /\ s = bit THEN DELETED_H7 ELSE b.h7[q][s]
  <2>1. Struck(b, g, bit, hit_ind(b, g, k), c)
    BY RemoveFields DEF c, bit
  <2> QED BY <2>1 DEF Struck
<1>2. bit \in Lanes /\ Tag(b, <<g, bit>>) \in H7
  BY ProbeHit DEF bit, Tagged
<1>3. b.h7[g][bit] # EMPTY_H7
  <2>1. EMPTY_H7 \notin H7
    BY DEF H7, EMPTY_H7
  <2> QED BY <1>2, <2>1 DEF Tag
<1>4. \A x \in Slots(b) : x[1] \in Groups(b) /\ x[2] \in Lanes
  BY SMTT(20) DEF Slots
<1>5. \A x \in Slots(b) : Tag(c, x) # EMPTY_H7 <=> Tag(b, x) # EMPTY_H7
  BY SMTT(20), <1>1, <1>3, <1>4 DEF Tag, EMPTY_H7, DELETED_H7
<1>6. Used(c) = Used(b)
  BY <1>1, <1>5 DEF Used, Slots, Groups
<1> QED BY SMTT(20), <1>1, <1>6 DEF LoadExact, c

(* Writing an element takes no slot.                                       *)
LEMMA StoreLoad ==
  ASSUME NEW b, IsBin(b), NEW j, NEW e, LoadExact(b)
  PROVE  LoadExact(store(b, j, e))
BY SMTT(20) DEF LoadExact, Used, Slots, Groups, Tag, store, IsBin

-----------------------------------------------------------------------------
(* Between reserve and the caller's store only the element is missing.     *)
Reserved(b, e, r, c) ==
  /\ IsBin(r)
  /\ r.h7 = c.h7 /\ r.els_bound = c.els_bound /\ r.deleted = c.deleted
  /\ r.groups_mask = c.groups_mask
  /\ store(r, b.els_bound, e) = c
  /\ (LoadExact(c) => LoadExact(r))
  /\ Live(r) = Live(c)

(* Reserving a slot and writing its element afterwards is put.             *)
LEMMA ReserveFields ==
  ASSUME NEW b, IsBin(b), NEW e \in El, NEW g \in Groups(b), match_empty(b, g) # {},
         b.els_bound < els_size(num_groups(b)), els_size(num_groups(b)) <= IND_MOD
  PROVE  Reserved(b, e, reserve(b, g, e.key), put(b, g, e))
<1> DEFINE r   == reserve(b, g, e.key)
           c   == put(b, g, e)
           bit == Min(match_empty(b, g))
           n   == num_groups(b)
<1>1. match_empty(b, g) \in SUBSET Nat
  BY BinFields DEF match_empty
<1>2. bit \in match_empty(b, g)
  BY <1>1, MinInSet
<1>3. bit \in Lanes
  BY SMTT(20), <1>2 DEF match_empty
<1>4. b.els_bound \in Nat /\ IND_MOD \in Nat \ {0} /\ els_size(n) \in Nat
  BY BinFields, BinAssumption
<1>5. b.els_bound % IND_MOD = b.els_bound /\ b.els_bound \in 0 .. IND_MOD - 1
  BY <1>4
<1>6. h7_val(e.key) \in H7
  BY HashTypes, 0 \in Nat DEF El
<1>7. b \in [ els_bound   : Nat,
              els         : [0 .. els_size(n) - 1 -> El \cup {Uninit}],
              deleted     : SUBSET (0 .. b.els_bound - 1),
              h7          : [Groups(b) -> [Lanes -> H7 \cup {EMPTY_H7, DELETED_H7}]],
              indexes     : [Groups(b) -> [Lanes -> (0 .. IND_MOD - 1) \cup {Garbage}]],
              groups_mask : Nat ]
  BY DEF IsBin
<1>8. r = [b EXCEPT !.h7        = [b.h7 EXCEPT ![g] = [b.h7[g] EXCEPT ![bit] = h7_val(e.key)]],
                    !.indexes   = [b.indexes EXCEPT ![g] = [b.indexes[g] EXCEPT ![bit] = b.els_bound]],
                    !.els_bound = b.els_bound + 1]
  BY <1>5, <1>7, Zenon DEF reserve
<1>9. /\ r.groups_mask = b.groups_mask /\ r.els_bound = b.els_bound + 1
      /\ r.deleted = b.deleted /\ r.els = b.els
      /\ r.h7 = [b.h7 EXCEPT ![g] = [b.h7[g] EXCEPT ![bit] = h7_val(e.key)]]
      /\ r.indexes = [b.indexes EXCEPT ![g] = [b.indexes[g] EXCEPT ![bit] = b.els_bound]]
  BY SMTT(20), <1>7, <1>8
<1>10. /\ r.h7 \in [Groups(b) -> [Lanes -> H7 \cup {EMPTY_H7, DELETED_H7}]]
       /\ r.indexes \in [Groups(b) -> [Lanes -> (0 .. IND_MOD - 1) \cup {Garbage}]]
       /\ r.deleted \in SUBSET (0 .. r.els_bound - 1) /\ r.els_bound \in Nat
  <2>1. /\ r.h7 \in [Groups(b) -> [Lanes -> H7 \cup {EMPTY_H7, DELETED_H7}]]
        /\ r.indexes \in [Groups(b) -> [Lanes -> (0 .. IND_MOD - 1) \cup {Garbage}]]
    BY SMTT(20), <1>3, <1>5, <1>6, <1>7, <1>9
  <2>2. r.deleted \in SUBSET (0 .. r.els_bound - 1) /\ r.els_bound \in Nat
    BY SMTT(20), <1>4, <1>7, <1>9
  <2> QED BY SMTT(20), <2>1, <2>2
<1>11. num_groups(r) = n /\ Groups(r) = Groups(b)
  BY <1>9 DEF num_groups, Groups
<1>12. r \in [ els_bound   : Nat,
               els         : [0 .. els_size(n) - 1 -> El \cup {Uninit}],
               deleted     : SUBSET (0 .. r.els_bound - 1),
               h7          : [Groups(b) -> [Lanes -> H7 \cup {EMPTY_H7, DELETED_H7}]],
               indexes     : [Groups(b) -> [Lanes -> (0 .. IND_MOD - 1) \cup {Garbage}]],
               groups_mask : Nat ]
  BY <1>7, <1>8, <1>9, <1>10, Zenon
<1>13. IsBin(r)
  <2>1. r.els_bound <= els_size(n)
    <3>1. r.els_bound = b.els_bound + 1
      BY <1>9
    <3> HIDE DEF r, n
    <3>2. b.els_bound < els_size(n) /\ b.els_bound \in Nat /\ els_size(n) \in Nat
      BY <1>4 DEF n
    <3> QED BY SMTT(20), <3>1, <3>2
  <2> QED BY <1>11, <1>12, <2>1 DEF IsBin
<1>14. store(r, b.els_bound, e) = c
  BY DEF put
<1>15. /\ r.h7 = c.h7 /\ r.els_bound = c.els_bound /\ r.deleted = c.deleted
       /\ r.groups_mask = c.groups_mask
  <2> HIDE DEF r
  <2> QED BY SMTT(20), <1>12, <1>14 DEF store
<1>16. Live(r) = Live(c) /\ (LoadExact(c) => LoadExact(r))
  BY <1>15 DEF Live, LoadExact, Used, Slots, Tag, Groups
<1> QED BY SMTT(20), <1>13, <1>14, <1>15, <1>16 DEF Reserved

=============================================================================
