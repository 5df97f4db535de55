----------------------------- MODULE IndexedMap ------------------------------
(***************************************************************************)
(* What both tables promise (README.md, "C++ Usage"): a finite map from    *)
(* keys to values behind one operation,                                    *)
(*   perform(el, action, &slot)                                            *)
(* that returns true when the element was found (FIND, DELETE) or already  *)
(* existed (INSERT), false otherwise, and makes slot point at the element. *)
(* The map has no buckets, no tags, no deleted marks and no rebuilds.      *)
(*                                                                         *)
(* The element of a new INSERT counts as written when perform returns: the *)
(* caller must write it through slot before it calls the table again.      *)
(***************************************************************************)
CONSTANTS Keys, Values, Garbage

VARIABLES
  phase,  \* "none": no table, "idle": no call runs, "busy": a call runs
  map,    \* the elements, as a function from keys to values
  call,   \* the running, or the last, call
  ret,    \* what the last call returned
  out     \* the value the caller sees through slot, Garbage if slot is unset

mvars == <<phase, map, call, ret, out>>

EmptyMap == [k \in {} |-> Garbage]
NoCall   == [action |-> "none", el |-> [key |-> Garbage, val |-> Garbage]]
Calls    == [action : {"INSERT"}, el : [key : Keys, val : Values]] \cup
            [action : {"FIND", "DELETE"}, el : [key : Keys, val : {Garbage}]]

With(k, v) == [x \in DOMAIN map \cup {k} |-> IF x = k THEN v ELSE map[x]]
Without(k) == [x \in DOMAIN map \ {k} |-> map[x]]

Init ==
  /\ phase = "none" /\ map = EmptyMap
  /\ call = NoCall /\ ret = FALSE /\ out = Garbage

Create ==
  /\ phase = "none" /\ phase' = "idle"
  /\ UNCHANGED <<map, call, ret, out>>

Destroy ==
  /\ phase = "idle" /\ phase' = "none" /\ map' = EmptyMap
  /\ call' = NoCall /\ ret' = FALSE /\ out' = Garbage

Perform(c) ==
  /\ phase = "idle" /\ phase' = "busy"
  /\ call' = c /\ ret' = FALSE /\ out' = Garbage
  /\ UNCHANGED map

Finish(action) ==
  /\ phase = "busy" /\ phase' = "idle"
  /\ call.action = action
  /\ ret' = (call.el.key \in DOMAIN map)
  /\ UNCHANGED call

Find ==
  /\ Finish("FIND")
  /\ out' = IF ret' THEN map[call.el.key] ELSE Garbage
  /\ UNCHANGED map

Delete ==
  /\ Finish("DELETE")
  /\ map' = Without(call.el.key)
  /\ UNCHANGED out

Insert ==
  /\ Finish("INSERT")
  /\ map' = IF ret' THEN map ELSE With(call.el.key, call.el.val)
  /\ out' = map'[call.el.key]

(* The caller overwrites, through slot, an element that already existed.   *)
Replace ==
  /\ phase = "idle" /\ call.action = "INSERT" /\ ret
  /\ map' = With(call.el.key, call.el.val)
  /\ out' = call.el.val
  /\ UNCHANGED <<phase, call, ret>>

Next ==
  \/ Create \/ Destroy \/ Find \/ Delete \/ Insert \/ Replace
  \/ \E c \in Calls : Perform(c)

Spec == Init /\ [][Next]_mvars

=============================================================================
