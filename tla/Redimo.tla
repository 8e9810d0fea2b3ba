------------------------------- MODULE Redimo -------------------------------
(***************************************************************************)
(* The storage primitives redimos composes, as pure operators on one key.  *)
(*                                                                         *)
(* A DynamoDB partition holds one meta item (attributes t, exp, cnt) and   *)
(* the key's data items.  The primitives live in the redimo fork, which is *)
(* not part of the repository; they are modelled from the contract         *)
(* internal/storage/store.go states for each and from how internal/meta    *)
(* and internal/command use the results.  Each is one conditional write,   *)
(* so each is one operator and, in the modules that use it, one step.      *)
(*                                                                         *)
(* A key is a record [t, exp, cnt, data].  t = NoType says that there is   *)
(* no meta item; data maps every sort key to its value, or to Gone.  The   *)
(* sort key does not depend on the type: the members of a set, the fields  *)
(* of a hash and the value of a string (the empty sort key) share one      *)
(* name space inside the partition.                                        *)
(***************************************************************************)
EXTENDS Integers, FiniteSets

CONSTANTS NoType,   \* "no meta item"
          Gone      \* "no data item under this sort key"

HasMeta(k) == k.t # NoType

\* meta.IsExpired: exp > 0 and exp <= now.
IsExpired(k, now) == k.exp > 0 /\ k.exp <= now

\* keyLive, and the "live" result of loadMetaState.
Live(k, now) == HasMeta(k) /\ ~IsExpired(k, now)

\* The sort keys of the data items that are physically there.
Present(k) == {sk \in DOMAIN k.data : k.data[sk] # Gone}

\* A meta item as a claim leaves it, and none at all: type, expiry and count
\* are one item, the data items are others.
Claimed(k, type) == [t |-> type, exp |-> 0, cnt |-> 0, data |-> k.data]
NoMeta(k) == Claimed(k, NoType)

(***************************************************************************)
(* EnsureType: condition "no meta, or t = type"; effect SET t, ADD cnt.    *)
(* It does not look at exp.                                                *)
(***************************************************************************)
TypeAllows(k, type) == k.t \in {NoType, type}
EnsureType(k, type, delta) ==
    [t |-> type, exp |-> k.exp, cnt |-> k.cnt + delta, data |-> k.data]

(***************************************************************************)
(* EnsureTypeExpiring with a zero delta: a key that has expired, of any    *)
(* type, is taken over (count and expiry reset, data items left for the    *)
(* caller); otherwise EnsureType.                                          *)
(***************************************************************************)
TakesOver(k, now) == HasMeta(k) /\ IsExpired(k, now)
ExpiringAllows(k, type, now) == TakesOver(k, now) \/ TypeAllows(k, type)
EnsureTypeExpiring(k, type, now) ==
    IF TakesOver(k, now) THEN Claimed(k, type) ELSE EnsureType(k, type, 0)

\* CreateTypeIfAbsent claims a key that is logically absent.
CreateTypeIfAbsent(k, type, now) ==
    IF Live(k, now) THEN k ELSE Claimed(k, type)

\* SetExpire and Persist need a meta item and do not look at its expiry.
SetExpire(k, exp) == IF HasMeta(k) THEN [k EXCEPT !.exp = exp] ELSE k

\* A marker in place of no expiry.
Persist_Marked(k) == SetExpire(k, -1)

Persist(k) == SetExpire(k, 0)

DeleteMeta(k) == NoMeta(k)
DeleteMetaIfEmpty(k) == IF k.cnt <= 0 THEN NoMeta(k) ELSE k

(***************************************************************************)
(* One data item written or deleted.  DeleteMembers is a Query followed by *)
(* batches of deletes: what it deletes are the sort keys it listed.        *)
(***************************************************************************)
Put(k, sk, v) == [k EXCEPT !.data[sk] = v]
Remove(k, listed) ==
    [k EXCEPT !.data = [sk \in DOMAIN k.data |->
                          IF sk \in listed THEN Gone ELSE k.data[sk]]]
=============================================================================
