---------------------------- MODULE CursorsProofs ----------------------------
(***************************************************************************)
(* Theorems about Cursors, for any clients, any number of slots and any    *)
(* capacity of the registry.                                               *)
(***************************************************************************)
EXTENDS Cursors, SequenceTheorems, FiniteSetTheorems, TLAPS

(***************************************************************************)
(* What a call holds at each place: a token until the page is read; the    *)
(* page's own token is saved only when there is one, and a cursor to reply *)
(* with is drawn for it.                                                   *)
(***************************************************************************)
CallOf(c) ==
    /\ cl[c].pc = "save" => cl[c].next \in Slots
    /\ cl[c].pc = "reply" => (cl[c].next = 0 <=> cl[c].reply = NoCursor)
    /\ cl[c].pc # "reply" => cl[c].reply = NoCursor
    /\ cl[c].pc # "page" => cl[c].lek = 0

(***************************************************************************)
(* What an iteration has returned: all that was there throughout, up to    *)
(* the slot that its cursor's token names in the registry, up to the token *)
(* it has loaded, and up to the slot its page ends with.  The cursor it is *)
(* about to be sent stands for that slot.                                  *)
(***************************************************************************)
Returned(c, slot, slots) == \A s \in always[c] : s <= slot => s \in slots

CoverOf(c) ==
    /\ always[c] \subseteq present
    /\ \A k \in DOMAIN registry :
         registry[k].cursor = cl[c].cursor => Returned(c, registry[k].lek, got[c])
    /\ cl[c].pc = "page" => Returned(c, cl[c].lek, got[c])
    /\ cl[c].pc \in {"save", "reply"} =>
         Returned(c, IF cl[c].next = 0 THEN LastSlot ELSE cl[c].next, got[c] \cup cl[c].page)
    /\ cl[c].pc = "reply" =>
         \A k \in DOMAIN registry :
           registry[k].cursor = cl[c].reply => registry[k].lek = cl[c].next

\* What is known of a client: the two, and that an iteration that is done is complete.
ClientInv(c) ==
    /\ CallOf(c) /\ CoverOf(c)
    /\ cl[c].pc = "done" => always[c] \subseteq got[c]

(***************************************************************************)
(* The registry has its type and its capacity, holds a cursor once, and is *)
(* in the order of use: what stands before an entry was used after it.     *)
(***************************************************************************)
RegistryTypes ==
    /\ registry \in Seq(EntryType) /\ Len(registry) <= Capacity
    /\ newer \in [Cursors -> SUBSET Cursors]

HeldOnce == \A j, k \in DOMAIN registry : registry[j].cursor = registry[k].cursor => j = k

OrderInv ==
    \A j, k \in DOMAIN registry : j < k => registry[j].cursor \in newer[registry[k].cursor]

RegistryInv == RegistryTypes /\ HeldOnce /\ OrderInv /\ CursorOutlivesUse

ClientType == [pc : {"idle", "page", "save", "reply", "done"},
               cursor : Cursors \cup {NoCursor}, lek : Slots \cup {0},
               page : SUBSET Slots, next : Slots \cup {0},
               reply : Cursors \cup {NoCursor}]

ClientTypes ==
    /\ present \in SUBSET Slots
    /\ cl \in [Clients -> ClientType]
    /\ got \in [Clients -> SUBSET Slots] /\ always \in [Clients -> SUBSET Slots]
    /\ faults \in 0 .. MaxFaults

Inv == RegistryInv /\ ClientTypes /\ \A c \in Clients : ClientInv(c)

-----------------------------------------------------------------------------
(***************************************************************************)
(* What the registry's operations do to the row of its entries.            *)
(***************************************************************************)
LEMMA RemovedRow ==
  ASSUME NEW q \in Seq(EntryType), NEW i \in 1 .. Len(q)
  PROVE  /\ RemoveAt(q, i) \in Seq(EntryType) /\ Len(RemoveAt(q, i)) = Len(q) - 1
         /\ \A k \in 1 .. Len(q) - 1 : RemoveAt(q, i)[k] = IF k < i THEN q[k] ELSE q[k + 1]
<1>1. Len(q) \in Nat /\ \A k \in 1 .. Len(q) : q[k] \in EntryType
  BY LenProperties, ElementOfSeq
<1> DEFINE front == SubSeq(q, 1, i - 1)
           back == SubSeq(q, i + 1, Len(q))
<1>2. /\ front \in Seq(EntryType) /\ Len(front) = i - 1
      /\ \A k \in 1 .. i - 1 : front[k] = q[k]
  <2>1. \A k \in 1 .. i - 1 : q[k] \in EntryType
    BY <1>1
  <2> QED
    BY <1>1, <2>1, SubSeqProperties
<1>3. /\ back \in Seq(EntryType) /\ Len(back) = Len(q) - i
      /\ \A k \in 1 .. Len(q) - i : back[k] = q[i + k]
  <2>1. \A k \in i + 1 .. Len(q) : q[k] \in EntryType
    BY <1>1
  <2>2. /\ back \in Seq(EntryType) /\ Len(back) = IF i + 1 <= Len(q) THEN Len(q) - (i + 1) + 1 ELSE 0
        /\ \A k \in 1 .. Len(q) - (i + 1) + 1 : back[k] = q[i + 1 + k - 1]
    BY <1>1, <2>1, SubSeqProperties
  <2> QED
    BY <1>1, <2>2
<1>4. RemoveAt(q, i) = front \o back
  BY DEF RemoveAt
<1> HIDE DEF front, back
<1>5. /\ front \o back \in Seq(EntryType) /\ Len(front \o back) = Len(front) + Len(back)
      /\ \A k \in 1 .. Len(front) + Len(back) :
           (front \o back)[k] = IF k <= Len(front) THEN front[k] ELSE back[k - Len(front)]
  BY <1>2, <1>3, ConcatProperties
<1> QED
  BY <1>1, <1>2, <1>3, <1>4, <1>5

LEMMA PrependedRow ==
  ASSUME NEW q \in Seq(EntryType), NEW e \in EntryType
  PROVE  /\ <<e>> \o q \in Seq(EntryType) /\ Len(<<e>> \o q) = Len(q) + 1
         /\ (<<e>> \o q)[1] = e
         /\ \A k \in 2 .. Len(q) + 1 : (<<e>> \o q)[k] = q[k - 1]
<1>1. <<e>> \in Seq(EntryType) /\ Len(<<e>>) = 1 /\ <<e>>[1] = e
  OBVIOUS
<1>2. Len(q) \in Nat
  OBVIOUS
<1>3. /\ <<e>> \o q \in Seq(EntryType) /\ Len(<<e>> \o q) = Len(<<e>>) + Len(q)
      /\ \A k \in 1 .. Len(<<e>>) + Len(q) :
           (<<e>> \o q)[k] = IF k <= Len(<<e>>) THEN <<e>>[k] ELSE q[k - Len(<<e>>)]
  BY <1>1, ConcatProperties
<1> QED
  BY <1>1, <1>2, <1>3

\* Touch: the entry moves to the front, the others keep their order.
LEMMA TouchedRow ==
  ASSUME NEW q \in Seq(EntryType), NEW i \in 1 .. Len(q)
  PROVE  LET r == <<q[i]>> \o RemoveAt(q, i) IN
         /\ r \in Seq(EntryType) /\ Len(r) = Len(q) /\ r[1] = q[i]
         /\ \A k \in 2 .. Len(q) : r[k] = IF k <= i THEN q[k - 1] ELSE q[k]
<1>1. Len(q) \in Nat /\ q[i] \in EntryType
  BY LenProperties, ElementOfSeq
<1>2. /\ RemoveAt(q, i) \in Seq(EntryType) /\ Len(RemoveAt(q, i)) = Len(q) - 1
      /\ \A k \in 1 .. Len(q) - 1 : RemoveAt(q, i)[k] = IF k < i THEN q[k] ELSE q[k + 1]
  BY RemovedRow
<1> DEFINE r == <<q[i]>> \o RemoveAt(q, i)
<1>3. /\ r \in Seq(EntryType) /\ Len(r) = Len(RemoveAt(q, i)) + 1 /\ r[1] = q[i]
      /\ \A k \in 2 .. Len(RemoveAt(q, i)) + 1 : r[k] = RemoveAt(q, i)[k - 1]
  BY <1>1, <1>2, PrependedRow
<1> HIDE DEF r
<1>4. ASSUME NEW k \in 2 .. Len(q) PROVE r[k] = IF k <= i THEN q[k - 1] ELSE q[k]
  <2>1. k - 1 \in 1 .. Len(q) - 1 /\ k \in 2 .. Len(RemoveAt(q, i)) + 1
    BY <1>1, <1>2
  <2>2. r[k] = IF k - 1 < i THEN q[k - 1] ELSE q[(k - 1) + 1]
    BY <1>2, <1>3, <2>1
  <2>3. (k - 1) + 1 = k /\ (k - 1 < i <=> k <= i)
    BY <1>1
  <2> QED
    BY <2>2, <2>3
<1>5. /\ r \in Seq(EntryType) /\ Len(r) = Len(q) /\ r[1] = q[i]
      /\ \A k \in 2 .. Len(q) : r[k] = IF k <= i THEN q[k - 1] ELSE q[k]
  BY <1>1, <1>2, <1>3, <1>4
<1> QED
  BY <1>5 DEF r

\* Save: a new entry in front, and what exceeds the capacity falls off the back.
LEMMA SavedRow ==
  ASSUME NEW q \in Seq(EntryType), Len(q) <= Capacity, NEW e \in EntryType
  PROVE  LET all == <<e>> \o q
             r == SubSeq(all, 1, IF Len(all) > Capacity THEN Capacity ELSE Len(all)) IN
         /\ r \in Seq(EntryType) /\ Len(r) <= Capacity /\ Len(r) <= Len(q) + 1 /\ Len(r) \in Nat \ {0}
         /\ r[1] = e
         /\ \A k \in 2 .. Len(r) : r[k] = q[k - 1]
         /\ Len(q) < Capacity => Len(r) = Len(q) + 1
         /\ Len(q) = Capacity => Len(r) = Len(q)
<1> DEFINE all == <<e>> \o q
           r == SubSeq(all, 1, IF Len(all) > Capacity THEN Capacity ELSE Len(all))
<1>1. /\ all \in Seq(EntryType) /\ Len(all) = Len(q) + 1 /\ all[1] = e
      /\ \A k \in 2 .. Len(q) + 1 : all[k] = q[k - 1]
  BY PrependedRow
<1> HIDE DEF all
<1>2. PICK m \in Nat : m = IF Len(all) > Capacity THEN Capacity ELSE Len(all)
  BY <1>1, CursorsAssumption
<1>3. Len(q) \in Nat /\ \A k \in 1 .. Len(all) : all[k] \in EntryType
  BY <1>1, LenProperties, ElementOfSeq
<1>4. m \in 1 .. Len(all) /\ m <= Capacity
  BY <1>1, <1>2, <1>3, CursorsAssumption
<1>5. r = SubSeq(all, 1, m)
  BY <1>2
<1>6. \A k \in 1 .. m : all[k] \in EntryType
  BY <1>1, <1>3, <1>4
<1>7. r \in Seq(EntryType) /\ Len(r) = m /\ \A k \in 1 .. m : r[k] = all[k]
  <2>1. /\ SubSeq(all, 1, m) \in Seq(EntryType) /\ Len(SubSeq(all, 1, m)) = m
        /\ \A k \in 1 .. m : SubSeq(all, 1, m)[k] = all[k]
    BY <1>4, <1>6, SubSeqProperties
  <2> QED
    BY <1>5, <2>1
<1> HIDE DEF r
<1>8. /\ Len(r) <= Capacity /\ Len(r) <= Len(q) + 1 /\ Len(r) \in Nat \ {0} /\ r[1] = e
      /\ \A k \in 2 .. Len(r) : r[k] = q[k - 1]
      /\ Len(q) < Capacity => Len(r) = Len(q) + 1
      /\ Len(q) = Capacity => Len(r) = Len(q)
  BY <1>1, <1>2, <1>3, <1>4, <1>7, CursorsAssumption
<1> QED
  BY <1>7, <1>8 DEF r, all
-----------------------------------------------------------------------------
(***************************************************************************)
(* The registry's operations keep its invariant, and the tokens of the     *)
(* entries they keep.                                                      *)
(***************************************************************************)
TokensKept ==
    \A k \in DOMAIN registry' : \E j \in DOMAIN registry :
      registry'[k].cursor = registry[j].cursor /\ registry'[k].lek = registry[j].lek

LEMMA Rows ==
  ASSUME NEW q \in Seq(EntryType)
  PROVE  /\ Len(q) \in Nat /\ DOMAIN q = 1 .. Len(q)
         /\ \A k \in 1 .. Len(q) : /\ q[k] \in EntryType
                                   /\ q[k].cursor \in Cursors /\ q[k].lek \in Slots
         /\ {e.cursor : e \in ToSet(q)} = {q[k].cursor : k \in 1 .. Len(q)}
<1>1. Len(q) \in Nat /\ DOMAIN q = 1 .. Len(q) /\ \A k \in 1 .. Len(q) : q[k] \in EntryType
  BY LenProperties, ElementOfSeq
<1>2. {e.cursor : e \in ToSet(q)} = {q[k].cursor : k \in 1 .. Len(q)}
  BY <1>1 DEF ToSet
<1> QED
  BY <1>1, <1>2 DEF EntryType

LEMMA PlaceOfKnown ==
  ASSUME RegistryTypes, NEW n \in Known
  PROVE  Place(n) \in 1 .. Len(registry) /\ registry[Place(n)].cursor = n /\ n \in Cursors
<1>1. /\ DOMAIN registry = 1 .. Len(registry)
      /\ \A k \in 1 .. Len(registry) : registry[k].cursor \in Cursors
      /\ Known = {registry[k].cursor : k \in 1 .. Len(registry)}
  BY Rows DEF RegistryTypes, Known
<1>2. \E k \in DOMAIN registry : registry[k].cursor = n
  BY <1>1
<1>3. Place(n) \in DOMAIN registry /\ registry[Place(n)].cursor = n
  BY <1>2 DEF Place
<1> QED
  BY <1>1, <1>3

\* load, past the TTL.
LEMMA Forgotten ==
  ASSUME RegistryInv, NEW n \in Known, Forget(n), newer' = [newer EXCEPT ![n] = Cursors]
  PROVE  RegistryInv' /\ TokensKept
<1>1. /\ registry \in Seq(EntryType) /\ Len(registry) <= Capacity
      /\ newer \in [Cursors -> SUBSET Cursors] /\ HeldOnce /\ OrderInv /\ CursorOutlivesUse
  BY DEF RegistryInv, RegistryTypes
<1>2. PICK i \in 1 .. Len(registry) : i = Place(n) /\ registry[i].cursor = n /\ n \in Cursors
  BY PlaceOfKnown DEF RegistryInv
<1>3. /\ registry' \in Seq(EntryType) /\ Len(registry') = Len(registry) - 1
      /\ \A k \in 1 .. Len(registry) - 1 :
           registry'[k] = IF k < i THEN registry[k] ELSE registry[k + 1]
  BY <1>1, <1>2, RemovedRow DEF Forget
<1>4. /\ Len(registry) \in Nat /\ DOMAIN registry = 1 .. Len(registry)
      /\ DOMAIN registry' = 1 .. Len(registry')
      /\ Known = {registry[k].cursor : k \in 1 .. Len(registry)}
      /\ Known' = {registry'[k].cursor : k \in 1 .. Len(registry')}
      /\ \A k \in 1 .. Len(registry) : registry[k].cursor \in Cursors
  BY <1>1, <1>3, Rows DEF Known
<1> DEFINE origin(k) == IF k < i THEN k ELSE k + 1
<1>5. \A k \in 1 .. Len(registry') :
        origin(k) \in 1 .. Len(registry) /\ origin(k) # i /\ registry'[k] = registry[origin(k)]
  BY <1>3, <1>4
<1>6. \A j, k \in 1 .. Len(registry') : j < k => origin(j) < origin(k)
  BY <1>3, <1>4
<1>7. \A j, k \in 1 .. Len(registry') : origin(j) = origin(k) => j = k
  BY <1>3, <1>4
<1> HIDE DEF origin
<1>8. RegistryTypes'
  BY <1>1, <1>2, <1>3, <1>4, CursorsAssumption DEF RegistryTypes
<1>9. HeldOnce'
  BY <1>1, <1>4, <1>5, <1>7 DEF HeldOnce
<1>10. OrderInv'
  <2> SUFFICES ASSUME NEW j \in 1 .. Len(registry'), NEW k \in 1 .. Len(registry'), j < k
               PROVE  registry'[j].cursor \in newer'[registry'[k].cursor]
    BY <1>4 DEF OrderInv
  <2>1. registry[origin(j)].cursor \in newer[registry[origin(k)].cursor]
    BY <1>1, <1>4, <1>5, <1>6 DEF OrderInv
  <2>2. registry[origin(k)].cursor # n /\ registry[origin(k)].cursor \in Cursors
    BY <1>1, <1>2, <1>4, <1>5 DEF HeldOnce
  <2> QED
    BY <1>1, <1>5, <2>1, <2>2
<1>11. CursorOutlivesUse'
  <2> SUFFICES ASSUME NEW m \in Cursors, Cardinality(newer'[m]) < Capacity PROVE m \in Known'
    BY DEF CursorOutlivesUse
  <2>1. m # n
    BY <1>1, <1>2, FS_CardinalityType, CursorsAssumption
  <2>2. m \in Known
    BY <1>1, <2>1 DEF CursorOutlivesUse
  <2>3. PICK k \in 1 .. Len(registry) : registry[k].cursor = m /\ k # i
    BY <1>2, <1>4, <2>1, <2>2
  <2>4. CASE k < i
    <3>1. k \in 1 .. Len(registry') /\ registry'[k] = registry[k]
      BY <1>3, <1>4, <2>4
    <3> QED
      BY <1>4, <2>3, <3>1
  <2>5. CASE ~(k < i)
    <3>1. k - 1 \in 1 .. Len(registry') /\ ~(k - 1 < i) /\ (k - 1) + 1 = k
      BY <1>3, <1>4, <2>3, <2>5
    <3>2. registry'[k - 1] = registry[k]
      BY <1>3, <3>1
    <3> QED
      BY <1>4, <2>3, <3>1, <3>2
  <2> QED
    BY <2>4, <2>5
<1>12. TokensKept
  BY <1>4, <1>5 DEF TokensKept
<1> QED
  BY <1>8, <1>9, <1>10, <1>11, <1>12 DEF RegistryInv
\* The history of use, for the cursor used and for the others.
LEMMA UsedFacts ==
  ASSUME newer \in [Cursors -> SUBSET Cursors], NEW n \in Cursors, Used(n)
  PROVE  /\ newer' \in [Cursors -> SUBSET Cursors]
         /\ \A m \in Cursors \ {n} :
              /\ newer[m] \subseteq newer'[m] /\ n \in newer'[m]
              /\ Cardinality(newer'[m]) < Capacity => Cardinality(newer[m] \cup {n}) < Capacity
              /\ Cardinality(newer'[m]) < Capacity => Cardinality(newer[m]) < Capacity
<1>1. newer' = [m \in Cursors |-> IF m = n THEN {}
                                  ELSE IF Cardinality(newer[m] \cup {n}) >= Capacity THEN Cursors
                                  ELSE newer[m] \cup {n}]
  BY DEF Used
<1>2. newer' \in [Cursors -> SUBSET Cursors]
  BY <1>1
<1>3. ASSUME NEW m \in Cursors \ {n}
      PROVE  /\ newer[m] \subseteq newer'[m] /\ n \in newer'[m]
             /\ Cardinality(newer'[m]) < Capacity => Cardinality(newer[m] \cup {n}) < Capacity
             /\ Cardinality(newer'[m]) < Capacity => Cardinality(newer[m]) < Capacity
  <2>1. newer[m] \subseteq Cursors /\ newer[m] \cup {n} \subseteq Cursors
    OBVIOUS
  <2>2. /\ IsFiniteSet(newer[m] \cup {n}) /\ Cardinality(newer[m] \cup {n}) \in Nat
        /\ Cardinality(newer[m]) \in Nat /\ Cardinality(newer[m]) <= Cardinality(newer[m] \cup {n})
        /\ Cardinality(Cursors) \in Nat /\ Capacity \in Nat /\ Capacity <= Cardinality(Cursors)
    <3>1. IsFiniteSet(newer[m] \cup {n})
      BY <2>1, FS_Subset, CursorsAssumption
    <3>2. IsFiniteSet(newer[m]) /\ Cardinality(newer[m]) <= Cardinality(newer[m] \cup {n})
      BY <3>1, FS_Subset
    <3> QED
      BY <3>1, <3>2, FS_CardinalityType, CursorsAssumption
  <2>3. newer'[m] = IF Cardinality(newer[m] \cup {n}) >= Capacity THEN Cursors ELSE newer[m] \cup {n}
    BY <1>1
  <2>4. CASE Cardinality(newer[m] \cup {n}) >= Capacity
    BY <2>1, <2>2, <2>3, <2>4
  <2>5. CASE ~(Cardinality(newer[m] \cup {n}) >= Capacity)
    BY <2>2, <2>3, <2>5
  <2> QED
    BY <2>4, <2>5
<1> QED
  BY <1>2, <1>3

\* load, found.
LEMMA Touched ==
  ASSUME RegistryInv, NEW n \in Known, Touch(n), Used(n)
  PROVE  RegistryInv' /\ TokensKept
<1>1. /\ registry \in Seq(EntryType) /\ Len(registry) <= Capacity
      /\ newer \in [Cursors -> SUBSET Cursors] /\ HeldOnce /\ OrderInv /\ CursorOutlivesUse
  BY DEF RegistryInv, RegistryTypes
<1>2. PICK i \in 1 .. Len(registry) : i = Place(n) /\ registry[i].cursor = n /\ n \in Cursors
  BY PlaceOfKnown DEF RegistryInv
<1>3. /\ registry' \in Seq(EntryType) /\ Len(registry') = Len(registry) /\ registry'[1] = registry[i]
      /\ \A k \in 2 .. Len(registry) :
           registry'[k] = IF k <= i THEN registry[k - 1] ELSE registry[k]
  <2> DEFINE row == <<registry[i]>> \o RemoveAt(registry, i)
  <2>1. registry' = row
    BY <1>2 DEF Touch, Entry
  <2>2. /\ row \in Seq(EntryType) /\ Len(row) = Len(registry) /\ row[1] = registry[i]
        /\ \A k \in 2 .. Len(registry) : row[k] = IF k <= i THEN registry[k - 1] ELSE registry[k]
    BY <1>1, <1>2, TouchedRow
  <2> HIDE DEF row
  <2> QED
    BY <2>1, <2>2
<1>4. /\ Len(registry) \in Nat /\ DOMAIN registry = 1 .. Len(registry)
      /\ DOMAIN registry' = 1 .. Len(registry)
      /\ Known = {registry[k].cursor : k \in 1 .. Len(registry)}
      /\ Known' = {registry'[k].cursor : k \in 1 .. Len(registry)}
      /\ \A k \in 1 .. Len(registry) : registry[k].cursor \in Cursors
  BY <1>1, <1>3, Rows DEF Known
<1>5. /\ newer' \in [Cursors -> SUBSET Cursors]
      /\ \A m \in Cursors \ {n} :
           /\ newer[m] \subseteq newer'[m] /\ n \in newer'[m]
           /\ Cardinality(newer'[m]) < Capacity => Cardinality(newer[m]) < Capacity
  BY <1>1, <1>2, UsedFacts
<1> DEFINE origin(k) == IF k = 1 THEN i ELSE IF k <= i THEN k - 1 ELSE k
<1>6. \A k \in 1 .. Len(registry) :
        origin(k) \in 1 .. Len(registry) /\ registry'[k] = registry[origin(k)]
  BY <1>3, <1>4
<1>7. \A k \in 2 .. Len(registry) : origin(k) # i
  BY <1>4
<1>8. \A j, k \in 2 .. Len(registry) : j < k => origin(j) < origin(k)
  BY <1>4
<1>9. \A j, k \in 1 .. Len(registry) : origin(j) = origin(k) => j = k
  BY <1>4
<1>10. origin(1) = i
  OBVIOUS
<1> HIDE DEF origin
<1>11. RegistryTypes'
  BY <1>1, <1>3, <1>5 DEF RegistryTypes
<1>12. HeldOnce'
  BY <1>1, <1>4, <1>6, <1>9 DEF HeldOnce
<1>13. OrderInv'
  <2> SUFFICES ASSUME NEW j \in 1 .. Len(registry), NEW k \in 1 .. Len(registry), j < k
               PROVE  registry'[j].cursor \in newer'[registry'[k].cursor]
    BY <1>4 DEF OrderInv
  <2>1. k \in 2 .. Len(registry)
    BY <1>4
  <2>2. registry[origin(k)].cursor # n /\ registry[origin(k)].cursor \in Cursors
    BY <1>1, <1>2, <1>4, <1>6, <1>7, <2>1 DEF HeldOnce
  <2>3. CASE j = 1
    BY <1>2, <1>3, <1>5, <1>6, <2>2, <2>3
  <2>4. CASE j # 1
    <3>1. j \in 2 .. Len(registry)
      BY <1>4, <2>4
    <3>2. registry[origin(j)].cursor \in newer[registry[origin(k)].cursor]
      BY <1>1, <1>4, <1>6, <1>8, <2>1, <3>1 DEF OrderInv
    <3> QED
      BY <1>5, <1>6, <2>2, <3>2
  <2> QED
    BY <2>3, <2>4
<1>14. CursorOutlivesUse'
  <2> SUFFICES ASSUME NEW m \in Cursors, Cardinality(newer'[m]) < Capacity PROVE m \in Known'
    BY DEF CursorOutlivesUse
  <2>1. CASE m = n
    BY <1>2, <1>3, <1>4, <2>1
  <2>2. CASE m # n
    <3>1. m \in Known
      BY <1>1, <1>5, <2>2 DEF CursorOutlivesUse
    <3>2. PICK k \in 1 .. Len(registry) : registry[k].cursor = m /\ k # i
      BY <1>2, <1>4, <2>2, <3>1
    <3>3. CASE k < i
      <4>1. k + 1 \in 2 .. Len(registry) /\ k + 1 <= i /\ (k + 1) - 1 = k
        BY <1>4, <3>3
      <4>2. registry'[k + 1] = registry[k]
        BY <1>3, <4>1
      <4> QED
        BY <1>4, <3>2, <4>1, <4>2
    <3>4. CASE ~(k < i)
      <4>1. k \in 2 .. Len(registry) /\ ~(k <= i)
        BY <1>4, <3>2, <3>4
      <4> QED
        BY <1>3, <1>4, <3>2, <4>1
    <3> QED
      BY <3>3, <3>4
  <2> QED
    BY <2>1, <2>2
<1>15. TokensKept
  BY <1>4, <1>6 DEF TokensKept
<1> QED
  BY <1>11, <1>12, <1>13, <1>14, <1>15 DEF RegistryInv
\* What stands before an entry of a full registry, and the cursor just drawn, are as many
\* as the capacity, and the history of use holds them all.
LEMMA FullRegistry ==
  ASSUME RegistryInv, Len(registry) = Capacity, NEW n \in Cursors \ Known
  PROVE  Cardinality(newer[registry[Capacity].cursor] \cup {n}) >= Capacity
<1>1. /\ registry \in Seq(EntryType) /\ Capacity \in Nat \ {0} /\ DOMAIN registry = 1 .. Capacity
      /\ newer \in [Cursors -> SUBSET Cursors] /\ HeldOnce /\ OrderInv
      /\ Known = {registry[k].cursor : k \in 1 .. Capacity}
      /\ \A k \in 1 .. Capacity : registry[k].cursor \in Cursors
  BY Rows, CursorsAssumption DEF RegistryInv, RegistryTypes, Known
<1> DEFINE T == newer[registry[Capacity].cursor] \cup {n}
           f == [k \in 1 .. Capacity |-> IF k = Capacity THEN n ELSE registry[k].cursor]
<1>2. ASSUME NEW k \in 1 .. Capacity PROVE f[k] \in T
  <2>1. CASE k = Capacity
    BY <2>1
  <2>2. CASE k # Capacity
    <3>1. k < Capacity /\ Capacity \in 1 .. Capacity
      BY <1>1, <2>2
    <3> QED
      BY <1>1, <2>2, <3>1 DEF OrderInv
  <2> QED
    BY <2>1, <2>2
<1>3. ASSUME NEW j \in 1 .. Capacity, NEW k \in 1 .. Capacity, f[j] = f[k] PROVE j = k
  BY <1>1, <1>3 DEF HeldOnce
<1>4. IsFiniteSet(T)
  <2>1. T \subseteq Cursors
    BY <1>1
  <2> QED
    BY <2>1, FS_Subset, CursorsAssumption
<1> HIDE DEF T
<1>5. f \in Injection(1 .. Capacity, T)
  BY <1>2, <1>3 DEF Injection, IsInjective
<1> HIDE DEF f
<1>6. Cardinality(1 .. Capacity) <= Cardinality(T)
  BY <1>4, <1>5, FS_Injection
<1>7. Cardinality(1 .. Capacity) = Capacity
  BY <1>1, FS_Interval
<1>8. Cardinality(T) \in Nat
  BY <1>4, FS_CardinalityType
<1> QED
  BY <1>1, <1>6, <1>7, <1>8 DEF T

\* Save: the cursor that falls off the back has been passed by as many as fit.
LEMMA Saved ==
  ASSUME RegistryInv, NEW n \in Cursors \ Known, NEW lek \in Slots, Save(n, lek), Used(n)
  PROVE  /\ RegistryInv'
         /\ \A k \in DOMAIN registry' :
              \/ registry'[k].cursor = n /\ registry'[k].lek = lek
              \/ \E j \in DOMAIN registry : /\ registry'[k].cursor = registry[j].cursor
                                            /\ registry'[k].lek = registry[j].lek
<1>1. /\ registry \in Seq(EntryType) /\ Len(registry) <= Capacity
      /\ newer \in [Cursors -> SUBSET Cursors] /\ HeldOnce /\ OrderInv /\ CursorOutlivesUse
  BY DEF RegistryInv, RegistryTypes
<1>2. PICK e \in EntryType : e = [cursor |-> n, lek |-> lek, age |-> 0]
  <2>1. n \in Cursors /\ 0 \in 0 .. TTL
    BY CursorsAssumption
  <2>2. [cursor |-> n, lek |-> lek, age |-> 0] \in EntryType
    BY <2>1 DEF EntryType
  <2> QED
    BY <2>2
<1>3. /\ registry' \in Seq(EntryType) /\ Len(registry') <= Capacity /\ Len(registry') <= Len(registry) + 1
      /\ Len(registry') \in Nat \ {0} /\ registry'[1] = e
      /\ \A k \in 2 .. Len(registry') : registry'[k] = registry[k - 1]
      /\ Len(registry) < Capacity => Len(registry') = Len(registry) + 1
      /\ Len(registry) = Capacity => Len(registry') = Len(registry)
  <2> DEFINE all == <<e>> \o registry
             row == SubSeq(all, 1, IF Len(all) > Capacity THEN Capacity ELSE Len(all))
  <2>1. registry' = row
    BY <1>2 DEF Save
  <2>2. /\ row \in Seq(EntryType) /\ Len(row) <= Capacity /\ Len(row) <= Len(registry) + 1
        /\ Len(row) \in Nat \ {0} /\ row[1] = e
        /\ \A k \in 2 .. Len(row) : row[k] = registry[k - 1]
        /\ Len(registry) < Capacity => Len(row) = Len(registry) + 1
        /\ Len(registry) = Capacity => Len(row) = Len(registry)
    BY <1>1, <1>2, SavedRow
  <2> HIDE DEF row
  <2> QED
    BY <2>1, <2>2
<1>4. /\ Len(registry) \in Nat /\ DOMAIN registry = 1 .. Len(registry)
      /\ DOMAIN registry' = 1 .. Len(registry')
      /\ Known = {registry[k].cursor : k \in 1 .. Len(registry)}
      /\ Known' = {registry'[k].cursor : k \in 1 .. Len(registry')}
      /\ \A k \in 1 .. Len(registry) : registry[k].cursor \in Cursors
  BY <1>1, <1>3, Rows DEF Known
<1>5. /\ newer' \in [Cursors -> SUBSET Cursors]
      /\ \A m \in Cursors \ {n} :
           /\ newer[m] \subseteq newer'[m] /\ n \in newer'[m]
           /\ Cardinality(newer'[m]) < Capacity => Cardinality(newer[m] \cup {n}) < Capacity
           /\ Cardinality(newer'[m]) < Capacity => Cardinality(newer[m]) < Capacity
  BY <1>1, UsedFacts
<1>6. registry'[1].cursor = n /\ registry'[1].lek = lek
  BY <1>2, <1>3
<1> DEFINE L == Len(registry)
           M == Len(registry')
<1>14. /\ L \in Nat /\ M \in Nat \ {0} /\ Capacity \in Nat \ {0} /\ L <= Capacity
       /\ L < Capacity => M = L + 1
       /\ L = Capacity => M = L
  BY <1>1, <1>3, <1>4, CursorsAssumption
<1> HIDE DEF L, M
<1>15. 1 \in 1 .. M /\ \A k \in 1 .. M : k = 1 \/ k \in 2 .. M
  BY <1>14
<1>7. ASSUME NEW k \in 2 .. Len(registry')
      PROVE  k - 1 \in 1 .. Len(registry) /\ registry'[k] = registry[k - 1]
  <2>1. Len(registry) \in Nat /\ Len(registry') \in Nat /\ Len(registry') <= Len(registry) + 1
    BY <1>3, <1>4
  <2>2. k - 1 \in 1 .. Len(registry)
    BY <2>1
  <2> QED
    BY <1>3, <2>2
<1>8. \A k \in 1 .. Len(registry) : registry[k].cursor # n /\ registry[k].cursor \in Cursors
  BY <1>4
<1>9. RegistryTypes'
  BY <1>3, <1>5 DEF RegistryTypes
<1>10. HeldOnce'
  <2> SUFFICES ASSUME NEW j \in 1 .. Len(registry'), NEW k \in 1 .. Len(registry'),
                      registry'[j].cursor = registry'[k].cursor
               PROVE  j = k
    BY <1>4 DEF HeldOnce
  <2>1. j \in 2 .. Len(registry') /\ k \in 2 .. Len(registry') => j - 1 = k - 1
    BY <1>1, <1>4, <1>7 DEF HeldOnce
  <2>2. j = 1 <=> k = 1
    BY <1>3, <1>6, <1>7, <1>8
  <2> QED
    BY <1>3, <2>1, <2>2
<1>11. OrderInv'
  <2> SUFFICES ASSUME NEW j \in 1 .. Len(registry'), NEW k \in 1 .. Len(registry'), j < k
               PROVE  registry'[j].cursor \in newer'[registry'[k].cursor]
    BY <1>4 DEF OrderInv
  <2>1. k \in 2 .. Len(registry')
    BY <1>3
  <2>2. registry'[k].cursor # n /\ registry'[k].cursor \in Cursors
    BY <1>7, <1>8, <2>1
  <2>3. CASE j = 1
    BY <1>5, <1>6, <2>2, <2>3
  <2>4. CASE j # 1
    <3>1. j \in 2 .. Len(registry') /\ j - 1 < k - 1
      BY <1>3, <2>4
    <3>2. registry[j - 1].cursor \in newer[registry[k - 1].cursor]
      BY <1>1, <1>4, <1>7, <2>1, <3>1 DEF OrderInv
    <3> QED
      BY <1>5, <1>7, <2>1, <2>2, <3>1, <3>2
  <2> QED
    BY <2>3, <2>4
<1>12. CursorOutlivesUse'
  <2> SUFFICES ASSUME NEW m \in Cursors, Cardinality(newer'[m]) < Capacity PROVE m \in Known'
    BY DEF CursorOutlivesUse
  <2>1. CASE m = n
    BY <1>4, <1>6, <1>15, <2>1 DEF M
  <2>2. CASE m # n
    <3>1. m \in Known /\ Cardinality(newer[m] \cup {n}) < Capacity
      BY <1>1, <1>5, <2>2 DEF CursorOutlivesUse
    <3>2. PICK k \in 1 .. Len(registry) : registry[k].cursor = m
      BY <1>4, <3>1
    <3>3. k # Capacity
      <4>1. SUFFICES ASSUME k = Capacity PROVE FALSE
        OBVIOUS
      <4>2. Len(registry) = Capacity
        <5>1. Capacity \in 1 .. L
          BY <4>1 DEF L
        <5>2. L = Capacity
          BY <1>14, <5>1
        <5> QED
          BY <5>2 DEF L
      <4>3. Cardinality(newer[m] \cup {n}) >= Capacity
        BY <3>2, <4>1, <4>2, FullRegistry
      <4>4. Cardinality(newer[m] \cup {n}) \in Nat
        <5>1. newer[m] \cup {n} \subseteq Cursors
          BY <1>1
        <5> QED
          BY <5>1, FS_Subset, FS_CardinalityType, CursorsAssumption
      <4> QED
        BY <3>1, <4>3, <4>4, CursorsAssumption
    <3>4. k + 1 \in 2 .. Len(registry') /\ (k + 1) - 1 = k
      <4>1. k \in 1 .. L
        BY DEF L
      <4>2. k + 1 \in 2 .. M /\ (k + 1) - 1 = k
        BY <1>14, <3>3, <4>1
      <4> QED
        BY <4>2 DEF M
    <3> QED
      BY <1>4, <1>7, <3>2, <3>4
  <2> QED
    BY <2>1, <2>2
<1>13. ASSUME NEW k \in DOMAIN registry'
       PROVE  \/ registry'[k].cursor = n /\ registry'[k].lek = lek
              \/ \E j \in DOMAIN registry : /\ registry'[k].cursor = registry[j].cursor
                                            /\ registry'[k].lek = registry[j].lek
  <2>1. k = 1 \/ k \in 2 .. Len(registry')
    BY <1>4, <1>15 DEF M
  <2> QED
    BY <1>4, <1>6, <1>7, <2>1
<1> QED
  BY <1>9, <1>10, <1>11, <1>12, <1>13 DEF RegistryInv

\* Time passes for the entries.
LEMMA Aged ==
  ASSUME RegistryInv, Tick
  PROVE  RegistryInv' /\ TokensKept
<1>1. /\ registry \in Seq(EntryType) /\ Len(registry) <= Capacity
      /\ newer \in [Cursors -> SUBSET Cursors] /\ HeldOnce /\ OrderInv /\ CursorOutlivesUse
  BY DEF RegistryInv, RegistryTypes
<1>2. /\ Len(registry) \in Nat /\ DOMAIN registry = 1 .. Len(registry)
      /\ \A k \in 1 .. Len(registry) : registry[k] \in EntryType
  BY <1>1, Rows
<1>3. /\ registry' = [k \in 1 .. Len(registry) |->
                        [registry[k] EXCEPT !.age = IF registry[k].age < TTL THEN registry[k].age + 1
                                                    ELSE registry[k].age]]
      /\ UNCHANGED newer
  BY <1>2 DEF Tick
<1>4. \A k \in 1 .. Len(registry) :
        /\ registry'[k] \in EntryType
        /\ registry'[k].cursor = registry[k].cursor /\ registry'[k].lek = registry[k].lek
  BY <1>2, <1>3, CursorsAssumption DEF EntryType
<1>5. registry' \in Seq(EntryType) /\ Len(registry') = Len(registry) /\ DOMAIN registry' = 1 .. Len(registry)
  <2>1. registry' \in [1 .. Len(registry) -> EntryType]
    BY <1>3, <1>4
  <2> QED
    BY <1>2, <2>1
<1>6. Known' = Known
  <2>1. /\ Known = {registry[k].cursor : k \in 1 .. Len(registry)}
        /\ Known' = {registry'[k].cursor : k \in 1 .. Len(registry)}
    BY <1>1, <1>5, Rows DEF Known
  <2> QED
    BY <1>4, <1>5, <2>1
<1>7. RegistryTypes' /\ HeldOnce' /\ OrderInv'
  BY <1>1, <1>2, <1>3, <1>4, <1>5 DEF RegistryTypes, HeldOnce, OrderInv
<1>8. CursorOutlivesUse'
  BY <1>1, <1>3, <1>6 DEF CursorOutlivesUse
<1> QED
  BY <1>2, <1>4, <1>5, <1>7, <1>8 DEF RegistryInv, TokensKept

\* A registry that starts anew.
LEMMA Emptied ==
  ASSUME registry = << >>, newer = [n \in Cursors |-> Cursors]
  PROVE  RegistryInv
<1>1. RegistryTypes /\ HeldOnce /\ OrderInv
  BY CursorsAssumption DEF RegistryTypes, HeldOnce, OrderInv
<1>2. CursorOutlivesUse
  BY FS_CardinalityType, CursorsAssumption DEF CursorOutlivesUse
<1> QED
  BY <1>1, <1>2 DEF RegistryInv

\* The operations that leave the registry alone.
LEMMA Unregistered ==
  ASSUME RegistryInv, UNCHANGED <<registry, newer>>
  PROVE  RegistryInv' /\ TokensKept
<1>1. RegistryInv'
  BY DEF RegistryInv, RegistryTypes, HeldOnce, OrderInv, CursorOutlivesUse, Known
<1>2. TokensKept
  BY DEF TokensKept
<1> QED
  BY <1>1, <1>2

-----------------------------------------------------------------------------
(***************************************************************************)
(* A step of one client, or of none, and the clients that stand by: the    *)
(* tokens of the cursors they hold may go, but not change.                 *)
(***************************************************************************)
TokensFor(d) ==
    \A k \in DOMAIN registry' :
      registry'[k].cursor \in {cl[d].cursor, cl[d].reply} =>
        \E j \in DOMAIN registry : /\ registry'[k].cursor = registry[j].cursor
                                   /\ registry'[k].lek = registry[j].lek

LEMMA Bystander ==
  ASSUME NEW d \in Clients, ClientInv(d), TokensFor(d),
         cl'[d] = cl[d], got'[d] = got[d],
         always'[d] \subseteq always[d], always'[d] \subseteq present'
  PROVE  ClientInv(d)'
<1>1. CallOf(d)'
  BY DEF ClientInv, CallOf
<1>2. CoverOf(d)'
  <2>1. ASSUME NEW k \in DOMAIN registry', registry'[k].cursor = cl[d].cursor
        PROVE  \A s \in always'[d] : s <= registry'[k].lek => s \in got[d]
    <3>1. PICK j \in DOMAIN registry : /\ registry'[k].cursor = registry[j].cursor
                                       /\ registry'[k].lek = registry[j].lek
      BY <2>1 DEF TokensFor
    <3>2. \A s \in always[d] : s <= registry[j].lek => s \in got[d]
      BY <2>1, <3>1 DEF ClientInv, CoverOf, Returned
    <3> QED
      BY <3>1, <3>2
  <2>2. cl[d].pc = "page" => \A s \in always'[d] : s <= cl[d].lek => s \in got[d]
    BY DEF ClientInv, CoverOf, Returned
  <2>3. cl[d].pc \in {"save", "reply"} =>
          \A s \in always'[d] : s <= (IF cl[d].next = 0 THEN LastSlot ELSE cl[d].next) =>
            s \in got[d] \cup cl[d].page
    BY DEF ClientInv, CoverOf, Returned
  <2>4. ASSUME cl[d].pc = "reply", NEW k \in DOMAIN registry', registry'[k].cursor = cl[d].reply
        PROVE  registry'[k].lek = cl[d].next
    <3>1. PICK j \in DOMAIN registry : /\ registry'[k].cursor = registry[j].cursor
                                       /\ registry'[k].lek = registry[j].lek
      BY <2>4 DEF TokensFor
    <3> QED
      BY <2>4, <3>1 DEF ClientInv, CoverOf
  <2> QED
    BY <2>1, <2>2, <2>3, <2>4 DEF CoverOf, Returned
<1>3. cl'[d].pc = "done" => always'[d] \subseteq got'[d]
  BY DEF ClientInv
<1> QED
  BY <1>1, <1>2, <1>3 DEF ClientInv

LEMMA StandingBy ==
  ASSUME TokensKept, NEW d
  PROVE  TokensFor(d)
BY DEF TokensKept, TokensFor

\* One client moves, and the others stand by.
LEMMA OneClient ==
  ASSUME Inv, RegistryInv', NEW c \in Clients, NEW r \in ClientType, cl' = [cl EXCEPT ![c] = r],
         ClientInv(c)', UNCHANGED present, faults' \in 0 .. MaxFaults,
         got' \in [Clients -> SUBSET Slots], always' \in [Clients -> SUBSET Slots],
         \A d \in Clients \ {c} : /\ TokensFor(d)
                                  /\ got'[d] = got[d] /\ always'[d] = always[d]
  PROVE  Inv'
<1>1. ClientTypes'
  BY DEF ClientTypes, Inv
<1>2. ASSUME NEW d \in Clients PROVE ClientInv(d)'
  <2>1. CASE d = c
    BY <2>1
  <2>2. CASE d # c
    <3>1. ClientInv(d) /\ TokensFor(d)
      BY <2>2 DEF Inv
    <3>2. cl'[d] = cl[d] /\ got'[d] = got[d] /\ always'[d] = always[d]
      BY <2>2 DEF Inv, ClientTypes
    <3>3. always'[d] \subseteq present'
      BY <3>1, <3>2 DEF ClientInv, CoverOf
    <3> QED
      BY <3>1, <3>2, <3>3, Bystander
  <2> QED
    BY <2>1, <2>2
<1> QED
  BY <1>1, <1>2 DEF Inv

\* The cursor 0 is nobody's entry.
LEMMA NoEntry ==
  ASSUME RegistryInv
  PROVE  /\ \A k \in DOMAIN registry : registry[k].cursor # NoCursor
         /\ \A k \in DOMAIN registry : registry[k].cursor \in Known /\ registry[k].lek \in Slots
<1>1. /\ DOMAIN registry = 1 .. Len(registry)
      /\ \A k \in 1 .. Len(registry) : registry[k].cursor \in Cursors /\ registry[k].lek \in Slots
      /\ Known = {registry[k].cursor : k \in 1 .. Len(registry)}
  BY Rows DEF RegistryInv, RegistryTypes, Known
<1> QED
  BY <1>1, CursorsAssumption

\* What the types say of one client and of the sets kept for it.
LEMMA OneType ==
  ASSUME Inv, NEW c \in Clients
  PROVE  /\ cl \in [Clients -> ClientType] /\ cl[c] \in ClientType /\ ClientInv(c) /\ RegistryInv
         /\ present \subseteq Slots /\ got[c] \subseteq Slots /\ always[c] \subseteq present
         /\ got \in [Clients -> SUBSET Slots] /\ always \in [Clients -> SUBSET Slots]
         /\ faults \in 0 .. MaxFaults /\ Idle \in ClientType
BY DEF Inv, ClientTypes, ClientType, ClientInv, CoverOf, Idle

-----------------------------------------------------------------------------
(***************************************************************************)
(* The steps.                                                              *)
(***************************************************************************)
LEMMA LoadNothingStep ==
  ASSUME Inv, NEW c \in Clients, LoadNothing(c)
  PROVE  Inv'
<1>1. /\ cl[c].pc = "idle" /\ cl' = [cl EXCEPT ![c] = [cl[c] EXCEPT !.pc = "page"]]
      /\ UNCHANGED <<present, registry, got, always, newer, faults>>
  BY DEF LoadNothing, histories
<1>2. PICK r \in ClientType : /\ r = [cl[c] EXCEPT !.pc = "page"]
                              /\ r.pc = "page" /\ r.cursor = cl[c].cursor /\ r.lek = cl[c].lek
                              /\ r.reply = cl[c].reply
  <2>1. PICK u \in ClientType : u = cl[c]
    BY OneType
  <2>2. [u EXCEPT !.pc = "page"] \in ClientType
    BY DEF ClientType
  <2>3. LET r == [u EXCEPT !.pc = "page"]
        IN  r.pc = "page" /\ r.cursor = u.cursor /\ r.lek = u.lek /\ r.reply = u.reply
    BY DEF ClientType
  <2> QED
    BY <2>1, <2>2, <2>3
<1>3. cl' = [cl EXCEPT ![c] = r] /\ cl'[c] = r
  BY <1>1, <1>2, OneType
<1>4. RegistryInv' /\ TokensKept
  BY <1>1, OneType, Unregistered
<1>5. ClientInv(c)'
  <2>1. CallOf(c) /\ CoverOf(c) /\ cl[c].lek = 0
    BY <1>1, OneType DEF ClientInv, CallOf
  <2>2. CallOf(c)'
    BY <1>1, <1>2, <1>3, <2>1 DEF CallOf
  <2>3. \A s \in always[c] : ~(s <= 0)
    BY OneType, CursorsAssumption DEF Slots
  <2>4. CoverOf(c)'
    BY <1>1, <1>2, <1>3, <2>1, <2>3 DEF CoverOf, Returned
  <2> QED
    BY <1>2, <1>3, <2>2, <2>4 DEF ClientInv
<1>6. \A d \in Clients \ {c} : TokensFor(d)
  BY <1>4, StandingBy
<1> QED
  BY <1>1, <1>3, <1>4, <1>5, <1>6, OneType, OneClient

LEMMA LoadTokenStep ==
  ASSUME Inv, NEW c \in Clients, LoadToken(c)
  PROVE  Inv'
<1> DEFINE n == cl[c].cursor
<1>1. /\ cl[c].pc = "idle" /\ n \in Known /\ Touch(n) /\ Used(n)
      /\ cl' = [cl EXCEPT ![c] = [cl[c] EXCEPT !.pc = "page", !.lek = Entry(n).lek]]
      /\ UNCHANGED <<present, got, always, faults>>
  BY DEF LoadToken, histories
<1>2. PICK i \in DOMAIN registry : registry[i].cursor = n /\ Entry(n) = registry[i]
  <2>1. Place(n) \in 1 .. Len(registry) /\ registry[Place(n)].cursor = n
    BY <1>1, OneType, PlaceOfKnown DEF RegistryInv
  <2>2. DOMAIN registry = 1 .. Len(registry)
    BY OneType, Rows DEF RegistryInv, RegistryTypes
  <2> QED
    BY <2>1, <2>2 DEF Entry
<1>3. registry[i].lek \in Slots
  BY OneType, NoEntry
<1>4. PICK r \in ClientType : /\ r = [cl[c] EXCEPT !.pc = "page", !.lek = registry[i].lek]
                              /\ r.pc = "page" /\ r.cursor = n /\ r.lek = registry[i].lek
                              /\ r.reply = cl[c].reply
  <2>1. PICK u \in ClientType : u = cl[c]
    BY OneType
  <2>2. PICK l \in Slots : l = registry[i].lek
    BY <1>3
  <2>3. [u EXCEPT !.pc = "page", !.lek = l] \in ClientType
    BY DEF ClientType
  <2>4. LET r == [u EXCEPT !.pc = "page", !.lek = l]
        IN  r.pc = "page" /\ r.cursor = u.cursor /\ r.lek = l /\ r.reply = u.reply
    BY DEF ClientType
  <2> QED
    BY <2>1, <2>2, <2>3, <2>4
<1>5. cl' = [cl EXCEPT ![c] = r] /\ cl'[c] = r
  BY <1>1, <1>2, <1>4, OneType
<1>6. RegistryInv' /\ TokensKept
  BY <1>1, OneType, Touched
<1>7. ClientInv(c)'
  <2>1. CallOf(c) /\ CoverOf(c)
    BY OneType DEF ClientInv
  <2>2. CallOf(c)'
    BY <1>1, <1>4, <1>5, <2>1 DEF CallOf
  <2>3. \A s \in always[c] : s <= registry[i].lek => s \in got[c]
    BY <1>2, <2>1 DEF CoverOf, Returned
  <2>4. ASSUME NEW k \in DOMAIN registry', registry'[k].cursor = n
        PROVE  \A s \in always[c] : s <= registry'[k].lek => s \in got[c]
    <3>1. PICK j \in DOMAIN registry : /\ registry'[k].cursor = registry[j].cursor
                                       /\ registry'[k].lek = registry[j].lek
      BY <1>6 DEF TokensKept
    <3>2. \A s \in always[c] : s <= registry[j].lek => s \in got[c]
      BY <2>1, <2>4, <3>1 DEF CoverOf, Returned
    <3> QED
      BY <3>1, <3>2
  <2>5. CoverOf(c)'
    BY <1>1, <1>4, <1>5, <2>1, <2>3, <2>4 DEF CoverOf, Returned
  <2> QED
    BY <1>4, <1>5, <2>2, <2>5 DEF ClientInv
<1>8. \A d \in Clients \ {c} : TokensFor(d)
  BY <1>6, StandingBy
<1> QED
  BY <1>1, <1>5, <1>6, <1>7, <1>8, OneType, OneClient

\* A client that begins an iteration holds nothing.
LEMMA BeginsAnew ==
  ASSUME Inv, NEW c \in Clients, Begins(c), RegistryInv', TokensKept, UNCHANGED <<present, faults>>
  PROVE  Inv'
<1>1. /\ cl' = [cl EXCEPT ![c] = Idle] /\ got' = [got EXCEPT ![c] = {}]
      /\ always' = [always EXCEPT ![c] = present]
  BY DEF Begins
<1>2. cl'[c] = Idle /\ got'[c] = {} /\ always'[c] = present
  BY <1>1, OneType
<1>3. /\ got' \in [Clients -> SUBSET Slots] /\ always' \in [Clients -> SUBSET Slots]
      /\ \A d \in Clients \ {c} : got'[d] = got[d] /\ always'[d] = always[d]
  BY <1>1, OneType
<1>4. Idle.pc = "idle" /\ Idle.cursor = NoCursor /\ Idle.reply = NoCursor /\ Idle.lek = 0
  BY DEF Idle
<1>5. ClientInv(c)'
  <2>1. \A k \in DOMAIN registry' : registry'[k].cursor # NoCursor
    <3>1. /\ RegistryTypes' /\ DOMAIN registry' = 1 .. Len(registry')
          /\ \A k \in 1 .. Len(registry') : registry'[k].cursor \in Cursors
      BY Rows DEF RegistryInv, RegistryTypes
    <3> QED
      BY <3>1, CursorsAssumption
  <2>2. CallOf(c)'
    BY <1>2, <1>4 DEF CallOf
  <2>3. CoverOf(c)'
    BY <1>2, <1>4, <2>1 DEF CoverOf
  <2> QED
    BY <1>2, <1>4, <2>2, <2>3 DEF ClientInv
<1>6. \A d \in Clients \ {c} : TokensFor(d)
  BY StandingBy
<1> QED
  BY <1>1, <1>3, <1>5, <1>6, OneType, OneClient

LEMMA LoadInvalidStep ==
  ASSUME Inv, NEW c \in Clients, LoadInvalid(c)
  PROVE  Inv'
<1>1. RegistryInv' /\ TokensKept
  <2>1. CASE UNCHANGED <<registry, newer>>
    BY <2>1, OneType, Unregistered
  <2>2. CASE /\ cl[c].cursor \in Known /\ Forget(cl[c].cursor)
             /\ newer' = [newer EXCEPT ![cl[c].cursor] = Cursors]
    BY <2>2, OneType, Forgotten
  <2> QED
    BY <2>1, <2>2 DEF LoadInvalid
<1>2. Begins(c) /\ UNCHANGED <<present, faults>>
  BY DEF LoadInvalid
<1> QED
  BY <1>1, <1>2, BeginsAnew

LEMMA StartOverStep ==
  ASSUME Inv, NEW c \in Clients, StartOver(c)
  PROVE  Inv'
<1>1. Begins(c) /\ UNCHANGED <<present, registry, newer, faults>>
  BY DEF StartOver
<1>2. RegistryInv' /\ TokensKept
  BY <1>1, OneType, Unregistered
<1> QED
  BY <1>1, <1>2, BeginsAnew

LEMMA FetchPageStep ==
  ASSUME Inv, NEW c \in Clients, FetchPage(c)
  PROVE  Inv'
<1>1. PICK u \in ClientType : u = cl[c]
  BY OneType
<1>2. PICK last \in {s \in Slots : s > u.lek} \cup {0} :
        LET here == {s \in present : u.lek < s /\ (last = 0 \/ s <= last)}
        IN  cl' = [cl EXCEPT ![c] = [u EXCEPT !.pc = IF last = 0 THEN "reply" ELSE "save",
                                              !.page = here, !.next = last, !.lek = 0]]
  BY <1>1, OneType, SMTT(20), ZenonT(30) DEF FetchPage
<1>3. u.pc = "page" /\ UNCHANGED <<present, registry, got, always, newer, faults>>
  BY <1>1 DEF FetchPage, histories
<1> DEFINE here == {s \in present : u.lek < s /\ (last = 0 \/ s <= last)}
           r == [u EXCEPT !.pc = IF last = 0 THEN "reply" ELSE "save",
                          !.page = here, !.next = last, !.lek = 0]
<1>4. last \in Slots \cup {0}
  OBVIOUS
<1>5. here \subseteq Slots
  BY OneType
<1>6. \A s \in present : u.lek < s /\ (last = 0 \/ s <= last) => s \in here
  OBVIOUS
<1> HIDE DEF here
<1>7. /\ r \in ClientType /\ r.pc = (IF last = 0 THEN "reply" ELSE "save")
      /\ r.cursor = u.cursor /\ r.page = here /\ r.next = last /\ r.lek = 0 /\ r.reply = u.reply
  BY <1>4, <1>5 DEF ClientType
<1>8. cl' = [cl EXCEPT ![c] = r] /\ cl'[c] = r
  BY <1>2, OneType DEF here
<1> HIDE DEF r
<1>9. RegistryInv' /\ TokensKept
  BY <1>3, OneType, Unregistered
<1>10. ClientInv(c)'
  <2>1. CallOf(c) /\ CoverOf(c) /\ u.reply = NoCursor
    BY <1>1, <1>3, OneType DEF ClientInv, CallOf
  <2>2. r.reply = NoCursor
    BY <1>7, <2>1
  <2>3. CallOf(c)'
    BY <1>4, <1>7, <1>8, <2>2 DEF CallOf
  <2>4. ASSUME NEW s \in always[c], s <= (IF last = 0 THEN LastSlot ELSE last)
        PROVE  s \in got[c] \cup here
    <3>1. s \in present /\ s \in Slots /\ u.lek \in Slots \cup {0}
      BY OneType DEF ClientType
    <3>2. CASE s <= u.lek
      BY <1>1, <1>3, <2>1, <3>2 DEF CoverOf, Returned
    <3>3. CASE u.lek < s
      BY <1>6, <2>4, <3>1, <3>3
    <3> QED
      BY <3>1, <3>2, <3>3, CursorsAssumption DEF Slots
  <2>5. \A k \in DOMAIN registry : registry[k].cursor # NoCursor
    BY OneType, NoEntry
  <2>6. CoverOf(c)'
    BY <1>1, <1>3, <1>7, <1>8, <2>1, <2>2, <2>4, <2>5 DEF CoverOf, Returned
  <2>7. r.pc # "done"
    BY <1>7
  <2> QED
    BY <1>8, <2>3, <2>6, <2>7 DEF ClientInv
<1>11. \A d \in Clients \ {c} : TokensFor(d)
  BY <1>9, StandingBy
<1> QED
  BY <1>3, <1>7, <1>8, <1>9, <1>10, <1>11, OneType, OneClient

LEMMA SaveTokenStep ==
  ASSUME Inv, NEW c \in Clients, SaveToken(c)
  PROVE  Inv'
<1>1. PICK u \in ClientType : u = cl[c]
  BY OneType
<1>2. PICK n \in Fresh : /\ cl' = [cl EXCEPT ![c] = [u EXCEPT !.pc = "reply", !.reply = n]]
                         /\ Save(n, u.next) /\ Used(n)
  BY <1>1, OneType DEF SaveToken
<1>3. u.pc = "save" /\ UNCHANGED <<present, got, always, faults>>
  BY <1>1 DEF SaveToken, histories
<1>4. CallOf(c) /\ CoverOf(c) /\ u.next \in Slots
  BY <1>1, <1>3, OneType DEF ClientInv, CallOf
<1>5. n \in Cursors /\ n \notin Known /\ \A d \in Clients : n # cl[d].cursor /\ n # cl[d].reply
  BY DEF Fresh
<1>6. /\ RegistryInv'
      /\ \A k \in DOMAIN registry' :
           \/ registry'[k].cursor = n /\ registry'[k].lek = u.next
           \/ \E j \in DOMAIN registry : /\ registry'[k].cursor = registry[j].cursor
                                         /\ registry'[k].lek = registry[j].lek
  BY <1>2, <1>4, <1>5, OneType, Saved
<1> DEFINE r == [u EXCEPT !.pc = "reply", !.reply = n]
<1>7. /\ r \in ClientType /\ r.pc = "reply" /\ r.cursor = u.cursor /\ r.lek = u.lek
      /\ r.page = u.page /\ r.next = u.next /\ r.reply = n
  BY <1>5 DEF ClientType
<1>8. cl' = [cl EXCEPT ![c] = r] /\ cl'[c] = r
  BY <1>2, OneType
<1> HIDE DEF r
<1>9. ASSUME NEW d \in Clients PROVE TokensFor(d)
  BY <1>5, <1>6 DEF TokensFor
<1>10. ClientInv(c)'
  <2>1. u.next # 0 /\ n # NoCursor /\ u.lek = 0
    BY <1>1, <1>3, <1>4, <1>5, CursorsAssumption DEF Slots, CallOf
  <2>2. CallOf(c)'
    BY <1>7, <1>8, <2>1 DEF CallOf
  <2>3. ASSUME NEW k \in DOMAIN registry', registry'[k].cursor = u.cursor
        PROVE  \A s \in always[c] : s <= registry'[k].lek => s \in got[c]
    <3>1. PICK j \in DOMAIN registry : /\ registry'[k].cursor = registry[j].cursor
                                       /\ registry'[k].lek = registry[j].lek
      BY <1>1, <1>5, <1>6, <2>3
    <3>2. \A s \in always[c] : s <= registry[j].lek => s \in got[c]
      BY <1>1, <1>4, <2>3, <3>1 DEF CoverOf, Returned
    <3> QED
      BY <3>1, <3>2
  <2>4. \A s \in always[c] : s <= u.next => s \in got[c] \cup u.page
    BY <1>1, <1>3, <1>4, <2>1 DEF CoverOf, Returned
  <2>5. ASSUME NEW k \in DOMAIN registry', registry'[k].cursor = n
        PROVE  registry'[k].lek = u.next
    BY <1>5, <1>6, <2>5, OneType, NoEntry
  <2>6. CoverOf(c)'
    BY <1>1, <1>3, <1>4, <1>7, <1>8, <2>1, <2>3, <2>4, <2>5 DEF CoverOf, Returned
  <2> QED
    BY <1>7, <1>8, <2>2, <2>6 DEF ClientInv
<1> QED
  BY <1>3, <1>6, <1>7, <1>8, <1>9, <1>10, OneType, OneClient

LEMMA ReplyStep ==
  ASSUME Inv, NEW c \in Clients, Reply(c)
  PROVE  Inv'
<1>1. PICK u \in ClientType : u = cl[c]
  BY OneType
<1> DEFINE r == [Idle EXCEPT !.pc = IF u.next = 0 THEN "done" ELSE "idle", !.cursor = u.reply]
<1>2. /\ u.pc = "reply" /\ got' = [got EXCEPT ![c] = got[c] \cup u.page]
      /\ cl' = [cl EXCEPT ![c] = r]
      /\ UNCHANGED <<present, registry, always, newer, faults>>
  BY <1>1, OneType DEF Reply
<1>3. u.reply \in Cursors \cup {NoCursor} /\ u.page \subseteq Slots /\ u.next \in Slots \cup {0}
  BY DEF ClientType
<1>4. /\ r \in ClientType /\ r.pc = (IF u.next = 0 THEN "done" ELSE "idle")
      /\ r.cursor = u.reply /\ r.lek = 0 /\ r.reply = NoCursor
  BY <1>3 DEF ClientType, Idle
<1> HIDE DEF r
<1>5. /\ cl'[c] = r /\ got'[c] = got[c] \cup u.page
      /\ got' \in [Clients -> SUBSET Slots] /\ \A d \in Clients \ {c} : got'[d] = got[d]
  BY <1>2, <1>3, OneType
<1>6. RegistryInv' /\ TokensKept
  BY <1>2, OneType, Unregistered
<1>7. ClientInv(c)'
  <2>1. CallOf(c) /\ CoverOf(c) /\ (u.next = 0 <=> u.reply = NoCursor)
    BY <1>1, <1>2, OneType DEF ClientInv, CallOf
  <2>2. CallOf(c)'
    BY <1>4, <1>5 DEF CallOf
  <2>3. \A s \in always[c] : s <= (IF u.next = 0 THEN LastSlot ELSE u.next) => s \in got[c] \cup u.page
    BY <1>1, <1>2, <2>1 DEF CoverOf, Returned
  <2>4. ASSUME NEW k \in DOMAIN registry, registry[k].cursor = u.reply
        PROVE  \A s \in always[c] : s <= registry[k].lek => s \in got[c] \cup u.page
    <3>1. u.next # 0
      BY <2>1, <2>4, OneType, NoEntry
    <3>2. registry[k].lek = u.next
      BY <1>1, <1>2, <2>1, <2>4 DEF CoverOf
    <3> QED
      BY <2>3, <3>1, <3>2
  <2>5. CoverOf(c)'
    BY <1>2, <1>4, <1>5, <2>1, <2>4 DEF CoverOf, Returned
  <2>6. r.pc = "done" => always[c] \subseteq got[c] \cup u.page
    <3>1. \A s \in always[c] : s <= LastSlot
      BY OneType, CursorsAssumption DEF Slots
    <3> QED
      BY <1>4, <2>3, <3>1
  <2> QED
    BY <1>2, <1>5, <2>2, <2>5, <2>6 DEF ClientInv
<1>8. \A d \in Clients \ {c} : TokensFor(d)
  BY <1>6, StandingBy
<1> QED
  BY <1>2, <1>4, <1>5, <1>6, <1>7, <1>8, OneType, OneClient

\* A call that is over without a reply leaves the client where it was.
LEMMA Abandoned ==
  ASSUME Inv, NEW c \in Clients, TokensFor(c), cl'[c] = [Idle EXCEPT !.cursor = cl[c].cursor],
         UNCHANGED <<present, got, always>>
  PROVE  ClientInv(c)'
<1>1. CallOf(c) /\ CoverOf(c)
  BY OneType DEF ClientInv
<1>2. /\ cl'[c].pc = "idle" /\ cl'[c].cursor = cl[c].cursor
      /\ cl'[c].lek = 0 /\ cl'[c].reply = NoCursor
  BY DEF Idle
<1>3. CallOf(c)'
  BY <1>2 DEF CallOf
<1>4. ASSUME NEW k \in DOMAIN registry', registry'[k].cursor = cl[c].cursor
      PROVE  \A s \in always[c] : s <= registry'[k].lek => s \in got[c]
  <2>1. PICK j \in DOMAIN registry : /\ registry'[k].cursor = registry[j].cursor
                                     /\ registry'[k].lek = registry[j].lek
    BY <1>4 DEF TokensFor
  <2>2. \A s \in always[c] : s <= registry[j].lek => s \in got[c]
    BY <1>1, <1>4, <2>1 DEF CoverOf, Returned
  <2> QED
    BY <2>1, <2>2
<1>5. CoverOf(c)'
  BY <1>1, <1>2, <1>4 DEF CoverOf, Returned
<1> QED
  BY <1>2, <1>3, <1>5 DEF ClientInv

LEMMA CallFailsStep ==
  ASSUME Inv, NEW c \in Clients, CallFails(c)
  PROVE  Inv'
<1> DEFINE r == [Idle EXCEPT !.cursor = cl[c].cursor]
<1>1. /\ faults < MaxFaults /\ faults' = faults + 1 /\ cl' = [cl EXCEPT ![c] = r]
      /\ UNCHANGED <<present, registry, got, always, newer>>
  BY DEF CallFails, histories
<1>2. r \in ClientType
  BY OneType DEF ClientType, Idle
<1>3. cl'[c] = r
  BY <1>1, OneType
<1>4. RegistryInv' /\ TokensKept
  BY <1>1, OneType, Unregistered
<1>5. TokensFor(c) /\ \A d \in Clients \ {c} : TokensFor(d)
  BY <1>4, StandingBy
<1>6. ClientInv(c)'
  BY <1>1, <1>3, <1>5, Abandoned
<1>7. faults' \in 0 .. MaxFaults
  BY <1>1, OneType, CursorsAssumption
<1> HIDE DEF r
<1> QED
  BY <1>1, <1>2, <1>4, <1>5, <1>6, <1>7, OneType, OneClient

LEMMA ChangeStep ==
  ASSUME Inv, Change
  PROVE  Inv'
<1>1. PICK s \in Slots :
        /\ present' = IF s \in present THEN present \ {s} ELSE present \cup {s}
        /\ always' = [c \in Clients |-> always[c] \cap present']
        /\ UNCHANGED <<registry, cl, got, newer, faults>>
  BY DEF Change
<1>2. RegistryInv' /\ TokensKept
  BY <1>1, Unregistered DEF Inv
<1>3. ClientTypes'
  BY <1>1 DEF Inv, ClientTypes
<1>4. ASSUME NEW d \in Clients PROVE ClientInv(d)'
  <2>1. always'[d] \subseteq always[d] /\ always'[d] \subseteq present'
    BY <1>1
  <2>2. ClientInv(d) /\ TokensFor(d)
    BY <1>2, StandingBy DEF Inv
  <2> QED
    BY <1>1, <2>1, <2>2, Bystander
<1> QED
  BY <1>2, <1>3, <1>4 DEF Inv

LEMMA TickStep ==
  ASSUME Inv, Tick
  PROVE  Inv'
<1>1. UNCHANGED <<present, cl, got, always, faults>>
  BY DEF Tick, histories
<1>2. RegistryInv' /\ TokensKept
  BY Aged DEF Inv
<1>3. ClientTypes'
  BY <1>1 DEF Inv, ClientTypes
<1>4. ASSUME NEW d \in Clients PROVE ClientInv(d)'
  <2>1. ClientInv(d) /\ TokensFor(d)
    BY <1>2, StandingBy DEF Inv
  <2>2. always'[d] \subseteq always[d] /\ always'[d] \subseteq present'
    BY <1>1, <2>1 DEF ClientInv, CoverOf
  <2> QED
    BY <1>1, <2>1, <2>2, Bystander
<1> QED
  BY <1>2, <1>3, <1>4 DEF Inv

LEMMA RebootStep ==
  ASSUME Inv, Reboot
  PROVE  Inv'
<1>1. /\ faults < MaxFaults /\ faults' = faults + 1
      /\ registry' = << >> /\ newer' = [n \in Cursors |-> Cursors]
      /\ cl' = [c \in Clients |-> IF cl[c].pc = "done" THEN cl[c]
                                  ELSE [Idle EXCEPT !.cursor = cl[c].cursor]]
      /\ UNCHANGED <<present, got, always>>
  BY DEF Reboot, histories
<1>2. RegistryInv'
  <2>1. RegistryTypes' /\ HeldOnce' /\ OrderInv'
    BY <1>1, CursorsAssumption DEF RegistryTypes, HeldOnce, OrderInv
  <2>2. CursorOutlivesUse'
    BY <1>1, FS_CardinalityType, CursorsAssumption DEF CursorOutlivesUse
  <2> QED
    BY <2>1, <2>2 DEF RegistryInv
<1>3. TokensKept
  BY <1>1 DEF TokensKept
<1>4. ClientTypes'
  <2>1. \A c \in Clients : [Idle EXCEPT !.cursor = cl[c].cursor] \in ClientType
    BY DEF Inv, ClientTypes, ClientType, Idle
  <2>2. faults' \in 0 .. MaxFaults
    BY <1>1, CursorsAssumption DEF Inv, ClientTypes
  <2> QED
    BY <1>1, <2>1, <2>2 DEF Inv, ClientTypes
<1>5. ASSUME NEW d \in Clients PROVE ClientInv(d)'
  <2>1. ClientInv(d) /\ TokensFor(d)
    BY <1>3, StandingBy DEF Inv
  <2>2. CASE cl[d].pc = "done"
    <3>1. cl'[d] = cl[d]
      BY <1>1, <2>2
    <3>2. always'[d] \subseteq always[d] /\ always'[d] \subseteq present'
      BY <1>1, <2>1 DEF ClientInv, CoverOf
    <3> QED
      BY <1>1, <2>1, <3>1, <3>2, Bystander
  <2>3. CASE cl[d].pc # "done"
    <3>1. cl'[d] = [Idle EXCEPT !.cursor = cl[d].cursor]
      BY <1>1, <2>3
    <3> QED
      BY <1>1, <2>1, <3>1, Abandoned
  <2> QED
    BY <2>2, <2>3
<1> QED
  BY <1>2, <1>4, <1>5 DEF Inv

LEMMA InitInv == Init => Inv
<1> SUFFICES ASSUME Init PROVE Inv
  OBVIOUS
<1>1. RegistryInv
  BY Emptied DEF Init
<1>2. ClientTypes
  BY CursorsAssumption DEF Init, ClientTypes, ClientType, Idle
<1>3. ASSUME NEW c \in Clients PROVE ClientInv(c)
  <2>1. cl[c] = Idle /\ got[c] = {} /\ always[c] = present /\ DOMAIN registry = {}
    BY DEF Init
  <2> QED
    BY <2>1 DEF ClientInv, CallOf, CoverOf, Idle
<1> QED
  BY <1>1, <1>2, <1>3 DEF Inv

LEMMA StepInv == Inv /\ [Next]_vars => Inv'
<1> SUFFICES ASSUME Inv, [Next]_vars PROVE Inv'
  OBVIOUS
<1>1. ASSUME NEW c \in Clients, LoadNothing(c) PROVE Inv'
  BY <1>1, LoadNothingStep
<1>2. ASSUME NEW c \in Clients, LoadToken(c) PROVE Inv'
  BY <1>2, LoadTokenStep
<1>3. ASSUME NEW c \in Clients, LoadInvalid(c) PROVE Inv'
  BY <1>3, LoadInvalidStep
<1>4. ASSUME NEW c \in Clients, FetchPage(c) PROVE Inv'
  BY <1>4, FetchPageStep
<1>5. ASSUME NEW c \in Clients, SaveToken(c) PROVE Inv'
  BY <1>5, SaveTokenStep
<1>6. ASSUME NEW c \in Clients, Reply(c) PROVE Inv'
  BY <1>6, ReplyStep
<1>7. ASSUME NEW c \in Clients, CallFails(c) PROVE Inv'
  BY <1>7, CallFailsStep
<1>8. ASSUME NEW c \in Clients, StartOver(c) PROVE Inv'
  BY <1>8, StartOverStep
<1>9. CASE Change
  BY <1>9, ChangeStep
<1>10. CASE Tick
  BY <1>10, TickStep
<1>11. CASE Reboot
  BY <1>11, RebootStep
<1>12. CASE UNCHANGED vars
  <2>1. RegistryInv' /\ ClientTypes'
    BY <1>12 DEF vars, Inv, RegistryInv, RegistryTypes, HeldOnce, OrderInv, CursorOutlivesUse, Known,
       ClientTypes
  <2>2. \A c \in Clients : ClientInv(c)'
    BY <1>12 DEF vars, Inv, ClientInv, CallOf, CoverOf, Returned
  <2> QED
    BY <2>1, <2>2 DEF Inv
<1> QED
  BY <1>1, <1>2, <1>3, <1>4, <1>5, <1>6, <1>7, <1>8, <1>9, <1>10, <1>11, <1>12 DEF Next

LEMMA Invariance == Spec => []Inv
BY InitInv, StepInv, PTL DEF Spec

-----------------------------------------------------------------------------
(***************************************************************************)
(* The theorems.                                                           *)
(***************************************************************************)
\* Every variable of the SCAN family has its type; the registry never exceeds its
\* capacity and never holds a cursor twice (Registry.Save, load).
THEOREM TypeCorrect == Spec => []TypeOK
<1>1. Inv => TypeOK
  BY DEF Inv, RegistryInv, RegistryTypes, HeldOnce, ClientTypes, ClientType, TypeOK
<1> QED
  BY <1>1, Invariance, PTL

\* An iteration of SCAN, SSCAN, HSCAN or ZSCAN that ends has returned every element that
\* was there throughout (handleScan, handleSScan), whatever the other clients did to the
\* data and to the registry.
THEOREM IterationsComplete == Spec => []CompleteIteration
<1>1. Inv => CompleteIteration
  BY DEF Inv, ClientInv, CompleteIteration
<1> QED
  BY <1>1, Invariance, PTL

\* A cursor that fewer than Capacity others have been used after is in the registry
\* (Registry.Save evicts the least recently used one, and load moves to the front).
THEOREM CursorsOutliveUse == Spec => []CursorOutlivesUse
<1>1. Inv => CursorOutlivesUse
  BY DEF Inv, RegistryInv
<1> QED
  BY <1>1, Invariance, PTL
=============================================================================
