----------------------------- MODULE CountProofs -----------------------------
(***************************************************************************)
(* The count of a collection, for any number of connections that write and *)
(* delete members of one type: it never falls short of the members that    *)
(* are there, so DeleteMetaIfEmpty hides none.                             *)
(***************************************************************************)
EXTENDS KeyProofs, FiniteSetTheorems

(***************************************************************************)
(* The commands whose count is what the store's own answers say: a write   *)
(* that found the member absent, a delete that found it there.  ZADD with  *)
(* flags and ZINCRBY count what an earlier read said; DEL, EXPIRE and the  *)
(* STORE commands leave members to be reclaimed; a command that fails      *)
(* halfway owes what nobody adds.                                          *)
(***************************************************************************)
CountsFor(op, type) ==
    \/ type = TSet /\ op \in {"sadd", "srem", "spop"}
    \/ type = THash /\ op \in {"hset", "hsetnx", "hdel", "hincr"}
    \/ type = TZSet /\ op \in {"zadd", "zrem", "zremrange"}

Counted(type) == MaxFaults = 0 /\ \A op \in Commands : CountsFor(op, type)

(***************************************************************************)
(* Of a command in flight: it counts members, it has counted none before   *)
(* its writes and deletes begin, and an HSETNX writes once.                *)
(***************************************************************************)
CommandOf(r) ==
    /\ r.op \in Commands \cup {"none"}
    /\ r.pc \in {"idle", "load", "choose", "ensure", "write", "remove", "read", "cas", "adjust",
                 "drop"}
    /\ r.pc \in {"idle", "load", "choose", "ensure", "read", "cas"} => r.n = 0
    /\ r.op = "hsetnx" /\ r.pc \in {"ensure", "write"} => r.n = 0 /\ \A f, g \in r.args : f = g

\* Of the key: it has no expiry, nothing asks the deleter for a reclaim, and without a
\* meta item there is no count.
KeyOf(type) ==
    /\ item.t \in {NoType, type} /\ item.exp = 0 /\ (item.t = NoType => item.cnt <= 0)
    /\ queued = 0 /\ worker = AtRest
    /\ IsFiniteSet(Present(item))

CountInv(type) ==
    /\ Counted(type) /\ TypeInv /\ KeyOf(type)
    /\ \A c \in Clients : CommandOf(cl[c])
    /\ CountCoversMembers

-----------------------------------------------------------------------------
(***************************************************************************)
(* Sums over the connections.                                              *)
(***************************************************************************)
Positive(n) == IF n > 0 THEN n ELSE 0
Pairs(f, S) == UNION {{c} \X (1 .. f[c]) : c \in S}

LEMMA OneRow ==
  ASSUME NEW c, NEW n \in Int
  PROVE  IsFiniteSet({c} \X (1 .. n)) /\ Cardinality({c} \X (1 .. n)) = Positive(n)
<1>1. IsFiniteSet({c}) /\ Cardinality({c}) = 1
  BY FS_Singleton
<1>2. IsFiniteSet(1 .. n) /\ Cardinality(1 .. n) = IF 1 > n THEN 0 ELSE n - 1 + 1
  BY FS_Interval
<1>3. /\ IsFiniteSet({c} \X (1 .. n))
      /\ Cardinality({c} \X (1 .. n)) = Cardinality({c}) * Cardinality(1 .. n)
  BY <1>1, <1>2, FS_Product
<1> QED
  BY <1>1, <1>2, <1>3 DEF Positive

LEMMA PairsFinite ==
  ASSUME NEW f \in [Clients -> Int], NEW S \in SUBSET Clients
  PROVE  IsFiniteSet(Pairs(f, S))
<1>1. ASSUME NEW c \in Clients PROVE IsFiniteSet({c} \X (1 .. f[c]))
  BY OneRow
<1> DEFINE rows == {{c} \X (1 .. f[c]) : c \in S}
           row == [c \in S |-> {c} \X (1 .. f[c])]
<1>2. IsFiniteSet(S)
  BY ClientsAssumption, FS_Subset
<1>3. row \in Surjection(S, rows)
  BY DEF Surjection
<1>4. IsFiniteSet(rows)
  BY <1>2, <1>3, FS_Surjection
<1>5. \A T \in rows : IsFiniteSet(T)
  BY <1>1
<1> QED
  BY <1>4, <1>5, FS_UNION DEF Pairs

\* One connection's share apart, the sum is that of the others.
LEMMA TallySplit ==
  ASSUME NEW f \in [Clients -> Int], NEW c \in Clients
  PROVE  /\ Cardinality(Pairs(f, Clients \ {c})) \in Nat
         /\ Tally(f) = Cardinality(Pairs(f, Clients \ {c})) + Positive(f[c])
<1> DEFINE others == Pairs(f, Clients \ {c})
           own == {c} \X (1 .. f[c])
<1>1. IsFiniteSet(others) /\ Cardinality(others) \in Nat
  BY PairsFinite, FS_CardinalityType
<1>2. IsFiniteSet(own) /\ Cardinality(own) = Positive(f[c])
  BY OneRow
<1>3. UNION {{d} \X (1 .. f[d]) : d \in Clients} = others \cup own
  BY DEF Pairs
<1>4. others \cap own = {}
  BY DEF Pairs
<1>5. Cardinality(others \cap own) = 0
  BY <1>4, FS_EmptySet
<1>6. Cardinality(others \cup own) = Cardinality(others) + Cardinality(own) - Cardinality(others \cap own)
  BY <1>1, <1>2, FS_Union
<1>7. Positive(f[c]) \in Nat
  BY DEF Positive
<1>8. Tally(f) = Cardinality(others \cup own)
  BY <1>3 DEF Tally
<1> HIDE DEF others, own
<1>9. Cardinality(others) \in Nat /\ Tally(f) = Cardinality(others) + Positive(f[c])
  BY <1>1, <1>2, <1>5, <1>6, <1>7, <1>8
<1> QED
  BY <1>9 DEF others

\* A sum after one connection's share has changed.
LEMMA TallyChange ==
  ASSUME NEW f \in [Clients -> Int], NEW g \in [Clients -> Int], NEW c \in Clients,
         \A d \in Clients \ {c} : g[d] = f[d]
  PROVE  /\ Tally(f) \in Nat /\ Tally(g) \in Nat
         /\ Tally(g) - Tally(f) = Positive(g[c]) - Positive(f[c])
<1>1. Pairs(g, Clients \ {c}) = Pairs(f, Clients \ {c})
  BY DEF Pairs
<1>2. /\ Cardinality(Pairs(f, Clients \ {c})) \in Nat
      /\ Tally(f) = Cardinality(Pairs(f, Clients \ {c})) + Positive(f[c])
      /\ Tally(g) = Cardinality(Pairs(f, Clients \ {c})) + Positive(g[c])
  BY <1>1, TallySplit
<1>3. Positive(f[c]) \in Nat /\ Positive(g[c]) \in Nat
  BY DEF Positive
<1> QED
  BY <1>2, <1>3

\* Nobody owes anything.
LEMMA TallyZero ==
  ASSUME NEW f \in [Clients -> Int], \A c \in Clients : f[c] = 0
  PROVE  Tally(f) = 0
<1>1. UNION {{c} \X (1 .. f[c]) : c \in Clients} = {}
  OBVIOUS
<1> QED
  BY <1>1, FS_EmptySet DEF Tally

\* What a client record owes the count.
ShareOf(r) == IF r.pc = "drop" THEN 0 ELSE r.n

LEMMA Negated ==
  ASSUME NEW f \in [Clients -> Int]
  PROVE  [c \in Clients |-> -f[c]] \in [Clients -> Int]
<1>1. \A c \in Clients : -f[c] \in Int
  OBVIOUS
<1> QED
  BY <1>1

LEMMA OwedType ==
  ASSUME cl \in [Clients -> ClientType]
  PROVE  Owed \in Int
<1>1. PICK f \in [Clients -> Int] : f = Share
  <2>1. \A u \in ClientType : ShareOf(u) \in Int
    BY DEF ShareOf, ClientType
  <2>2. Share = [d \in Clients |-> ShareOf(cl[d])]
    BY DEF Share, ShareOf, At
  <2> QED
    BY <2>1, <2>2
<1>2. PICK nf \in [Clients -> Int] : nf = [d \in Clients |-> -f[d]]
  BY Negated
<1>3. CASE Clients = {}
  <2>1. Tally(f) = 0 /\ Tally(nf) = 0
    BY <1>3, TallyZero
  <2> QED
    BY <1>1, <1>2, <2>1 DEF Owed
<1>4. CASE Clients # {}
  <2>1. PICK c \in Clients : TRUE
    BY <1>4
  <2>2. Tally(f) \in Nat /\ Tally(nf) \in Nat
    BY TallyChange
  <2> QED
    BY <1>1, <1>2, <2>2 DEF Owed
<1> QED
  BY <1>3, <1>4

\* With nobody in flight, nothing is owed.
LEMMA NobodyOwes ==
  ASSUME \A c \in Clients : ShareOf(cl[c]) = 0
  PROVE  Owed = 0
<1>1. PICK f \in [Clients -> Int] : f = Share /\ \A c \in Clients : f[c] = 0
  <2>1. Share = [c \in Clients |-> ShareOf(cl[c])]
    BY DEF Share, ShareOf, At
  <2>2. Share \in [Clients -> Int] /\ \A c \in Clients : Share[c] = 0
    BY <2>1
  <2> QED
    BY <2>2
<1>2. PICK nf \in [Clients -> Int] : /\ nf = [d \in Clients |-> -f[d]]
                                     /\ \A c \in Clients : nf[c] = 0
  BY <1>1
<1>3. Tally(f) = 0 /\ Tally(nf) = 0
  BY <1>1, <1>2, TallyZero
<1> QED
  BY <1>1, <1>2, <1>3 DEF Owed

LEMMA OwedChange ==
  ASSUME cl \in [Clients -> ClientType], NEW c \in Clients, NEW r \in ClientType,
         cl' = [cl EXCEPT ![c] = r]
  PROVE  /\ Owed \in Int /\ Owed' \in Int /\ ShareOf(r) \in Int /\ ShareOf(cl[c]) \in Int
         /\ Owed' - Owed = ShareOf(r) - ShareOf(cl[c])
<1>1. \A u \in ClientType : ShareOf(u) \in Int
  BY DEF ShareOf, ClientType
<1>2. PICK f \in [Clients -> Int] : f = Share /\ f[c] = ShareOf(cl[c])
  <2>1. Share = [d \in Clients |-> ShareOf(cl[d])]
    BY DEF Share, ShareOf, At
  <2> QED
    BY <1>1, <2>1
<1>3. PICK g \in [Clients -> Int] : /\ g = Share' /\ g[c] = ShareOf(r)
                                    /\ \A d \in Clients \ {c} : g[d] = f[d]
  <2>1. Share' = [d \in Clients |-> ShareOf(IF d = c THEN r ELSE cl[d])]
    BY DEF Share, ShareOf, At
  <2>2. Share = [d \in Clients |-> ShareOf(cl[d])]
    BY DEF Share, ShareOf, At
  <2>3. \A d \in Clients : (IF d = c THEN r ELSE cl[d]) \in ClientType
    OBVIOUS
  <2> QED
    BY <1>1, <1>2, <2>1, <2>2, <2>3
<1>4. PICK nf \in [Clients -> Int] : nf = [d \in Clients |-> -f[d]]
  BY <1>2, Negated
<1>5. PICK ng \in [Clients -> Int] : ng = [d \in Clients |-> -g[d]]
  BY <1>3, Negated
<1>6. Owed = Tally(f) - Tally(nf)
  BY <1>2, <1>4 DEF Owed
<1>7. Owed' = Tally(g) - Tally(ng)
  BY <1>3, <1>5 DEF Owed, Tally
<1>8. /\ Tally(f) \in Nat /\ Tally(g) \in Nat
      /\ Tally(g) - Tally(f) = Positive(g[c]) - Positive(f[c])
  BY <1>3, TallyChange
<1>9. /\ Tally(nf) \in Nat /\ Tally(ng) \in Nat
      /\ Tally(ng) - Tally(nf) = Positive(-g[c]) - Positive(-f[c])
  <2>1. \A d \in Clients \ {c} : ng[d] = nf[d]
    BY <1>3, <1>4, <1>5
  <2>2. ng[c] = -g[c] /\ nf[c] = -f[c]
    BY <1>4, <1>5
  <2> QED
    BY <2>1, <2>2, TallyChange, SMTT(20), ZenonT(30)
<1>10. \A n \in Int : Positive(n) - Positive(-n) = n
  BY DEF Positive
<1>11. \A n \in Int : Positive(n) \in Nat /\ -n \in Int
  BY DEF Positive
<1>12. f[c] \in Int /\ g[c] \in Int
  BY <1>2, <1>3
<1>13. Owed \in Int /\ Owed' \in Int
  BY <1>6, <1>7, <1>8, <1>9
<1>14. Owed' - Owed = (Positive(g[c]) - Positive(-g[c])) - (Positive(f[c]) - Positive(-f[c]))
  BY <1>6, <1>7, <1>8, <1>9, <1>11, <1>12
<1>15. Owed' - Owed = g[c] - f[c]
  BY <1>10, <1>12, <1>14
<1> QED
  BY <1>1, <1>2, <1>3, <1>13, <1>15

\* A step of one connection that loses nothing leaves the count covering the members.
LEMMA Balance ==
  ASSUME TypeInv, TypeInv', CountCoversMembers, IsFiniteSet(Present(item)),
         IsFiniteSet(Present(item')),
         NEW c \in Clients, NEW r \in ClientType, cl' = [cl EXCEPT ![c] = r],
         item'.cnt + ShareOf(r) - Cardinality(Present(item'))
           >= item.cnt + ShareOf(cl[c]) - Cardinality(Present(item))
  PROVE  CountCoversMembers'
<1>1. cl \in [Clients -> ClientType] /\ item.cnt \in Int /\ item'.cnt \in Int
  BY DEF TypeInv, TypeOK, CoreTypeOK, ItemType
<1>2. /\ Owed \in Int /\ Owed' \in Int /\ ShareOf(r) \in Int /\ ShareOf(cl[c]) \in Int
      /\ Owed' - Owed = ShareOf(r) - ShareOf(cl[c])
  BY <1>1, OwedChange
<1>3. Cardinality(Present(item)) \in Nat /\ Cardinality(Present(item')) \in Nat
  BY FS_CardinalityType
<1>4. item.cnt + Owed >= Cardinality(Present(item))
  BY DEF CountCoversMembers
<1>5. item'.cnt + Owed' >= Cardinality(Present(item'))
  BY <1>1, <1>2, <1>3, <1>4
<1> QED
  BY <1>5 DEF CountCoversMembers, Present

-----------------------------------------------------------------------------
(***************************************************************************)
(* The steps.                                                              *)
(***************************************************************************)
\* What the primitives make of the members that are there.
LEMMA PresentOf ==
  ASSUME NEW k \in ItemType
  PROVE  /\ \A m \in SK, v \in Vals : Present(Put(k, m, v)) = Present(k) \cup {m}
         /\ \A listed : Present(Remove(k, listed)) = Present(k) \ listed
         /\ \A l \in ItemType : l.data = k.data => Present(l) = Present(k)
<1>1. \A m \in SK, v \in Vals : Present(Put(k, m, v)) = Present(k) \cup {m}
  BY ConstantsAssumption DEF Present, Put, ItemType
<1>2. \A listed : Present(Remove(k, listed)) = Present(k) \ listed
  BY DEF Present, Remove, ItemType
<1>3. \A l \in ItemType : l.data = k.data => Present(l) = Present(k)
  BY DEF Present
<1> QED
  BY <1>1, <1>2, <1>3

\* What the invariant says of one connection and of the key.
LEMMA OneOf ==
  ASSUME NEW type, CountInv(type), NEW c \in Clients
  PROVE  /\ cl[c] \in ClientType /\ CommandOf(cl[c]) /\ item \in ItemType
         /\ item.cnt \in Int /\ item.t \in {NoType, type} /\ item.exp = 0
         /\ IsFiniteSet(Present(item)) /\ Cardinality(Present(item)) \in Nat
         /\ cl \in [Clients -> ClientType]
<1>1. IsFiniteSet(Present(item))
  BY DEF CountInv, KeyOf
<1> QED
  BY <1>1, FS_CardinalityType DEF CountInv, TypeInv, TypeOK, CoreTypeOK, KeyOf, ItemType

\* One connection moves, and what it then owes makes up for what it did.
LEMMA OneMoves ==
  ASSUME NEW type, CountInv(type), TypeInv', KeyOf(type)',
         NEW c \in Clients, NEW r \in ClientType, cl' = [cl EXCEPT ![c] = r], CommandOf(r),
         item'.cnt + ShareOf(r) - Cardinality(Present(item'))
           >= item.cnt + ShareOf(cl[c]) - Cardinality(Present(item))
  PROVE  CountInv(type)'
<1>1. CountCoversMembers'
  <2>1. TypeInv /\ CountCoversMembers /\ IsFiniteSet(Present(item)) /\ IsFiniteSet(Present(item'))
    BY DEF CountInv, KeyOf, Present
  <2> QED
    BY <2>1, Balance
<1>2. \A d \in Clients : CommandOf(cl'[d])
  BY OneOf DEF CountInv
<1> QED
  BY <1>1, <1>2 DEF CountInv, Counted

\* One connection moves and changes neither the key nor what it owes, which is nothing.
LEMMA OneMovesQuietly ==
  ASSUME NEW type, CountInv(type), TypeInv', UNCHANGED <<item, queued, worker>>,
         NEW c \in Clients, NEW r \in ClientType, cl' = [cl EXCEPT ![c] = r], CommandOf(r),
         r.n = 0, cl[c].n = 0
  PROVE  CountInv(type)'
<1>1. KeyOf(type)'
  BY DEF CountInv, KeyOf, Present
<1>2. ShareOf(r) = 0 /\ ShareOf(cl[c]) = 0
  BY DEF ShareOf
<1>3. /\ item'.cnt = item.cnt /\ Present(item') = Present(item)
      /\ item.cnt \in Int /\ Cardinality(Present(item)) \in Nat
  BY OneOf
<1>4. item'.cnt + ShareOf(r) - Cardinality(Present(item'))
        >= item.cnt + ShareOf(cl[c]) - Cardinality(Present(item))
  BY <1>2, <1>3
<1> QED
  BY <1>1, <1>4, OneMoves

LEMMA IdleOwes == Idle \in ClientType /\ CommandOf(Idle) /\ Idle.n = 0 /\ ShareOf(Idle) = 0
BY IdleType DEF CommandOf, Idle, ShareOf, Client

\* The command ends with nothing owed.
LEMMA Returns ==
  ASSUME NEW type, CountInv(type), TypeInv', UNCHANGED <<item, queued, worker>>,
         NEW c \in Clients, Return(c), cl[c].n = 0
  PROVE  CountInv(type)'
BY IdleOwes, OneMovesQuietly DEF Return

LEMMA LoadStateCounts ==
  ASSUME NEW type, CountInv(type), TypeInv', NEW c \in Clients,
         NEW next \in {"remove", "choose"}, LoadState(c, type, next)
  PROVE  CountInv(type)'
<1>1. PICK u \in ClientType : u = cl[c] /\ CommandOf(u)
  BY OneOf
<1>2. u.pc = "load" /\ u.n = 0 /\ UNCHANGED <<item, queued, worker>>
  BY <1>1 DEF LoadState, At, CommandOf, LocalStep, ClientStep, bgVars
<1>3. CASE Return(c)
  BY <1>1, <1>2, <1>3, Returns
<1>4. CASE Goto(c, next)
  <2> DEFINE r == [u EXCEPT !.pc = next]
  <2>1. r \in ClientType
    BY DEF ClientType, Labels
  <2>2. r.pc = next /\ r.op = u.op /\ r.n = u.n /\ r.args = u.args
    BY DEF ClientType
  <2>3. cl' = [cl EXCEPT ![c] = r]
    BY <1>1, <1>4 DEF Goto
  <2> HIDE DEF r
  <2>4. CommandOf(r) /\ r.n = 0
    BY <1>1, <1>2, <2>2 DEF CommandOf
  <2> QED
    BY <1>1, <1>2, <2>1, <2>3, <2>4, OneMovesQuietly
<1> QED
  BY <1>3, <1>4 DEF LoadState

LEMMA ChooseCounts ==
  ASSUME NEW type, CountInv(type), TypeInv', NEW c \in Clients, ChooseMembers(c)
  PROVE  CountInv(type)'
<1>1. PICK u \in ClientType : u = cl[c] /\ CommandOf(u)
  BY OneOf
<1>2. u.pc = "choose" /\ u.n = 0 /\ UNCHANGED <<item, queued, worker>>
  BY <1>1 DEF ChooseMembers, At, CommandOf, LocalStep, ClientStep, bgVars
<1>3. CASE Return(c)
  BY <1>1, <1>2, <1>3, Returns
<1>4. ASSUME NEW pick \in SUBSET (Present(item) \cap Members),
             cl' = [cl EXCEPT ![c].pc = "remove", ![c].args = pick]
      PROVE  CountInv(type)'
  <2> DEFINE r == [u EXCEPT !.pc = "remove", !.args = pick]
  <2>1. pick \in SUBSET Members /\ "remove" \in Labels
    BY DEF Labels
  <2>2. r \in ClientType
    BY <2>1 DEF ClientType
  <2>3. r.pc = "remove" /\ r.op = u.op /\ r.n = u.n /\ r.args = pick
    BY <2>1 DEF ClientType
  <2>4. cl' = [cl EXCEPT ![c] = r]
    BY <1>1, <1>4, OneOf
  <2> HIDE DEF r
  <2>5. CommandOf(r) /\ r.n = 0
    BY <1>1, <1>2, <2>3 DEF CommandOf
  <2> QED
    BY <1>1, <1>2, <2>2, <2>4, <2>5, OneMovesQuietly
<1> QED
  BY <1>3, <1>4 DEF ChooseMembers

LEMMA EnsureCounts ==
  ASSUME NEW type \in Types, CountInv(type), TypeInv', NEW c \in Clients,
         NEW next \in {"write", "read"}, EnsureTypeExpiringStep(c, type, next)
  PROVE  CountInv(type)'
<1>1. PICK u \in ClientType : u = cl[c] /\ CommandOf(u)
  BY OneOf
<1>2. u.pc = "ensure" /\ u.n = 0 /\ UNCHANGED <<queued, worker>>
  BY <1>1 DEF EnsureTypeExpiringStep, At, CommandOf, ClientStep, bgVars
<1>3. ~TakesOver(item, now) /\ ExpiringAllows(item, type, now)
  BY OneOf DEF TakesOver, IsExpired, ExpiringAllows, TypeAllows
<1>4. item' = EnsureType(item, type, 0) /\ Goto(c, next)
  BY <1>3 DEF EnsureTypeExpiringStep, EnsureTypeExpiring
<1>5. /\ item'.t = type /\ item'.exp = 0 /\ item'.cnt = item.cnt /\ item'.data = item.data
      /\ item' \in ItemType
  BY <1>4, OneOf DEF EnsureType, TypeInv, TypeOK, CoreTypeOK
<1>6. Present(item') = Present(item)
  BY <1>5, OneOf, PresentOf
<1>7. KeyOf(type)'
  BY <1>2, <1>5, <1>6, ConstantsAssumption DEF CountInv, KeyOf, Present
<1> DEFINE r == [u EXCEPT !.pc = next]
<1>8. r \in ClientType
  BY DEF ClientType, Labels
<1>9. r.pc = next /\ r.op = u.op /\ r.n = u.n /\ r.args = u.args
  BY DEF ClientType
<1>10. cl' = [cl EXCEPT ![c] = r]
  BY <1>1, <1>4 DEF Goto
<1> HIDE DEF r
<1>11. CommandOf(r) /\ ShareOf(r) = 0 /\ ShareOf(u) = 0
  BY <1>1, <1>2, <1>9 DEF CommandOf, ShareOf
<1>12. item'.cnt + ShareOf(r) - Cardinality(Present(item'))
         >= item.cnt + ShareOf(cl[c]) - Cardinality(Present(item))
  BY <1>1, <1>5, <1>6, <1>11, OneOf
<1> QED
  BY <1>7, <1>8, <1>10, <1>11, <1>12, OneMoves

\* A write that the store found to create the member is owed for one member more.
LEMMA WriteCounts ==
  ASSUME NEW type, CountInv(type), TypeInv', NEW c \in Clients, WriteMember(c, TRUE),
         cl[c].op \in Writers
  PROVE  CountInv(type)'
<1>1. PICK u \in ClientType : u = cl[c] /\ CommandOf(u)
  BY OneOf
<1>2. PICK m \in u.args :
        LET new == item.data[m] = Gone
            rest == u.args \ {m}
        IN  /\ item' = Put(item, m, u.val)
            /\ cl' = [cl EXCEPT ![c].args = rest,
                                ![c].n = IF new THEN @ + 1 ELSE @,
                                ![c].pc = IF rest = {} THEN "adjust" ELSE "write"]
  BY <1>1 DEF WriteMember
<1>3. u.pc = "write" /\ UNCHANGED <<queued, worker>>
  BY <1>1 DEF WriteMember, At, ClientStep, bgVars
<1>4. m \in Members /\ m \in SK /\ u.args \subseteq Members /\ u.n \in Int /\ u.val \in Vals
  <2>1. u.val \in Vals
    BY <1>1 DEF CountInv, TypeInv, Client, ClientInv
  <2> QED
    BY <2>1 DEF ClientType, SK
<1> DEFINE new == item.data[m] = Gone
           rest == u.args \ {m}
           n == IF new THEN u.n + 1 ELSE u.n
           label == IF rest = {} THEN "adjust" ELSE "write"
           r == [u EXCEPT !.args = rest, !.n = n, !.pc = label]
<1>5. rest \in SUBSET Members /\ n \in Int /\ label \in Labels /\ label \in {"adjust", "write"}
  BY <1>4 DEF Labels
<1>6. u.op = "hsetnx" => rest = {} /\ label = "adjust"
  BY <1>1, <1>2, <1>3 DEF CommandOf
<1>7. cl' = [cl EXCEPT ![c] = r]
  BY <1>1, <1>2, OneOf
<1>8. new <=> m \notin Present(item)
  BY <1>4, OneOf DEF Present, ItemType
<1>9. n = IF m \in Present(item) THEN u.n ELSE u.n + 1
  BY <1>8
<1> HIDE DEF new, n, label, rest
<1>10. /\ r \in ClientType /\ r.pc = label /\ r.n = n /\ r.args = rest /\ r.op = u.op
  BY <1>5 DEF ClientType
<1> HIDE DEF r
<1>11. CommandOf(r)
  BY <1>1, <1>5, <1>6, <1>10 DEF CommandOf
<1>12. Present(item') = Present(item) \cup {m}
  BY <1>2, <1>4, OneOf, PresentOf
<1>13. /\ IsFiniteSet(Present(item'))
       /\ Cardinality(Present(item')) =
            IF m \in Present(item) THEN Cardinality(Present(item)) ELSE Cardinality(Present(item)) + 1
  BY <1>12, OneOf, FS_AddElement
<1>14. item'.cnt = item.cnt /\ item'.t = item.t /\ item'.exp = item.exp
  BY <1>2, OneOf DEF Put, ItemType
<1>15. KeyOf(type)'
  BY <1>3, <1>13, <1>14 DEF CountInv, KeyOf, Present
<1>16. ShareOf(r) = n /\ ShareOf(cl[c]) = u.n
  BY <1>1, <1>3, <1>5, <1>10 DEF ShareOf
<1>17. item'.cnt + ShareOf(r) - Cardinality(Present(item'))
         >= item.cnt + ShareOf(cl[c]) - Cardinality(Present(item))
  <2>1. item.cnt \in Int /\ Cardinality(Present(item)) \in Nat
    BY OneOf
  <2> QED
    BY <1>4, <1>9, <1>13, <1>14, <1>16, <2>1
<1> QED
  BY <1>7, <1>10, <1>11, <1>15, <1>17, OneMoves

\* A delete that found the member is owed for one member less.
LEMMA RemoveCounts ==
  ASSUME NEW type, CountInv(type), TypeInv', NEW c \in Clients, RemoveMember(c)
  PROVE  CountInv(type)'
<1>1. PICK u \in ClientType : u = cl[c] /\ CommandOf(u)
  BY OneOf
<1>2. PICK m \in u.args :
        LET there == item.data[m] # Gone
            rest == u.args \ {m}
        IN  /\ item' = Remove(item, {m})
            /\ cl' = [cl EXCEPT ![c].args = rest,
                                ![c].n = IF there THEN @ - 1 ELSE @,
                                ![c].pc = IF rest = {} THEN "adjust" ELSE "remove"]
  BY <1>1 DEF RemoveMember
<1>3. u.pc = "remove" /\ UNCHANGED <<queued, worker>>
  BY <1>1 DEF RemoveMember, At, ClientStep, bgVars
<1>4. m \in Members /\ m \in SK /\ u.args \subseteq Members /\ u.n \in Int
  BY DEF ClientType, SK
<1> DEFINE there == item.data[m] # Gone
           rest == u.args \ {m}
           n == IF there THEN u.n - 1 ELSE u.n
           label == IF rest = {} THEN "adjust" ELSE "remove"
           r == [u EXCEPT !.args = rest, !.n = n, !.pc = label]
<1>5. rest \in SUBSET Members /\ n \in Int /\ label \in Labels /\ label \in {"adjust", "remove"}
  BY <1>4 DEF Labels
<1>7. cl' = [cl EXCEPT ![c] = r]
  BY <1>1, <1>2, OneOf
<1>8. there <=> m \in Present(item)
  BY <1>4, OneOf DEF Present, ItemType
<1>9. n = IF m \in Present(item) THEN u.n - 1 ELSE u.n
  BY <1>8
<1> HIDE DEF there, n, label, rest
<1>10. /\ r \in ClientType /\ r.pc = label /\ r.n = n /\ r.args = rest /\ r.op = u.op
  BY <1>5 DEF ClientType
<1> HIDE DEF r
<1>11. CommandOf(r)
  BY <1>1, <1>5, <1>10 DEF CommandOf
<1>12. Present(item') = Present(item) \ {m}
  BY <1>2, OneOf, PresentOf
<1>13. /\ IsFiniteSet(Present(item'))
       /\ Cardinality(Present(item')) =
            IF m \in Present(item) THEN Cardinality(Present(item)) - 1 ELSE Cardinality(Present(item))
  BY <1>12, OneOf, FS_RemoveElement, SMTT(20), ZenonT(30)
<1>14. item'.cnt = item.cnt /\ item'.t = item.t /\ item'.exp = item.exp
  BY <1>2, OneOf DEF Remove, ItemType
<1>15. KeyOf(type)'
  BY <1>3, <1>13, <1>14 DEF CountInv, KeyOf, Present
<1>16. ShareOf(r) = n /\ ShareOf(cl[c]) = u.n
  BY <1>1, <1>3, <1>5, <1>10 DEF ShareOf
<1>17. item'.cnt + ShareOf(r) - Cardinality(Present(item'))
         >= item.cnt + ShareOf(cl[c]) - Cardinality(Present(item))
  <2>1. item.cnt \in Int /\ Cardinality(Present(item)) \in Nat
    BY OneOf
  <2> QED
    BY <1>4, <1>9, <1>13, <1>14, <1>16, <2>1
<1> QED
  BY <1>7, <1>10, <1>11, <1>15, <1>17, OneMoves

\* adjustCount pays what the command owes.
LEMMA AdjustCounts ==
  ASSUME NEW type \in Types, CountInv(type), TypeInv', NEW c \in Clients, AdjustStep(c, type)
  PROVE  CountInv(type)'
<1>1. PICK u \in ClientType : u = cl[c] /\ CommandOf(u)
  BY OneOf
<1>2. u.pc = "adjust" /\ u.n \in Int /\ UNCHANGED <<queued, worker>>
  BY <1>1 DEF AdjustStep, At, ClientStep, bgVars, ClientType
<1>3. TypeAllows(item, type)
  BY OneOf DEF TypeAllows
<1> DEFINE after == EnsureType(item, type, u.n)
<1>4. CASE u.n = 0
  <2>1. Return(c) /\ UNCHANGED item
    BY <1>1, <1>4 DEF AdjustStep
  <2> QED
    BY <1>1, <1>2, <1>4, <2>1, Returns
<1>5. CASE u.n # 0
  <2>1. /\ item' = after
        /\ IF u.n < 0 /\ after.cnt <= 0 THEN Goto(c, "drop") ELSE Return(c)
    BY <1>1, <1>3, <1>5 DEF AdjustStep
  <2>2. /\ item'.t = type /\ item'.exp = 0 /\ item'.cnt = item.cnt + u.n /\ item'.data = item.data
        /\ item' \in ItemType
    BY <2>1, OneOf DEF EnsureType, TypeInv, TypeOK, CoreTypeOK
  <2> HIDE DEF after
  <2>3. Present(item') = Present(item)
    BY <2>2, OneOf, PresentOf
  <2>4. KeyOf(type)'
    BY <1>2, <2>2, <2>3, ConstantsAssumption DEF CountInv, KeyOf, Present
  <2>5. ShareOf(cl[c]) = u.n
    BY <1>1, <1>2 DEF ShareOf
  <2>6. ASSUME NEW r \in ClientType, ShareOf(r) = 0
        PROVE  item'.cnt + ShareOf(r) - Cardinality(Present(item'))
                 >= item.cnt + ShareOf(cl[c]) - Cardinality(Present(item))
    BY <1>2, <2>2, <2>3, <2>5, <2>6, OneOf
  <2>7. CASE Return(c)
    BY <2>4, <2>6, <2>7, IdleOwes, OneMoves DEF Return
  <2>8. CASE Goto(c, "drop")
    <3> DEFINE r == [u EXCEPT !.pc = "drop"]
    <3>1. r \in ClientType
      BY DEF ClientType, Labels
    <3>2. r.pc = "drop" /\ r.op = u.op
      BY DEF ClientType
    <3>3. cl' = [cl EXCEPT ![c] = r]
      BY <1>1, <2>8 DEF Goto
    <3> HIDE DEF r
    <3>4. CommandOf(r) /\ ShareOf(r) = 0
      BY <1>1, <3>2 DEF CommandOf, ShareOf
    <3> QED
      BY <2>4, <2>6, <3>1, <3>3, <3>4, OneMoves
  <2> QED
    BY <2>1, <2>7, <2>8
<1> QED
  BY <1>2, <1>4, <1>5

\* DeleteMetaIfEmpty removes a count of zero or less.
LEMMA DropCounts ==
  ASSUME NEW type, CountInv(type), TypeInv', NEW c \in Clients, DropIfEmptyStep(c)
  PROVE  CountInv(type)'
<1>1. At(c, "drop") /\ item' = DeleteMetaIfEmpty(item) /\ Return(c) /\ UNCHANGED <<queued, worker>>
  BY DEF DropIfEmptyStep, ClientStep, bgVars
<1>2. /\ item' \in ItemType /\ item'.data = item.data /\ item'.cnt \in Int /\ item'.cnt >= item.cnt
      /\ item'.t \in {NoType, type} /\ item'.exp = 0 /\ (item'.t = NoType => item'.cnt <= 0)
  <2>1. item' \in ItemType
    BY DEF TypeInv, TypeOK, CoreTypeOK
  <2>2. CASE item.cnt <= 0
    BY <1>1, <2>1, <2>2, OneOf DEF DeleteMetaIfEmpty, NoMeta, Claimed
  <2>3. CASE ~(item.cnt <= 0)
    BY <1>1, <2>1, <2>3, OneOf DEF DeleteMetaIfEmpty, CountInv, KeyOf
  <2> QED
    BY <2>2, <2>3
<1>3. Present(item') = Present(item)
  BY <1>2, OneOf, PresentOf
<1>4. KeyOf(type)'
  BY <1>1, <1>2, <1>3 DEF CountInv, KeyOf, Present
<1>5. ShareOf(cl[c]) = 0
  BY <1>1 DEF At, ShareOf
<1>6. item'.cnt + ShareOf(Idle) - Cardinality(Present(item'))
        >= item.cnt + ShareOf(cl[c]) - Cardinality(Present(item))
  BY <1>2, <1>3, <1>5, IdleOwes, OneOf
<1> QED
  BY <1>1, <1>4, <1>6, IdleOwes, OneMoves DEF Return

LEMMA IncrReadCounts ==
  ASSUME NEW type, CountInv(type), TypeInv', NEW c \in Clients, NEW f \in Members, IncrRead(c, f)
  PROVE  CountInv(type)'
<1>1. PICK u \in ClientType : u = cl[c] /\ CommandOf(u)
  BY OneOf
<1>2. u.pc = "read" /\ u.n = 0 /\ UNCHANGED <<item, queued, worker>>
  BY <1>1 DEF IncrRead, At, CommandOf, LocalStep, ClientStep, bgVars
<1> DEFINE next == Base(item.data[f]) + 1
<1>3. CASE next \notin Vals
  <2>1. Return(c)
    BY <1>3 DEF IncrRead
  <2> QED
    BY <1>1, <1>2, <2>1, Returns
<1>4. CASE next \in Vals
  <2> DEFINE seen == item.data[f]
             r == [u EXCEPT !.pc = "cas", !.seen = seen, !.val = next]
  <2>1. cl' = [cl EXCEPT ![c] = r]
    BY <1>1, <1>4, OneOf DEF IncrRead
  <2>2. seen \in Vals \cup {Gone} /\ "cas" \in Labels
    BY OneOf DEF ItemType, SK, Labels
  <2> HIDE DEF seen, next
  <2>3. r \in ClientType /\ r.pc = "cas" /\ r.op = u.op /\ r.n = u.n /\ r.args = u.args
    BY <1>4, <2>2 DEF ClientType
  <2> HIDE DEF r
  <2>4. CommandOf(r) /\ r.n = 0
    BY <1>1, <1>2, <2>3 DEF CommandOf
  <2> QED
    BY <1>1, <1>2, <2>1, <2>3, <2>4, OneMovesQuietly
<1> QED
  BY <1>3, <1>4

LEMMA AdjustRecord ==
  ASSUME NEW u \in ClientType
  PROVE  LET r == [u EXCEPT !.pc = "adjust", !.n = 1]
         IN  r \in ClientType /\ r.pc = "adjust" /\ r.op = u.op /\ r.n = 1
<1>1. "adjust" \in Labels
  BY DEF Labels
<1>2. PICK one \in Int : one = 1
  OBVIOUS
<1>3. [u EXCEPT !.pc = "adjust", !.n = one] \in ClientType
  BY <1>1 DEF ClientType
<1> QED
  BY <1>2, <1>3 DEF ClientType

\* HINCRBY's compare-and-set: the attempt that creates the field owes one.
LEMMA CompareAndSetCounts ==
  ASSUME NEW type, CountInv(type), TypeInv', NEW c \in Clients, NEW f \in Members,
         CompareAndSet(c, "cas", "read", f)
  PROVE  CountInv(type)'
<1>1. PICK u \in ClientType : u = cl[c] /\ CommandOf(u)
  BY OneOf
<1>2. u.pc = "cas" /\ u.n = 0 /\ UNCHANGED <<queued, worker>>
  BY <1>1 DEF CompareAndSet, At, CommandOf, ClientStep, bgVars
<1>3. f \in SK /\ u.val \in Vals /\ u.tries \in Nat
  <2>1. u.val \in Vals
    BY <1>1, <1>2 DEF CountInv, TypeInv, Client, ClientInv
  <2> QED
    BY <2>1 DEF SK, ClientType
<1>4. CASE item.data[f] = u.seen
  <2>1. /\ item' = Put(item, f, u.val)
        /\ IF u.seen = Gone THEN cl' = [cl EXCEPT ![c].pc = "adjust", ![c].n = 1] ELSE Return(c)
    BY <1>1, <1>4 DEF CompareAndSet
  <2>2. Present(item') = Present(item) \cup {f}
    BY <1>3, <2>1, OneOf, PresentOf
  <2>3. /\ IsFiniteSet(Present(item'))
        /\ Cardinality(Present(item')) =
             IF f \in Present(item) THEN Cardinality(Present(item)) ELSE Cardinality(Present(item)) + 1
    BY <2>2, OneOf, FS_AddElement
  <2>4. item'.cnt = item.cnt /\ item'.t = item.t /\ item'.exp = item.exp
    BY <2>1, OneOf DEF Put, ItemType
  <2>5. KeyOf(type)'
    BY <1>2, <2>3, <2>4 DEF CountInv, KeyOf, Present
  <2>6. ShareOf(cl[c]) = 0
    BY <1>1, <1>2 DEF ShareOf
  <2>7. f \in Present(item) <=> u.seen # Gone
    BY <1>3, <1>4, OneOf DEF Present, ItemType
  <2>8. CASE u.seen = Gone
    <3> DEFINE r == [u EXCEPT !.pc = "adjust", !.n = 1]
    <3>1. r \in ClientType /\ r.pc = "adjust" /\ r.op = u.op /\ r.n = 1
      BY AdjustRecord
    <3>2. cl' = [cl EXCEPT ![c] = r]
      BY <1>1, <2>1, <2>8, OneOf
    <3> HIDE DEF r
    <3>3. CommandOf(r) /\ ShareOf(r) = 1
      BY <1>1, <3>1 DEF CommandOf, ShareOf
    <3>4. item'.cnt + ShareOf(r) - Cardinality(Present(item'))
            >= item.cnt + ShareOf(cl[c]) - Cardinality(Present(item))
      BY <2>3, <2>4, <2>6, <2>7, <2>8, <3>3, OneOf
    <3> QED
      BY <2>5, <3>1, <3>2, <3>3, <3>4, OneMoves
  <2>9. CASE u.seen # Gone
    <3>1. item'.cnt + ShareOf(Idle) - Cardinality(Present(item'))
            >= item.cnt + ShareOf(cl[c]) - Cardinality(Present(item))
      BY <2>3, <2>4, <2>6, <2>7, <2>9, IdleOwes, OneOf
    <3> QED
      BY <2>1, <2>5, <2>9, <3>1, IdleOwes, OneMoves DEF Return
  <2> QED
    BY <2>8, <2>9
<1>5. CASE item.data[f] # u.seen
  <2>1. /\ UNCHANGED item
        /\ \/ cl' = [cl EXCEPT ![c].pc = "read", ![c].tries = @ + 1]
           \/ Return(c)
    BY <1>1, <1>5 DEF CompareAndSet
  <2>2. CASE cl' = [cl EXCEPT ![c].pc = "read", ![c].tries = @ + 1]
    <3>4. PICK tries \in Nat : tries = u.tries + 1
      BY <1>3
    <3> DEFINE r == [u EXCEPT !.pc = "read", !.tries = tries]
    <3>1. r \in ClientType /\ r.pc = "read" /\ r.op = u.op /\ r.n = u.n
      <4>1. "read" \in Labels
        BY DEF Labels
      <4>2. u \in ClientType /\ tries \in Nat
        BY <1>1, <3>4
      <4> QED
        BY <4>1, <4>2 DEF ClientType
    <3>2. cl' = [cl EXCEPT ![c] = r]
      BY <1>1, <2>2, <3>4, OneOf
    <3> HIDE DEF r
    <3>3. CommandOf(r) /\ r.n = 0
      BY <1>1, <1>2, <3>1 DEF CommandOf
    <3> QED
      BY <1>1, <1>2, <2>1, <3>1, <3>2, <3>3, OneMovesQuietly
  <2>3. CASE Return(c)
    BY <1>1, <1>2, <2>1, <2>3, Returns
  <2> QED
    BY <2>1, <2>2, <2>3
<1> QED
  BY <1>4, <1>5

\* HSETNX over a field that is there.
LEMMA FieldThereCounts ==
  ASSUME NEW type, CountInv(type), TypeInv', NEW c \in Clients, cl[c].op = "hsetnx",
         FieldThere(c), Return(c), LocalStep
  PROVE  CountInv(type)'
<1>1. cl[c].n = 0
  BY OneOf DEF CommandOf, FieldThere, At
<1>2. UNCHANGED <<item, queued, worker>>
  BY DEF LocalStep, ClientStep, bgVars
<1> QED
  BY <1>1, <1>2, Returns

-----------------------------------------------------------------------------
(***************************************************************************)
(* Which steps there are.                                                  *)
(***************************************************************************)
\* A command that counts takes its steps from these.
CountedStep(c, type) ==
    \/ \E next \in {"remove", "choose"} : LoadState(c, type, next)
    \/ ChooseMembers(c)
    \/ \E next \in {"write", "read"} : EnsureTypeExpiringStep(c, type, next)
    \/ cl[c].op \in Writers /\ WriteMember(c, TRUE)
    \/ RemoveMember(c)
    \/ AdjustStep(c, type)
    \/ DropIfEmptyStep(c)
    \/ \E f \in Members : IncrRead(c, f) \/ CompareAndSet(c, "cas", "read", f)
    \/ cl[c].op = "hsetnx" /\ FieldThere(c) /\ Return(c) /\ LocalStep

LEMMA StepOfCounted ==
  ASSUME NEW type, CountInv(type), NEW c \in Clients, Continue(c)
  PROVE  CountedStep(c, type)
<1>1. /\ cl[c].op = "none" \/ CountsFor(cl[c].op, type)
      /\ ~At(c, "list") /\ ~At(c, "reclaim")
      /\ cl[c].args \subseteq Members
  BY OneOf DEF CountInv, Counted, CommandOf, At, ClientType
<1>2. ~DeleteMembersSteps(c)
  BY <1>1 DEF DeleteMembersSteps, ListStep, ReclaimStep
<1>3. ~KeyCommand(c) /\ ~StringCommand(c)
  BY <1>1 DEF CountsFor, KeyCommand, Del, Expire, PersistCmd, StringCommand, SetCmd, SetNXOpt, SetNX,
              GetSet, Incr, AppendCmd
<1>4. ASSUME AddMembers(c, type, TRUE), cl[c].op \in Writers
      PROVE  CountedStep(c, type)
  BY <1>2, <1>4 DEF AddMembers, AdjustCountSteps, CountedStep
<1>5. ASSUME TakeMembers(c, type) \/ PickMembers(c, type)
      PROVE  CountedStep(c, type)
  BY <1>5 DEF TakeMembers, PickMembers, AdjustCountSteps, CountedStep
<1>6. CASE SetCommand(c)
  <2>1. type = TSet /\ (SAdd(c) \/ SRem(c) \/ SPop(c))
    BY <1>1, <1>6 DEF CountsFor, SetCommand, SAdd, SRem, SPop, SStore
  <2> QED
    BY <1>4, <1>5, <2>1 DEF SAdd, SRem, SPop, Writers
<1>7. CASE HashCommand(c)
  <2>1. type = THash
    BY <1>1, <1>7 DEF CountsFor, HashCommand, HSet, HSetNX, HDel, HIncr
  <2>2. CASE HSet(c) \/ HSetNX(c) \/ HDel(c)
    BY <1>4, <1>5, <2>1, <2>2 DEF HSet, HSetNX, HDel, Writers, CountedStep
  <2>3. CASE HIncr(c)
    BY <1>1, <1>2, <2>1, <2>3 DEF HIncr, AdjustCountSteps, CountedStep
  <2> QED
    BY <1>7, <2>2, <2>3 DEF HashCommand
<1>8. CASE ZSetCommand(c)
  <2>1. type = TZSet /\ (ZAdd(c) \/ ZRem(c) \/ ZRemRange(c))
    BY <1>1, <1>8 DEF CountsFor, ZSetCommand, ZAdd, ZAddFlag, ZIncr, ZRem, ZRemRange, ZStore, Flags,
                      ZIncrOps
  <2> QED
    BY <1>4, <1>5, <2>1 DEF ZAdd, ZRem, ZRemRange, Writers
<1> QED
  BY <1>3, <1>6, <1>7, <1>8 DEF Continue

LEMMA CountedStepCounts ==
  ASSUME NEW type \in Types, CountInv(type), TypeInv', NEW c \in Clients, CountedStep(c, type)
  PROVE  CountInv(type)'
BY LoadStateCounts, ChooseCounts, EnsureCounts, WriteCounts, RemoveCounts, AdjustCounts, DropCounts,
   IncrReadCounts, CompareAndSetCounts, FieldThereCounts
   DEF CountedStep

\* A command that counts begins with nothing counted.
LEMMA StartCounts ==
  ASSUME NEW type, CountInv(type), TypeInv', NEW c \in Clients, Start(c)
  PROVE  CountInv(type)'
<1>1. \A op \in Commands : CountsFor(op, type)
  BY DEF CountInv, Counted
<1>2. ASSUME NEW rec \in ClientType, Begin(c, rec), CommandOf(rec), rec.n = 0
      PROVE  CountInv(type)'
  <2>1. cl[c].n = 0
    BY <1>2, OneOf DEF Begin, At, CommandOf
  <2> QED
    BY <1>2, <2>1, OneMovesQuietly DEF Begin, bgVars
<1>3. \A op \in Commands : op \in Ops
  BY <1>1 DEF CountsFor, Ops
<1>4. Idle \in ClientType /\ Idle.n = 0 /\ {"load", "ensure"} \subseteq Labels
  BY IdleOwes DEF Labels
\* The first records there are: those of the commands with no operand, with the
\* members they name, and with the value they write.
<1>5. ASSUME NEW op \in Commands, op # "hsetnx", NEW pc \in {"load", "ensure"},
             Begin(c, [Idle EXCEPT !.op = op, !.pc = pc])
      PROVE  CountInv(type)'
  <2> DEFINE rec == [Idle EXCEPT !.op = op, !.pc = pc]
  <2>1. rec \in ClientType /\ rec.op = op /\ rec.pc = pc /\ rec.n = 0
    BY <1>3, <1>4, <1>5 DEF ClientType
  <2>2. Begin(c, rec)
    BY <1>5
  <2> HIDE DEF rec
  <2>3. CommandOf(rec)
    BY <1>5, <2>1 DEF CommandOf
  <2> QED
    BY <1>2, <2>1, <2>2, <2>3
<1>6. ASSUME NEW op \in Commands, op # "hsetnx", NEW pc \in {"load", "ensure"},
             NEW ms \in SUBSET Members, Begin(c, [Idle EXCEPT !.op = op, !.pc = pc, !.args = ms])
      PROVE  CountInv(type)'
  <2> DEFINE rec == [Idle EXCEPT !.op = op, !.pc = pc, !.args = ms]
  <2>1. rec \in ClientType /\ rec.op = op /\ rec.pc = pc /\ rec.n = 0
    BY <1>3, <1>4, <1>6 DEF ClientType
  <2>2. Begin(c, rec)
    BY <1>6
  <2> HIDE DEF rec
  <2>3. CommandOf(rec)
    BY <1>6, <2>1 DEF CommandOf
  <2> QED
    BY <1>2, <2>1, <2>2, <2>3
<1>7. ASSUME NEW op \in Commands, NEW pc \in {"load", "ensure"}, NEW ms \in SUBSET Members,
             NEW v \in Vals, op = "hsetnx" => \A f, g \in ms : f = g,
             Begin(c, [Idle EXCEPT !.op = op, !.pc = pc, !.args = ms, !.val = v])
      PROVE  CountInv(type)'
  <2> DEFINE rec == [Idle EXCEPT !.op = op, !.pc = pc, !.args = ms, !.val = v]
  <2>1. rec \in ClientType /\ rec.op = op /\ rec.pc = pc /\ rec.n = 0 /\ rec.args = ms
    BY <1>3, <1>4, <1>7 DEF ClientType
  <2>2. Begin(c, rec)
    BY <1>7
  <2> HIDE DEF rec
  <2>3. CommandOf(rec)
    BY <1>7, <2>1 DEF CommandOf
  <2> QED
    BY <1>2, <2>1, <2>2, <2>3
<1>8. ~KeyStart(c) /\ ~StringCommandStart(c, Commands)
  BY <1>1 DEF CountsFor, KeyStart, StringCommandStart
<1>9. CASE SetCommandStart(c, Commands)
  <2>1. CASE "sadd" \in Commands /\ SAddStart(c)
    BY <1>7, <2>1, ItemsAssumption DEF SAddStart, InSet
  <2>2. CASE "srem" \in Commands /\ SRemStart(c)
    BY <1>6, <2>2 DEF SRemStart
  <2>3. CASE "spop" \in Commands /\ SPopStart(c)
    BY <1>5, <2>3 DEF SPopStart
  <2>4. "sstore" \notin Commands
    BY <1>1 DEF CountsFor
  <2> QED
    BY <1>9, <2>1, <2>2, <2>3, <2>4 DEF SetCommandStart
<1>10. CASE HashCommandStart(c, Commands)
  <2>1. CASE "hset" \in Commands /\ HSetStart(c)
    BY <1>7, <2>1 DEF HSetStart
  <2>2. CASE "hsetnx" \in Commands /\ HSetNXStart(c)
    <3>1. PICK f \in Members, v \in Vals :
            Begin(c, [Idle EXCEPT !.op = "hsetnx", !.pc = "ensure", !.args = {f}, !.val = v])
      BY <2>2 DEF HSetNXStart
    <3>2. {f} \in SUBSET Members /\ \A g, h \in {f} : g = h
      OBVIOUS
    <3> QED
      BY <1>7, <2>2, <3>1, <3>2
  <2>3. CASE "hdel" \in Commands /\ HDelStart(c)
    BY <1>6, <2>3 DEF HDelStart
  <2>4. CASE "hincr" \in Commands /\ HIncrStart(c)
    <3>1. PICK f \in Members : Begin(c, [Idle EXCEPT !.op = "hincr", !.pc = "ensure", !.args = {f}])
      BY <2>4 DEF HIncrStart
    <3>2. {f} \in SUBSET Members
      OBVIOUS
    <3> QED
      BY <1>6, <2>4, <3>1, <3>2
  <2> QED
    BY <1>10, <2>1, <2>2, <2>3, <2>4 DEF HashCommandStart
<1>11. CASE ZSetCommandStart(c, Commands)
  <2>1. CASE "zadd" \in Commands /\ ZAddStart(c)
    BY <1>7, <2>1, ItemsAssumption DEF ZAddStart, Scored
  <2>2. CASE "zrem" \in Commands /\ ZRemStart(c)
    BY <1>6, <2>2 DEF ZRemStart
  <2>3. CASE "zremrange" \in Commands /\ ZRemRangeStart(c)
    BY <1>5, <2>3 DEF ZRemRangeStart
  <2>4. "zstore" \notin Commands /\ Commands \cap Flags = {} /\ Commands \cap ZIncrOps = {}
    BY <1>1 DEF CountsFor, Flags, ZIncrOps
  <2> QED
    BY <1>11, <2>1, <2>2, <2>3, <2>4 DEF ZSetCommandStart
<1> QED
  BY <1>8, <1>9, <1>10, <1>11 DEF Start

\* Nobody moves, and members may go.
LEMMA BackgroundCounts ==
  ASSUME NEW type, CountInv(type), TypeInv', Work \/ Mishap \/ UNCHANGED vars
  PROVE  CountInv(type)'
<1>1. /\ queued = 0 /\ worker = AtRest /\ faults = 0 /\ MaxFaults = 0
      /\ item.t \in {NoType, type} /\ item.exp = 0 /\ (item.t = NoType => item.cnt <= 0)
      /\ IsFiniteSet(Present(item))
  BY DEF CountInv, Counted, KeyOf, TypeInv, TypeOK, CoreTypeOK
<1>2. ~Faults
  BY <1>1 DEF Faults, WorkerIsLiveError, WorkerFail, NativeTTL, Crash, CommandFails, InlineFails
<1>3. ~WorkerSteps
  BY <1>1 DEF WorkerSteps, Dequeue, WorkerIsLive, WorkerList, WorkerReclaim, AtRest
<1>4. /\ UNCHANGED <<cl, queued, worker>>
      /\ UNCHANGED item \/ \E listed : item' = Remove(item, listed)
  BY <1>2, <1>3 DEF Work, Mishap, Background, Tick, SweepSteps, SweepScan, SweepReclaim, vars, coreVars,
                    bgVars
<1>5. /\ item'.t = item.t /\ item'.exp = item.exp /\ item'.cnt = item.cnt
      /\ Present(item') \subseteq Present(item)
  <2>1. item \in ItemType
    BY DEF CountInv, TypeInv, TypeOK, CoreTypeOK
  <2>2. CASE UNCHANGED item
    BY <2>2
  <2>3. ASSUME NEW listed, item' = Remove(item, listed)
        PROVE  /\ item'.t = item.t /\ item'.exp = item.exp /\ item'.cnt = item.cnt
               /\ Present(item') \subseteq Present(item)
    <3>1. Present(item') = Present(item) \ listed
      BY <2>1, <2>3, PresentOf
    <3> QED
      BY <2>1, <2>3, <3>1 DEF Remove, ItemType
  <2> QED
    BY <1>4, <2>2, <2>3
<1>6. IsFiniteSet(Present(item')) /\ Cardinality(Present(item')) <= Cardinality(Present(item))
  BY <1>1, <1>5, FS_Subset
<1>7. KeyOf(type)'
  BY <1>1, <1>4, <1>5, <1>6 DEF KeyOf, Present
<1>8. CountCoversMembers'
  <2>1. /\ Cardinality(Present(item)) \in Nat /\ Cardinality(Present(item')) \in Nat
        /\ item.cnt \in Int
    BY <1>1, <1>6, FS_CardinalityType DEF CountInv, TypeInv, TypeOK, CoreTypeOK, ItemType
  <2>2. PICK owed : owed = Owed /\ owed = Owed'
    BY <1>4 DEF Owed, Share, Tally, At
  <2>3. owed \in Int
    BY <2>2, OwedType DEF CountInv, TypeInv, TypeOK, CoreTypeOK
  <2>4. item.cnt + owed >= Cardinality(Present(item))
    BY <2>2 DEF CountInv, CountCoversMembers
  <2>5. item'.cnt + owed >= Cardinality(Present(item'))
    BY <1>5, <1>6, <2>1, <2>3, <2>4
  <2> QED
    BY <2>2, <2>5 DEF CountCoversMembers, Present
<1>9. \A c \in Clients : CommandOf(cl'[c])
  BY <1>4 DEF CountInv
<1> QED
  BY <1>7, <1>8, <1>9 DEF CountInv, Counted

LEMMA CountInit ==
  ASSUME NEW type, Counted(type), Init
  PROVE  CountInv(type)
<1>1. /\ cl = [c \in Clients |-> Idle] /\ item.cnt = 0 /\ item.t = NoType /\ item.exp = 0
      /\ queued = 0 /\ worker = AtRest
  BY DEF Init, CoreInit, Absent
<1>2. Present(item) = {}
  BY DEF Init, CoreInit, Absent, Present
<1>3. IsFiniteSet(Present(item)) /\ Cardinality(Present(item)) = 0
  BY <1>2, FS_EmptySet
<1>4. Owed = 0
  BY <1>1, NobodyOwes, IdleOwes
<1>5. \A c \in Clients : CommandOf(cl[c])
  BY <1>1, IdleOwes
<1>6. CountCoversMembers
  BY <1>1, <1>3, <1>4 DEF CountCoversMembers
<1> QED
  BY <1>1, <1>3, <1>5, <1>6, TypeInit DEF CountInv, KeyOf

LEMMA CountStep ==
  ASSUME NEW type \in Types, CountInv(type), [Next]_vars
  PROVE  CountInv(type)'
<1>1. TypeInv'
  BY TypeStep DEF CountInv
<1>2. ASSUME NEW c \in Clients, Start(c)
      PROVE  CountInv(type)'
  BY <1>1, <1>2, StartCounts
<1>3. ASSUME NEW c \in Clients, Continue(c)
      PROVE  CountInv(type)'
  BY <1>1, <1>3, StepOfCounted, CountedStepCounts
<1>4. CASE Work \/ Mishap \/ UNCHANGED vars
  BY <1>1, <1>4, BackgroundCounts
<1> QED
  BY <1>2, <1>3, <1>4 DEF Next

\* Commands of one type, whatever the connections and the order of their calls: what the
\* count says, and what the commands in flight will still add to it, is never less than
\* the number of members that are there.
THEOREM CountCovers ==
  ASSUME NEW type \in Types, Counted(type)
  PROVE  Spec => []CountCoversMembers
<1>1. Init => CountInv(type)
  BY CountInit
<1>2. CountInv(type) /\ [Next]_vars => CountInv(type)'
  BY CountStep
<1>3. CountInv(type) => CountCoversMembers
  BY DEF CountInv
<1> QED
  BY <1>1, <1>2, <1>3, PTL DEF Spec

\* Hence DeleteMetaIfEmpty hides no member: when the commands are done, a key that has
\* members has its meta item.
THEOREM MembersNotStranded ==
  ASSUME NEW type \in Types, Counted(type)
  PROVE  Spec => []NoStrandedMember
<1>1. Init => CountInv(type)
  BY CountInit
<1>2. CountInv(type) /\ [Next]_vars => CountInv(type)'
  BY CountStep
<1>3. CountInv(type) => NoStrandedMember
  <2> SUFFICES ASSUME CountInv(type), AllIdle, Present(item) # {}
               PROVE  HasMeta(item)
    BY DEF NoStrandedMember, Settled
  <2>1. \A c \in Clients : cl[c] \in ClientType /\ ShareOf(cl[c]) = 0
    BY OneOf DEF CommandOf, AllIdle, At, ShareOf
  <2>2. Owed = 0
    BY <2>1, NobodyOwes
  <2>3. IsFiniteSet(Present(item)) /\ item.cnt \in Int /\ (item.t = NoType => item.cnt <= 0)
    BY DEF CountInv, TypeInv, TypeOK, CoreTypeOK, KeyOf, ItemType
  <2>4. Cardinality(Present(item)) \in Nat /\ Cardinality(Present(item)) # 0
    BY <2>3, FS_CardinalityType, FS_EmptySet
  <2>5. item.cnt >= Cardinality(Present(item))
    BY <2>2, <2>3 DEF CountInv, CountCoversMembers
  <2> QED
    BY <2>3, <2>4, <2>5 DEF HasMeta
<1> QED
  BY <1>1, <1>2, <1>3, PTL DEF Spec
=============================================================================
