----------------------------- MODULE TableProofs -----------------------------
(***************************************************************************)
(* Theorems about Table where connections overlap and calls fail, for any  *)
(* number of keys, connections, commands and failures.  No key expires     *)
(* there, so no call reclaims.  Each element is followed through the lists *)
(* and the hands of the commands.                                          *)
(***************************************************************************)
EXTENDS Table, SequenceTheorems, FiniteSetTheorems, TLAPS

(***************************************************************************)
(* Types.                                                                  *)
(***************************************************************************)
KeyTypes == {NoType, TList, TSet, TStr}
Data == [list : Seq(Nat), set : SUBSET Nat, str : Nat \cup {Gone}]
KeyRec == [t : KeyTypes, exp : {0, 2}, cnt : Int, data : Data]

Pushes == {"lpush", "rpush"}
Pops == {"lpop", "rpop"}
Others == {"live", "type", "absent", "ismember", "ensure", "count", "drop", "persist",
           "srem", "sadd", "setstring"}
CallRec == [call : Pushes \cup Pops \cup Others, key : Keys, type : KeyTypes]
OtherRec == [call : Others, key : Keys, type : KeyTypes]

PushOps == {"lpush", "rpush", "lpushx", "rpushx"}
OverlapOps == PushOps \cup {"none", "lpop", "rpop", "rpoplpush", "smove", "msetnx"}
Command == [op : OverlapOps, keys : Seq(Keys), elem : Nat, new : Nat, lo : Int, hi : Int, big : BOOLEAN]
Hand == {h \in Seq(Nat) : Len(h) <= 1}
ClientRec == [cmd : Command, steps : Seq(CallRec), hand : Hand, n : Int, cnt : Int,
              all : Seq(Nat), sets : {<<>>}, lst : {NoData}]

LEMMA OneItem ==
  ASSUME NEW Any, NEW x \in Any
  PROVE  <<x>> \in Seq(Any) /\ Len(<<x>>) = 1 /\ <<x>>[1] = x
OBVIOUS

LEMMA HandTypes ==
  /\ <<>> \in Hand
  /\ \A x \in Nat : <<x>> \in Hand
<1>1. <<>> \in Hand
  BY EmptySeq DEF Hand
<1>2. \A x \in Nat : <<x>> \in Hand
  BY OneItem DEF Hand
<1> QED
  BY <1>1, <1>2

LEMMA FirstOfThree == \A a, b, d : SubSeq(<<a, b, d>>, 1, 1) = <<a>>
<1>. SUFFICES ASSUME NEW a, NEW b, NEW d
     PROVE  SubSeq(<<a, b, d>>, 1, 1) = <<a>>
  OBVIOUS
<1>1. <<a, b, d>> \in Seq({a, b, d}) /\ Len(<<a, b, d>>) = 3 /\ <<a, b, d>>[1] = a
  OBVIOUS
<1>2. /\ SubSeq(<<a, b, d>>, 1, 1) \in Seq({a, b, d})
      /\ Len(SubSeq(<<a, b, d>>, 1, 1)) = 1
      /\ SubSeq(<<a, b, d>>, 1, 1)[1] = a
  BY <1>1, SubSeqProperties
<1>3. <<a>> \in Seq({a, b, d}) /\ Len(<<a>>) = 1 /\ <<a>>[1] = a
  OBVIOUS
<1>4. \A i \in 1 .. Len(<<a>>) : SubSeq(<<a, b, d>>, 1, 1)[i] = <<a>>[i]
  BY <1>2, <1>3
<1> QED
  BY <1>2, <1>3, <1>4, SeqEqual, Zenon

(***************************************************************************)
(* The calls a command has left: it pops once at most, and pushes once at  *)
(* most, after that; a command that pushes its argument pops nothing.      *)
(***************************************************************************)
PushAt(r) == {i \in 1 .. Len(r.steps) : r.steps[i].call \in Pushes}
PopAt(r) == {i \in 1 .. Len(r.steps) : r.steps[i].call \in Pops}
Orderly(r) ==
    /\ \A i, j \in PushAt(r) : i = j
    /\ \A i, j \in PopAt(r) : i = j
    /\ \A i \in PopAt(r), j \in PushAt(r) : i < j
    /\ PopAt(r) # {} => r.hand = <<>> /\ r.cmd.op \notin PushOps
    /\ PushAt(r) # {} => \/ r.cmd.op \in PushOps /\ r.hand = <<>>
                         \/ r.cmd.op = "rpoplpush" /\ (r.hand = <<>> => PopAt(r) # {})

ClientOK(r) == r \in ClientRec /\ (r.steps = <<>> => r = Idle) /\ Orderly(r)

\* The element a command has yet to put into a list.
Carried(r) ==
    IF r.cmd.op \in PushOps THEN (IF PushAt(r) = {} THEN {} ELSE {r.cmd.new})
    ELSE IF r.cmd.op = "rpoplpush" /\ r.hand # <<>> THEN {r.hand[1]} ELSE {}

(***************************************************************************)
(* An element is in one place of the lists L, or carried by one of the     *)
(* commands, or was handed out; the ones to come are b and above.          *)
(***************************************************************************)
Distinct(L) ==
    \A k, l \in Keys : \A i \in 1 .. Len(L[k]), j \in 1 .. Len(L[l]) :
        L[k][i] = L[l][j] => k = l /\ i = j
Ledger(L, C, o, b) ==
    /\ Distinct(L)
    /\ \A k \in Keys : \A i \in 1 .. Len(L[k]) :
         L[k][i] < b /\ L[k][i] \notin o /\ \A c \in Clients : L[k][i] \notin C[c]
    /\ \A c, d \in Clients : c # d => C[c] \cap C[d] = {}
    /\ \A c \in Clients : \A e \in C[c] : e < b /\ e \notin o
    /\ \A e \in o : e < b

Lists == [k \in Keys |-> db[k].data.list]
Hands == [c \in Clients |-> Carried(cl[c])]

OverlapInv ==
    /\ db \in [Keys -> KeyRec]
    /\ cl = [c \in Clients |-> cl[c]]
    /\ \A c \in Clients : ClientOK(cl[c])
    /\ ops \in 0 .. MaxOps /\ faults \in 0 .. MaxFaults
    /\ out \subseteq Nat
    /\ Ledger(Lists, Hands, out, 10 + ops)

IInv == serial \in BOOLEAN /\ (~serial => OverlapInv)

-----------------------------------------------------------------------------
(***************************************************************************)
(* The calls of a command when it starts, and as they are made.            *)
(***************************************************************************)

LEMMA CallTypes ==
  ASSUME NEW k \in Keys, NEW type \in KeyTypes
  PROVE  /\ \A call \in Others : S(call, k, type) \in OtherRec
         /\ \A call \in Pushes \cup Pops : S(call, k, type) \in CallRec
         /\ \A call : S(call, k, type).call = call
  BY DEF S, OtherRec, CallRec

LEMMA OtherCalls ==
  ASSUME NEW r, r.steps \in Seq(OtherRec)
  PROVE  r.steps \in Seq(CallRec) /\ PushAt(r) = {} /\ PopAt(r) = {}
<1>1. OtherRec \subseteq CallRec
  BY DEF OtherRec, CallRec
<1>2. r.steps \in Seq(CallRec)
  BY <1>1, SeqMonotonic
<1>3. \A i \in 1 .. Len(r.steps) : r.steps[i] \in OtherRec
  BY ElementOfSeq
<1> QED
  BY <1>2, <1>3 DEF PushAt, PopAt, OtherRec, Others, Pushes, Pops

LEMMA ThreeCalls ==
  ASSUME NEW a \in OtherRec, NEW b \in CallRec, NEW d \in OtherRec, NEW r, r.steps = <<a, b, d>>
  PROVE  /\ r.steps \in Seq(CallRec) /\ r.steps # <<>>
         /\ PushAt(r) = IF b.call \in Pushes THEN {2} ELSE {}
         /\ PopAt(r) = IF b.call \in Pops THEN {2} ELSE {}
<1>1. a \in CallRec /\ d \in CallRec /\ a.call \in Others /\ d.call \in Others
  BY DEF OtherRec, CallRec
<1>2. Len(r.steps) = 3 /\ r.steps[1] = a /\ r.steps[2] = b /\ r.steps[3] = d
  OBVIOUS
<1>3. 1 .. 3 = {1, 2, 3}
  OBVIOUS
<1>4. r.steps \in Seq(CallRec) /\ r.steps # <<>>
  BY <1>1
<1>5. Others \cap (Pushes \cup Pops) = {}
  BY DEF Others, Pushes, Pops
<1> QED
  BY <1>1, <1>2, <1>3, <1>4, <1>5 DEF PushAt, PopAt

LEMMA SevenCalls ==
  ASSUME NEW s \in Seq(CallRec), NEW u \in Seq(CallRec), NEW r, r.steps = s \o u,
         Len(s) = 4, Len(u) = 3,
         s[1].call \in Others, s[2].call \in Others, s[3].call \in Pops, s[4].call \in Others,
         u[1].call \in Others, u[2].call \in Pushes, u[3].call \in Others
  PROVE  /\ r.steps \in Seq(CallRec) /\ r.steps # <<>>
         /\ PushAt(r) = {6} /\ PopAt(r) = {3}
<1>. /\ s \o u \in Seq(CallRec) /\ Len(s \o u) = Len(s) + Len(u)
     /\ \A i \in 1 .. Len(s) + Len(u) : (s \o u)[i] = IF i <= Len(s) THEN s[i] ELSE u[i - Len(s)]
  BY ConcatProperties
<1>1. /\ r.steps \in Seq(CallRec) /\ Len(r.steps) = 7
      /\ \A i \in 1 .. 7 : r.steps[i] = IF i <= 4 THEN s[i] ELSE u[i - 4]
  OBVIOUS
<1>2. 1 .. 7 = {1, 2, 3, 4, 5, 6, 7}
  OBVIOUS
<1>3. /\ r.steps[1] = s[1] /\ r.steps[2] = s[2] /\ r.steps[3] = s[3] /\ r.steps[4] = s[4]
      /\ r.steps[5] = u[1] /\ r.steps[6] = u[2] /\ r.steps[7] = u[3]
  BY <1>1
<1>4. Others \cap (Pushes \cup Pops) = {} /\ Pushes \cap Pops = {}
  BY DEF Others, Pushes, Pops
<1>5. r.steps # <<>>
  BY <1>1
<1>6. PushAt(r) = {i \in {1, 2, 3, 4, 5, 6, 7} : r.steps[i].call \in Pushes}
  BY <1>1, <1>2 DEF PushAt
<1>7. PopAt(r) = {i \in {1, 2, 3, 4, 5, 6, 7} : r.steps[i].call \in Pops}
  BY <1>1, <1>2 DEF PopAt
<1>8. PushAt(r) = {6}
  BY <1>3, <1>4, <1>6
<1>9. PopAt(r) = {3}
  BY <1>3, <1>4, <1>7
<1> QED
  BY <1>1, <1>5, <1>8, <1>9

LEMMA StartRec ==
  ASSUME NEW cmd \in Command, NEW r,
         r = [cmd |-> cmd, steps |-> Handler(cmd), hand |-> <<>>, n |-> 0, cnt |-> 0,
              all |-> <<>>, sets |-> <<>>, lst |-> NoData],
         Handler(cmd) \in Seq(CallRec), Handler(cmd) # <<>>
  PROVE  /\ r \in ClientRec /\ r.steps = Handler(cmd) /\ r.cmd = cmd /\ r.hand = <<>>
         /\ PushAt(r) = PushAt([steps |-> Handler(cmd)])
         /\ PopAt(r) = PopAt([steps |-> Handler(cmd)])
<1>1. <<>> \in Hand /\ <<>> \in Seq(Nat)
  BY EmptySeq DEF Hand
<1>3. r.steps = Handler(cmd) /\ r.cmd = cmd /\ r.hand = <<>>
  OBVIOUS
<1>4. r \in ClientRec
  BY <1>1 DEF ClientRec
<1> QED
  BY <1>3, <1>4 DEF PushAt, PopAt

Carrying(q, new) ==
    [op |-> q.op, keys |-> q.keys, elem |-> q.elem, new |-> new, lo |-> q.lo, hi |-> q.hi, big |-> q.big]

\* The calls of the commands that overlap.
Calling(cmd, k, l) ==
    \/ /\ cmd.op \in PushOps \cup Pops
       /\ \E first \in {"ensure", "live"}, call \in Pushes \cup Pops :
            /\ call \in Pops <=> cmd.op \in Pops
            /\ Handler(cmd) = <<S(first, k, TList), S(call, k, TList), S("count", k, TList)>>
    \/ /\ cmd.op \in PushOps
       /\ \E first \in {"ensure", "live"} : Handler(cmd) = <<S(first, k, TList)>>
    \/ cmd.op = "rpoplpush" /\ Handler(cmd) = RPopLPush(k, l)
    \/ cmd.op = "smove" /\ Handler(cmd) = SMove(k, l)
    \/ cmd.op = "msetnx" /\ Handler(cmd) = MSetNX(k, l)

LEMMA HandlerOf ==
  ASSUME ~serial, NEW new \in Nat, NEW cmd, \E q \in Requests : cmd = Carrying(q, new)
  PROVE  /\ cmd \in Command /\ cmd.new = new
         /\ \E k, l \in Keys : Calling(cmd, k, l)
<1>pick. PICK request \in Requests : cmd = Carrying(request, new)
  OBVIOUS
<1>request. \A op, keys, elem, lo, hi : request = Request(op, keys, elem, lo, hi) =>
              cmd = [op |-> op, keys |-> keys, elem |-> elem, new |-> new, lo |-> lo, hi |-> hi, big |-> FALSE]
  <2>. TAKE op, keys, elem, lo, hi
  <2>. HAVE request = Request(op, keys, elem, lo, hi)
  <2>1. /\ request.op = op /\ request.keys = keys /\ request.elem = elem
        /\ request.lo = lo /\ request.hi = hi /\ request.big = FALSE
    BY DEF Request
  <2> QED
    BY <2>1, <1>pick, Zenon DEF Carrying
<1>kinds. \/ request \in OneKey \/ request \in Oversized(OneKey)
          \/ request \in Moves \/ (request \in Several /\ request.op = "msetnx")
  BY DEF Requests
<1>1. CASE request \in OneKey
  <2>1. PICK k \in Keys, op \in {"lpush", "rpush", "lpushx", "rpushx", "lpop", "rpop"} :
               request = Request(op, <<k>>, 0, 0, 0)
    BY <1>1 DEF OneKey
  <2>2. cmd = [op |-> op, keys |-> <<k>>, elem |-> 0, new |-> new, lo |-> 0, hi |-> 0, big |-> FALSE]
    BY <2>1, <1>request
  <2>3. cmd \in Command /\ cmd.op = op /\ cmd.keys[1] = k /\ cmd.new = new /\ ~cmd.big
    <3>1. <<k>> \in Seq(Keys) /\ <<k>>[1] = k
      BY OneItem
    <3>2. op \in OverlapOps
      BY DEF OverlapOps, PushOps
    <3> QED
      BY <2>2, <3>1, <3>2 DEF Command
  <2>4. PICK first \in {"ensure", "live"}, call \in Pushes \cup Pops :
          /\ call \in Pops <=> op \in Pops
          /\ Handler(cmd) = <<S(first, k, TList), S(call, k, TList), S("count", k, TList)>>
    <3>1. CASE op \in {"lpush", "rpush"}
      BY <2>3, <3>1 DEF Handler, Guarded, Push, Pushes, Pops
    <3>2. CASE op = "lpushx"
      BY <2>3, <3>2 DEF Handler, Guarded, PushX, Pushes, Pops
    <3>3. CASE op = "rpushx"
      BY <2>3, <3>3 DEF Handler, Guarded, PushX, Pushes, Pops
    <3>4. CASE op \in {"lpop", "rpop"}
      BY <2>3, <3>4 DEF Handler, Pop, Pushes, Pops
    <3> QED
      BY <3>1, <3>2, <3>3, <3>4
  <2>5. op \in PushOps \cup Pops
    BY DEF PushOps, Pops
  <2> QED
    BY <2>3, <2>4, <2>5 DEF Calling
<1>big. CASE request \in Oversized(OneKey)
  <2>1. PICK q \in OneKey : q.op \in Valued /\ request = [q EXCEPT !.big = TRUE]
    BY <1>big DEF Oversized
  <2>2. PICK k \in Keys, op \in {"lpush", "rpush", "lpushx", "rpushx", "lpop", "rpop"} :
               q = Request(op, <<k>>, 0, 0, 0)
    BY DEF OneKey
  <2>3. cmd = [op |-> op, keys |-> <<k>>, elem |-> 0, new |-> new, lo |-> 0, hi |-> 0, big |-> TRUE]
    BY <2>1, <2>2, <1>pick DEF Request, Carrying
  <2>4. op \in PushOps
    BY <2>1, <2>2 DEF Request, Valued, PushOps
  <2>5. cmd \in Command /\ cmd.op = op /\ cmd.keys[1] = k /\ cmd.new = new /\ cmd.big
    <3>1. <<k>> \in Seq(Keys) /\ <<k>>[1] = k
      BY OneItem
    <3>2. op \in OverlapOps
      BY <2>4 DEF OverlapOps
    <3> QED
      BY <2>3, <3>1, <3>2 DEF Command
  <2>6. \E first \in {"ensure", "live"} : Handler(cmd) = <<S(first, k, TList)>>
    <3>1. CASE op \in {"lpush", "rpush"}
      BY <2>5, FirstOfThree, <3>1 DEF Handler, Guarded, Push
    <3>2. CASE op = "lpushx"
      BY <2>5, FirstOfThree, <3>2 DEF Handler, Guarded, PushX
    <3>3. CASE op = "rpushx"
      BY <2>5, FirstOfThree, <3>3 DEF Handler, Guarded, PushX
    <3> QED
      BY <2>4, <3>1, <3>2, <3>3 DEF PushOps
  <2> QED
    BY <2>4, <2>5, <2>6 DEF Calling
<1>2. CASE request \in Moves
  <2>1. PICK k \in Keys, l \in Keys :
          \/ request = Request("rpoplpush", <<k, l>>, 0, 0, 0)
          \/ \E e \in Elements : request = Request("smove", <<k, l>>, e, 0, 0)
    <3> DEFINE A == {Request("rpoplpush", <<x, y>>, 0, 0, 0) : x \in Keys, y \in Keys}
               B == {Request("smove", <<x, y>>, e, 0, 0) : x \in Keys, y \in Keys, e \in Elements}
    <3>1. Moves = A \cup B
      BY DEF Moves
    <3>2. request \in A \/ request \in B
      BY <1>2, <3>1
    <3>3. request \in A => \E x, y \in Keys : request = Request("rpoplpush", <<x, y>>, 0, 0, 0)
      BY DEF Request
    <3>4. request \in B => \E x, y \in Keys : \E e \in Elements :
                              request = Request("smove", <<x, y>>, e, 0, 0)
      OBVIOUS
    <3> HIDE DEF A, B
    <3> QED
      BY <3>2, <3>3, <3>4
  <2>pair. <<k, l>> \in Seq(Keys) /\ <<k, l>>[1] = k /\ <<k, l>>[Len(<<k, l>>)] = l
    OBVIOUS
  <2>ops. "rpoplpush" \in OverlapOps /\ "smove" \in OverlapOps
    BY DEF OverlapOps
  <2>2. ASSUME request = Request("rpoplpush", <<k, l>>, 0, 0, 0)
        PROVE  /\ cmd \in Command /\ cmd.op = "rpoplpush" /\ cmd.new = new
               /\ Handler(cmd) = RPopLPush(k, l)
    <3>1. cmd = [op |-> "rpoplpush", keys |-> <<k, l>>, elem |-> 0, new |-> new, lo |-> 0, hi |-> 0, big |-> FALSE]
      BY <2>2, <1>request
    <3>2. /\ cmd \in Command /\ cmd.op = "rpoplpush" /\ cmd.new = new
          /\ cmd.keys[1] = k /\ cmd.keys[Len(cmd.keys)] = l
      BY <3>1, <2>pair, <2>ops DEF Command
    <3> QED
      BY <3>2 DEF Handler
  <2>3. ASSUME NEW e \in Elements, request = Request("smove", <<k, l>>, e, 0, 0)
        PROVE  /\ cmd \in Command /\ cmd.op = "smove" /\ cmd.new = new
               /\ Handler(cmd) = SMove(k, l)
    <3>1. cmd = [op |-> "smove", keys |-> <<k, l>>, elem |-> e, new |-> new, lo |-> 0, hi |-> 0, big |-> FALSE]
      BY <2>3, <1>request
    <3>2. e \in Nat /\ 0 \in Int
      BY ElementsAssumption
    <3>3. cmd \in Command
      BY <3>1, <3>2, <2>pair, <2>ops DEF Command
    <3>4. cmd.op = "smove" /\ cmd.new = new /\ cmd.keys[1] = k /\ cmd.keys[Len(cmd.keys)] = l
      BY <3>1, <2>pair
    <3> QED
      BY <3>3, <3>4 DEF Handler
  <2> QED
    BY <2>1, <2>2, <2>3 DEF Calling
<1>3. CASE request \in Several /\ request.op = "msetnx"
  <2>1. PICK k \in Keys, l \in Keys : request = Request("msetnx", <<k, l>>, 0, 0, 0)
    BY <1>3 DEF Several, Request
  <2>2. cmd = [op |-> "msetnx", keys |-> <<k, l>>, elem |-> 0, new |-> new, lo |-> 0, hi |-> 0, big |-> FALSE]
    BY <2>1, <1>request
  <2>3. /\ cmd \in Command /\ cmd.op = "msetnx" /\ cmd.new = new
        /\ cmd.keys[1] = k /\ cmd.keys[Len(cmd.keys)] = l
    <3>1. <<k, l>> \in Seq(Keys) /\ <<k, l>>[1] = k /\ <<k, l>>[Len(<<k, l>>)] = l
      OBVIOUS
    <3>2. "msetnx" \in OverlapOps
      BY DEF OverlapOps
    <3> QED
      BY <2>2, <3>1, <3>2 DEF Command
  <2>4. Handler(cmd) = MSetNX(k, l)
    BY <2>3 DEF Handler
  <2> QED
    BY <2>3, <2>4 DEF Calling
<1> QED
  BY <1>kinds, <1>1, <1>big, <1>2, <1>3

\* What the calls of each command are; the calls on the meta items and on sets move no
\* element.
LEMMA HandlerCalls ==
  ASSUME ~serial, NEW new \in Nat, NEW cmd, \E q \in Requests : cmd = Carrying(q, new)
  PROVE  /\ cmd \in Command /\ cmd.new = new
         /\ Handler(cmd) \in Seq(CallRec) /\ Handler(cmd) # <<>>
         /\ LET r == [steps |-> Handler(cmd)]
            IN  \/ cmd.op \in PushOps /\ (PushAt(r) = {2} \/ PushAt(r) = {}) /\ PopAt(r) = {}
                \/ cmd.op \in Pops /\ PushAt(r) = {} /\ PopAt(r) = {2}
                \/ cmd.op = "rpoplpush" /\ PopAt(r) = {2} /\ PushAt(r) = {3}
                \/ cmd.op = "rpoplpush" /\ PopAt(r) = {3} /\ PushAt(r) = {6}
                \/ cmd.op \in {"smove", "msetnx"} /\ PushAt(r) = {} /\ PopAt(r) = {}
<1> DEFINE r == [steps |-> Handler(cmd)]
<1>types. {NoType, TList, TSet, TStr} = KeyTypes
  BY DEF KeyTypes
<1>steps. r.steps = Handler(cmd)
  OBVIOUS
<1>of. PICK k \in Keys, l \in Keys : Calling(cmd, k, l)
  BY HandlerOf
<1>cmd. cmd \in Command /\ cmd.new = new
  BY HandlerOf
<1>1. ASSUME cmd.op \in PushOps \cup Pops,
             NEW first \in {"ensure", "live"}, NEW call \in Pushes \cup Pops, call \in Pops <=> cmd.op \in Pops,
             Handler(cmd) = <<S(first, k, TList), S(call, k, TList), S("count", k, TList)>>
      PROVE  /\ Handler(cmd) \in Seq(CallRec) /\ Handler(cmd) # <<>>
             /\ \/ cmd.op \in PushOps /\ PushAt(r) = {2} /\ PopAt(r) = {}
                \/ cmd.op \in Pops /\ PushAt(r) = {} /\ PopAt(r) = {2}
  <2>1. /\ S("ensure", k, TList) \in OtherRec /\ S("live", k, TList) \in OtherRec
        /\ S("count", k, TList) \in OtherRec /\ S(call, k, TList) \in CallRec
        /\ S(call, k, TList).call = call
    BY <1>types, CallTypes DEF Others
  <2>2. /\ r.steps \in Seq(CallRec) /\ r.steps # <<>>
        /\ PushAt(r) = IF call \in Pushes THEN {2} ELSE {}
        /\ PopAt(r) = IF call \in Pops THEN {2} ELSE {}
    <3> HIDE DEF r
    <3>1. \/ r.steps = <<S("ensure", k, TList), S(call, k, TList), S("count", k, TList)>>
          \/ r.steps = <<S("live", k, TList), S(call, k, TList), S("count", k, TList)>>
      BY <1>1, <1>steps
    <3> QED
      BY <3>1, <2>1, ThreeCalls
  <2>3. Pushes \cap Pops = {}
    BY DEF Pushes, Pops
  <2> HIDE DEF r
  <2> QED
    BY <1>1, <2>2, <2>3, <1>steps DEF r
<1>2. ASSUME \/ cmd.op = "rpoplpush" /\ Handler(cmd) = RPopLPush(k, l)
             \/ cmd.op = "smove" /\ Handler(cmd) = SMove(k, l)
      PROVE  /\ Handler(cmd) \in Seq(CallRec) /\ Handler(cmd) # <<>>
             /\ \/ cmd.op = "rpoplpush" /\ PopAt(r) = {2} /\ PushAt(r) = {3}
                \/ cmd.op = "rpoplpush" /\ PopAt(r) = {3} /\ PushAt(r) = {6}
                \/ cmd.op = "smove" /\ PushAt(r) = {} /\ PopAt(r) = {}
  <2>1. /\ S("live", k, TList) \in OtherRec /\ S("type", l, TList) \in OtherRec
        /\ S("count", k, TList) \in OtherRec /\ S("ensure", l, TList) \in OtherRec
        /\ S("count", l, TList) \in OtherRec
        /\ S("rpop", k, TList) \in CallRec /\ S("lpush", l, TList) \in CallRec
        /\ S("lpush", k, TList) \in CallRec
    BY <1>types, CallTypes DEF Others, Pushes, Pops
  <2>2. ASSUME Handler(cmd) = RPopLPush(k, l), k = l
        PROVE  Handler(cmd) \in Seq(CallRec) /\ Handler(cmd) # <<>> /\ PopAt(r) = {2} /\ PushAt(r) = {3}
    <3> HIDE DEF r
    <3>1. r.steps = <<S("live", k, TList), S("rpop", k, TList), S("lpush", k, TList)>>
      BY <2>2, <1>steps DEF RPopLPush
    <3>2. /\ Len(r.steps) = 3 /\ r.steps[1].call = "live" /\ r.steps[2].call = "rpop"
          /\ r.steps[3].call = "lpush"
      BY <3>1 DEF S
    <3>3. r.steps \in Seq(CallRec) /\ r.steps # <<>>
      <4>1. OtherRec \subseteq CallRec
        BY DEF OtherRec, CallRec
      <4> QED
        BY <4>1, <3>1, <2>1
    <3>4. 1 .. 3 = {1, 2, 3}
      OBVIOUS
    <3>5. PopAt(r) = {2} /\ PushAt(r) = {3}
      BY <3>2, <3>4 DEF PopAt, PushAt, Pushes, Pops
    <3> QED
      BY <3>3, <3>5, <1>steps
  <2>3. ASSUME Handler(cmd) = RPopLPush(k, l), k # l
        PROVE  Handler(cmd) \in Seq(CallRec) /\ Handler(cmd) # <<>> /\ PopAt(r) = {3} /\ PushAt(r) = {6}
    <3> HIDE DEF r
    <3> DEFINE s == <<S("live", k, TList), S("type", l, TList), S("rpop", k, TList), S("count", k, TList)>>
               u == <<S("ensure", l, TList), S("lpush", l, TList), S("count", l, TList)>>
    <3>1. r.steps = s \o u
      BY <2>3, <1>steps DEF RPopLPush, Push
    <3>2. OtherRec \subseteq CallRec
      BY DEF OtherRec, CallRec
    <3>3. s \in Seq(CallRec) /\ u \in Seq(CallRec) /\ Len(s) = 4 /\ Len(u) = 3
      BY <3>2, <2>1
    <3>4. /\ s[1].call = "live" /\ s[2].call = "type" /\ s[3].call = "rpop" /\ s[4].call = "count"
          /\ u[1].call = "ensure" /\ u[2].call = "lpush" /\ u[3].call = "count"
      BY DEF S
    <3>5. /\ s[1].call \in Others /\ s[2].call \in Others /\ s[3].call \in Pops /\ s[4].call \in Others
          /\ u[1].call \in Others /\ u[2].call \in Pushes /\ u[3].call \in Others
      BY <3>4 DEF Others, Pops, Pushes
    <3> HIDE DEF s, u
    <3> QED
      BY <3>1, <3>3, <3>5, SevenCalls, <1>steps
  <2>4. ASSUME Handler(cmd) = SMove(k, l)
        PROVE  Handler(cmd) \in Seq(OtherRec) /\ Handler(cmd) # <<>>
    <3>1. \A call \in Others : S(call, k, TSet) \in OtherRec /\ S(call, l, TSet) \in OtherRec
      BY <1>types, CallTypes
    <3>2. /\ S("live", k, TSet) \in OtherRec /\ S("ismember", k, TSet) \in OtherRec
          /\ S("type", l, TSet) \in OtherRec /\ S("srem", k, TSet) \in OtherRec
          /\ S("count", k, TSet) \in OtherRec /\ S("ensure", l, TSet) \in OtherRec
          /\ S("sadd", l, TSet) \in OtherRec /\ S("count", l, TSet) \in OtherRec
      BY <3>1 DEF Others
    <3>3. CASE k = l
      <4>1. Handler(cmd) = <<S("live", k, TSet), S("ismember", k, TSet)>>
        BY <2>4, <3>3 DEF SMove
      <4> QED
        BY <4>1, <3>2
    <3>4. CASE k # l
      <4>1. Handler(cmd) = <<S("live", k, TSet), S("type", l, TSet), S("ismember", k, TSet),
                             S("srem", k, TSet), S("count", k, TSet),
                             S("ensure", l, TSet), S("sadd", l, TSet), S("count", l, TSet)>>
        BY <2>4, <3>4 DEF SMove
      <4> QED
        BY <4>1, <3>2
    <3> QED
      BY <3>3, <3>4
  <2>5. ASSUME Handler(cmd) \in Seq(OtherRec)
        PROVE  Handler(cmd) \in Seq(CallRec) /\ PopAt(r) = {} /\ PushAt(r) = {}
    <3> HIDE DEF r
    <3> QED
      BY <2>5, <1>steps, OtherCalls
  <2> HIDE DEF r
  <2> QED
    BY <1>2, <2>2, <2>3, <2>4, <2>5
<1>3. ASSUME Handler(cmd) = MSetNX(k, l)
      PROVE  /\ Handler(cmd) \in Seq(CallRec) /\ Handler(cmd) # <<>>
             /\ PushAt(r) = {} /\ PopAt(r) = {}
  <2>1. \A x \in Keys : WriteString(x) \in Seq(OtherRec) /\ AbsentKey(x) \in Seq(OtherRec)
    <3> TAKE x \in Keys
    <3>1. /\ S("ensure", x, TStr) \in OtherRec /\ S("setstring", x, TStr) \in OtherRec
          /\ S("persist", x, TStr) \in OtherRec /\ S("absent", x, TStr) \in OtherRec
      BY <1>types, CallTypes DEF Others
    <3> QED
      BY <3>1 DEF WriteString, AbsentKey
  <2>2. AbsentKey(k) # <<>>
    BY DEF AbsentKey
  <2>3. Handler(cmd) \in Seq(OtherRec) /\ Handler(cmd) # <<>>
    <3> HIDE DEF AbsentKey, WriteString
    <3> DEFINE a == AbsentKey(k) b == AbsentKey(l) d == WriteString(k) e == WriteString(l)
    <3>1. a \in Seq(OtherRec) /\ b \in Seq(OtherRec) /\ d \in Seq(OtherRec) /\ e \in Seq(OtherRec)
      BY <2>1
    <3>2. a # <<>>
      BY <2>2
    <3>3. Handler(cmd) = ((a \o b) \o d) \o e
      BY <1>3 DEF MSetNX
    <3> HIDE DEF a, b, d, e
    <3>4. \A s, u \in Seq(OtherRec) : s # <<>> => s \o u \in Seq(OtherRec) /\ s \o u # <<>>
      BY ConcatProperties, ConcatEqualIffEmpty
    <3>5. a \o b \in Seq(OtherRec) /\ a \o b # <<>>
      BY <3>1, <3>2, <3>4
    <3>6. (a \o b) \o d \in Seq(OtherRec) /\ (a \o b) \o d # <<>>
      BY <3>1, <3>5, <3>4, Zenon
    <3>7. ((a \o b) \o d) \o e \in Seq(OtherRec) /\ ((a \o b) \o d) \o e # <<>>
      BY <3>1, <3>6, <3>4, Zenon
    <3> QED
      BY <3>3, <3>7
  <2>4. Handler(cmd) \in Seq(CallRec) /\ PopAt(r) = {} /\ PushAt(r) = {}
    <3> HIDE DEF r
    <3> QED
      BY <2>3, <1>steps, OtherCalls
  <2> HIDE DEF r
  <2> QED
    BY <2>3, <2>4
<1>4. ASSUME NEW first \in {"ensure", "live"}, Handler(cmd) = <<S(first, k, TList)>>
      PROVE  Handler(cmd) \in Seq(CallRec) /\ Handler(cmd) # <<>> /\ PopAt(r) = {} /\ PushAt(r) = {}
  <2>1. S(first, k, TList) \in OtherRec
    BY <1>types, CallTypes DEF Others
  <2>2. Handler(cmd) \in Seq(OtherRec) /\ Handler(cmd) # <<>>
    BY <1>4, <2>1, OneItem
  <2> HIDE DEF r
  <2> QED
    BY <2>2, <1>steps, OtherCalls
<1> HIDE DEF r
<1> QED
  BY <1>of, <1>cmd, <1>1, <1>2, <1>3, <1>4 DEF Calling, r

\* The calls that are left once the first is made, with one more before them or none.
LEMMA LeftCalls ==
  ASSUME NEW r, r.steps \in Seq(CallRec), r.steps # <<>>, NEW q, NEW d \in OtherRec,
         q.steps = Tail(r.steps) \/ q.steps = <<d>> \o Tail(r.steps)
  PROVE  /\ q.steps \in Seq(CallRec)
         /\ 1 \in PushAt(r) <=> Head(r.steps).call \in Pushes
         /\ 1 \in PopAt(r) <=> Head(r.steps).call \in Pops
         /\ \E o \in {0, 1} :
              /\ \A i \in PushAt(q) : i + o \in PushAt(r) \ {1}
              /\ \A i \in PushAt(r) \ {1} : i - o \in PushAt(q)
              /\ \A i \in PopAt(q) : i + o \in PopAt(r) \ {1}
              /\ \A i \in PopAt(r) \ {1} : i - o \in PopAt(q)
<1> DEFINE s == r.steps u == Tail(r.steps) v == q.steps
<1>1. /\ u \in Seq(CallRec) /\ Len(s) \in Nat \ {0} /\ Len(u) = Len(s) - 1
      /\ \A i \in 1 .. Len(u) : u[i] = s[i + 1]
      /\ Head(s) = s[1]
  BY HeadTailProperties, EmptySeq
<1>2. 1 \in PushAt(r) <=> Head(r.steps).call \in Pushes
  BY <1>1 DEF PushAt
<1>3. 1 \in PopAt(r) <=> Head(r.steps).call \in Pops
  BY <1>1 DEF PopAt
<1>4. CASE v = u
  <2>1. /\ Len(v) = Len(s) - 1
        /\ \A i \in 1 .. Len(v) : v[i] = s[i + 1]
    BY <1>1, <1>4
  <2> DEFINE A == 1 .. Len(s) B == 1 .. Len(v)
  <2>2. /\ \A i \in B : i + 1 \in A /\ i + 1 # 1 /\ v[i] = s[i + 1]
        /\ \A i \in A : i # 1 => i - 1 \in B /\ v[i - 1] = s[i]
    BY <2>1, <1>1
  <2>3. /\ PushAt(r) = {i \in A : s[i].call \in Pushes} /\ PushAt(q) = {i \in B : v[i].call \in Pushes}
        /\ PopAt(r) = {i \in A : s[i].call \in Pops} /\ PopAt(q) = {i \in B : v[i].call \in Pops}
    BY DEF PushAt, PopAt
  <2> HIDE DEF A, B, s, v
  <2>4. /\ \A i \in PushAt(q) : i + 1 \in PushAt(r) \ {1}
        /\ \A i \in PushAt(r) \ {1} : i - 1 \in PushAt(q)
    BY <2>2, <2>3
  <2>5. /\ \A i \in PopAt(q) : i + 1 \in PopAt(r) \ {1}
        /\ \A i \in PopAt(r) \ {1} : i - 1 \in PopAt(q)
    BY <2>2, <2>3
  <2>6. v \in Seq(CallRec)
    BY <1>1, <1>4
  <2> QED
    BY <1>2, <1>3, <2>4, <2>5, <2>6 DEF v
<1>5. CASE v = <<d>> \o u
  <2>1. <<d>> \in Seq(CallRec) /\ Len(<<d>>) = 1 /\ <<d>>[1] = d
    BY OneItem DEF OtherRec, CallRec
  <2>2. /\ v \in Seq(CallRec) /\ Len(v) = 1 + Len(u)
        /\ \A i \in 1 .. 1 + Len(u) : v[i] = IF i <= 1 THEN <<d>>[i] ELSE u[i - 1]
    <3> HIDE DEF u, v
    <3> QED
      BY <2>1, <1>1, <1>5, ConcatProperties
  <2>3. /\ Len(v) = Len(s)
        /\ \A i \in 1 .. Len(s) : v[i] = IF i = 1 THEN d ELSE s[i]
    BY <2>1, <2>2, <1>1
  <2> DEFINE A == 1 .. Len(s)
  <2>4. d.call \notin Pushes /\ d.call \notin Pops
    BY DEF OtherRec, Others, Pushes, Pops
  <2>5. \A i \in A : (i = 1 => v[i] = d) /\ (i # 1 => v[i] = s[i]) /\ i \in Nat
    BY <2>3, <1>1
  <2>6. /\ PushAt(r) = {i \in A : s[i].call \in Pushes} /\ PushAt(q) = {i \in A : v[i].call \in Pushes}
        /\ PopAt(r) = {i \in A : s[i].call \in Pops} /\ PopAt(q) = {i \in A : v[i].call \in Pops}
    BY <2>3 DEF PushAt, PopAt
  <2> HIDE DEF A, s, v
  <2>7. \A i \in A : i + 0 = i /\ i - 0 = i
    BY <2>5
  <2>8. PushAt(q) = PushAt(r) \ {1} /\ PopAt(q) = PopAt(r) \ {1}
    BY <2>4, <2>5, <2>6
  <2>9. /\ \A i \in PushAt(q) : i + 0 \in PushAt(r) \ {1}
        /\ \A i \in PushAt(r) \ {1} : i - 0 \in PushAt(q)
        /\ \A i \in PopAt(q) : i + 0 \in PopAt(r) \ {1}
        /\ \A i \in PopAt(r) \ {1} : i - 0 \in PopAt(q)
    BY <2>6, <2>7, <2>8
  <2> QED
    BY <1>2, <1>3, <2>2, <2>9 DEF v
<1> QED
  BY <1>4, <1>5

LEMMA QuietCall ==
  ASSUME NEW r \in ClientRec, Orderly(r), r.steps # <<>>, Head(r.steps).call \in Others,
         NEW q, q.cmd = r.cmd, q.hand = r.hand, NEW d \in OtherRec,
         q.steps = Tail(r.steps) \/ q.steps = <<d>> \o Tail(r.steps)
  PROVE  q.steps \in Seq(CallRec) /\ Orderly(q) /\ Carried(q) \subseteq Carried(r)
<1>1. r.steps \in Seq(CallRec)
  BY DEF ClientRec
<1>2. PICK o \in {0, 1} :
              /\ \A i \in PushAt(q) : i + o \in PushAt(r) \ {1}
              /\ \A i \in PushAt(r) \ {1} : i - o \in PushAt(q)
              /\ \A i \in PopAt(q) : i + o \in PopAt(r) \ {1}
              /\ \A i \in PopAt(r) \ {1} : i - o \in PopAt(q)
  BY <1>1, LeftCalls
<1>3. q.steps \in Seq(CallRec)
  BY <1>1, LeftCalls
<1>4. 1 \notin PushAt(r) /\ 1 \notin PopAt(r)
  <2>1. Head(r.steps).call \notin Pushes /\ Head(r.steps).call \notin Pops
    BY DEF Others, Pushes, Pops
  <2>2. /\ 1 \in PushAt(r) <=> Head(r.steps).call \in Pushes
        /\ 1 \in PopAt(r) <=> Head(r.steps).call \in Pops
    BY <1>1, LeftCalls
  <2> QED
    BY <2>1, <2>2
<1>5. \A i \in PushAt(q) \cup PopAt(q) : i \in Int
  BY DEF PushAt, PopAt
<1>6. /\ PushAt(q) # {} <=> PushAt(r) # {}
      /\ PopAt(q) # {} <=> PopAt(r) # {}
  BY <1>2, <1>4
<1>7. Orderly(q)
  <2>1. \A i, j \in PushAt(q) : i = j
    BY <1>2, <1>5 DEF Orderly
  <2>2. \A i, j \in PopAt(q) : i = j
    BY <1>2, <1>5 DEF Orderly
  <2>3. \A i \in PopAt(q), j \in PushAt(q) : i < j
    <3> TAKE i \in PopAt(q), j \in PushAt(q)
    <3>1. i + o < j + o /\ i \in Int /\ j \in Int /\ o \in Int
      BY <1>2, <1>5 DEF Orderly
    <3> QED
      BY <3>1
  <2> QED
    BY <1>6, <2>1, <2>2, <2>3 DEF Orderly
<1>8. Carried(q) \subseteq Carried(r)
  BY <1>6 DEF Carried
<1> QED
  BY <1>3, <1>7, <1>8

LEMMA HandHolds ==
  ASSUME NEW h \in Hand, h # <<>>
  PROVE  h = <<h[1]>> /\ h[1] \in Nat
<1>1. h \in Seq(Nat) /\ Len(h) <= 1
  BY DEF Hand
<1>2. Len(h) \in Nat \ {0}
  BY <1>1, EmptySeq
<1>3. Len(h) = 1
  <2>1. \A m \in Nat \ {0} : m <= 1 => m = 1
    OBVIOUS
  <2> QED
    BY <1>1, <1>2, <2>1, Zenon
<1>4. h[1] \in Nat
  BY <1>1, <1>3, ElementOfSeq
<1> QED
  BY <1>1, <1>3, <1>4, SeqEqual

LEMMA CarriedNat ==
  ASSUME NEW r, ClientOK(r)
  PROVE  Carried(r) \subseteq Nat
<1>1. r.hand \in Hand /\ r.cmd.new \in Nat
  BY DEF ClientOK, ClientRec, Command
<1>2. r.hand # <<>> => r.hand[1] \in Nat
  BY <1>1, HandHolds
<1> QED
  BY <1>1, <1>2 DEF Carried

LEMMA PushCall ==
  ASSUME NEW r \in ClientRec, Orderly(r), r.steps # <<>>, Head(r.steps).call \in Pushes,
         NEW q, q.cmd = r.cmd, q.hand = <<>>, q.steps = Tail(r.steps)
  PROVE  /\ q.steps \in Seq(CallRec) /\ Orderly(q) /\ Carried(q) = {}
         /\ \E x \in Nat : /\ Carried(r) = {x}
                           /\ (IF r.hand = <<>> THEN <<r.cmd.new>> ELSE r.hand) = <<x>>
<1>1. /\ r.steps \in Seq(CallRec) /\ r.hand \in Hand /\ r.cmd.new \in Nat
  BY DEF ClientRec, Command
<1>d. OtherRec # {}
  <2>1. Head(r.steps) \in CallRec
    BY <1>1, HeadTailProperties
  <2>2. Head(r.steps).key \in Keys
    BY <2>1 DEF CallRec
  <2>3. S("live", Head(r.steps).key, NoType) \in OtherRec
    BY <2>2, CallTypes DEF KeyTypes, Others
  <2> QED
    BY <2>3
<1>2. PICK o \in {0, 1} :
              /\ \A i \in PushAt(q) : i + o \in PushAt(r) \ {1}
              /\ \A i \in PopAt(q) : i + o \in PopAt(r) \ {1}
  BY <1>1, <1>d, LeftCalls
<1>3. q.steps \in Seq(CallRec)
  BY <1>1, <1>d, LeftCalls
<1>4. 1 \in PushAt(r)
  BY <1>1, <1>d, LeftCalls
<1>5. PushAt(q) = {}
  BY <1>2, <1>4 DEF Orderly
<1>6. PopAt(r) = {}
  <2>1. \A i \in PopAt(r) : i < 1 /\ i \in Int /\ i >= 1
    BY <1>4 DEF Orderly, PopAt
  <2> QED
    BY <2>1
<1>7. PopAt(q) = {}
  BY <1>2, <1>6
<1>8. Orderly(q)
  BY <1>5, <1>7 DEF Orderly
<1>9. \/ r.cmd.op \in PushOps /\ r.hand = <<>>
      \/ r.cmd.op = "rpoplpush" /\ r.hand # <<>>
  BY <1>4, <1>6 DEF Orderly
<1>10. "rpoplpush" \notin PushOps
  BY DEF PushOps
<1>11. Carried(q) = {}
  BY <1>5, <1>9, <1>10 DEF Carried
<1>12. CASE r.hand = <<>>
  <2>1. Carried(r) = {r.cmd.new}
    BY <1>4, <1>9, <1>12 DEF Carried
  <2> QED
    BY <2>1, <1>1, <1>3, <1>8, <1>11, <1>12
<1>13. CASE r.hand # <<>>
  <2>1. r.hand = <<r.hand[1]>> /\ r.hand[1] \in Nat
    BY <1>1, <1>13, HandHolds
  <2>2. Carried(r) = {r.hand[1]}
    BY <1>9, <1>10, <1>13 DEF Carried
  <2> QED
    BY <2>1, <2>2, <1>13, <1>3, <1>8, <1>11
<1> QED
  BY <1>3, <1>8, <1>11, <1>12, <1>13

LEMMA PopCall ==
  ASSUME NEW r \in ClientRec, Orderly(r), r.steps # <<>>, Head(r.steps).call \in Pops,
         NEW x \in Nat, NEW q, q.cmd = r.cmd, q.hand = <<x>>, q.steps = Tail(r.steps)
  PROVE  /\ q.steps \in Seq(CallRec) /\ Orderly(q) /\ Carried(r) = {}
         /\ IF r.cmd.op = "rpoplpush" THEN Carried(q) = {x} ELSE Carried(q) = {}
<1>1. r.steps \in Seq(CallRec)
  BY DEF ClientRec
<1>d. OtherRec # {}
  <2>1. Head(r.steps) \in CallRec
    BY <1>1, HeadTailProperties
  <2>2. Head(r.steps).key \in Keys
    BY <2>1 DEF CallRec
  <2>3. S("live", Head(r.steps).key, NoType) \in OtherRec
    BY <2>2, CallTypes DEF KeyTypes, Others
  <2> QED
    BY <2>3
<1>2. PICK o \in {0, 1} :
              /\ \A i \in PushAt(q) : i + o \in PushAt(r) \ {1}
              /\ \A i \in PopAt(q) : i + o \in PopAt(r) \ {1}
  BY <1>1, <1>d, LeftCalls
<1>3. q.steps \in Seq(CallRec)
  BY <1>1, <1>d, LeftCalls
<1>4. 1 \in PopAt(r)
  BY <1>1, <1>d, LeftCalls
<1>5. PopAt(q) = {}
  BY <1>2, <1>4 DEF Orderly
<1>6. r.hand = <<>> /\ r.cmd.op \notin PushOps
  BY <1>4 DEF Orderly
<1>7. <<x>> # <<>> /\ <<x>>[1] = x
  OBVIOUS
<1>8. \A i, j \in PushAt(q) : i = j
  <2>1. \A i \in PushAt(q) : i \in Int
    BY DEF PushAt
  <2> QED
    BY <1>2, <2>1 DEF Orderly
<1>9. PushAt(q) # {} => r.cmd.op = "rpoplpush"
  BY <1>2, <1>6 DEF Orderly
<1>10. Orderly(q)
  BY <1>5, <1>7, <1>8, <1>9 DEF Orderly
<1> QED
  BY <1>3, <1>6, <1>7, <1>10 DEF Carried

-----------------------------------------------------------------------------
(***************************************************************************)
(* The ledger: what each kind of step does to it.                          *)
(***************************************************************************)

LEMMA LedgerQuiet ==
  ASSUME NEW L, NEW C, NEW o, NEW b \in Nat, Ledger(L, C, o, b),
         NEW L2, \A l \in Keys : L2[l] = L[l], NEW C2, \A c \in Clients : C2[c] \subseteq C[c]
  PROVE  Ledger(L2, C2, o, b)
<1>1. Distinct(L2)
  BY DEF Ledger, Distinct
<1>2. \A l \in Keys : \A i \in 1 .. Len(L2[l]) :
        L2[l][i] < b /\ L2[l][i] \notin o /\ \A c \in Clients : L2[l][i] \notin C2[c]
  BY DEF Ledger
<1>3. /\ \A d, e \in Clients : d # e => C2[d] \cap C2[e] = {}
      /\ \A d \in Clients : \A e \in C2[d] : e < b /\ e \notin o
      /\ \A e \in o : e < b
  BY DEF Ledger
<1> QED
  BY <1>1, <1>2, <1>3 DEF Ledger

\* A command that starts carries at most the next new element.
LEMMA LedgerStart ==
  ASSUME NEW L, \A k \in Keys : L[k] \in Seq(Nat), NEW C, NEW o, o \subseteq Nat,
         \A c \in Clients : C[c] \subseteq Nat, NEW b \in Nat, Ledger(L, C, o, b),
         NEW C2, NEW c \in Clients, C2[c] \subseteq {b}, \A d \in Clients \ {c} : C2[d] = C[d]
  PROVE  Ledger(L, C2, o, b + 1)
<1>1. \A k \in Keys : \A i \in 1 .. Len(L[k]) : L[k][i] \in Nat
  BY ElementOfSeq
<1>2. \A k \in Keys : \A i \in 1 .. Len(L[k]) :
        /\ L[k][i] < b + 1 /\ L[k][i] # b /\ L[k][i] \notin o
        /\ \A d \in Clients : L[k][i] \notin C2[d]
  <2> TAKE k \in Keys
  <2> TAKE i \in 1 .. Len(L[k])
  <2> DEFINE e == L[k][i]
  <2>1. e \in Nat /\ e < b /\ e \notin o /\ \A d \in Clients : e \notin C[d]
    BY <1>1 DEF Ledger
  <2> HIDE DEF e
  <2>2. e < b + 1 /\ e # b /\ \A d \in Clients : e \notin C2[d]
    BY <2>1
  <2> QED
    BY <2>1, <2>2 DEF e
<1>3. \A d, e \in Clients : d # e => C2[d] \cap C2[e] = {}
  <2>1. \A d \in Clients : b \notin C[d]
    BY DEF Ledger
  <2> QED
    BY <2>1 DEF Ledger
<1>4. \A d \in Clients : \A e \in C2[d] : e < b + 1 /\ e \notin o
  <2>1. b \notin o /\ b < b + 1
    BY DEF Ledger
  <2>2. \A d \in Clients : \A e \in C[d] : e < b + 1 /\ e \notin o
    BY DEF Ledger
  <2> QED
    BY <2>1, <2>2
<1>5. \A e \in o : e < b + 1
  BY DEF Ledger
<1>6. Distinct(L)
  BY DEF Ledger
<1> QED
  BY <1>2, <1>3, <1>4, <1>5, <1>6 DEF Ledger

\* L2 holds x at place p of list k, if that is one of its places, and elsewhere what L
\* has at the place f gives.
ComesFrom(L2, L, f, k, p, x) ==
    /\ \A l \in Keys : \A i \in 1 .. Len(L2[l]) :
         IF l = k /\ i = p THEN L2[l][i] = x
         ELSE f[l][i] \in 1 .. Len(L[l]) /\ L2[l][i] = L[l][f[l][i]] /\ L2[l][i] # x
    /\ \A l \in Keys : \A i, j \in 1 .. Len(L2[l]) :
         ~(l = k /\ i = p) /\ ~(l = k /\ j = p) /\ f[l][i] = f[l][j] => i = j

LEMMA StillDistinct ==
  ASSUME NEW L, NEW L2, NEW f, NEW k, NEW p, NEW x, Distinct(L), ComesFrom(L2, L, f, k, p, x)
  PROVE  Distinct(L2)
<1> SUFFICES ASSUME NEW l \in Keys, NEW m \in Keys, NEW i \in 1 .. Len(L2[l]), NEW j \in 1 .. Len(L2[m]),
                    L2[l][i] = L2[m][j]
             PROVE  l = m /\ i = j
  BY DEF Distinct
<1> USE DEF ComesFrom
<1>1. CASE l = k /\ i = p
  BY <1>1
<1>2. CASE m = k /\ j = p
  BY <1>2
<1>3. CASE ~(l = k /\ i = p) /\ ~(m = k /\ j = p)
  <2>1. /\ f[l][i] \in 1 .. Len(L[l]) /\ f[m][j] \in 1 .. Len(L[m])
        /\ L[l][f[l][i]] = L[m][f[m][j]]
    BY <1>3
  <2>2. l = m /\ f[l][i] = f[m][j]
    BY <2>1, SMTT(30) DEF Distinct
  <2> QED
    BY <1>3, <2>2
<1> QED
  BY <1>1, <1>2, <1>3

\* A push puts what the command carries before or after one of the lists.
Pushed(L, L2, k, C, C2, c, x) ==
    /\ L[k] \in Seq(Nat)
    /\ L2[k] = <<x>> \o L[k] \/ L2[k] = L[k] \o <<x>>
    /\ \A l \in Keys \ {k} : L2[l] = L[l]
    /\ C[c] = {x} /\ C2[c] = {}
    /\ \A d \in Clients \ {c} : C2[d] = C[d]

LEMMA LedgerPush ==
  ASSUME NEW L, NEW C, NEW o, NEW b \in Nat, Ledger(L, C, o, b),
         NEW k \in Keys, NEW c \in Clients, NEW x \in Nat,
         NEW L2, NEW C2, Pushed(L, L2, k, C, C2, c, x)
  PROVE  Ledger(L2, C2, o, b)
<1>. /\ L[k] \in Seq(Nat) /\ C[c] = {x} /\ C2[c] = {}
     /\ \A d \in Clients \ {c} : C2[d] = C[d]
  BY DEF Pushed
<1>. /\ L2[k] = <<x>> \o L[k] \/ L2[k] = L[k] \o <<x>>
     /\ \A l \in Keys \ {k} : L2[l] = L[l]
  BY DEF Pushed
<1> DEFINE n == Len(L[k])
<1>1. <<x>> \in Seq(Nat) /\ Len(<<x>>) = 1 /\ <<x>>[1] = x /\ n \in Nat
  BY OneItem
\* Where each element of the new list comes from.
<1>2. PICK p \in {1, n + 1} :
        /\ Len(L2[k]) = n + 1 /\ L2[k][p] = x
        /\ \A i \in 1 .. n + 1 : i < p => L2[k][i] = L[k][i]
        /\ \A i \in 1 .. n + 1 : i > p => L2[k][i] = L[k][i - 1]
  <2>1. CASE L2[k] = <<x>> \o L[k]
    <3>1. /\ Len(L2[k]) = 1 + n
          /\ \A i \in 1 .. 1 + n : L2[k][i] = IF i <= 1 THEN <<x>>[i] ELSE L[k][i - 1]
      BY <1>1, <2>1, ConcatProperties
    <3>2. /\ Len(L2[k]) = n + 1 /\ L2[k][1] = x
          /\ \A i \in 1 .. n + 1 : i < 1 => L2[k][i] = L[k][i]
          /\ \A i \in 1 .. n + 1 : i > 1 => L2[k][i] = L[k][i - 1]
      BY <3>1, <1>1
    <3> QED
      BY <3>2
  <2>2. CASE L2[k] = L[k] \o <<x>>
    <3> DEFINE s == L[k] \o <<x>>
    <3>1. /\ Len(s) = n + 1
          /\ \A i \in 1 .. n + 1 : s[i] = IF i <= n THEN L[k][i] ELSE <<x>>[i - n]
      BY <1>1, ConcatProperties
    <3> HIDE DEF s
    <3>2. n + 1 \in 1 .. n + 1 /\ ~(n + 1 <= n) /\ (n + 1) - n = 1
      BY <1>1
    <3>3. s[n + 1] = x
      BY <3>1, <3>2, <1>1
    <3>4. /\ \A i \in 1 .. n + 1 : i < n + 1 => s[i] = L[k][i]
          /\ \A i \in 1 .. n + 1 : i > n + 1 => s[i] = L[k][i - 1]
      BY <3>1, <1>1
    <3>5. L2[k] = s
      BY <2>2 DEF s
    <3> QED
      BY <3>1, <3>3, <3>4, <3>5
  <2> QED
    BY <2>1, <2>2
<1> DEFINE f == [l \in Keys |-> [i \in 1 .. Len(L2[l]) |-> IF l = k /\ i > p THEN i - 1 ELSE i]]
<1>3. \A l \in Keys : \A i \in 1 .. Len(L2[l]) : f[l][i] = IF l = k /\ i > p THEN i - 1 ELSE i
  OBVIOUS
<1> HIDE DEF f
<1>4. \A l \in Keys : \A i \in 1 .. Len(L[l]) : L[l][i] # x
  BY DEF Ledger
<1>5. ASSUME NEW i \in 1 .. Len(L2[k]), i # p
      PROVE  f[k][i] \in 1 .. Len(L[k]) /\ L2[k][i] = L[k][f[k][i]]
  <2>1. i \in 1 .. n + 1 /\ p \in Int /\ n \in Nat
    BY <1>1, <1>2
  <2>2. CASE i < p
    <3>1. f[k][i] = i /\ i \in 1 .. n
      BY <2>1, <2>2, <1>2, <1>3
    <3> QED
      BY <3>1, <2>1, <2>2, <1>2
  <2>3. CASE i > p
    <3>1. f[k][i] = i - 1 /\ i - 1 \in 1 .. n
      BY <2>1, <2>3, <1>2, <1>3
    <3> QED
      BY <3>1, <2>1, <2>3, <1>2
  <2> QED
    BY <2>1, <2>2, <2>3, <1>5
<1>6. \A l \in Keys : \A i \in 1 .. Len(L2[l]) :
        IF l = k /\ i = p THEN L2[l][i] = x
        ELSE f[l][i] \in 1 .. Len(L[l]) /\ L2[l][i] = L[l][f[l][i]] /\ L2[l][i] # x
  <2> TAKE l \in Keys
  <2> TAKE i \in 1 .. Len(L2[l])
  <2>1. CASE l = k /\ i = p
    BY <2>1, <1>2
  <2>2. CASE l = k /\ i # p
    <3>1. f[k][i] \in 1 .. Len(L[k]) /\ L2[k][i] = L[k][f[k][i]]
      BY <2>2, <1>5
    <3>2. L[k][f[k][i]] # x
      BY <3>1, <1>4
    <3> QED
      BY <2>2, <3>1, <3>2
  <2>3. CASE l # k
    <3>1. L2[l] = L[l] /\ f[l][i] = i
      BY <2>3, <1>3
    <3> QED
      BY <2>3, <3>1, <1>4
  <2> QED
    BY <2>1, <2>2, <2>3
<1>7. \A l \in Keys : \A i, j \in 1 .. Len(L2[l]) :
        ~(l = k /\ i = p) /\ ~(l = k /\ j = p) /\ f[l][i] = f[l][j] => i = j
  <2> TAKE l \in Keys
  <2> TAKE i, j \in 1 .. Len(L2[l])
  <2> HAVE ~(l = k /\ i = p) /\ ~(l = k /\ j = p) /\ f[l][i] = f[l][j]
  <2>1. p \in Int /\ i \in Int /\ j \in Int
    BY <1>1, <1>2
  <2>2. f[l][i] = (IF l = k /\ i > p THEN i - 1 ELSE i) /\ f[l][j] = (IF l = k /\ j > p THEN j - 1 ELSE j)
    BY <1>3
  <2>3. CASE l # k
    BY <2>2, <2>3
  <2>4. CASE l = k
    <3>1. i # p /\ j # p /\ (IF i > p THEN i - 1 ELSE i) = (IF j > p THEN j - 1 ELSE j)
      BY <2>2, <2>4
    <3> QED
      BY <2>1, <3>1
  <2> QED
    BY <2>3, <2>4
<1>8. Distinct(L2)
  <2>1. Distinct(L)
    BY DEF Ledger
  <2>2. ComesFrom(L2, L, f, k, p, x)
    BY <1>6, <1>7, Zenon DEF ComesFrom
  <2> QED
    BY <2>1, <2>2, StillDistinct
<1>9. x < b /\ x \notin o /\ \A d \in Clients \ {c} : x \notin C2[d]
  BY DEF Ledger
<1>10. \A l \in Keys : \A i \in 1 .. Len(L[l]) :
         L[l][i] < b /\ L[l][i] \notin o /\ \A d \in Clients : L[l][i] \notin C2[d]
  BY ZenonT(40) DEF Ledger
<1>11. \A l \in Keys : \A i \in 1 .. Len(L2[l]) :
         L2[l][i] < b /\ L2[l][i] \notin o /\ \A d \in Clients : L2[l][i] \notin C2[d]
  <2> TAKE l \in Keys
  <2> TAKE i \in 1 .. Len(L2[l])
  <2>1. CASE L2[l][i] = x
    BY <2>1, <1>9
  <2>2. CASE f[l][i] \in 1 .. Len(L[l]) /\ L2[l][i] = L[l][f[l][i]]
    <3>1. L[l][f[l][i]] < b /\ L[l][f[l][i]] \notin o /\ \A d \in Clients : L[l][f[l][i]] \notin C2[d]
      BY <2>2, <1>10
    <3> QED
      BY <2>2, <3>1
  <2> QED
    BY <2>1, <2>2, <1>6
<1>12. /\ \A d, e \in Clients : d # e => C2[d] \cap C2[e] = {}
       /\ \A d \in Clients : \A e \in C2[d] : e < b /\ e \notin o
       /\ \A e \in o : e < b
  BY DEF Ledger
<1> QED
  BY <1>8, <1>11, <1>12 DEF Ledger

\* A pop takes an element from an end of a list; the command carries it, or it is
\* handed out, or lost.
Ends(s) == {<<Head(s), Tail(s)>>, <<SE!Last(s), SE!Front(s)>>}
Popped(L, L2, k, C, C2, c, o, o2, x) ==
    /\ L[k] \in Seq(Nat) /\ L[k] # <<>>
    /\ <<x, L2[k]>> \in Ends(L[k])
    /\ \A l \in Keys \ {k} : L2[l] = L[l]
    /\ C[c] = {} /\ \A d \in Clients \ {c} : C2[d] = C[d]
    /\ \/ C2[c] \subseteq {x} /\ o2 = o
       \/ C2[c] = {} /\ o2 \subseteq o \cup {x}

LEMMA LedgerPop ==
  ASSUME NEW L, NEW C, NEW o, NEW b \in Nat, Ledger(L, C, o, b),
         NEW k \in Keys, NEW c \in Clients, NEW x,
         NEW L2, NEW C2, NEW o2, Popped(L, L2, k, C, C2, c, o, o2, x)
  PROVE  Ledger(L2, C2, o2, b)
<1>. L[k] \in Seq(Nat) /\ L[k] # <<>> /\ \A l \in Keys \ {k} : L2[l] = L[l]
  BY DEF Popped
<1>. \/ x = Head(L[k]) /\ L2[k] = Tail(L[k])
     \/ x = SE!Last(L[k]) /\ L2[k] = SE!Front(L[k])
  BY DEF Popped, Ends
<1>. /\ C[c] = {} /\ \A d \in Clients \ {c} : C2[d] = C[d]
     /\ \/ C2[c] \subseteq {x} /\ o2 = o
        \/ C2[c] = {} /\ o2 \subseteq o \cup {x}
  BY DEF Popped
<1> DEFINE n == Len(L[k])
<1>1. n \in Nat \ {0}
  BY EmptySeq
<1>2. PICK g \in {0, 1}, p \in {1, n} :
        /\ Len(L2[k]) = n - 1 /\ x = L[k][p]
        /\ \A i \in 1 .. n - 1 : L2[k][i] = L[k][i + g] /\ i + g # p
  <2>1. CASE x = Head(L[k]) /\ L2[k] = Tail(L[k])
    <3>1. /\ Len(L2[k]) = n - 1 /\ x = L[k][1]
          /\ \A i \in 1 .. n - 1 : L2[k][i] = L[k][i + 1]
      BY <2>1, HeadTailProperties
    <3>2. \A i \in 1 .. n - 1 : L2[k][i] = L[k][i + 1] /\ i + 1 # 1
      BY <3>1, <1>1
    <3> QED
      BY <3>1, <3>2
  <2>2. CASE x = SE!Last(L[k]) /\ L2[k] = SE!Front(L[k])
    <3>1. L2[k] = SubSeq(L[k], 1, n - 1) /\ x = L[k][n]
      BY <2>2 DEF SE!Last, SE!Front
    <3>2. \A i \in 1 .. n - 1 : L[k][i] \in Nat
      BY <1>1, ElementOfSeq
    <3>3. /\ L2[k] \in Seq(Nat) /\ Len(L2[k]) = n - 1
          /\ \A i \in 1 .. n - 1 : L2[k][i] = L[k][i]
      BY <3>1, <3>2, <1>1
    <3>4. \A i \in 1 .. n - 1 : L2[k][i] = L[k][i + 0] /\ i + 0 # n
      BY <3>3, <1>1
    <3> QED
      BY <3>1, <3>3, <3>4
  <2> QED
    BY <2>1, <2>2
<1> DEFINE f == [l \in Keys |-> [i \in 1 .. Len(L2[l]) |-> IF l = k THEN i + g ELSE i]]
<1>3. \A l \in Keys : \A i \in 1 .. Len(L2[l]) : f[l][i] = IF l = k THEN i + g ELSE i
  OBVIOUS
<1> HIDE DEF f
<1>4. p \in 1 .. n
  BY <1>1
<1>5. \A l \in Keys : \A i \in 1 .. Len(L[l]) : L[l][i] = x => l = k /\ i = p
  BY <1>2, <1>4 DEF Ledger, Distinct
<1>6. \A l \in Keys : \A i \in 1 .. Len(L2[l]) :
        f[l][i] \in 1 .. Len(L[l]) /\ L2[l][i] = L[l][f[l][i]] /\ L2[l][i] # x
  <2> TAKE l \in Keys
  <2> TAKE i \in 1 .. Len(L2[l])
  <2>1. CASE l = k
    <3>1. i \in 1 .. n - 1
      BY <2>1, <1>2
    <3>2. i + g \in 1 .. n /\ L2[k][i] = L[k][i + g] /\ i + g # p
      BY <3>1, <1>1, <1>2, SMTT(30)
    <3>3. L[k][i + g] # x
      BY <3>2, <1>5
    <3> QED
      BY <2>1, <3>2, <3>3, <1>3
  <2>2. CASE l # k
    BY <2>2, <1>3, <1>5
  <2> QED
    BY <2>1, <2>2
<1>7. \A l \in Keys : \A i, j \in 1 .. Len(L2[l]) : f[l][i] = f[l][j] => i = j
  <2> TAKE l \in Keys
  <2> TAKE i, j \in 1 .. Len(L2[l])
  <2>1. f[l][i] = (IF l = k THEN i + g ELSE i) /\ f[l][j] = (IF l = k THEN j + g ELSE j)
    BY <1>3
  <2> QED
    BY <2>1
<1>8. Distinct(L2)
  <2>1. \A l \in Keys : \A i \in 1 .. Len(L2[l]) : i # 0
    OBVIOUS
  <2>2. \A l \in Keys : \A i \in 1 .. Len(L2[l]) :
          IF l = k /\ i = 0 THEN L2[l][i] = x
          ELSE f[l][i] \in 1 .. Len(L[l]) /\ L2[l][i] = L[l][f[l][i]] /\ L2[l][i] # x
    BY <2>1, <1>6
  <2>3. \A l \in Keys : \A i, j \in 1 .. Len(L2[l]) :
          ~(l = k /\ i = 0) /\ ~(l = k /\ j = 0) /\ f[l][i] = f[l][j] => i = j
    BY <1>7
  <2>4. Distinct(L)
    BY DEF Ledger
  <2>5. ComesFrom(L2, L, f, k, 0, x)
    BY <2>2, <2>3, Zenon DEF ComesFrom
  <2> QED
    BY <2>4, <2>5, StillDistinct
<1>9. x < b /\ x \notin o /\ \A d \in Clients : x \notin C[d]
  BY <1>2, <1>4 DEF Ledger
<1>10. \A l \in Keys : \A i \in 1 .. Len(L[l]) :
         L[l][i] < b /\ L[l][i] \notin o /\ \A d \in Clients : L[l][i] \notin C[d]
  BY DEF Ledger
<1>11. \A l \in Keys : \A i \in 1 .. Len(L2[l]) :
         L2[l][i] < b /\ L2[l][i] \notin o2 /\ \A d \in Clients : L2[l][i] \notin C2[d]
  <2> TAKE l \in Keys
  <2> TAKE i \in 1 .. Len(L2[l])
  <2> DEFINE y == L2[l][i]
  <2>1. y # x /\ f[l][i] \in 1 .. Len(L[l]) /\ y = L[l][f[l][i]]
    BY <1>6
  <2> HIDE DEF y
  <2>2. y < b /\ y \notin o /\ \A d \in Clients : y \notin C[d]
    BY <2>1, <1>10
  <2>3. y < b /\ y \notin o2 /\ \A d \in Clients : y \notin C2[d]
    BY <2>1, <2>2
  <2> QED
    BY <2>3 DEF y
<1>12. \A d, e \in Clients : d # e => C2[d] \cap C2[e] = {}
  BY <1>9 DEF Ledger
<1>13. \A d \in Clients : \A e \in C2[d] : e < b /\ e \notin o2
  <2>1. \A d \in Clients : \A e \in C[d] : e < b /\ e \notin o /\ e # x
    BY <1>9 DEF Ledger
  <2> QED
    BY <2>1, <1>9
<1>14. \A e \in o2 : e < b
  BY <1>9 DEF Ledger
<1> QED
  BY <1>8, <1>11, <1>12, <1>13, <1>14 DEF Ledger

-----------------------------------------------------------------------------
(***************************************************************************)
(* The storage primitives, on keys that do not expire.                     *)
(***************************************************************************)

LEMMA Primitives ==
  ASSUME NEW k \in KeyRec, NEW type \in KeyTypes
  PROVE  /\ ~TakesOver(k, Now)
         /\ \A n \in Int : /\ EnsureType(k, type, n) \in KeyRec
                           /\ EnsureType(k, type, n).data = k.data
         /\ EnsureTypeExpiring(k, type, Now) \in KeyRec /\ EnsureTypeExpiring(k, type, Now).data = k.data
         /\ DeleteMetaIfEmpty(k) \in KeyRec /\ DeleteMetaIfEmpty(k).data = k.data
         /\ Persist(k) \in KeyRec /\ Persist(k).data = k.data
<1>1. k.exp \in {0, 2} /\ k.cnt \in Int /\ k.data \in Data /\ k.t \in KeyTypes
  BY DEF KeyRec
<1>2. ~TakesOver(k, Now)
  BY <1>1 DEF TakesOver, IsExpired, Now
<1>3. \A n \in Int : /\ EnsureType(k, type, n) \in KeyRec
                     /\ EnsureType(k, type, n).data = k.data
  BY <1>1 DEF EnsureType, KeyRec
<1>4. EnsureTypeExpiring(k, type, Now) = EnsureType(k, type, 0)
  BY <1>2 DEF EnsureTypeExpiring
<1>5. DeleteMetaIfEmpty(k) \in KeyRec /\ DeleteMetaIfEmpty(k).data = k.data
  <2>1. NoMeta(k) \in KeyRec /\ NoMeta(k).data = k.data
    BY <1>1 DEF NoMeta, Claimed, KeyRec, KeyTypes
  <2> QED
    BY <2>1 DEF DeleteMetaIfEmpty
<1>6. Persist(k) \in KeyRec /\ Persist(k).data = k.data
  BY <1>1 DEF Persist, SetExpire, KeyRec
<1> QED
  BY <1>2, <1>3, <1>4, <1>5, <1>6

LEMMA DataWrites ==
  ASSUME NEW k \in KeyRec
  PROVE  /\ \A s \in Seq(Nat) : WithList(k, s) \in KeyRec /\ WithList(k, s).data.list = s
         /\ \A ms \in SUBSET Nat : /\ WithSet(k, ms) \in KeyRec
                                   /\ WithSet(k, ms).data.list = k.data.list
         /\ \A v \in Nat : LET w == [k EXCEPT !.data.str = v]
                           IN  w \in KeyRec /\ w.data.list = k.data.list
<1>1. /\ k = [t |-> k.t, exp |-> k.exp, cnt |-> k.cnt, data |-> k.data]
      /\ k.t \in KeyTypes /\ k.exp \in {0, 2} /\ k.cnt \in Int /\ k.data \in Data
  BY DEF KeyRec
<1>2. /\ k.data = [list |-> k.data.list, set |-> k.data.set, str |-> k.data.str]
      /\ k.data.list \in Seq(Nat) /\ k.data.set \in SUBSET Nat /\ k.data.str \in Nat \cup {Gone}
  BY <1>1 DEF Data
<1>3. \A d \in Data : [t |-> k.t, exp |-> k.exp, cnt |-> k.cnt, data |-> d] \in KeyRec
  BY <1>1 DEF KeyRec
<1>4. ASSUME NEW s \in Seq(Nat)
      PROVE  WithList(k, s) \in KeyRec /\ WithList(k, s).data.list = s
  <2>1. WithList(k, s) = [t |-> k.t, exp |-> k.exp, cnt |-> k.cnt,
                          data |-> [list |-> s, set |-> k.data.set, str |-> k.data.str]]
    BY <1>1, <1>2, SMTT(30) DEF WithList
  <2> QED
    BY <2>1, <1>2, <1>3 DEF Data
<1>5. ASSUME NEW ms \in SUBSET Nat
      PROVE  WithSet(k, ms) \in KeyRec /\ WithSet(k, ms).data.list = k.data.list
  <2>1. WithSet(k, ms) = [t |-> k.t, exp |-> k.exp, cnt |-> k.cnt,
                          data |-> [list |-> k.data.list, set |-> ms, str |-> k.data.str]]
    BY <1>1, <1>2 DEF WithSet
  <2> QED
    BY <2>1, <1>2, <1>3 DEF Data
<1>6. ASSUME NEW v \in Nat
      PROVE  /\ [k EXCEPT !.data.str = v] \in KeyRec
             /\ [k EXCEPT !.data.str = v].data.list = k.data.list
  <2>1. [k EXCEPT !.data.str = v] = [t |-> k.t, exp |-> k.exp, cnt |-> k.cnt,
                                     data |-> [list |-> k.data.list, set |-> k.data.set, str |-> v]]
    BY <1>1, <1>2
  <2> QED
    BY <2>1, <1>2, <1>3 DEF Data
<1> QED
  BY <1>4, <1>5, <1>6

-----------------------------------------------------------------------------
(***************************************************************************)
(* Steps.  A command whose next call is on a meta item or a set goes on    *)
(* with what it carries, or ends.                                          *)
(***************************************************************************)
Follows(r, q) ==
    \/ q = Idle
    \/ /\ q \in ClientRec /\ q.steps # <<>> /\ q.cmd = r.cmd /\ q.hand = r.hand
       /\ \E d \in OtherRec : q.steps = Tail(r.steps) \/ q.steps = <<d>> \o Tail(r.steps)

LEMMA IdleOK == ClientOK(Idle) /\ Carried(Idle) = {} /\ Idle.steps = <<>> /\ Idle.hand = <<>>
<1>1. <<>> \in Hand /\ <<>> \in Seq(Nat) /\ <<>> \in Seq(Keys) /\ <<>> \in Seq(CallRec)
  BY EmptySeq DEF Hand
<1>2. NoCmd \in Command /\ NoCmd.op = "none"
  BY <1>1 DEF NoCmd, Command, OverlapOps
<1>3. /\ Idle \in ClientRec /\ Idle.steps = <<>> /\ Idle.hand = <<>> /\ Idle.cmd = NoCmd
  BY <1>1, <1>2 DEF Idle, ClientRec
<1>4. PushAt(Idle) = {} /\ PopAt(Idle) = {}
  BY <1>3 DEF PushAt, PopAt
<1> QED
  BY <1>2, <1>3, <1>4 DEF ClientOK, Orderly, Carried, PushOps

LEMMA FollowsOK ==
  ASSUME NEW r, ClientOK(r), r.steps # <<>>, Head(r.steps).call \in Others, NEW q, Follows(r, q)
  PROVE  ClientOK(q) /\ Carried(q) \subseteq Carried(r)
<1>1. CASE q = Idle
  BY <1>1, IdleOK
<1>2. CASE q # Idle
  <2>1. PICK d \in OtherRec : q.steps = Tail(r.steps) \/ q.steps = <<d>> \o Tail(r.steps)
    BY <1>2 DEF Follows
  <2>2. q \in ClientRec /\ q.steps # <<>> /\ q.cmd = r.cmd /\ q.hand = r.hand
    BY <1>2 DEF Follows
  <2>3. r \in ClientRec /\ Orderly(r)
    BY DEF ClientOK
  <2>4. Orderly(q) /\ Carried(q) \subseteq Carried(r)
    BY <2>1, <2>2, <2>3, QuietCall
  <2> QED
    BY <2>2, <2>4 DEF ClientOK
<1> QED
  BY <1>1, <1>2

\* What a connection's next call is made on.
LEMMA NextCall ==
  ASSUME OverlapInv, NEW c \in Clients, Busy(c)
  PROVE  /\ Call(c) \in CallRec /\ Call(c).key \in Keys /\ Call(c).type \in KeyTypes
         /\ At(c) \in KeyRec /\ At(c).data.list \in Seq(Nat) /\ At(c).cnt \in Int
         /\ cl[c] \in ClientRec /\ ClientOK(cl[c]) /\ cl[c].steps # <<>>
<1>1. cl[c] \in ClientRec /\ ClientOK(cl[c]) /\ cl[c].steps # <<>>
  BY DEF OverlapInv, ClientOK, Busy
<1>2. cl[c].steps \in Seq(CallRec)
  BY <1>1 DEF ClientRec
<1>3. Call(c) \in CallRec
  BY <1>1, <1>2, HeadTailProperties DEF Call
<1>4. Call(c).key \in Keys /\ Call(c).type \in KeyTypes
  BY <1>3 DEF CallRec
<1>5. At(c) \in KeyRec
  BY <1>4 DEF At, OverlapInv
<1>6. At(c).data.list \in Seq(Nat) /\ At(c).cnt \in Int
  BY <1>5 DEF KeyRec, Data
<1> QED
  BY <1>1, <1>3, <1>4, <1>5, <1>6

LEMMA GoViaFollows ==
  ASSUME NEW c \in Clients, cl[c] \in ClientRec, cl[c].steps # <<>>,
         NEW rec \in ClientRec, rec.cmd = cl[c].cmd, rec.hand = cl[c].hand,
         NEW more, more = <<>> \/ \E d \in OtherRec : more = <<d>>, OtherRec # {},
         GoVia(c, rec, more)
  PROVE  \E q : Follows(cl[c], q) /\ cl' = [cl EXCEPT ![c] = q]
<1> DEFINE left == more \o Tail(cl[c].steps)
           q == IF left = <<>> THEN Idle ELSE [rec EXCEPT !.steps = left]
<1>1. cl' = [cl EXCEPT ![c] = q]
  BY DEF GoVia
<1>2. Tail(cl[c].steps) \in Seq(CallRec)
  BY HeadTailProperties DEF ClientRec
<1>3. PICK d \in OtherRec : left = Tail(cl[c].steps) \/ left = <<d>> \o Tail(cl[c].steps)
  BY <1>2, ConcatEmptySeq
<1>4. left \in Seq(CallRec)
  <2>1. <<d>> \in Seq(CallRec)
    BY OneItem DEF OtherRec, CallRec
  <2> HIDE DEF left
  <2> QED
    BY <1>2, <1>3, <2>1, ConcatProperties
<1>5. Follows(cl[c], q)
  <2> HIDE DEF left
  <2>1. CASE left = <<>>
    BY <2>1 DEF Follows
  <2>2. CASE left # <<>>
    <3>1. /\ q = [rec EXCEPT !.steps = left]
          /\ rec = [cmd |-> rec.cmd, steps |-> rec.steps, hand |-> rec.hand, n |-> rec.n,
                    cnt |-> rec.cnt, all |-> rec.all, sets |-> rec.sets, lst |-> rec.lst]
      BY <2>2 DEF ClientRec
    <3>2. q \in ClientRec /\ q.steps = left /\ q.cmd = rec.cmd /\ q.hand = rec.hand
      BY <3>1, <1>4 DEF ClientRec
    <3> HIDE DEF q
    <3> QED
      BY <3>2, <1>3, <2>2 DEF Follows
  <2> QED
    BY <2>1, <2>2
<1> QED
  BY <1>1, <1>5

\* One connection's state and one key change; the ledger follows from theirs.
LEMMA OneStep ==
  ASSUME OverlapInv, NEW c \in Clients, NEW q, ClientOK(q), cl' = [cl EXCEPT ![c] = q],
         NEW key \in Keys, NEW k \in KeyRec, db' = [db EXCEPT ![key] = k],
         ops' \in 0 .. MaxOps, faults' \in 0 .. MaxFaults, out' \subseteq Nat,
         \A L2, C2 : /\ \A l \in Keys \ {key} : L2[l] = Lists[l]
                     /\ L2[key] = k.data.list
                     /\ \A d \in Clients \ {c} : C2[d] = Hands[d]
                     /\ C2[c] = Carried(q)
                     => Ledger(L2, C2, out', 10 + ops')
  PROVE  OverlapInv'
<1>1. db' \in [Keys -> KeyRec] /\ db'[key] = k /\ \A l \in Keys \ {key} : db'[l] = db[l]
  BY DEF OverlapInv
<1>2. /\ cl' = [d \in Clients |-> cl'[d]] /\ cl'[c] = q
      /\ \A d \in Clients \ {c} : cl'[d] = cl[d]
  BY DEF OverlapInv
<1>3. \A d \in Clients : ClientOK(cl'[d])
  BY <1>2 DEF OverlapInv
<1> DEFINE L2 == [l \in Keys |-> db'[l].data.list]
           C2 == [d \in Clients |-> Carried(cl'[d])]
<1>4. L2[key] = k.data.list /\ \A l \in Keys \ {key} : L2[l] = Lists[l]
  BY <1>1 DEF Lists
<1>5. C2[c] = Carried(q) /\ \A d \in Clients \ {c} : C2[d] = Hands[d]
  BY <1>2 DEF Hands
<1>6. Ledger(L2, C2, out', 10 + ops')
  <2> HIDE DEF L2, C2
  <2> QED
    BY <1>4, <1>5
<1>7. Ledger(Lists, Hands, out, 10 + ops)'
  BY <1>6 DEF Lists, Hands
<1>8. (\A d \in Clients : ClientOK(cl[d]))'
  BY <1>3
<1>9. (db \in [Keys -> KeyRec] /\ cl = [d \in Clients |-> cl[d]])'
  BY <1>1, <1>2
<1> QED
  BY <1>7, <1>8, <1>9 DEF OverlapInv

Quiet(c) ==
    /\ \E q : Follows(cl[c], q) /\ cl' = [cl EXCEPT ![c] = q]
    /\ \E k \in KeyRec : k.data.list = At(c).data.list /\ db' = [db EXCEPT ![Call(c).key] = k]
    /\ UNCHANGED <<ops, faults>>

LEMMA QuietStep ==
  ASSUME OverlapInv, NEW c \in Clients, Busy(c), Call(c).call \in Others, Quiet(c), Record(c)
  PROVE  OverlapInv'
<1>1. PICK q : Follows(cl[c], q) /\ cl' = [cl EXCEPT ![c] = q]
  BY DEF Quiet
<1>2. PICK k \in KeyRec : k.data.list = At(c).data.list /\ db' = [db EXCEPT ![Call(c).key] = k]
  BY DEF Quiet
<1>3. Call(c).key \in Keys /\ ClientOK(cl[c]) /\ cl[c].steps # <<>>
  BY NextCall
<1>4. ClientOK(q) /\ Carried(q) \subseteq Carried(cl[c])
  BY <1>1, <1>3, FollowsOK DEF Call
<1>5. out' = out
  BY DEF Record, HandsOut, Others
<1>6. ops' = ops /\ faults' = faults /\ ops \in Nat
  BY TableAssumption DEF Quiet, OverlapInv
<1>7. ASSUME NEW L2, NEW C2, \A l \in Keys \ {Call(c).key} : L2[l] = Lists[l], L2[Call(c).key] = k.data.list,
             \A d \in Clients \ {c} : C2[d] = Hands[d], C2[c] = Carried(q)
      PROVE  Ledger(L2, C2, out', 10 + ops')
  <2>1. \A l \in Keys : L2[l] = Lists[l]
    BY <1>7, <1>2, <1>3 DEF Lists, At
  <2>2. \A d \in Clients : C2[d] \subseteq Hands[d]
    BY <1>7, <1>4 DEF Hands
  <2>3. Ledger(Lists, Hands, out, 10 + ops) /\ 10 + ops \in Nat
    BY <1>6 DEF OverlapInv
  <2>4. Ledger(L2, C2, out, 10 + ops)
    BY <2>1, <2>2, <2>3, LedgerQuiet
  <2> QED
    BY <2>4, <1>5, <1>6
<1>8. ops' \in 0 .. MaxOps /\ faults' \in 0 .. MaxFaults /\ out' \subseteq Nat
  BY <1>5, <1>6 DEF OverlapInv
<1> QED
  BY <1>1, <1>2, <1>3, <1>4, <1>7, <1>8, OneStep

LEMMA LocalKeeps ==
  ASSUME OverlapInv, NEW c \in Clients, Busy(c), Local
  PROVE  /\ \E k \in KeyRec : k.data.list = At(c).data.list /\ db' = [db EXCEPT ![Call(c).key] = k]
         /\ UNCHANGED <<ops, faults>>
<1>1. At(c) \in KeyRec /\ Call(c).key \in Keys
  BY NextCall
<1>2. db' = [db EXCEPT ![Call(c).key] = At(c)]
  BY <1>1 DEF Local, At, OverlapInv
<1> QED
  BY <1>1, <1>2 DEF Local

LEMMA WriteKeeps ==
  ASSUME OverlapInv, NEW c \in Clients, Busy(c), NEW k \in KeyRec, k.data.list = At(c).data.list, Write(c, k)
  PROVE  /\ \E r \in KeyRec : r.data.list = At(c).data.list /\ db' = [db EXCEPT ![Call(c).key] = r]
         /\ UNCHANGED <<ops, faults>>
  BY DEF Write

LEMMA OtherExists ==
  ASSUME OverlapInv, NEW c \in Clients, Busy(c)
  PROVE  /\ OtherRec # {}
         /\ \A call \in Others : S(call, Call(c).key, NoType) \in OtherRec
  BY NextCall, CallTypes DEF KeyTypes, Others

LEMMA DoneFollows ==
  ASSUME NEW c \in Clients, Done(c)
  PROVE  \E q : Follows(cl[c], q) /\ cl' = [cl EXCEPT ![c] = q]
  BY DEF Done, Follows

LEMMA GoFollows ==
  ASSUME OverlapInv, NEW c \in Clients, Busy(c),
         NEW rec \in ClientRec, rec.cmd = cl[c].cmd, rec.hand = cl[c].hand, Go(c, rec)
  PROVE  \E q : Follows(cl[c], q) /\ cl' = [cl EXCEPT ![c] = q]
  BY NextCall, OtherExists, GoViaFollows DEF Go

LEMMA GoOnFollows ==
  ASSUME OverlapInv, NEW c \in Clients, Busy(c), GoOn(c)
  PROVE  \E q : Follows(cl[c], q) /\ cl' = [cl EXCEPT ![c] = q]
  BY NextCall, GoFollows DEF GoOn

\* Client records with other numbers, elements and hands.
LEMMA WithCount ==
  ASSUME NEW r \in ClientRec, NEW n \in Int
  PROVE  \E q \in ClientRec : /\ q = [r EXCEPT !.cnt = n] /\ q.cmd = r.cmd /\ q.hand = r.hand
                              /\ q.n = r.n /\ q.all = r.all
<1>1. r = [cmd |-> r.cmd, steps |-> r.steps, hand |-> r.hand, n |-> r.n,
           cnt |-> r.cnt, all |-> r.all, sets |-> r.sets, lst |-> r.lst]
  BY DEF ClientRec
<1>2. /\ [r EXCEPT !.cnt = n] \in ClientRec
      /\ [r EXCEPT !.cnt = n].cmd = r.cmd /\ [r EXCEPT !.cnt = n].hand = r.hand
      /\ [r EXCEPT !.cnt = n].n = r.n /\ [r EXCEPT !.cnt = n].all = r.all
  BY <1>1 DEF ClientRec
<1> QED
  BY <1>2

Having(r, all, n) == [r EXCEPT !.n = n, !.all = all]

LEMMA WithElements ==
  ASSUME NEW r \in ClientRec, NEW n \in Int, NEW all \in Seq(Nat)
  PROVE  /\ Having(r, all, n) \in ClientRec /\ Having(r, all, n).cmd = r.cmd
         /\ Having(r, all, n).hand = r.hand /\ Having(r, all, n).n = n /\ Having(r, all, n).all = all
<1>1. r = [cmd |-> r.cmd, steps |-> r.steps, hand |-> r.hand, n |-> r.n,
           cnt |-> r.cnt, all |-> r.all, sets |-> r.sets, lst |-> r.lst]
  BY DEF ClientRec
<1> QED
  BY <1>1 DEF ClientRec, Having

Holding(r, hand, n) == [r EXCEPT !.hand = hand, !.n = n]

LEMMA WithHand ==
  ASSUME NEW r \in ClientRec, NEW n \in Int, NEW hand \in Hand
  PROVE  /\ Holding(r, hand, n) \in ClientRec /\ Holding(r, hand, n).cmd = r.cmd
         /\ Holding(r, hand, n).hand = hand /\ Holding(r, hand, n).n = n /\ Holding(r, hand, n).all = r.all
<1>1. r = [cmd |-> r.cmd, steps |-> r.steps, hand |-> r.hand, n |-> r.n,
           cnt |-> r.cnt, all |-> r.all, sets |-> r.sets, lst |-> r.lst]
  BY DEF ClientRec
<1> QED
  BY <1>1 DEF ClientRec, Holding

-----------------------------------------------------------------------------
\* The checks; the ones on operands and results are not made here.
LEMMA ChecksQuiet ==
  ASSUME OverlapInv, NEW c \in Clients, Checks(c)
  PROVE  Busy(c) /\ Call(c).call \in Others /\ Quiet(c)
<1>1. Busy(c)
  BY DEF Checks, LiveStep, TypeStep, AbsentStep, IsMemberStep, OperandStep, SomeStep, Calls
<1>2. Call(c).call \in Pushes \cup Pops \cup Others /\ cl[c] \in ClientRec /\ At(c).cnt \in Int
  BY <1>1, NextCall DEF CallRec
<1>3. CASE LiveStep(c)
  <2>1. Call(c).call \in Others /\ Local
    BY <1>3 DEF LiveStep, Calls, Others
  <2>2. CASE Go(c, [cl[c] EXCEPT !.cnt = At(c).cnt])
    <3> DEFINE rec == [cl[c] EXCEPT !.cnt = At(c).cnt]
    <3>1. rec \in ClientRec /\ rec.cmd = cl[c].cmd /\ rec.hand = cl[c].hand
      BY <1>2, WithCount
    <3>2. Go(c, rec)
      BY <2>2
    <3> HIDE DEF rec
    <3> QED
      BY <1>1, <2>1, <3>1, <3>2, GoFollows, LocalKeeps DEF Quiet
  <2>3. CASE Done(c)
    BY <1>1, <2>1, <2>3, DoneFollows, LocalKeeps DEF Quiet
  <2> QED
    BY <1>3, <2>2, <2>3 DEF LiveStep
<1>4. CASE TypeStep(c) \/ AbsentStep(c) \/ IsMemberStep(c)
  <2>1. Call(c).call \in Others /\ Local /\ (Done(c) \/ GoOn(c))
    BY <1>4 DEF TypeStep, AbsentStep, IsMemberStep, Calls, Others
  <2> QED
    BY <1>1, <2>1, DoneFollows, GoOnFollows, LocalKeeps DEF Quiet
<1>5. CASE OperandStep(c) \/ SomeStep(c)
  BY <1>2, <1>5 DEF OperandStep, SomeStep, Calls, Pushes, Pops, Others
<1> QED
  BY <1>3, <1>4, <1>5 DEF Checks

LEMMA MetaQuiet ==
  ASSUME OverlapInv, NEW c \in Clients, MetaCalls(c)
  PROVE  Busy(c) /\ Call(c).call \in Others /\ Quiet(c)
<1>1. Busy(c)
  BY DEF MetaCalls, EnsureStep, CountStep, DropStep, DeleteMetaStep, GuardStep, OverwriteStep,
         PersistStep, Calls
<1>2. /\ Call(c).call \in Pushes \cup Pops \cup Others /\ cl[c] \in ClientRec /\ cl[c].steps # <<>>
      /\ At(c) \in KeyRec /\ Call(c).type \in KeyTypes
  BY <1>1, NextCall DEF CallRec
<1>3. CASE EnsureStep(c)
  <2>1. Call(c).call \in Others
    BY <1>3 DEF EnsureStep, Calls, Others
  <2>2. CASE Done(c) /\ Local
    BY <1>1, <2>1, <2>2, DoneFollows, LocalKeeps DEF Quiet
  <2>3. CASE ~(Done(c) /\ Local)
    <3>1. /\ GoVia(c, cl[c], IF TakesOver(At(c), Now) THEN DeleteMembers(Call(c).key) ELSE <<>>)
          /\ Write(c, EnsureTypeExpiring(At(c), Call(c).type, Now))
      BY <1>3, <2>3 DEF EnsureStep
    <3>2. /\ ~TakesOver(At(c), Now)
          /\ EnsureTypeExpiring(At(c), Call(c).type, Now) \in KeyRec
          /\ EnsureTypeExpiring(At(c), Call(c).type, Now).data = At(c).data
      BY <1>2, Primitives
    <3>3. GoOn(c)
      BY <3>1, <3>2 DEF GoOn, Go
    <3> QED
      BY <1>1, <2>1, <3>1, <3>2, <3>3, GoOnFollows, WriteKeeps DEF Quiet
  <2> QED
    BY <2>2, <2>3
<1>4. CASE CountStep(c)
  <2> DEFINE after == EnsureType(At(c), Call(c).type, cl[c].n)
             more == IF cl[c].n < 0 /\ after.cnt <= 0 THEN <<S("drop", Call(c).key, NoType)>> ELSE <<>>
  <2>1. Call(c).call \in Others
    BY <1>4 DEF CountStep, Calls, Others
  <2>2. CASE Local /\ (Done(c) \/ GoOn(c))
    BY <1>1, <2>1, <2>2, DoneFollows, GoOnFollows, LocalKeeps DEF Quiet
  <2>3. CASE GoVia(c, cl[c], more) /\ Write(c, after)
    <3>1. after \in KeyRec /\ after.data = At(c).data
      <4>1. cl[c].n \in Int
        BY <1>2 DEF ClientRec
      <4> QED
        BY <4>1, <1>2, Primitives
    <3>2. more = <<>> \/ \E d \in OtherRec : more = <<d>>
      BY <1>1, OtherExists DEF Others
    <3> HIDE DEF more, after
    <3>3. \E q : Follows(cl[c], q) /\ cl' = [cl EXCEPT ![c] = q]
      BY <1>1, <1>2, <2>3, <3>2, OtherExists, GoViaFollows
    <3> QED
      BY <1>1, <2>1, <2>3, <3>1, <3>3, WriteKeeps DEF Quiet
  <2> QED
    BY <1>4, <2>2, <2>3 DEF CountStep
<1>5. CASE DropStep(c) \/ PersistStep(c)
  <2>1. PICK k \in {DeleteMetaIfEmpty(At(c)), Persist(At(c))} :
          Call(c).call \in Others /\ GoOn(c) /\ Write(c, k)
    BY <1>5 DEF DropStep, PersistStep, Calls, Others
  <2>2. k \in KeyRec /\ k.data = At(c).data
    BY <1>2, Primitives
  <2> QED
    BY <1>1, <2>1, <2>2, GoOnFollows, WriteKeeps DEF Quiet
<1>6. CASE DeleteMetaStep(c) \/ GuardStep(c) \/ OverwriteStep(c)
  BY <1>2, <1>6 DEF DeleteMetaStep, GuardStep, OverwriteStep, Calls, Pushes, Pops, Others
<1> QED
  BY <1>3, <1>4, <1>5, <1>6 DEF MetaCalls

LEMMA ElementsFinite ==
  ASSUME NEW s \in Seq(Nat)
  PROVE  SE!ToSet(s) \subseteq Nat /\ IsFiniteSet(SE!ToSet(s))
<1>1. SE!ToSet(s) = {s[i] : i \in 1 .. Len(s)}
  BY DEF SE!ToSet
<1>2. \A i \in 1 .. Len(s) : s[i] \in Nat
  BY ElementOfSeq
<1>3. IsFiniteSet(1 .. Len(s))
  BY FS_Interval
<1>4. s \in Surjection(1 .. Len(s), SE!ToSet(s))
  BY <1>1 DEF Surjection
<1> QED
  BY <1>1, <1>2, <1>3, <1>4, FS_Surjection

\* The calls on sets and strings.
LEMMA SetsQuiet ==
  ASSUME OverlapInv, NEW c \in Clients, SAddStep(c) \/ SRemStep(c) \/ SetStringStep(c)
  PROVE  Busy(c) /\ Call(c).call \in Others /\ Quiet(c)
<1>1. Busy(c) /\ Call(c).call \in Others
  BY DEF SAddStep, SRemStep, SetStringStep, Calls, Others
<1>2. /\ cl[c] \in ClientRec /\ At(c) \in KeyRec /\ At(c).data.set \subseteq Nat
      /\ cl[c].all \in Seq(Nat) /\ cl[c].cmd.elem \in Nat /\ cl[c].cmd.new \in Nat
  BY <1>1, NextCall DEF ClientRec, Command, KeyRec, Data
<1>3. CASE SAddStep(c)
  <2> DEFINE ms == SE!ToSet(cl[c].all)
             n == Cardinality(ms \ At(c).data.set)
             none == <<>>
             rec == Having(cl[c], none, n)
  <2>1. Go(c, rec) /\ Write(c, WithSet(At(c), At(c).data.set \cup ms))
    BY <1>3 DEF SAddStep, Having
  <2>2. ms \subseteq Nat /\ n \in Int
    <3>1. ms \subseteq Nat /\ IsFiniteSet(ms)
      BY <1>2, ElementsFinite
    <3>2. IsFiniteSet(ms \ At(c).data.set)
      BY <3>1, FS_Difference
    <3> QED
      BY <3>1, <3>2, FS_CardinalityType
  <2> HIDE DEF ms, n
  <2>3. rec \in ClientRec /\ rec.cmd = cl[c].cmd /\ rec.hand = cl[c].hand
    <3>1. none \in Seq(Nat)
      BY EmptySeq
    <3>2. n \in Int /\ cl[c] \in ClientRec
      BY <1>2, <2>2
    <3> HIDE DEF none
    <3> QED
      BY <3>1, <3>2, WithElements
  <2>4. WithSet(At(c), At(c).data.set \cup ms) \in KeyRec
        /\ WithSet(At(c), At(c).data.set \cup ms).data.list = At(c).data.list
    BY <1>2, <2>2, DataWrites
  <2> HIDE DEF rec
  <2> QED
    BY <1>1, <2>1, <2>3, <2>4, GoFollows, WriteKeeps DEF Quiet
<1>4. CASE SRemStep(c)
  <2> DEFINE m == cl[c].cmd.elem
             n == IF m \in At(c).data.set THEN -1 ELSE 0
             one == <<m>>
             rec == Having(cl[c], one, n)
  <2>1. Go(c, rec) /\ Write(c, WithSet(At(c), At(c).data.set \ {m}))
    BY <1>4 DEF SRemStep, Having
  <2>2. n \in Int /\ one \in Seq(Nat) /\ cl[c] \in ClientRec
    BY <1>2, OneItem
  <2> HIDE DEF n, one
  <2>3. rec \in ClientRec /\ rec.cmd = cl[c].cmd /\ rec.hand = cl[c].hand
    BY <2>2, WithElements
  <2>4. WithSet(At(c), At(c).data.set \ {m}) \in KeyRec
        /\ WithSet(At(c), At(c).data.set \ {m}).data.list = At(c).data.list
    BY <1>2, DataWrites
  <2> HIDE DEF rec
  <2> QED
    BY <1>1, <2>1, <2>3, <2>4, GoFollows, WriteKeeps DEF Quiet
<1>5. CASE SetStringStep(c)
  <2> DEFINE w == [At(c) EXCEPT !.data.str = cl[c].cmd.new]
  <2>1. GoOn(c) /\ Write(c, w)
    BY <1>5 DEF SetStringStep
  <2>2. w \in KeyRec /\ w.data.list = At(c).data.list
    BY <1>2, DataWrites
  <2> HIDE DEF w
  <2> QED
    BY <1>1, <2>1, <2>2, GoOnFollows, WriteKeeps DEF Quiet
<1> QED
  BY <1>3, <1>4, <1>5

-----------------------------------------------------------------------------
(***************************************************************************)
(* Pushes and pops, failures, and commands that start.                     *)
(***************************************************************************)

LEMMA GoTo ==
  ASSUME OverlapInv, NEW c \in Clients, Busy(c), NEW rec \in ClientRec, Go(c, rec)
  PROVE  \E q : /\ cl' = [cl EXCEPT ![c] = q] /\ cl'[c] = q
                /\ \/ q = Idle
                   \/ /\ q \in ClientRec /\ q.steps = Tail(cl[c].steps) /\ q.steps # <<>>
                      /\ q.cmd = rec.cmd /\ q.hand = rec.hand
<1> DEFINE left == <<>> \o Tail(cl[c].steps)
           q == IF left = <<>> THEN Idle ELSE [rec EXCEPT !.steps = left]
<1>1. cl' = [cl EXCEPT ![c] = q]
  BY DEF Go, GoVia
<1>2. Tail(cl[c].steps) \in Seq(CallRec) /\ left = Tail(cl[c].steps)
  <2>1. cl[c].steps \in Seq(CallRec) /\ cl[c].steps # <<>>
    BY NextCall DEF ClientRec
  <2>2. Tail(cl[c].steps) \in Seq(CallRec)
    BY <2>1, HeadTailProperties
  <2> QED
    BY <2>2, ConcatEmptySeq
<1> HIDE DEF left
<1>3. CASE left = <<>>
  <2>1. q = Idle
    BY <1>3
  <2> HIDE DEF q
  <2>2. cl'[c] = q
    BY <1>1 DEF OverlapInv
  <2> QED
    BY <1>1, <2>1, <2>2
<1>4. CASE left # <<>>
  <2>1. /\ q = [rec EXCEPT !.steps = left]
        /\ rec = [cmd |-> rec.cmd, steps |-> rec.steps, hand |-> rec.hand, n |-> rec.n,
                  cnt |-> rec.cnt, all |-> rec.all, sets |-> rec.sets, lst |-> rec.lst]
    BY <1>4 DEF ClientRec
  <2>2. q \in ClientRec /\ q.steps = left /\ q.cmd = rec.cmd /\ q.hand = rec.hand
    BY <2>1, <1>2 DEF ClientRec
  <2> HIDE DEF q
  <2>3. cl'[c] = q
    BY <1>1 DEF OverlapInv
  <2> QED
    BY <1>1, <1>2, <1>4, <2>2, <2>3
<1> QED
  BY <1>3, <1>4

LEMMA PushKeeps ==
  ASSUME OverlapInv, NEW c \in Clients, PushStep(c), Record(c)
  PROVE  OverlapInv'
<1> DEFINE r == cl[c]
           e == IF r.hand = <<>> THEN <<r.cmd.new>> ELSE r.hand
           s == At(c).data.list
           key == Call(c).key
           n == 1
           rec == Holding(r, <<>>, n)
<1>1. Busy(c) /\ Call(c).call \in Pushes
  BY DEF PushStep, Calls, Pushes
<1>2. /\ key \in Keys /\ At(c) \in KeyRec /\ s \in Seq(Nat) /\ At(c) = db[key]
      /\ r \in ClientRec /\ Orderly(r) /\ r.steps # <<>> /\ Head(r.steps).call \in Pushes
  BY <1>1, NextCall DEF ClientOK, At, Call
<1>n. n \in Int
  OBVIOUS
<1>3. PICK list \in {e \o s, s \o e} : Write(c, WithList(At(c), list)) /\ Go(c, rec)
  BY DEF PushStep, Holding
<1> HIDE DEF n
<1>4. rec \in ClientRec /\ rec.cmd = r.cmd /\ rec.hand = <<>>
  <2>1. <<>> \in Hand
    BY HandTypes
  <2>2. r \in ClientRec
    BY <1>2
  <2> HIDE DEF r
  <2> QED
    BY <2>1, <2>2, <1>n, WithHand
<1> HIDE DEF rec
<1>5. PICK q : /\ cl' = [cl EXCEPT ![c] = q] /\ cl'[c] = q
               /\ \/ q = Idle
                  \/ /\ q \in ClientRec /\ q.steps = Tail(r.steps) /\ q.steps # <<>>
                     /\ q.cmd = rec.cmd /\ q.hand = rec.hand
  BY <1>1, <1>3, <1>4, GoTo
<1>6. \A u : u.cmd = r.cmd /\ u.hand = <<>> /\ u.steps = Tail(r.steps) => Orderly(u) /\ Carried(u) = {}
  BY <1>2, PushCall
<1>7. ClientOK(q) /\ Carried(q) = {}
  <2>1. CASE q = Idle
    BY <2>1, IdleOK
  <2>2. CASE q # Idle
    BY <1>4, <1>5, <1>6, <2>2 DEF ClientOK
  <2> QED
    BY <2>1, <2>2
<1>8. PICK x \in Nat : Carried(r) = {x} /\ e = <<x>>
  <2>1. \E u : u.cmd = r.cmd /\ u.hand = <<>> /\ u.steps = Tail(r.steps)
    <3> WITNESS [cmd |-> r.cmd, hand |-> <<>>, steps |-> Tail(r.steps)]
    <3> QED
      OBVIOUS
  <2> QED
    BY <2>1, <1>2, PushCall
<1>9. list \in {<<x>> \o s, s \o <<x>>} /\ list \in Seq(Nat)
  <2>1. list \in {<<x>> \o s, s \o <<x>>}
    BY <1>3, <1>8
  <2>2. <<x>> \in Seq(Nat)
    BY OneItem
  <2> QED
    BY <2>1, <2>2, <1>2, ConcatProperties, SMTT(20), ZenonT(30)
<1>10. out' = out
  BY <1>1 DEF Record, HandsOut, Pushes
<1>11. /\ db' = [db EXCEPT ![key] = WithList(At(c), list)] /\ ops' = ops /\ faults' = faults
       /\ ops \in Nat /\ 10 + ops \in Nat
  <2>1. db' = [db EXCEPT ![key] = WithList(At(c), list)] /\ ops' = ops /\ faults' = faults
    BY <1>3 DEF Write
  <2>2. ops \in Nat
    BY TableAssumption, SMTT(20), ZenonT(30) DEF OverlapInv
  <2> QED
    BY <2>1, <2>2, SMTT(20), ZenonT(30)
<1>12. WithList(At(c), list) \in KeyRec /\ WithList(At(c), list).data.list = list
  BY <1>2, <1>9, DataWrites
<1> DEFINE k == WithList(At(c), list)
<1>13. Lists[key] = s /\ Hands[c] = {x} /\ Ledger(Lists, Hands, out, 10 + ops)
  BY <1>2, <1>8 DEF Lists, Hands, OverlapInv
<1> HIDE DEF k, s, r, e
<1>14. ASSUME NEW L2, NEW C2, \A l \in Keys \ {key} : L2[l] = Lists[l], L2[key] = k.data.list,
              \A d \in Clients \ {c} : C2[d] = Hands[d], C2[c] = Carried(q)
       PROVE  Ledger(L2, C2, out', 10 + ops')
  <2>1. /\ L2[key] = <<x>> \o Lists[key] \/ L2[key] = Lists[key] \o <<x>>
        /\ Lists[key] \in Seq(Nat) /\ C2[c] = {}
    BY <1>2, <1>7, <1>9, <1>12, <1>13, <1>14 DEF k
  <2>2. Pushed(Lists, L2, key, Hands, C2, c, x)
    BY <2>1, <1>13, <1>14, Zenon DEF Pushed
  <2> DEFINE b == 10 + ops
  <2>3. b \in Nat /\ Ledger(Lists, Hands, out, b)
    BY <1>11, <1>13
  <2> HIDE DEF b
  <2>4. Ledger(L2, C2, out, b)
    BY <2>2, <2>3, <1>2, LedgerPush
  <2> QED
    BY <2>4, <1>10, <1>11 DEF b
<1>15. ops' \in 0 .. MaxOps /\ faults' \in 0 .. MaxFaults /\ out' \subseteq Nat
  BY <1>10, <1>11 DEF OverlapInv
<1>16. k \in KeyRec /\ db' = [db EXCEPT ![key] = k]
  BY <1>11, <1>12 DEF k
<1> QED
  BY <1>2, <1>5, <1>7, <1>14, <1>15, <1>16, OneStep

LEMMA PopKeeps ==
  ASSUME OverlapInv, NEW c \in Clients, PopStep(c), Record(c)
  PROVE  OverlapInv'
<1> DEFINE r == cl[c]
           s == At(c).data.list
           key == Call(c).key
<1>1. Busy(c) /\ Call(c).call \in Pops
  BY DEF PopStep, Calls, Pops
<1>2. /\ key \in Keys /\ At(c) \in KeyRec /\ s \in Seq(Nat) /\ At(c) = db[key]
      /\ r \in ClientRec /\ Orderly(r) /\ r.steps # <<>> /\ Head(r.steps).call \in Pops
  BY <1>1, NextCall DEF ClientOK, At, Call
<1>3. /\ 10 + ops \in Nat /\ Lists[key] = s /\ Hands[c] = Carried(r)
      /\ Ledger(Lists, Hands, out, 10 + ops) /\ out \subseteq Nat
  BY <1>2, TableAssumption DEF Lists, Hands, OverlapInv
<1>4. out' = IF HandsOut(c) THEN out \cup SE!ToSet(cl'[c].hand) ELSE out
  BY DEF Record
<1>5. CASE s = <<>>
  <2>1. cl' = [cl EXCEPT ![c] = Idle] /\ Local /\ cl'[c] = Idle
    BY <1>5 DEF PopStep, Done, OverlapInv
  <2>2. out' = out
    BY <2>1, <1>4, IdleOK DEF SE!ToSet
  <2>3. db' = [db EXCEPT ![key] = At(c)] /\ ops' = ops /\ faults' = faults
    BY <2>1, <1>2 DEF Local, OverlapInv
  <2>4. ASSUME NEW L2, NEW C2, \A l \in Keys \ {key} : L2[l] = Lists[l], L2[key] = At(c).data.list,
               \A d \in Clients \ {c} : C2[d] = Hands[d], C2[c] = Carried(Idle)
        PROVE  Ledger(L2, C2, out', 10 + ops')
    <3>1. \A l \in Keys : L2[l] = Lists[l]
      BY <2>4, <1>3
    <3>2. \A d \in Clients : C2[d] \subseteq Hands[d]
      BY <2>4, IdleOK
    <3>3. Ledger(L2, C2, out, 10 + ops)
      BY <3>1, <3>2, <1>3, LedgerQuiet
    <3> QED
      BY <3>3, <2>2, <2>3
  <2>5. ops' \in 0 .. MaxOps /\ faults' \in 0 .. MaxFaults /\ out' \subseteq Nat
    BY <2>2, <2>3 DEF OverlapInv
  <2> QED
    BY <1>2, <2>1, <2>3, <2>4, <2>5, IdleOK, OneStep
<1>6. CASE s # <<>>
  <2>1. \E x, rest :
          /\ (x = Head(s) /\ rest = Tail(s)) \/ (x = SE!Last(s) /\ rest = SE!Front(s))
          /\ Go(c, Holding(r, <<x>>, -1)) /\ Write(c, WithList(At(c), rest))
    <3>1. CASE Call(c).call = "lpop"
      <4>1. Go(c, Holding(r, <<Head(s)>>, -1)) /\ Write(c, WithList(At(c), Tail(s)))
        BY <1>6, <3>1 DEF PopStep, Holding
      <4> WITNESS Head(s), Tail(s)
      <4> QED
        BY <4>1
    <3>2. CASE Call(c).call # "lpop"
      <4>1. Go(c, Holding(r, <<SE!Last(s)>>, -1)) /\ Write(c, WithList(At(c), SE!Front(s)))
        BY <1>6, <3>2 DEF PopStep, Holding
      <4> QED
        BY <4>1
    <3> QED
      BY <3>1, <3>2
  <2>pick. PICK x, rest :
          /\ (x = Head(s) /\ rest = Tail(s)) \/ (x = SE!Last(s) /\ rest = SE!Front(s))
          /\ Go(c, Holding(r, <<x>>, -1)) /\ Write(c, WithList(At(c), rest))
    BY <2>1
  <2> DEFINE n == -1
             rec == Holding(r, <<x>>, n)
  <2>2. x \in Nat /\ rest \in Seq(Nat)
    <3>1. CASE x = Head(s) /\ rest = Tail(s)
      BY <3>1, <1>2, <1>6, HeadTailProperties
    <3>2. CASE x = SE!Last(s) /\ rest = SE!Front(s)
      <4>1. Len(s) \in Nat \ {0}
        BY <1>2, <1>6, EmptySeq
      <4>2. \A i \in 1 .. Len(s) : s[i] \in Nat
        BY <1>2, ElementOfSeq
      <4> HIDE DEF s
      <4> QED
        BY <3>2, <4>1, <4>2 DEF SE!Last, SE!Front
    <3> QED
      BY <2>pick, <3>1, <3>2
  <2>3. <<x>> \in Hand
    BY <2>2, HandTypes
  <2>5. Go(c, rec) /\ n \in Int
    BY <2>pick
  <2> HIDE DEF n
  <2>4. rec \in ClientRec /\ rec.cmd = r.cmd /\ rec.hand = <<x>>
    BY <2>3, <2>5, <1>2, WithHand
  <2> HIDE DEF rec
  <2>6. PICK q : /\ cl' = [cl EXCEPT ![c] = q] /\ cl'[c] = q
                 /\ \/ q = Idle
                    \/ /\ q \in ClientRec /\ q.steps = Tail(r.steps) /\ q.steps # <<>>
                       /\ q.cmd = rec.cmd /\ q.hand = rec.hand
    BY <1>1, <2>4, <2>5, GoTo
  <2>7. \A u : u.cmd = r.cmd /\ u.hand = <<x>> /\ u.steps = Tail(r.steps) =>
          Orderly(u) /\ IF r.cmd.op = "rpoplpush" THEN Carried(u) = {x} ELSE Carried(u) = {}
    BY <1>2, <2>2, PopCall
  <2>8. Carried(r) = {}
    <3>1. \E u : u.cmd = r.cmd /\ u.hand = <<x>> /\ u.steps = Tail(r.steps)
      <4> WITNESS [cmd |-> r.cmd, hand |-> <<x>>, steps |-> Tail(r.steps)]
      <4> QED
        OBVIOUS
    <3> QED
      BY <3>1, <1>2, <2>2, PopCall
  <2>9. ClientOK(q) /\ (q.hand = <<>> \/ q.hand = <<x>>) /\ Carried(q) \subseteq {x}
        /\ (r.cmd.op # "rpoplpush" => Carried(q) = {})
    <3>1. CASE q = Idle
      BY <3>1, IdleOK
    <3>2. CASE q # Idle
      BY <2>4, <2>6, <2>7, <3>2 DEF ClientOK
    <3> QED
      BY <3>1, <3>2
  <2>10. \/ Carried(q) \subseteq {x} /\ out' = out
         \/ Carried(q) = {} /\ out' \subseteq out \cup {x}
    <3>1. CASE HandsOut(c)
      <4>1. r.cmd.op # "rpoplpush"
        BY <3>1 DEF HandsOut
      <4>2. SE!ToSet(q.hand) \subseteq {x}
        BY <2>9 DEF SE!ToSet
      <4> QED
        BY <4>1, <4>2, <3>1, <2>6, <2>9, <1>4
    <3>2. CASE ~HandsOut(c)
      BY <3>2, <2>9, <1>4
    <3> QED
      BY <3>1, <3>2
  <2> DEFINE k == WithList(At(c), rest)
  <2>11. k \in KeyRec /\ k.data.list = rest
    BY <1>2, <2>2, DataWrites
  <2>12. db' = [db EXCEPT ![key] = k] /\ ops' = ops /\ faults' = faults
    BY <2>pick DEF Write
  <2> HIDE DEF k, s, r
  <2>13. ASSUME NEW L2, NEW C2, \A l \in Keys \ {key} : L2[l] = Lists[l], L2[key] = k.data.list,
                \A d \in Clients \ {c} : C2[d] = Hands[d], C2[c] = Carried(q)
         PROVE  Ledger(L2, C2, out', 10 + ops')
    <3>1. /\ <<x, L2[key]>> \in Ends(Lists[key])
          /\ Lists[key] \in Seq(Nat) /\ Lists[key] # <<>>
      BY <1>2, <1>3, <1>6, <2>pick, <2>11, <2>13 DEF Ends
    <3>2. Hands[c] = {}
      BY <1>3, <2>8
    <3>3. /\ \/ C2[c] \subseteq {x} /\ out' = out
             \/ C2[c] = {} /\ out' \subseteq out \cup {x}
      BY <2>10, <2>13
    <3>4. Popped(Lists, L2, key, Hands, C2, c, out, out', x)
      BY <2>13, <3>1, <3>2, <3>3, Zenon DEF Popped
    <3> DEFINE b == 10 + ops
    <3>5. b \in Nat /\ Ledger(Lists, Hands, out, b)
      BY <1>3
    <3> HIDE DEF b
    <3>6. Ledger(L2, C2, out', b)
      BY <3>4, <3>5, <1>2, LedgerPop
    <3> QED
      BY <3>6, <2>12 DEF b
  <2>14. ops' \in 0 .. MaxOps /\ faults' \in 0 .. MaxFaults /\ out' \subseteq Nat
    BY <1>3, <2>2, <2>10, <2>12 DEF OverlapInv
  <2> QED
    BY <1>2, <2>6, <2>9, <2>11, <2>12, <2>13, <2>14, OneStep
<1> QED
  BY <1>5, <1>6

LEMMA ContinueKeeps ==
  ASSUME OverlapInv, NEW c \in Clients, Continue(c), Record(c)
  PROVE  OverlapInv'
<1>1. CASE Checks(c)
  BY <1>1, ChecksQuiet, QuietStep
<1>2. CASE MetaCalls(c)
  BY <1>2, MetaQuiet, QuietStep
<1>3. CASE SAddStep(c) \/ SRemStep(c) \/ SetStringStep(c)
  BY <1>3, SetsQuiet, QuietStep
<1>4. CASE PushStep(c)
  BY <1>4, PushKeeps
<1>5. CASE PopStep(c)
  BY <1>5, PopKeeps
\* Lists are neither rewritten nor cleared here.
<1>6. CASE LRangeAllStep(c) \/ QueryStep(c) \/ DeleteStep(c) \/ RefillStep(c)
  <2>1. Busy(c) /\ Call(c).call \in {"readall", "query", "delete", "refill"}
    BY <1>6 DEF LRangeAllStep, QueryStep, DeleteStep, RefillStep, Calls
  <2>2. Call(c).call \in Pushes \cup Pops \cup Others
    BY <2>1, NextCall DEF CallRec
  <2> QED
    BY <2>1, <2>2 DEF Pushes, Pops, Others
<1> QED
  BY <1>1, <1>2, <1>3, <1>4, <1>5, <1>6 DEF Continue, DataCalls

LEMMA FailKeeps ==
  ASSUME OverlapInv, NEW c \in Clients, Fail(c), Record(c)
  PROVE  OverlapInv'
<1>1. /\ Call(c).key \in Keys /\ At(c) \in KeyRec /\ At(c) = db[Call(c).key]
      /\ ops \in Nat /\ faults \in Nat /\ MaxFaults \in Nat
  BY NextCall, TableAssumption DEF Fail, At, OverlapInv
<1>2. cl' = [cl EXCEPT ![c] = Idle] /\ cl'[c] = Idle
  BY DEF Fail, Done, OverlapInv
<1>3. out' = out
  BY <1>2, IdleOK DEF Record, SE!ToSet
<1>4. db' = [db EXCEPT ![Call(c).key] = At(c)] /\ ops' = ops
  BY <1>1 DEF Fail, OverlapInv
<1>5. faults' \in 0 .. MaxFaults
  BY <1>1 DEF Fail
<1>6. ASSUME NEW L2, NEW C2, \A l \in Keys \ {Call(c).key} : L2[l] = Lists[l],
             L2[Call(c).key] = At(c).data.list,
             \A d \in Clients \ {c} : C2[d] = Hands[d], C2[c] = Carried(Idle)
      PROVE  Ledger(L2, C2, out', 10 + ops')
  <2>1. \A l \in Keys : L2[l] = Lists[l]
    BY <1>6, <1>1 DEF Lists
  <2>2. \A d \in Clients : C2[d] \subseteq Hands[d]
    BY <1>6, IdleOK
  <2>3. Ledger(Lists, Hands, out, 10 + ops) /\ 10 + ops \in Nat
    BY <1>1 DEF OverlapInv
  <2>4. Ledger(L2, C2, out, 10 + ops)
    BY <2>1, <2>2, <2>3, LedgerQuiet
  <2> QED
    BY <2>4, <1>3, <1>4
<1>7. ops' \in 0 .. MaxOps /\ out' \subseteq Nat
  BY <1>3, <1>4 DEF OverlapInv
<1> QED
  BY <1>1, <1>2, <1>4, <1>5, <1>6, <1>7, IdleOK, OneStep, SMTT(20), ZenonT(30)

\* A command that starts carries the element it will push, if it pushes one.
LEMMA StartCarries ==
  ASSUME ~serial, NEW new \in Nat, NEW cmd, \E q \in Requests : cmd = Carrying(q, new),
         NEW r, r.cmd = cmd, r.hand = <<>>,
         PushAt(r) = PushAt([steps |-> Handler(cmd)]), PopAt(r) = PopAt([steps |-> Handler(cmd)])
  PROVE  Orderly(r) /\ Carried(r) \subseteq {new}
<1>1. /\ \/ cmd.op \in PushOps /\ (PushAt(r) = {2} \/ PushAt(r) = {}) /\ PopAt(r) = {}
         \/ cmd.op \in Pops /\ PushAt(r) = {} /\ PopAt(r) = {2}
         \/ cmd.op = "rpoplpush" /\ PopAt(r) = {2} /\ PushAt(r) = {3}
         \/ cmd.op = "rpoplpush" /\ PopAt(r) = {3} /\ PushAt(r) = {6}
         \/ cmd.op \in {"smove", "msetnx"} /\ PushAt(r) = {} /\ PopAt(r) = {}
      /\ cmd.new = new
  BY HandlerCalls
<1>2. PushOps \cap (Pops \cup {"rpoplpush"}) = {}
  BY DEF PushOps, Pops
<1>3. Orderly(r)
  <2>1. CASE PushAt(r) = {}
    <3>1. (PopAt(r) = {} \/ PopAt(r) = {2}) /\ (PopAt(r) = {2} => cmd.op \notin PushOps)
      BY <1>1, <1>2, <2>1
    <3> QED
      BY <2>1, <3>1 DEF Orderly
  <2>2. CASE PushAt(r) = {2} /\ PopAt(r) = {} /\ cmd.op \in PushOps
    BY <2>2 DEF Orderly
  <2>3. CASE PushAt(r) = {3} /\ PopAt(r) = {2} /\ cmd.op = "rpoplpush"
    <3>1. 2 < 3 /\ r.cmd.op \notin PushOps
      BY <1>2, <2>3
    <3> QED
      BY <2>3, <3>1 DEF Orderly
  <2>4. CASE PushAt(r) = {6} /\ PopAt(r) = {3} /\ cmd.op = "rpoplpush"
    <3>1. 3 < 6 /\ r.cmd.op \notin PushOps
      BY <1>2, <2>4
    <3> QED
      BY <2>4, <3>1 DEF Orderly
  <2> QED
    BY <1>1, <2>1, <2>2, <2>3, <2>4
<1>4. Carried(r) \subseteq {new}
  BY <1>1 DEF Carried
<1> QED
  BY <1>3, <1>4

LEMMA RequestCarries ==
  ASSUME ~serial, NEW q \in Requests, NEW new
  PROVE  [q EXCEPT !.new = new] = Carrying(q, new)
<1> DEFINE Moved == {Request("rpoplpush", <<k, l>>, 0, 0, 0) : k \in Keys, l \in Keys}
           SMoved == {Request("smove", <<k, l>>, e, 0, 0) : k \in Keys, l \in Keys, e \in Elements}
           MSets == {Request(op, <<k, l>>, 0, 0, 0) : k \in Keys, l \in Keys, op \in {"mset", "msetnx"}}
           Dels == {Request("del", <<k, l>>, 0, 0, 0) : k \in Keys, l \in Keys}
           Bigs == Oversized(OneKey)
<1>1. Moves = Moved \cup SMoved /\ Several = MSets \cup Dels
  BY DEF Moves, Several
<1>2. \/ q \in OneKey \/ q \in Bigs \/ q \in Moved \/ q \in SMoved
      \/ q \in MSets \/ q \in Dels
  <2> HIDE DEF Moved, SMoved, MSets, Dels
  <2> QED
    BY <1>1 DEF Requests
<1>3. q = [op |-> q.op, keys |-> q.keys, elem |-> q.elem, new |-> q.new, lo |-> q.lo, hi |-> q.hi,
           big |-> q.big]
  <2>1. CASE q \in OneKey
    BY <2>1 DEF OneKey, Request
  <2>2. CASE q \in Moved
    BY <2>2 DEF Request
  <2>3. CASE q \in SMoved
    BY <2>3 DEF Request
  <2>4. CASE q \in MSets
    BY <2>4 DEF Request
  <2>5. CASE q \in Dels
    BY <2>5 DEF Request
  <2>6. CASE q \in Bigs
    BY <2>6 DEF Oversized, OneKey, Request
  <2> HIDE DEF Moved, SMoved, MSets, Dels, Bigs
  <2> QED
    BY <1>2, <2>1, <2>2, <2>3, <2>4, <2>5, <2>6
<1> QED
  BY <1>3 DEF Carrying

LEMMA StartingIdle ==
  ASSUME NEW cmd, NEW steps
  PROVE  [Idle EXCEPT !.cmd = cmd, !.steps = steps] =
           [cmd |-> cmd, steps |-> steps, hand |-> <<>>, n |-> 0, cnt |-> 0,
            all |-> <<>>, sets |-> <<>>, lst |-> NoData]
<1>1. PICK r : r = [cmd |-> cmd, steps |-> <<>>, hand |-> <<>>, n |-> 0, cnt |-> 0,
                    all |-> <<>>, sets |-> <<>>, lst |-> NoData]
  OBVIOUS
<1>2. [Idle EXCEPT !.cmd = cmd] = r
  BY <1>1 DEF Idle
<1>3. [r EXCEPT !.steps = steps] =
        [cmd |-> cmd, steps |-> steps, hand |-> <<>>, n |-> 0, cnt |-> 0,
         all |-> <<>>, sets |-> <<>>, lst |-> NoData]
  BY <1>1
<1>4. [Idle EXCEPT !.cmd = cmd, !.steps = steps] = [[Idle EXCEPT !.cmd = cmd] EXCEPT !.steps = steps]
  OBVIOUS
<1> QED
  BY <1>2, <1>3, <1>4, Zenon

LEMMA StartKeeps ==
  ASSUME ~serial, OverlapInv, NEW c \in Clients, Start(c)
  PROVE  OverlapInv'
<1> DEFINE b == 10 + ops
<1>1. /\ ops \in Nat /\ MaxOps \in Nat /\ b \in Nat /\ ops < MaxOps /\ ops' = ops + 1
      /\ db' = db /\ faults' = faults /\ out' = out
  BY TableAssumption DEF Start, OverlapInv
<1>2. PICK request \in Requests :
        cl' = [cl EXCEPT ![c] = [Idle EXCEPT !.cmd = [request EXCEPT !.new = b],
                                             !.steps = Handler([request EXCEPT !.new = b])]]
  BY DEF Start
<1>3. PICK cmd : /\ cmd = Carrying(request, b)
                 /\ cl' = [cl EXCEPT ![c] = [Idle EXCEPT !.cmd = cmd, !.steps = Handler(cmd)]]
  BY <1>2, RequestCarries
<1> HIDE DEF b
<1>4. /\ \E q \in Requests : cmd = Carrying(q, b)
      /\ cmd \in Command /\ Handler(cmd) \in Seq(CallRec) /\ Handler(cmd) # <<>>
  <2>1. \E q \in Requests : cmd = Carrying(q, b)
    BY <1>3
  <2> QED
    BY <2>1, <1>1, HandlerCalls
<1>5. PICK r : /\ r = [cmd |-> cmd, steps |-> Handler(cmd), hand |-> <<>>, n |-> 0, cnt |-> 0,
                       all |-> <<>>, sets |-> <<>>, lst |-> NoData]
               /\ cl' = [cl EXCEPT ![c] = r]
  <2> DEFINE q == [cmd |-> cmd, steps |-> Handler(cmd), hand |-> <<>>, n |-> 0, cnt |-> 0,
                   all |-> <<>>, sets |-> <<>>, lst |-> NoData]
  <2>1. q = [Idle EXCEPT !.cmd = cmd, !.steps = Handler(cmd)]
    BY Zenon, StartingIdle
  <2>2. cl' = [cl EXCEPT ![c] = q]
    BY <1>3, <2>1, Zenon
  <2> WITNESS q
  <2> QED
    BY <2>2
<1>6. /\ r \in ClientRec /\ r.steps # <<>> /\ r.cmd = cmd /\ r.hand = <<>>
      /\ PushAt(r) = PushAt([steps |-> Handler(cmd)])
      /\ PopAt(r) = PopAt([steps |-> Handler(cmd)])
  BY <1>4, <1>5, StartRec
<1>7. ClientOK(r) /\ Carried(r) \subseteq {b}
  <2>1. Orderly(r) /\ Carried(r) \subseteq {b}
    BY <1>1, <1>4, <1>6, StartCarries
  <2> QED
    BY <2>1, <1>6 DEF ClientOK
<1>8. /\ cl' = [d \in Clients |-> cl'[d]] /\ cl'[c] = r
      /\ \A d \in Clients \ {c} : cl'[d] = cl[d]
  BY <1>5 DEF OverlapInv
<1>9. \A d \in Clients : ClientOK(cl'[d])
  BY <1>7, <1>8 DEF OverlapInv
<1>10. Ledger(Lists, [d \in Clients |-> Carried(cl'[d])], out, b + 1)
  <2> DEFINE C2 == [d \in Clients |-> Carried(cl'[d])]
  <2>1. C2[c] \subseteq {b} /\ \A d \in Clients \ {c} : C2[d] = Hands[d]
    BY <1>7, <1>8 DEF Hands
  <2>2. \A k \in Keys : Lists[k] \in Seq(Nat)
    BY DEF Lists, OverlapInv, KeyRec, Data
  <2>3. \A d \in Clients : Hands[d] \subseteq Nat
    BY CarriedNat DEF Hands, OverlapInv
  <2>4. Ledger(Lists, Hands, out, b) /\ out \subseteq Nat
    BY DEF OverlapInv, b
  <2> HIDE DEF C2
  <2>5. Ledger(Lists, C2, out, b + 1)
    BY <1>1, <2>1, <2>2, <2>3, <2>4, LedgerStart
  <2> QED
    BY <2>5 DEF C2
<1>11. b + 1 = 10 + ops'
  BY <1>1 DEF b
<1>12. Ledger(Lists, Hands, out, 10 + ops)'
  BY <1>1, <1>10, <1>11 DEF Lists, Hands
<1>13. ops' \in 0 .. MaxOps
  BY <1>1
<1>14. (\A d \in Clients : ClientOK(cl[d]))'
  BY <1>9
<1>15. (cl = [d \in Clients |-> cl[d]])'
  BY <1>8
<1> QED
  BY <1>1, <1>12, <1>13, <1>14, <1>15 DEF OverlapInv

-----------------------------------------------------------------------------
(***************************************************************************)
(* The theorems.                                                           *)
(***************************************************************************)

LEMMA TablesBegin ==
  ASSUME NEW k, k \in First \cup Second, k.t # TStr, k.exp # 1
  PROVE  /\ k \in KeyRec
         /\ k \in First => k.data.list = <<>> \/ k.data.list = <<1, 2>>
         /\ k \in Second => k.data.list = <<>> \/ k.data.list = <<3>>
<1>1. <<>> \in Seq(Nat) /\ <<1, 2>> \in Seq(Nat) /\ <<3>> \in Seq(Nat)
  OBVIOUS
<1>2. Cardinality({4, 5}) \in Int /\ Cardinality({5}) \in Int
  <2>1. IsFiniteSet({4}) /\ IsFiniteSet({5})
    BY FS_Singleton
  <2>2. IsFiniteSet({4} \cup {5})
    BY <2>1, FS_AddElement
  <2>3. {4} \cup {5} = {4, 5}
    OBVIOUS
  <2> QED
    BY <2>1, <2>2, <2>3, FS_CardinalityType
<1>3. \A s \in Seq(Nat), exp \in {0, 2} : ListKey(s, exp) \in KeyRec /\ ListKey(s, exp).data.list = s
  <2> TAKE s \in Seq(Nat), exp \in {0, 2}
  <2> DEFINE d == [NoData EXCEPT !.list = s]
  <2>1. d \in Data /\ d.list = s
    BY DEF NoData, Data
  <2> HIDE DEF d
  <2>2. ListKey(s, exp) = [t |-> TList, exp |-> exp, cnt |-> Len(s), data |-> d]
    BY DEF ListKey, d
  <2>3. Len(s) \in Int /\ exp \in {0, 2}
    OBVIOUS
  <2> QED
    BY <2>1, <2>2, <2>3 DEF KeyRec, KeyTypes
<1>4. \A ms \in SUBSET Nat : Cardinality(ms) \in Int =>
        SetKey(ms, 0) \in KeyRec /\ SetKey(ms, 0).data.list = <<>>
  <2> TAKE ms \in SUBSET Nat
  <2> HAVE Cardinality(ms) \in Int
  <2> DEFINE d == [NoData EXCEPT !.set = ms]
  <2>1. d \in Data /\ d.list = <<>>
    BY <1>1 DEF NoData, Data
  <2> HIDE DEF d
  <2>2. SetKey(ms, 0) = [t |-> TSet, exp |-> 0, cnt |-> Cardinality(ms), data |-> d]
    BY DEF SetKey, d
  <2> QED
    BY <2>1, <2>2 DEF KeyRec, KeyTypes
<1>5. Absent \in KeyRec /\ Absent.data.list = <<>>
  BY <1>1 DEF Absent, NoData, KeyRec, KeyTypes, Data
<1>6. \A s : ListKey(s, 1).exp = 1
  BY DEF ListKey
<1>7. SetKey({5, 6}, 1).exp = 1 /\ StringKey(7).t = TStr
  BY DEF SetKey, StringKey
<1>8. /\ k \in First => k \in {Absent, ListKey(<<1, 2>>, 0), SetKey({4, 5}, 0)}
      /\ k \in Second => k \in {Absent, ListKey(<<3>>, 2), SetKey({5}, 0)}
  BY <1>6, <1>7 DEF First, Second
<1>9. {4, 5} \in SUBSET Nat /\ {5} \in SUBSET Nat
  OBVIOUS
<1>10. /\ ListKey(<<1, 2>>, 0) \in KeyRec /\ ListKey(<<1, 2>>, 0).data.list = <<1, 2>>
       /\ ListKey(<<3>>, 2) \in KeyRec /\ ListKey(<<3>>, 2).data.list = <<3>>
  BY <1>1, <1>3
<1>11. /\ SetKey({4, 5}, 0) \in KeyRec /\ SetKey({4, 5}, 0).data.list = <<>>
       /\ SetKey({5}, 0) \in KeyRec /\ SetKey({5}, 0).data.list = <<>>
  BY <1>2, <1>4, <1>9
<1> QED
  BY <1>5, <1>8, <1>10, <1>11

LEMMA InitInv == Init => IInv
<1> SUFFICES ASSUME Init, ~serial PROVE OverlapInv
  BY DEF Init, IInv
<1>1. PICK k \in Keys, l \in Keys :
        /\ k # l /\ db[k] \in First /\ db[l] \in Second
        /\ \A m \in Keys \ {k, l} : db[m] = Absent
  BY DEF Init, Tables
<1>2. \A m \in Keys : db[m] \in First \cup Second /\ db[m].t # TStr /\ db[m].exp # 1
  BY DEF Init, Tables
<1>3. db \in [Keys -> KeyRec]
  <2>1. db = [m \in Keys |-> db[m]]
    BY DEF Init, Tables
  <2>2. \A m \in Keys : db[m] \in KeyRec
    BY <1>2, TablesBegin
  <2> QED
    BY <2>1, <2>2
<1>4. /\ Lists[k] = <<>> \/ Lists[k] = <<1, 2>>
      /\ Lists[l] = <<>> \/ Lists[l] = <<3>>
      /\ \A m \in Keys \ {k, l} : Lists[m] = <<>>
  <2>1. db[k].data.list = <<>> \/ db[k].data.list = <<1, 2>>
    BY <1>1, <1>2, TablesBegin
  <2>2. db[l].data.list = <<>> \/ db[l].data.list = <<3>>
    BY <1>1, <1>2, TablesBegin
  <2>3. Absent.data.list = <<>>
    BY DEF Absent, NoData
  <2> QED
    BY <1>1, <2>1, <2>2, <2>3 DEF Lists
<1>5. /\ \A i \in 1 .. Len(Lists[k]) : i \in {1, 2} /\ Lists[k][i] = i
      /\ \A i \in 1 .. Len(Lists[l]) : i = 1 /\ Lists[l][i] = 3
      /\ \A m \in Keys \ {k, l} : \A i \in 1 .. Len(Lists[m]) : FALSE
  <2>1. \A i \in 1 .. Len(Lists[k]) : i \in {1, 2} /\ Lists[k][i] = i
    BY <1>4
  <2>2. \A i \in 1 .. Len(Lists[l]) : i = 1 /\ Lists[l][i] = 3
    <3>1. CASE Lists[l] = <<>>
      BY <3>1
    <3>2. CASE Lists[l] = <<3>>
      <4>1. Len(Lists[l]) = 1 /\ Lists[l][1] = 3
        BY <3>2
      <4> QED
        BY <4>1
    <3> QED
      BY <1>4, <3>1, <3>2
  <2>3. \A m \in Keys \ {k, l} : \A i \in 1 .. Len(Lists[m]) : FALSE
    BY <1>4
  <2> QED
    BY <2>1, <2>2, <2>3
<1> DEFINE L == Lists
<1> HIDE DEF L
<1>6. Distinct(L) /\ \A m \in Keys : \A i \in 1 .. Len(L[m]) : L[m][i] < 10
  <2>1. /\ \A i \in 1 .. Len(L[k]) : i \in {1, 2} /\ L[k][i] = i
        /\ \A i \in 1 .. Len(L[l]) : i = 1 /\ L[l][i] = 3
        /\ \A m \in Keys \ {k, l} : \A i \in 1 .. Len(L[m]) : FALSE
    BY <1>5 DEF L
  <2>2. Distinct(L)
    <3> SUFFICES ASSUME NEW m \in Keys, NEW n \in Keys, NEW i \in 1 .. Len(L[m]), NEW j \in 1 .. Len(L[n]),
                        L[m][i] = L[n][j]
                 PROVE  m = n /\ i = j
      BY DEF Distinct
    <3>1. m \in {k, l} /\ n \in {k, l}
      BY <2>1
    <3> QED
      BY <2>1, <3>1
  <2>3. \A m \in Keys : \A i \in 1 .. Len(L[m]) : L[m][i] < 10
    BY <2>1
  <2> QED
    BY <2>2, <2>3
<1>7. /\ cl = [c \in Clients |-> Idle] /\ ops = 0 /\ faults = 0 /\ out = {}
      /\ \A c \in Clients : cl[c] = Idle
  BY DEF Init
<1>8. \A c \in Clients : ClientOK(cl[c]) /\ Hands[c] = {}
  BY <1>7, IdleOK DEF Hands
<1>9. Ledger(Lists, Hands, out, 10 + ops)
  <2>1. 10 + ops = 10
    BY <1>7
  <2> DEFINE C == Hands
  <2>2. \A c \in Clients : C[c] = {}
    BY <1>8
  <2> HIDE DEF C
  <2>3. Ledger(L, C, {}, 10)
    BY <1>6, <2>2 DEF Ledger
  <2> QED
    BY <2>1, <2>3, <1>7 DEF L, C
<1>10. ops \in 0 .. MaxOps /\ faults \in 0 .. MaxFaults /\ out \subseteq Nat
  BY <1>7, TableAssumption
<1>11. cl = [c \in Clients |-> cl[c]]
  BY <1>7
<1> QED
  BY <1>3, <1>8, <1>9, <1>10, <1>11 DEF OverlapInv

LEMMA StepInv == IInv /\ [Next]_vars => IInv'
<1> SUFFICES ASSUME IInv, [Next]_vars PROVE IInv'
  OBVIOUS
<1>1. CASE UNCHANGED vars
  BY <1>1 DEF vars, IInv, OverlapInv, Lists, Hands
<1>2. CASE Next
  <2>1. PICK c \in Clients : Start(c) \/ Step(c) \/ Failure(c)
    BY <1>2 DEF Next
  <2>2. serial' = serial /\ serial \in BOOLEAN
    BY <2>1 DEF Start, Step, Failure, Record, IInv
  <2>3. ASSUME ~serial PROVE OverlapInv'
    <3>1. OverlapInv
      BY <2>3 DEF IInv
    <3>2. CASE Start(c)
      BY <2>3, <3>1, <3>2, StartKeeps
    <3>3. CASE Step(c)
      BY <3>1, <3>3, ContinueKeeps DEF Step
    <3>4. CASE Failure(c)
      BY <3>1, <3>4, FailKeeps DEF Failure
    <3> QED
      BY <2>1, <3>2, <3>3, <3>4
  <2> QED
    BY <2>2, <2>3 DEF IInv
<1> QED
  BY <1>1, <1>2

LEMMA InvTypes == IInv /\ ~serial => TypeOK
<1> SUFFICES ASSUME IInv, ~serial PROVE TypeOK
  OBVIOUS
<1>1. OverlapInv
  BY DEF IInv
<1>2. \A k \in Keys :
         /\ db[k].t \in {NoType, TList, TSet, TStr} /\ db[k].exp \in 0 .. 2 /\ db[k].cnt \in Int
         /\ db[k].data.list \in Seq(Nat) /\ db[k].data.set \subseteq Nat
         /\ db[k].data.str \in Nat \cup {Gone}
  <2> TAKE k \in Keys
  <2>1. db[k] \in KeyRec
    BY <1>1 DEF OverlapInv
  <2> QED
    BY <2>1 DEF KeyRec, KeyTypes, Data
<1>3. \A c \in Clients : ~Busy(c) => cl[c] = Idle
  BY <1>1 DEF OverlapInv, ClientOK, Busy
<1> QED
  BY <1>1, <1>2, <1>3 DEF TypeOK, OverlapInv, IInv

LEMMA AtMostOne ==
  ASSUME NEW T, \A x, y \in T : x = y
  PROVE  Cardinality(T) \in {0, 1} /\ (Cardinality(T) = 1 => T # {})
<1>1. CASE T = {}
  BY <1>1, FS_EmptySet
<1>2. CASE T # {}
  <2>1. PICK x : T = {x}
    BY <1>2
  <2> QED
    BY <2>1, FS_Singleton
<1> QED
  BY <1>1, <1>2

LEMMA InvMoves == IInv /\ ~serial => MovedOnce
<1> SUFFICES ASSUME IInv, ~serial, NEW e \in {1, 2, 3} \cup 10 .. 9 + MaxOps PROVE Occurrences(e) <= 1
  BY DEF MovedOnce
<1>1. OverlapInv
  BY DEF IInv
<1> DEFINE lists == {p \in Keys \X (1 .. 9) : p[2] \in DOMAIN db[p[1]].data.list /\ db[p[1]].data.list[p[2]] = e}
           hands == {c \in Clients : Busy(c) /\ cl[c].cmd.op = "rpoplpush" /\ cl[c].hand = <<e>>}
           outs == IF e \in out THEN 1 ELSE 0
<1>2. Occurrences(e) = Cardinality(lists) + Cardinality(hands) + outs
  BY DEF Occurrences
<1>3. Ledger(Lists, Hands, out, 10 + ops)
  BY <1>1 DEF OverlapInv
<1>4. \A p \in lists : /\ p = <<p[1], p[2]>> /\ p[1] \in Keys
                       /\ p[2] \in 1 .. Len(Lists[p[1]]) /\ Lists[p[1]][p[2]] = e
  <2> TAKE p \in lists
  <2>1. p[1] \in Keys /\ db[p[1]].data.list \in Seq(Nat)
    BY <1>1 DEF OverlapInv, KeyRec, Data
  <2>2. DOMAIN db[p[1]].data.list = 1 .. Len(db[p[1]].data.list)
    BY <2>1
  <2> QED
    BY <2>1, <2>2 DEF Lists
<1>5. \A c \in hands : c \in Clients /\ e \in Hands[c]
  <2> TAKE c \in hands
  <2>1. cl[c].cmd.op = "rpoplpush" /\ cl[c].hand = <<e>> /\ c \in Clients
    OBVIOUS
  <2>2. Carried(cl[c]) = {e}
    <3>1. <<e>> # <<>> /\ <<e>>[1] = e /\ cl[c].cmd.op \notin PushOps
      BY <2>1 DEF PushOps
    <3> QED
      BY <2>1, <3>1 DEF Carried
  <2> QED
    BY <2>1, <2>2 DEF Hands
<1> HIDE DEF lists, hands
<1>6. \A p, q \in lists : p = q
  <2> TAKE p, q \in lists
  <2>1. p[1] = q[1] /\ p[2] = q[2]
    BY <1>3, <1>4 DEF Ledger, Distinct
  <2> QED
    BY <2>1, <1>4, Zenon
<1>7. \A c, d \in hands : c = d
  BY <1>3, <1>5 DEF Ledger
<1>8. lists # {} => hands = {} /\ e \notin out
  BY <1>3, <1>4, <1>5 DEF Ledger
<1>9. hands # {} => e \notin out
  BY <1>3, <1>5 DEF Ledger
<1>10. /\ Cardinality(lists) \in {0, 1} /\ (Cardinality(lists) = 1 => lists # {})
       /\ Cardinality(hands) \in {0, 1} /\ (Cardinality(hands) = 1 => hands # {})
  BY <1>6, <1>7, AtMostOne
<1>11. hands = {} => Cardinality(hands) = 0
  BY FS_EmptySet
<1> QED
  BY <1>2, <1>8, <1>9, <1>10, <1>11

\* Table.tla, TypeOK, where commands overlap and calls fail: metadata, elements and
\* members keep their types, and a connection without calls left has no state left, for
\* any keys, connections, commands and failures.
THEOREM OverlapTypeCorrect == Spec => [](~serial => TypeOK)
<1>1. Init => IInv
  BY InitInv
<1>2. IInv /\ [Next]_vars => IInv'
  BY StepInv
<1>3. IInv => (~serial => TypeOK)
  BY InvTypes
<1> QED
  BY <1>1, <1>2, <1>3, PTL DEF Spec

\* RPOPLPUSH's RPop and LPush, LPOP and RPOP, LPUSH and RPUSH (lists.go, lists2.go,
\* store_lists.go) where they overlap and calls fail: no interleaving puts an element in
\* two lists, or in a list and the hand of a move, or in either and a reply.
THEOREM ElementsMoveOnce == Spec => [](~serial => MovedOnce)
<1>1. Init => IInv
  BY InitInv
<1>2. IInv /\ [Next]_vars => IInv'
  BY StepInv
<1>3. IInv => (~serial => MovedOnce)
  BY InvMoves
<1> QED
  BY <1>1, <1>2, <1>3, PTL DEF Spec

-----------------------------------------------------------------------------
(***************************************************************************)
(* Nothing stays hidden.  While all commands that overlap are of one type  *)
(* T, the calls each has left keep a shape: a change of data comes after a *)
(* claim of its key, or when the key is already claimed, and is followed   *)
(* at once by its count.  So at any time a key's count, and what the       *)
(* connections still owe it, together cover its data items.                *)
(***************************************************************************)

\* The calls of the commands of each type; those that write nothing, those that leave
\* the key with a meta item of its type, and those that change its data items.
CallsOf(T) == CASE T = TList -> {"live", "type", "ensure", "count", "drop"} \cup Pushes \cup Pops
                [] T = TSet -> {"live", "type", "ismember", "ensure", "srem", "sadd", "count", "drop"}
                [] T = TStr -> {"absent", "ensure", "setstring", "persist"}
Reading == {"live", "type", "absent", "ismember", "ensure"}
Claims == {"live", "ensure"}
Changes == Pushes \cup Pops \cup {"srem", "sadd"}

\* A change is counted by the next call, or it is the pop of an RPOPLPUSH on one key,
\* whose push puts the element back.  F are the keys that are claimed already.
Counted(s, i) == i < Len(s) /\ s[i + 1].key = s[i].key /\ s[i + 1].call = "count"
PutBack(s, i) == /\ i + 1 = Len(s) /\ s[i + 1].key = s[i].key
                 /\ s[i].call \in Pops /\ s[i + 1].call \in Pushes
Shape(T, s, F) ==
    \A i \in 1 .. Len(s) :
      /\ s[i].call \in CallsOf(T) /\ (s[i].type = T \/ s[i].call = "drop")
      /\ \/ s[i].call \in Reading \/ s[i].key \in F
         \/ \E j \in 1 .. i - 1 : s[j].key = s[i].key /\ s[j].call \in Claims
      /\ s[i].call \in Changes => Counted(s, i) \/ PutBack(s, i) \/ (i = Len(s) /\ s[i].call \in Pushes)
      /\ i > 1 /\ s[i].call = "count" => s[i - 1].call \in Changes
      /\ i > 1 /\ i = Len(s) /\ s[i].call \in Pushes => s[i - 1].call \in Pops

\* What a connection owes the count of a key before its next call: the change it has
\* yet to count, or the element its last push will put back.  What all of them owe.
Debt(s, n, k) ==
    IF s = <<>> THEN 0
    ELSE IF Head(s).key # k THEN 0
    ELSE IF Head(s).call = "count" THEN n
    ELSE IF Head(s).call \in Pushes /\ Tail(s) = <<>> THEN -1 ELSE 0
Owed(r, k) == Debt(r.steps, r.n, k)
Owing(C, k) ==
    Cardinality({c \in Clients : Owed(C[c], k) = 1}) - Cardinality({c \in Clients : Owed(C[c], k) = -1})

\* The keys whose data items a command of type T may change.  A list or set may be left
\* without a meta item by a DeleteMetaIfEmpty; a string is claimed first and keeps its own.
Fit(T, k) == k.t = T \/ (k.t = NoType /\ T # TStr)
Fits(T) == {k \in Keys : Fit(T, db[k])}
Only(T, d) == d = CASE T = TList -> [list |-> d.list, set |-> {}, str |-> Gone]
                    [] T = TSet -> [list |-> <<>>, set |-> d.set, str |-> Gone]
                    [] T = TStr -> [list |-> <<>>, set |-> {}, str |-> d.str]
Size(T, d) == CASE T = TList -> Len(d.list) [] T = TSet -> Cardinality(d.set) [] T = TStr -> 0

\* A key of type T, or of none, holds data items of T alone, and its count and the n owed
\* to it cover them; a key of another type is as it must be at the end.
Covered(T, k, n) ==
    IF k.t \in {NoType, T}
      THEN /\ Only(T, k.data) /\ IsFiniteSet(k.data.set)
           /\ k.t = NoType => k.cnt = 0 /\ (T = TStr => k.data = NoData)
           /\ k.cnt + n >= Size(T, k.data)
      ELSE Visible(k)
Single(T) ==
    /\ \A k \in Keys : Covered(T, db[k], Owing(cl, k))
    /\ \A c \in Clients : /\ Shape(T, cl[c].steps, Fits(T))
                          /\ cl[c].n \in {-1, 0, 1} /\ Len(cl[c].all) <= 1
HideInv ==
    ~serial =>
      /\ kinds \subseteq {TList, TSet, TStr}
      /\ faults = 0 => \A T \in {TList, TSet, TStr} : kinds \subseteq {T} => Single(T)

LEMMA TailShape ==
  ASSUME NEW T, NEW s \in Seq(CallRec), s # <<>>, NEW F, NEW G, Shape(T, s, F), F \subseteq G,
         Head(s).call \in Claims => Head(s).key \in G
  PROVE  Shape(T, Tail(s), G)
<1> DEFINE u == Tail(s)
<1>1. /\ Len(s) \in Nat \ {0} /\ Len(u) = Len(s) - 1
      /\ \A i \in 1 .. Len(u) : u[i] = s[i + 1]
      /\ Head(s) = s[1]
  BY HeadTailProperties, EmptySeq
<1> HIDE DEF u
<1> SUFFICES ASSUME NEW i \in 1 .. Len(u)
             PROVE  /\ u[i].call \in CallsOf(T) /\ (u[i].type = T \/ u[i].call = "drop")
                    /\ \/ u[i].call \in Reading \/ u[i].key \in G
                       \/ \E j \in 1 .. i - 1 : u[j].key = u[i].key /\ u[j].call \in Claims
                    /\ u[i].call \in Changes =>
                         Counted(u, i) \/ PutBack(u, i) \/ (i = Len(u) /\ u[i].call \in Pushes)
                    /\ i > 1 /\ u[i].call = "count" => u[i - 1].call \in Changes
                    /\ i > 1 /\ i = Len(u) /\ u[i].call \in Pushes => u[i - 1].call \in Pops
  BY DEF Shape, u
<1> DEFINE m == i + 1
<1>2. /\ m \in 1 .. Len(s) /\ m > 1 /\ u[i] = s[m]
      /\ i = Len(u) <=> m = Len(s)
      /\ i < Len(u) => m < Len(s) /\ u[i + 1] = s[m + 1]
      /\ i + 1 = Len(u) => m + 1 = Len(s) /\ u[i + 1] = s[m + 1]
      /\ i > 1 => u[i - 1] = s[m - 1]
  BY <1>1, SMTT(20), ZenonT(30)
<1>3. /\ s[m].call \in CallsOf(T) /\ (s[m].type = T \/ s[m].call = "drop")
      /\ \/ s[m].call \in Reading \/ s[m].key \in F
         \/ \E j \in 1 .. m - 1 : s[j].key = s[m].key /\ s[j].call \in Claims
      /\ s[m].call \in Changes => Counted(s, m) \/ PutBack(s, m) \/ (m = Len(s) /\ s[m].call \in Pushes)
      /\ m > 1 /\ s[m].call = "count" => s[m - 1].call \in Changes
      /\ m > 1 /\ m = Len(s) /\ s[m].call \in Pushes => s[m - 1].call \in Pops
  BY <1>2 DEF Shape
<1>4. \/ u[i].call \in Reading \/ u[i].key \in G
      \/ \E j \in 1 .. i - 1 : u[j].key = u[i].key /\ u[j].call \in Claims
  <2>1. CASE s[m].call \in Reading \/ s[m].key \in F
    BY <1>2, <2>1
  <2>2. ASSUME NEW j \in 1 .. m - 1, s[j].key = s[m].key, s[j].call \in Claims
        PROVE  \/ u[i].key \in G
               \/ \E l \in 1 .. i - 1 : u[l].key = u[i].key /\ u[l].call \in Claims
    <3>1. CASE j = 1
      BY <3>1, <2>2, <1>1, <1>2
    <3>2. CASE j # 1
      <4>1. j - 1 \in 1 .. i - 1 /\ u[j - 1] = s[j]
        BY <3>2, <1>1
      <4> QED
        BY <4>1, <2>2, <1>2
    <3> QED
      BY <3>1, <3>2
  <2> QED
    BY <1>3, <2>1, <2>2
<1>5. u[i].call \in Changes => Counted(u, i) \/ PutBack(u, i) \/ (i = Len(u) /\ u[i].call \in Pushes)
  <2>1. Counted(s, m) => Counted(u, i)
    BY <1>1, <1>2 DEF Counted
  <2>2. PutBack(s, m) => PutBack(u, i)
    BY <1>1, <1>2 DEF PutBack
  <2> QED
    BY <1>2, <1>3, <2>1, <2>2
<1> HIDE DEF m
<1> QED
  BY <1>2, <1>3, <1>4, <1>5

\* The next call, and what the command owes once it is made.
LEMMA HeadShape ==
  ASSUME NEW T, NEW s \in Seq(CallRec), s # <<>>, NEW F, Shape(T, s, F)
  PROVE  /\ Head(s).call \in CallsOf(T) /\ (Head(s).type = T \/ Head(s).call = "drop")
         /\ Head(s).call \in Reading \/ Head(s).key \in F
         /\ Head(s).call \in Changes =>
              \/ Tail(s) = <<>> /\ Head(s).call \in Pushes
              \/ /\ Tail(s) # <<>>
                 /\ \A n, k : (Head(s).call \in Pops => n = -1) =>
                                Debt(Tail(s), n, k) = IF k = Head(s).key THEN n ELSE 0
         /\ Head(s).call \notin Changes => \A n, k : Debt(Tail(s), n, k) = 0
<1> DEFINE u == Tail(s)
<1>1. /\ Len(s) \in Nat \ {0} /\ Len(u) = Len(s) - 1 /\ u \in Seq(CallRec)
      /\ \A i \in 1 .. Len(u) : u[i] = s[i + 1]
      /\ Head(s) = s[1]
  BY HeadTailProperties, EmptySeq
<1>2. /\ u = <<>> <=> Len(s) = 1
      /\ u # <<>> => Head(u) = s[2] /\ (Tail(u) = <<>> <=> Len(s) = 2) /\ 2 \in 1 .. Len(s)
  <2>1. u = <<>> <=> Len(u) = 0
    BY <1>1, EmptySeq
  <2>2. ASSUME u # <<>>
        PROVE  Head(u) = s[2] /\ (Tail(u) = <<>> <=> Len(s) = 2) /\ 2 \in 1 .. Len(s)
    <3> HIDE DEF u
    <3>1. Len(u) \in Nat \ {0} /\ 2 \in 1 .. Len(s) /\ 1 \in 1 .. Len(u)
      BY <1>1, <2>1, <2>2
    <3>2. Tail(u) \in Seq(CallRec) /\ Len(Tail(u)) = Len(u) - 1 /\ Head(u) = u[1]
      BY <1>1, <2>2, HeadTailProperties
    <3>3. Tail(u) = <<>> <=> Len(Tail(u)) = 0
      BY <3>2, EmptySeq
    <3> QED
      BY <1>1, <3>1, <3>2, <3>3
  <2> QED
    BY <1>1, <2>1, <2>2, SMTT(30)
<1> HIDE DEF u
<1>3. /\ s[1].call \in CallsOf(T) /\ (s[1].type = T \/ s[1].call = "drop")
      /\ s[1].call \in Reading \/ s[1].key \in F
      /\ s[1].call \in Changes => Counted(s, 1) \/ PutBack(s, 1) \/ (1 = Len(s) /\ s[1].call \in Pushes)
  BY <1>1 DEF Shape
<1>4. u # <<>> => /\ s[2].call = "count" => s[1].call \in Changes
                  /\ 2 = Len(s) /\ s[2].call \in Pushes => s[1].call \in Pops
  BY <1>1, <1>2 DEF Shape
<1>5. "count" \notin Pushes
  BY DEF Pushes
<1>6. ASSUME s[1].call \in Changes
      PROVE  \/ u = <<>> /\ s[1].call \in Pushes
             \/ /\ u # <<>>
                /\ \A n, k : (s[1].call \in Pops => n = -1) =>
                                Debt(u, n, k) = IF k = s[1].key THEN n ELSE 0
  <2>1. CASE Counted(s, 1)
    BY <2>1, <1>1, <1>2 DEF Counted, Debt
  <2>2. CASE PutBack(s, 1)
    BY <2>2, <1>1, <1>2, <1>5 DEF PutBack, Debt
  <2> QED
    BY <1>2, <1>3, <1>6, <2>1, <2>2
<1>7. ASSUME s[1].call \notin Changes
      PROVE  \A n, k : Debt(u, n, k) = 0
  <2>1. s[1].call \notin Pops
    BY <1>7 DEF Changes
  <2> QED
    BY <1>2, <1>4, <1>7, <2>1 DEF Debt
<1> QED
  BY <1>1, <1>3, <1>6, <1>7 DEF u

\* The drop of an emptied count takes the place of the count.
LEMMA DropShape ==
  ASSUME NEW T, NEW s \in Seq(CallRec), s # <<>>, NEW F, NEW G, Shape(T, s, F), F \subseteq G,
         Head(s).call = "count", NEW d \in OtherRec, d.call = "drop", d.key \in G, "drop" \in CallsOf(T)
  PROVE  Shape(T, <<d>> \o Tail(s), G)
<1> DEFINE u == Tail(s) v == <<d>> \o u
<1>1. /\ Len(s) \in Nat \ {0} /\ Len(u) = Len(s) - 1 /\ u \in Seq(CallRec)
      /\ \A i \in 1 .. Len(u) : u[i] = s[i + 1]
      /\ Head(s) = s[1]
  BY HeadTailProperties, EmptySeq
<1>2. <<d>> \in Seq(CallRec) /\ Len(<<d>>) = 1 /\ <<d>>[1] = d
  BY OneItem DEF OtherRec, CallRec
<1> HIDE DEF u
<1>3. /\ v \in Seq(CallRec) /\ Len(v) = 1 + Len(u)
      /\ \A i \in 1 .. 1 + Len(u) : v[i] = IF i <= 1 THEN <<d>>[i] ELSE u[i - 1]
  BY <1>1, <1>2, ConcatProperties
<1>4. Len(v) = Len(s) /\ \A i \in 1 .. Len(s) : v[i] = IF i = 1 THEN d ELSE s[i]
  BY <1>1, <1>2, <1>3
<1>5. "count" \notin Changes /\ "drop" \notin Changes /\ "count" \notin Claims /\ "count" \notin Pops
  BY DEF Changes, Claims, Pushes, Pops
<1> HIDE DEF v
<1> SUFFICES ASSUME NEW i \in 1 .. Len(v)
             PROVE  /\ v[i].call \in CallsOf(T) /\ (v[i].type = T \/ v[i].call = "drop")
                    /\ \/ v[i].call \in Reading \/ v[i].key \in G
                       \/ \E j \in 1 .. i - 1 : v[j].key = v[i].key /\ v[j].call \in Claims
                    /\ v[i].call \in Changes =>
                         Counted(v, i) \/ PutBack(v, i) \/ (i = Len(v) /\ v[i].call \in Pushes)
                    /\ i > 1 /\ v[i].call = "count" => v[i - 1].call \in Changes
                    /\ i > 1 /\ i = Len(v) /\ v[i].call \in Pushes => v[i - 1].call \in Pops
  BY DEF Shape, v, u
<1>6. CASE i = 1
  BY <1>4, <1>5, <1>6
<1>7. CASE i # 1
  <2>1. /\ s[i].call \in CallsOf(T) /\ (s[i].type = T \/ s[i].call = "drop")
        /\ \/ s[i].call \in Reading \/ s[i].key \in F
           \/ \E j \in 1 .. i - 1 : s[j].key = s[i].key /\ s[j].call \in Claims
        /\ s[i].call \in Changes => Counted(s, i) \/ PutBack(s, i) \/ (i = Len(s) /\ s[i].call \in Pushes)
        /\ i > 1 /\ s[i].call = "count" => s[i - 1].call \in Changes
        /\ i > 1 /\ i = Len(s) /\ s[i].call \in Pushes => s[i - 1].call \in Pops
    BY <1>4 DEF Shape
  <2>2. /\ v[i] = s[i] /\ i > 1 /\ i - 1 \in 1 .. Len(s)
        /\ i < Len(s) => v[i + 1] = s[i + 1]
        /\ i + 1 = Len(s) => v[i + 1] = s[i + 1]
    BY <1>1, <1>4, <1>7
  <2>3. ASSUME NEW j \in 1 .. i - 1, s[j].key = s[i].key, s[j].call \in Claims
        PROVE  v[j].key = v[i].key /\ v[j].call \in Claims
    <3>1. j # 1 /\ j \in 1 .. Len(s)
      BY <1>1, <1>4, <1>5, <2>2, <2>3
    <3> QED
      BY <3>1, <2>2, <2>3, <1>4
  <2>4. /\ Counted(s, i) => Counted(v, i)
        /\ PutBack(s, i) => PutBack(v, i)
    BY <2>2, <1>4 DEF Counted, PutBack
  <2>5. /\ v[i].call = "count" => v[i - 1].call \in Changes
        /\ i = Len(v) /\ v[i].call \in Pushes => v[i - 1].call \in Pops
    <3>1. CASE i = 2
      BY <3>1, <2>1, <2>2, <1>1, <1>4, <1>5
    <3>2. CASE i # 2
      <4>1. v[i - 1] = s[i - 1]
        BY <3>2, <2>2, <1>4, <1>7
      <4> QED
        BY <4>1, <2>1, <2>2, <1>4
    <3> QED
      BY <3>1, <3>2
  <2> QED
    BY <2>1, <2>2, <2>3, <2>4, <2>5, <1>4
<1> QED
  BY <1>6, <1>7

\* Calls that owe nothing at their end, and more calls that begin with a check.
LEMMA ShapeConcat ==
  ASSUME NEW T, NEW s \in Seq(CallRec), NEW u \in Seq(CallRec), NEW F, Shape(T, s, F), Shape(T, u, F),
         s # <<>>, u # <<>>, s[Len(s)].call \notin Changes, u[1].call \in Reading
  PROVE  /\ Shape(T, s \o u, F) /\ s \o u \in Seq(CallRec) /\ s \o u # <<>>
         /\ (s \o u)[1] = s[1] /\ (s \o u)[Len(s \o u)] = u[Len(u)]
<1> DEFINE v == s \o u a == Len(s) b == Len(u)
<1>1. /\ v \in Seq(CallRec) /\ Len(v) = a + b
      /\ \A i \in 1 .. a + b : v[i] = IF i <= a THEN s[i] ELSE u[i - a]
  BY ConcatProperties
<1>2. a \in Nat \ {0} /\ b \in Nat \ {0}
  BY EmptySeq
<1>3. v # <<>> /\ v[1] = s[1] /\ v[Len(v)] = u[b]
  BY <1>1, <1>2
<1>4. /\ Reading \cap (Changes \cup {"count"}) = {}
      /\ Pushes \subseteq Changes
  BY DEF Reading, Changes, Pushes, Pops
<1> HIDE DEF v, a, b
<1>after. \A x \in 1 .. b : x + a \in 1 .. a + b /\ x + a > a /\ v[x + a] = u[x]
  <2> TAKE x \in 1 .. b
  <2> DEFINE y == x + a
  <2>1. y \in 1 .. a + b /\ ~(y <= a) /\ y - a = x
    BY <1>2
  <2> HIDE DEF y
  <2>2. v[y] = u[y - a]
    BY <2>1, <1>1
  <2>3. y > a
    BY <2>1, <1>2
  <2> QED
    BY <2>1, <2>2, <2>3 DEF y
<1>5. ASSUME NEW i \in 1 .. Len(v)
      PROVE  /\ v[i].call \in CallsOf(T) /\ (v[i].type = T \/ v[i].call = "drop")
             /\ \/ v[i].call \in Reading \/ v[i].key \in F
                \/ \E j \in 1 .. i - 1 : v[j].key = v[i].key /\ v[j].call \in Claims
             /\ v[i].call \in Changes =>
                  Counted(v, i) \/ PutBack(v, i) \/ (i = Len(v) /\ v[i].call \in Pushes)
             /\ i > 1 /\ v[i].call = "count" => v[i - 1].call \in Changes
             /\ i > 1 /\ i = Len(v) /\ v[i].call \in Pushes => v[i - 1].call \in Pops
  <2>1. CASE i <= a
    <3>1. /\ i \in 1 .. a /\ v[i] = s[i] /\ i # Len(v)
          /\ \A j \in 1 .. i - 1 : v[j] = s[j]
          /\ i < a => v[i + 1] = s[i + 1]
          /\ i > 1 => v[i - 1] = s[i - 1]
      <4>1. /\ i \in 1 .. a /\ i # a + b /\ i \in 1 .. a + b
            /\ \A j \in 1 .. i - 1 : j \in 1 .. a + b /\ j <= a
            /\ i < a => i + 1 \in 1 .. a + b /\ i + 1 <= a
            /\ i > 1 => i - 1 \in 1 .. a + b /\ i - 1 <= a
        BY <2>1, <1>1, <1>2
      <4> QED
        BY <4>1, <1>1
    <3>2. /\ s[i].call \in CallsOf(T) /\ (s[i].type = T \/ s[i].call = "drop")
          /\ \/ s[i].call \in Reading \/ s[i].key \in F
             \/ \E j \in 1 .. i - 1 : s[j].key = s[i].key /\ s[j].call \in Claims
          /\ s[i].call \in Changes => Counted(s, i) \/ PutBack(s, i) \/ (i = a /\ s[i].call \in Pushes)
          /\ i > 1 /\ s[i].call = "count" => s[i - 1].call \in Changes
      BY <3>1 DEF Shape, a
    <3>3. s[i].call \in Changes => Counted(v, i)
      <4>1. PutBack(s, i) => s[a].call \in Changes
        BY <1>4 DEF PutBack, a
      <4> QED
        BY <4>1, <3>1, <3>2, <1>1, <1>2, <1>4 DEF Counted, a
    <3>4. \/ v[i].call \in Reading \/ v[i].key \in F
          \/ \E j \in 1 .. i - 1 : v[j].key = v[i].key /\ v[j].call \in Claims
      BY <3>1, <3>2
    <3> QED
      BY <3>1, <3>2, <3>3, <3>4
  <2>2. CASE i > a
    <3> DEFINE m == i - a
    <3>1. /\ m \in 1 .. b /\ v[i] = u[m] /\ (m = b <=> i = Len(v)) /\ i > 1
          /\ m < b => i < Len(v) /\ v[i + 1] = u[m + 1]
          /\ m + 1 = b => i + 1 = Len(v) /\ v[i + 1] = u[m + 1]
          /\ m > 1 => v[i - 1] = u[m - 1]
      <4>1. /\ m \in 1 .. b /\ (m = b <=> i = a + b) /\ i > 1 /\ i = m + a
            /\ m < b => i < a + b /\ m + 1 \in 1 .. b /\ i + 1 = (m + 1) + a
            /\ m + 1 = b => m < b /\ i + 1 = a + b
            /\ m > 1 => m - 1 \in 1 .. b /\ i - 1 = (m - 1) + a
        BY <2>2, <1>1, <1>2
      <4> HIDE DEF m
      <4>2. /\ v[i] = u[m]
            /\ m < b => v[i + 1] = u[m + 1]
            /\ m > 1 => v[i - 1] = u[m - 1]
        BY <4>1, <1>after
      <4> QED
        BY <4>1, <4>2, <1>1
    <3>2. /\ u[m].call \in CallsOf(T) /\ (u[m].type = T \/ u[m].call = "drop")
          /\ \/ u[m].call \in Reading \/ u[m].key \in F
             \/ \E j \in 1 .. m - 1 : u[j].key = u[m].key /\ u[j].call \in Claims
          /\ u[m].call \in Changes => Counted(u, m) \/ PutBack(u, m) \/ (m = b /\ u[m].call \in Pushes)
          /\ m > 1 /\ u[m].call = "count" => u[m - 1].call \in Changes
          /\ m > 1 /\ m = b /\ u[m].call \in Pushes => u[m - 1].call \in Pops
      BY <3>1 DEF Shape, b
    <3>3. Counted(u, m) => Counted(v, i)
      BY <3>1, <1>1 DEF Counted, b
    <3>4. PutBack(u, m) => PutBack(v, i)
      BY <3>1, <1>1 DEF PutBack, b
    <3>5. ASSUME NEW j \in 1 .. m - 1, u[j].key = u[m].key, u[j].call \in Claims
          PROVE  \E l \in 1 .. i - 1 : v[l].key = v[i].key /\ v[l].call \in Claims
      <4>1. j + a \in 1 .. i - 1 /\ v[j + a] = u[j]
        <5>1. j \in 1 .. b /\ j + a \in 1 .. i - 1
          BY <3>1, <1>1, <1>2
        <5> QED
          BY <5>1, <1>after
      <4> QED
        BY <4>1, <3>1, <3>5
    <3>6. m = 1 => u[m].call \notin Changes \cup {"count"}
      BY <1>4
    <3> HIDE DEF m
    <3>7. /\ v[i].call = "count" => v[i - 1].call \in Changes
          /\ i = Len(v) /\ v[i].call \in Pushes => v[i - 1].call \in Pops
      BY <3>1, <3>2, <3>6, <1>4
    <3> QED
      BY <3>1, <3>2, <3>3, <3>4, <3>5, <3>7
  <2> QED
    BY <2>1, <2>2, <1>1, <1>2
<1>6. Shape(T, v, F)
  BY <1>5 DEF Shape
<1> QED
  BY <1>1, <1>3, <1>6 DEF v, b

LEMMA CallsOfTypes ==
  /\ CallsOf(TList) = {"live", "type", "ensure", "count", "drop"} \cup Pushes \cup Pops
  /\ CallsOf(TSet) = {"live", "type", "ismember", "ensure", "srem", "sadd", "count", "drop"}
  /\ CallsOf(TStr) = {"absent", "ensure", "setstring", "persist"}
  BY TypesAssumption DEF CallsOf

\* Three calls: a claim, a change, the count of it, all on one key.
LEMMA ClaimChangeCount ==
  ASSUME NEW T \in {TList, TSet}, NEW k \in Keys, NEW first \in Claims, NEW F,
         NEW call \in Changes, call \in CallsOf(T),
         NEW s, s = <<S(first, k, T), S(call, k, T), S("count", k, T)>>
  PROVE  Shape(T, s, F) /\ s[Len(s)].call \notin Changes /\ s[1].call \in Reading
<1>1. /\ Len(s) = 3 /\ s[1] = S(first, k, T) /\ s[2] = S(call, k, T) /\ s[3] = S("count", k, T)
      /\ 1 .. 3 = {1, 2, 3} /\ 1 \in 1 .. 2 - 1 /\ 1 \in 1 .. 3 - 1
  OBVIOUS
<1>2. \A c : S(c, k, T).call = c /\ S(c, k, T).key = k /\ S(c, k, T).type = T
  BY DEF S
<1>3. /\ first \in Reading /\ first \in CallsOf(T) /\ "count" \in CallsOf(T)
      /\ first \notin Changes /\ "count" \notin Changes /\ first # "count" /\ call # "count"
      /\ Pushes \subseteq Changes
  BY CallsOfTypes DEF Claims, Reading, Changes, Pushes, Pops
<1> HIDE DEF S
<1>4. \A i \in {1, 2, 3} :
        \/ s[i].call \in Reading \/ s[i].key \in F
        \/ \E j \in 1 .. i - 1 : s[j].key = s[i].key /\ s[j].call \in Claims
  BY <1>1, <1>2, <1>3
<1>5. Counted(s, 2)
  BY <1>1, <1>2 DEF Counted
<1> QED
  BY <1>1, <1>2, <1>3, <1>4, <1>5 DEF Shape

\* RPOPLPUSH of a list onto itself.
LEMMA RotateShape ==
  ASSUME NEW k \in Keys, NEW F, NEW s, s = <<S("live", k, TList), S("rpop", k, TList), S("lpush", k, TList)>>
  PROVE  Shape(TList, s, F) /\ s[1].call \in Reading
<1>1. /\ Len(s) = 3 /\ s[1] = S("live", k, TList) /\ s[2] = S("rpop", k, TList) /\ s[3] = S("lpush", k, TList)
      /\ 1 .. 3 = {1, 2, 3} /\ 1 \in 1 .. 2 - 1 /\ 1 \in 1 .. 3 - 1 /\ 2 + 1 = 3 /\ 3 - 1 = 2
  OBVIOUS
<1>2. \A c : S(c, k, TList).call = c /\ S(c, k, TList).key = k /\ S(c, k, TList).type = TList
  BY DEF S
<1>3. /\ "live" \in Reading /\ "live" \in Claims /\ {"live", "rpop", "lpush"} \subseteq CallsOf(TList)
      /\ "live" \notin Changes \cup Pushes /\ "rpop" \in Pops /\ "lpush" \in Pushes /\ "rpop" \notin Pushes
  BY CallsOfTypes DEF Claims, Reading, Changes, Pushes, Pops
<1>4. \A i \in {1, 2, 3} :
        \/ s[i].call \in Reading \/ s[i].key \in F
        \/ \E j \in 1 .. i - 1 : s[j].key = s[i].key /\ s[j].call \in Claims
  BY <1>1, <1>2, <1>3
<1>5. PutBack(s, 2)
  BY <1>1, <1>2, <1>3 DEF PutBack
<1> QED
  BY <1>1, <1>2, <1>3, <1>4, <1>5 DEF Shape

\* The first half of RPOPLPUSH, and of SMOVE.
LEMMA TakeShape ==
  ASSUME NEW k \in Keys, NEW l \in Keys, NEW F, NEW s,
         s = <<S("live", k, TList), S("type", l, TList), S("rpop", k, TList), S("count", k, TList)>>
  PROVE  Shape(TList, s, F) /\ s[Len(s)].call \notin Changes /\ s[1].call \in Reading
<1>1. /\ Len(s) = 4 /\ s[1] = S("live", k, TList) /\ s[2] = S("type", l, TList)
      /\ s[3] = S("rpop", k, TList) /\ s[4] = S("count", k, TList)
      /\ 1 .. 4 = {1, 2, 3, 4} /\ 1 \in 1 .. 3 - 1 /\ 1 \in 1 .. 4 - 1 /\ 3 + 1 = 4 /\ 4 - 1 = 3
  OBVIOUS
<1>2. \A c, x : S(c, x, TList).call = c /\ S(c, x, TList).key = x /\ S(c, x, TList).type = TList
  BY DEF S
<1>3. /\ {"live", "type"} \subseteq Reading /\ "live" \in Claims
      /\ {"live", "type", "rpop", "count"} \subseteq CallsOf(TList)
      /\ {"live", "type", "count"} \cap Changes = {} /\ {"live", "type", "count", "rpop"} \cap Pushes = {}
      /\ "rpop" \in Changes
  BY CallsOfTypes DEF Claims, Reading, Changes, Pushes, Pops
<1>4. \A i \in {1, 2, 3, 4} :
        \/ s[i].call \in Reading \/ s[i].key \in F
        \/ \E j \in 1 .. i - 1 : s[j].key = s[i].key /\ s[j].call \in Claims
  BY <1>1, <1>2, <1>3
<1>5. Counted(s, 3)
  BY <1>1, <1>2 DEF Counted
<1> QED
  BY <1>1, <1>2, <1>3, <1>4, <1>5 DEF Shape

LEMMA RemoveShape ==
  ASSUME NEW k \in Keys, NEW l \in Keys, NEW F, NEW s,
         s = <<S("live", k, TSet), S("type", l, TSet), S("ismember", k, TSet),
               S("srem", k, TSet), S("count", k, TSet)>>
  PROVE  Shape(TSet, s, F) /\ s[Len(s)].call \notin Changes /\ s[1].call \in Reading
<1>1. /\ Len(s) = 5 /\ s[1] = S("live", k, TSet) /\ s[2] = S("type", l, TSet) /\ s[3] = S("ismember", k, TSet)
      /\ s[4] = S("srem", k, TSet) /\ s[5] = S("count", k, TSet)
      /\ 1 .. 5 = {1, 2, 3, 4, 5} /\ 1 \in 1 .. 4 - 1 /\ 1 \in 1 .. 5 - 1 /\ 4 + 1 = 5 /\ 5 - 1 = 4
  OBVIOUS
<1>2. \A c, x : S(c, x, TSet).call = c /\ S(c, x, TSet).key = x /\ S(c, x, TSet).type = TSet
  BY DEF S
<1>3. /\ {"live", "type", "ismember"} \subseteq Reading /\ "live" \in Claims
      /\ {"live", "type", "ismember", "srem", "count"} \subseteq CallsOf(TSet)
      /\ {"live", "type", "ismember", "count"} \cap Changes = {}
      /\ {"live", "type", "ismember", "count", "srem"} \cap Pushes = {}
      /\ "srem" \in Changes
  BY CallsOfTypes DEF Claims, Reading, Changes, Pushes, Pops
<1>4. \A i \in {1, 2, 3, 4, 5} :
        \/ s[i].call \in Reading \/ s[i].key \in F
        \/ \E j \in 1 .. i - 1 : s[j].key = s[i].key /\ s[j].call \in Claims
  BY <1>1, <1>2, <1>3
<1>5. Counted(s, 4)
  BY <1>1, <1>2 DEF Counted
<1> QED
  BY <1>1, <1>2, <1>3, <1>4, <1>5 DEF Shape

\* SMOVE of a set onto itself, and the parts of MSETNX.
LEMMA CheckShapes ==
  ASSUME NEW k \in Keys, NEW F
  PROVE  /\ LET s == <<S("live", k, TSet), S("ismember", k, TSet)>>
            IN  Shape(TSet, s, F) /\ s[1].call \in Reading
         /\ LET s == AbsentKey(k)
            IN  Shape(TStr, s, F) /\ s[Len(s)].call \notin Changes /\ s[1].call \in Reading
         /\ LET s == WriteString(k)
            IN  Shape(TStr, s, F) /\ s[Len(s)].call \notin Changes /\ s[1].call \in Reading
<1>2. \A c, x : S(c, k, x).call = c /\ S(c, k, x).key = k /\ S(c, k, x).type = x
  BY DEF S
<1>3. /\ {"live", "ismember", "absent", "ensure"} \subseteq Reading /\ "ensure" \in Claims
      /\ {"live", "ismember"} \subseteq CallsOf(TSet)
      /\ {"absent", "ensure", "setstring", "persist"} \subseteq CallsOf(TStr)
      /\ {"live", "ismember", "absent", "ensure", "setstring", "persist"} \cap (Changes \cup Pushes) = {}
  BY CallsOfTypes DEF Claims, Reading, Changes, Pushes, Pops
<1>4. ASSUME NEW s, s = <<S("live", k, TSet), S("ismember", k, TSet)>>
      PROVE  Shape(TSet, s, F) /\ s[1].call \in Reading
  <2>1. /\ Len(s) = 2 /\ s[1] = S("live", k, TSet) /\ s[2] = S("ismember", k, TSet)
        /\ 1 .. 2 = {1, 2}
    BY <1>4
  <2> QED
    BY <2>1, <1>2, <1>3 DEF Shape
<1>5. ASSUME NEW s, s = <<S("absent", k, TStr)>>
      PROVE  Shape(TStr, s, F) /\ s[Len(s)].call \notin Changes /\ s[1].call \in Reading
  <2>1. Len(s) = 1 /\ s[1] = S("absent", k, TStr) /\ 1 .. 1 = {1}
    BY <1>5
  <2> QED
    BY <2>1, <1>2, <1>3 DEF Shape
<1>6. ASSUME NEW s, s = <<S("ensure", k, TStr), S("setstring", k, TStr), S("persist", k, TStr)>>
      PROVE  Shape(TStr, s, F) /\ s[Len(s)].call \notin Changes /\ s[1].call \in Reading
  <2>1. /\ Len(s) = 3 /\ s[1] = S("ensure", k, TStr) /\ s[2] = S("setstring", k, TStr)
        /\ s[3] = S("persist", k, TStr)
        /\ 1 .. 3 = {1, 2, 3} /\ 1 \in 1 .. 2 - 1 /\ 1 \in 1 .. 3 - 1
    BY <1>6
  <2>2. \A i \in {1, 2, 3} :
          \/ s[i].call \in Reading \/ s[i].key \in F
          \/ \E j \in 1 .. i - 1 : s[j].key = s[i].key /\ s[j].call \in Claims
    BY <2>1, <1>2, <1>3
  <2> QED
    BY <2>1, <2>2, <1>2, <1>3 DEF Shape
<1> QED
  BY <1>4, <1>5, <1>6 DEF AbsentKey, WriteString

\* A push that is refused has made its first call only.
LEMMA ClaimShape ==
  ASSUME NEW k \in Keys, NEW F, NEW first \in {"ensure", "live"}, NEW s, s = <<S(first, k, TList)>>
  PROVE  Shape(TList, s, F) /\ s[1].call \in Reading
<1>1. /\ {"live", "ensure"} \subseteq Reading /\ {"live", "ensure"} \subseteq CallsOf(TList)
      /\ {"live", "ensure"} \cap (Changes \cup Pushes) = {}
  BY CallsOfTypes DEF Reading, Changes, Pushes, Pops
<1>2. Len(s) = 1 /\ s[1] = S(first, k, TList) /\ 1 .. 1 = {1}
  OBVIOUS
<1>3. s[1].call = first /\ s[1].key = k /\ s[1].type = TList
  BY <1>2 DEF S
<1> QED
  BY <1>1, <1>2, <1>3 DEF Shape

\* Every command starts in shape, whatever the keys hold, and with a check.
LEMMA HandlerShape ==
  ASSUME ~serial, NEW new \in Nat, NEW cmd, \E q \in Requests : cmd = Carrying(q, new), NEW F
  PROVE  Shape(Kind(cmd.op), Handler(cmd), F) /\ Handler(cmd)[1].call \in Reading
<1>1. PICK k \in Keys, l \in Keys : Calling(cmd, k, l)
  BY HandlerOf
<1>2. /\ cmd.op \in PushOps \cup Pops \cup {"rpoplpush"} => Kind(cmd.op) = TList
      /\ cmd.op = "smove" => Kind(cmd.op) = TSet
      /\ cmd.op = "msetnx" => Kind(cmd.op) = TStr
  BY DEF Kind, PushOps, Pops
<1>3. /\ Pushes \cup Pops \subseteq Changes /\ "sadd" \in Changes
      /\ Pushes \cup Pops \subseteq CallsOf(TList) /\ "sadd" \in CallsOf(TSet)
      /\ Claims = {"ensure", "live"} /\ "lpush" \in Pushes
  BY CallsOfTypes DEF Changes, Claims, Pushes
<1>types. \A c \in Pushes \cup Pops \cup Others : \A x \in Keys :
             \A T \in {TList, TSet, TStr} : S(c, x, T) \in CallRec
  BY CallTypes DEF KeyTypes, OtherRec, CallRec
<1>calls. /\ {"live", "type", "ismember", "srem", "sadd", "count", "ensure", "absent", "setstring", "persist"} \subseteq Others
          /\ "lpush" \in Pushes /\ "rpop" \in Pops
  BY DEF Others, Pushes, Pops
<1>4. CASE cmd.op \in PushOps \cup Pops
  <2>1. \/ \E first \in {"ensure", "live"}, call \in Pushes \cup Pops :
              Handler(cmd) = <<S(first, k, TList), S(call, k, TList), S("count", k, TList)>>
        \/ \E first \in {"ensure", "live"} : Handler(cmd) = <<S(first, k, TList)>>
    BY <1>1, <1>4 DEF Calling, PushOps, Pops
  <2>2. ASSUME NEW first \in {"ensure", "live"}, NEW call \in Pushes \cup Pops,
               Handler(cmd) = <<S(first, k, TList), S(call, k, TList), S("count", k, TList)>>
        PROVE  Shape(TList, Handler(cmd), F) /\ Handler(cmd)[1].call \in Reading
    BY <2>2, <1>3, ClaimChangeCount
  <2>3. ASSUME NEW first \in {"ensure", "live"}, Handler(cmd) = <<S(first, k, TList)>>
        PROVE  Shape(TList, Handler(cmd), F) /\ Handler(cmd)[1].call \in Reading
    BY <2>3, ClaimShape
  <2> QED
    BY <2>1, <2>2, <2>3, <1>2, <1>4
<1>5. CASE cmd.op = "rpoplpush"
  <2>1. Handler(cmd) = RPopLPush(k, l)
    BY <1>1, <1>5 DEF Calling, PushOps, Pops
  <2>2. CASE k = l
    <3>1. Handler(cmd) = <<S("live", k, TList), S("rpop", k, TList), S("lpush", k, TList)>>
      BY <2>1, <2>2 DEF RPopLPush
    <3> QED
      BY <3>1, <1>2, <1>5, RotateShape
  <2>3. CASE k # l
    <3> DEFINE s == <<S("live", k, TList), S("type", l, TList), S("rpop", k, TList), S("count", k, TList)>>
               u == <<S("ensure", l, TList), S("lpush", l, TList), S("count", l, TList)>>
    <3>1. Handler(cmd) = s \o u
      BY <2>1, <2>3 DEF RPopLPush, Push
    <3>2. s \in Seq(CallRec) /\ u \in Seq(CallRec) /\ s # <<>> /\ u # <<>>
      <4>1. /\ S("live", k, TList) \in CallRec /\ S("type", l, TList) \in CallRec
            /\ S("rpop", k, TList) \in CallRec /\ S("count", k, TList) \in CallRec
            /\ S("ensure", l, TList) \in CallRec /\ S("lpush", l, TList) \in CallRec
            /\ S("count", l, TList) \in CallRec
        BY <1>types, <1>calls
      <4> QED
        BY <4>1
    <3>3. Shape(TList, s, F) /\ s[Len(s)].call \notin Changes /\ s[1].call \in Reading
      BY TakeShape
    <3>4. Shape(TList, u, F) /\ u[1].call \in Reading
      BY <1>3, ClaimChangeCount
    <3> HIDE DEF s, u
    <3> QED
      BY <3>1, <3>2, <3>3, <3>4, <1>2, <1>5, ShapeConcat
  <2> QED
    BY <2>2, <2>3
<1>6. CASE cmd.op = "smove"
  <2>1. Handler(cmd) = SMove(k, l)
    BY <1>1, <1>6 DEF Calling, PushOps, Pops
  <2>2. CASE k = l
    <3>1. Handler(cmd) = <<S("live", k, TSet), S("ismember", k, TSet)>>
      BY <2>1, <2>2 DEF SMove
    <3> QED
      BY <3>1, <1>2, <1>6, CheckShapes
  <2>3. CASE k # l
    <3> DEFINE s == <<S("live", k, TSet), S("type", l, TSet), S("ismember", k, TSet), S("srem", k, TSet),
                      S("count", k, TSet)>>
               u == <<S("ensure", l, TSet), S("sadd", l, TSet), S("count", l, TSet)>>
    <3>1. Handler(cmd) = s \o u
      BY <2>1, <2>3 DEF SMove
    <3>2. s \in Seq(CallRec) /\ u \in Seq(CallRec) /\ s # <<>> /\ u # <<>>
      <4>1. /\ S("live", k, TSet) \in CallRec /\ S("type", l, TSet) \in CallRec
            /\ S("ismember", k, TSet) \in CallRec /\ S("srem", k, TSet) \in CallRec
            /\ S("count", k, TSet) \in CallRec /\ S("ensure", l, TSet) \in CallRec
            /\ S("sadd", l, TSet) \in CallRec /\ S("count", l, TSet) \in CallRec
        BY <1>types, <1>calls
      <4> QED
        BY <4>1
    <3>3. Shape(TSet, s, F) /\ s[Len(s)].call \notin Changes /\ s[1].call \in Reading
      BY RemoveShape
    <3>4. Shape(TSet, u, F) /\ u[1].call \in Reading
      BY <1>3, ClaimChangeCount
    <3> HIDE DEF s, u
    <3> QED
      BY <3>1, <3>2, <3>3, <3>4, <1>2, <1>6, ShapeConcat
  <2> QED
    BY <2>2, <2>3
<1>7. CASE cmd.op = "msetnx"
  <2> DEFINE a == AbsentKey(k) b == AbsentKey(l) d == WriteString(k) e == WriteString(l)
  <2>1. Handler(cmd) = ((a \o b) \o d) \o e
    <3>1. Handler(cmd) = MSetNX(k, l)
      BY <1>1, <1>7 DEF Calling, PushOps, Pops
    <3> QED
      BY <3>1 DEF MSetNX
  <2>2. \A x \in Keys : /\ AbsentKey(x) \in Seq(CallRec) /\ AbsentKey(x) # <<>>
                        /\ WriteString(x) \in Seq(CallRec) /\ WriteString(x) # <<>>
    <3> TAKE x \in Keys
    <3>1. /\ S("absent", x, TStr) \in CallRec /\ S("ensure", x, TStr) \in CallRec
          /\ S("setstring", x, TStr) \in CallRec /\ S("persist", x, TStr) \in CallRec
      BY <1>types, <1>calls
    <3> QED
      BY <3>1 DEF AbsentKey, WriteString
  <2> DEFINE Good(s) == /\ s \in Seq(CallRec) /\ s # <<>> /\ Shape(TStr, s, F)
                        /\ s[Len(s)].call \notin Changes /\ s[1].call \in Reading
  <2>3. Good(a) /\ Good(b) /\ Good(d) /\ Good(e)
    BY <2>2, CheckShapes
  <2>4. \A s, u : Good(s) /\ Good(u) => Good(s \o u)
    <3> TAKE s, u
    <3> HAVE Good(s) /\ Good(u)
    <3> QED
      BY ShapeConcat
  <2> HIDE DEF a, b, d, e
  <2>5. Good(Handler(cmd))
    <3> HIDE DEF Good
    <3> QED
      BY <2>1, <2>3, <2>4
  <2> QED
    BY <2>5, <1>2, <1>7
<1>8. cmd.op \in PushOps \cup Pops \cup {"rpoplpush", "smove", "msetnx"}
  BY <1>1 DEF Calling
<1> QED
  BY <1>4, <1>5, <1>6, <1>7, <1>8

-----------------------------------------------------------------------------
(***************************************************************************)
(* What the connections owe a key changes by what one of them does.        *)
(***************************************************************************)
LEMMA DebtRange ==
  ASSUME NEW s, NEW n \in {-1, 0, 1}, NEW k
  PROVE  Debt(s, n, k) \in {-1, 0, 1} /\ (k # Head(s).key => Debt(s, n, k) = 0)
  BY DEF Debt

OthersAlike(C, C2, c) == \A d \in Clients \ {c} : C2[d] = C[d]
Owers(C, k, n) == {c \in Clients : Owed(C[c], k) = n}

LEMMA OwersChange ==
  ASSUME NEW C, NEW C2, NEW c \in Clients, OthersAlike(C, C2, c), NEW k, NEW n
  PROVE  /\ Cardinality(Owers(C, k, n)) \in Nat /\ Cardinality(Owers(C2, k, n)) \in Nat
         /\ Cardinality(Owers(C2, k, n)) =
              Cardinality(Owers(C, k, n)) - (IF Owed(C[c], k) = n THEN 1 ELSE 0)
                                          + (IF Owed(C2[c], k) = n THEN 1 ELSE 0)
<1> DEFINE P == Owers(C, k, n) Q == Owers(C2, k, n) R == P \ {c}
<1>1. IsFiniteSet(P) /\ IsFiniteSet(Q) /\ IsFiniteSet(R)
  BY ClientsAssumption, FS_Subset DEF Owers
<1>2. Cardinality(P) \in Nat /\ Cardinality(Q) \in Nat /\ Cardinality(R) \in Nat
  BY <1>1, FS_CardinalityType
<1>3. (c \in P <=> Owed(C[c], k) = n) /\ (c \in Q <=> Owed(C2[c], k) = n)
  BY DEF Owers
<1>4. Q \ {c} = R
  BY DEF Owers, OthersAlike
<1> HIDE DEF P, Q, R
<1>5. Cardinality(R) = IF c \in P THEN Cardinality(P) - 1 ELSE Cardinality(P)
  BY <1>1, FS_RemoveElement DEF R
<1>6. Cardinality(R) = IF c \in Q THEN Cardinality(Q) - 1 ELSE Cardinality(Q)
  BY <1>1, <1>4, FS_RemoveElement
<1> QED
  BY <1>2, <1>3, <1>5, <1>6 DEF P, Q

LEMMA OwingChange ==
  ASSUME NEW C, NEW C2, NEW c \in Clients, OthersAlike(C, C2, c), NEW k,
         Owed(C[c], k) \in {-1, 0, 1}, Owed(C2[c], k) \in {-1, 0, 1}
  PROVE  /\ Owing(C, k) \in Int
         /\ Owing(C2, k) = Owing(C, k) - Owed(C[c], k) + Owed(C2[c], k)
<1> DEFINE one == 1 minus == -1
           p == Cardinality(Owers(C, k, one)) m == Cardinality(Owers(C, k, minus))
           p2 == Cardinality(Owers(C2, k, one)) m2 == Cardinality(Owers(C2, k, minus))
           x == Owed(C[c], k) y == Owed(C2[c], k)
<1>1. Owing(C, k) = p - m /\ Owing(C2, k) = p2 - m2
  BY DEF Owing, Owers
<1> HIDE DEF one, minus
<1>2. /\ p \in Nat /\ p2 \in Nat
      /\ p2 = p - (IF x = one THEN 1 ELSE 0) + (IF y = one THEN 1 ELSE 0)
  BY OwersChange
<1>3. /\ m \in Nat /\ m2 \in Nat
      /\ m2 = m - (IF x = minus THEN 1 ELSE 0) + (IF y = minus THEN 1 ELSE 0)
  BY OwersChange
<1> HIDE DEF p, m, p2, m2
<1> QED
  BY <1>1, <1>2, <1>3 DEF one, minus

\* One connection's state and one key change; the rest of the table is as it was.
LEMMA HideStep ==
  ASSUME OverlapInv, NEW T \in {TList, TSet, TStr}, Single(T), NEW c \in Clients, Busy(c),
         NEW q, cl' = [cl EXCEPT ![c] = q],
         NEW k, db' = [db EXCEPT ![Call(c).key] = k],
         Fit(T, At(c)) => Fit(T, k),
         \A G : Fits(T) \subseteq G /\ (Fit(T, k) => Call(c).key \in G) => Shape(T, q.steps, G),
         q.n \in {-1, 0, 1}, Len(q.all) <= 1,
         \A l : l # Call(c).key => Owed(q, l) = 0,
         \A n \in Int : Covered(T, At(c), n) =>
                          Covered(T, k, n - Owed(cl[c], Call(c).key) + Owed(q, Call(c).key))
  PROVE  Single(T)'
<1> DEFINE key == Call(c).key
<1>1. key \in Keys /\ At(c) = db[key] /\ cl[c].steps # <<>>
  BY NextCall DEF At
<1>2. /\ db'[key] = k /\ \A l \in Keys \ {key} : db'[l] = db[l]
      /\ cl'[c] = q /\ \A d \in Clients \ {c} : cl'[d] = cl[d]
  BY <1>1 DEF OverlapInv
<1>3. \A l : Owed(cl[c], l) \in {-1, 0, 1} /\ Owed(q, l) \in {-1, 0, 1} /\ (l # key => Owed(cl[c], l) = 0)
  BY <1>1, DebtRange DEF Single, Owed, Call
<1>4. \A l : /\ Owing(cl, l) \in Int
             /\ Owing(cl', l) = Owing(cl, l) - Owed(cl[c], l) + Owed(q, l)
  <2> TAKE l
  <2> DEFINE C == cl C2 == cl'
  <2>1. /\ OthersAlike(C, C2, c)
        /\ Owed(C[c], l) \in {-1, 0, 1} /\ Owed(C2[c], l) \in {-1, 0, 1}
        /\ C2[c] = q
    BY <1>2, <1>3 DEF OthersAlike
  <2> HIDE DEF C, C2
  <2>2. /\ Owing(C, l) \in Int
        /\ Owing(C2, l) = Owing(C, l) - Owed(C[c], l) + Owed(C2[c], l)
    BY <2>1, OwingChange
  <2> QED
    BY <2>1, <2>2 DEF C, C2
<1>5. \A l \in Keys : Covered(T, db'[l], Owing(cl', l))
  <2> TAKE l \in Keys
  <2>1. CASE l = key
    <3>1. Covered(T, At(c), Owing(cl, key))
      BY <1>1 DEF Single
    <3>2. Covered(T, k, Owing(cl, key) - Owed(cl[c], key) + Owed(q, key))
      BY <3>1, <1>4
    <3> QED
      BY <2>1, <3>2, <1>2, <1>4
  <2>2. CASE l # key
    <3>1. Owed(cl[c], l) = 0 /\ Owed(q, l) = 0 /\ db'[l] = db[l]
      BY <2>2, <1>2, <1>3
    <3>2. Owing(cl', l) = Owing(cl, l)
      <4>1. Owing(cl, l) \in Int /\ Owing(cl', l) = (Owing(cl, l) - 0) + 0
        BY <3>1, <1>4, Zenon
      <4> QED
        BY <4>1
    <3> QED
      BY <3>1, <3>2 DEF Single
  <2> QED
    BY <2>1, <2>2
<1> DEFINE G == {l \in Keys : Fit(T, db'[l])}
<1>6. Fits(T) \subseteq G /\ (Fit(T, k) => key \in G)
  BY <1>1, <1>2 DEF Fits
<1>7. \A d \in Clients : Shape(T, cl'[d].steps, G) /\ cl'[d].n \in {-1, 0, 1} /\ Len(cl'[d].all) <= 1
  <2> TAKE d \in Clients
  <2>1. CASE d = c
    <3> HIDE DEF G
    <3> QED
      BY <2>1, <1>2, <1>6
  <2>2. CASE d # c
    <3>1. Shape(T, cl[d].steps, Fits(T)) => Shape(T, cl[d].steps, G)
      BY <1>6 DEF Shape
    <3> QED
      BY <2>2, <3>1, <1>2 DEF Single
  <2> QED
    BY <2>1, <2>2
<1> QED
  BY <1>5, <1>7 DEF Single, Fits

Reaches(c, left, n) ==
    \E q : /\ cl' = [cl EXCEPT ![c] = q] /\ q.steps = left
           /\ q.n \in {-1, 0, 1} /\ Len(q.all) <= 1
           /\ \A l : Owed(q, l) = Debt(left, n, l)

LEMMA GoesOn ==
  ASSUME OverlapInv, NEW c \in Clients, Busy(c),
         NEW rec \in ClientRec, rec.n \in {-1, 0, 1}, Len(rec.all) <= 1,
         NEW more, GoVia(c, rec, more), NEW left, left = more \o Tail(cl[c].steps)
  PROVE  Reaches(c, left, rec.n)
<1> DEFINE q == IF left = <<>> THEN Idle ELSE [rec EXCEPT !.steps = left]
<1>1. cl' = [cl EXCEPT ![c] = q]
  BY DEF GoVia
<1>2. CASE left = <<>>
  <2> DEFINE none == <<>>
  <2>1. q.steps = none /\ q.n = 0 /\ q.all = none
    BY <1>2 DEF Idle
  <2>2. \A l : Owed(q, l) = Debt(left, rec.n, l)
    BY <1>2, <2>1 DEF Owed, Debt
  <2>3. left = none /\ Len(none) = 0
    BY <1>2
  <2> HIDE DEF q, none
  <2>4. Len(q.all) <= 1
    BY <2>1, <2>3
  <2>5. q.steps = left /\ q.n \in {-1, 0, 1}
    BY <2>1, <2>3
  <2> QED
    BY <1>1, <2>2, <2>4, <2>5 DEF Reaches
<1>3. CASE left # <<>>
  <2>1. /\ q = [rec EXCEPT !.steps = left]
        /\ rec = [cmd |-> rec.cmd, steps |-> rec.steps, hand |-> rec.hand, n |-> rec.n,
                  cnt |-> rec.cnt, all |-> rec.all, sets |-> rec.sets, lst |-> rec.lst]
    BY <1>3 DEF ClientRec
  <2>2. q.steps = left /\ q.n = rec.n /\ q.all = rec.all
    BY <2>1
  <2> HIDE DEF q
  <2> QED
    BY <1>1, <2>2 DEF Owed, Reaches
<1> QED
  BY <1>2, <1>3

\* What the next call settles, and what is left to settle once it is made.
LEMMA NextShape ==
  ASSUME OverlapInv, NEW T \in {TList, TSet, TStr}, Single(T), NEW c \in Clients, Busy(c)
  PROVE  /\ cl[c].steps \in Seq(CallRec) /\ cl[c].steps # <<>> /\ Shape(T, cl[c].steps, Fits(T))
         /\ Call(c).call \in CallsOf(T) /\ (Call(c).type = T \/ Call(c).call = "drop")
         /\ Call(c).call \in Reading \/ Fit(T, At(c))
         /\ cl[c].n \in {-1, 0, 1} /\ Len(cl[c].all) <= 1
         /\ Covered(T, At(c), Owing(cl, Call(c).key))
<1>1. cl[c].steps \in Seq(CallRec) /\ cl[c].steps # <<>> /\ Call(c).key \in Keys /\ At(c) = db[Call(c).key]
  BY NextCall DEF ClientRec, At
<1>2. /\ Shape(T, cl[c].steps, Fits(T)) /\ cl[c].n \in {-1, 0, 1} /\ Len(cl[c].all) <= 1
      /\ Covered(T, At(c), Owing(cl, Call(c).key))
  BY <1>1 DEF Single
<1>3. /\ Call(c).call \in CallsOf(T) /\ (Call(c).type = T \/ Call(c).call = "drop")
      /\ Call(c).call \in Reading \/ Call(c).key \in Fits(T)
  BY <1>1, <1>2, HeadShape DEF Call
<1> QED
  BY <1>1, <1>2, <1>3 DEF Fits

\* The call changes data: the change of what is owed is n.
LEMMA HideChange ==
  ASSUME OverlapInv, NEW T \in {TList, TSet, TStr}, Single(T), NEW c \in Clients, Busy(c),
         Call(c).call \in Changes,
         NEW rec \in ClientRec, rec.n \in {-1, 0, 1}, Len(rec.all) <= 1, Go(c, rec),
         Call(c).call \in Pops => rec.n = -1, Call(c).call \in Pushes => rec.n = 1,
         NEW k, db' = [db EXCEPT ![Call(c).key] = k], Fit(T, k),
         \A n \in Int : Covered(T, At(c), n) => Covered(T, k, n + rec.n)
  PROVE  Single(T)'
<1> DEFINE s == cl[c].steps key == Call(c).key
<1>1. s \in Seq(CallRec) /\ s # <<>> /\ Shape(T, s, Fits(T))
  BY NextShape
<1>2. Tail(s) \in Seq(CallRec)
  BY <1>1, HeadTailProperties
<1>3. PICK q : /\ cl' = [cl EXCEPT ![c] = q] /\ q.steps = Tail(s)
               /\ q.n \in {-1, 0, 1} /\ Len(q.all) <= 1
               /\ \A l : Owed(q, l) = Debt(Tail(s), rec.n, l)
  <2> DEFINE more == <<>> left == Tail(s)
  <2>1. left = more \o Tail(cl[c].steps) /\ GoVia(c, rec, more)
    BY <1>2, ConcatEmptySeq DEF Go
  <2> HIDE DEF more, left
  <2>2. Reaches(c, left, rec.n)
    BY <2>1, GoesOn
  <2> QED
    BY <2>2 DEF left, Reaches
<1>4. \/ Tail(s) = <<>> /\ Call(c).call \in Pushes
      \/ /\ Tail(s) # <<>>
         /\ \A l : Debt(Tail(s), rec.n, l) = IF l = key THEN rec.n ELSE 0
  <2> DEFINE n == rec.n
  <2>1. Head(s).call \in Changes /\ (Head(s).call \in Pops => n = -1) /\ key = Head(s).key
    BY DEF Call
  <2> HIDE DEF n, s, key
  <2>2. \/ Tail(s) = <<>> /\ Head(s).call \in Pushes
        \/ /\ Tail(s) # <<>>
           /\ \A m, l : (Head(s).call \in Pops => m = -1) =>
                          Debt(Tail(s), m, l) = IF l = Head(s).key THEN m ELSE 0
    BY <2>1, <1>1, HeadShape
  <2>3. \/ Tail(s) = <<>> /\ Head(s).call \in Pushes
        \/ /\ Tail(s) # <<>>
           /\ \A l : Debt(Tail(s), n, l) = IF l = key THEN n ELSE 0
    BY <2>1, <2>2
  <2> QED
    BY <2>3 DEF n, s, Call
<1>5. "count" \notin Changes /\ Pushes \subseteq Changes /\ Claims \cap Changes = {}
  BY DEF Changes, Claims, Pushes, Pops
<1>6. /\ \A l : l # key => Owed(q, l) = 0
      /\ \A n \in Int : (n - Owed(cl[c], key)) + Owed(q, key) = n + rec.n
  <2>1. CASE Tail(s) = <<>> /\ Call(c).call \in Pushes
    <3>1. Owed(cl[c], key) = -1 /\ rec.n = 1 /\ \A l : Owed(q, l) = 0
      BY <2>1, <1>1, <1>3, <1>5 DEF Owed, Debt, Call
    <3> QED
      BY <3>1
  <2>2. CASE /\ Tail(s) # <<>>
             /\ \A l : Debt(Tail(s), rec.n, l) = IF l = key THEN rec.n ELSE 0
    <3>1. Owed(cl[c], key) = 0 /\ Owed(q, key) = rec.n /\ \A l : l # key => Owed(q, l) = 0
      BY <2>2, <1>1, <1>3, <1>5 DEF Owed, Debt, Call
    <3> QED
      BY <3>1
  <2> QED
    BY <1>4, <2>1, <2>2
<1>7. \A G : Fits(T) \subseteq G /\ (Fit(T, k) => key \in G) => Shape(T, q.steps, G)
  BY <1>1, <1>3, TailShape DEF Call
<1>8. \A n \in Int : Covered(T, At(c), n) => Covered(T, k, n - Owed(cl[c], key) + Owed(q, key))
  BY <1>6
<1> QED
  BY <1>3, <1>6, <1>7, <1>8, HideStep

\* The call changes no data and owes nothing, before or after.
LEMMA HideOther ==
  ASSUME OverlapInv, NEW T \in {TList, TSet, TStr}, Single(T), NEW c \in Clients, Busy(c),
         Call(c).call \notin Changes, Owed(cl[c], Call(c).key) = 0,
         NEW rec \in ClientRec, rec.n \in {-1, 0, 1}, Len(rec.all) <= 1, Go(c, rec),
         NEW k, db' = [db EXCEPT ![Call(c).key] = k],
         Fit(T, At(c)) => Fit(T, k), Call(c).call \in Claims => Fit(T, k),
         \A n \in Int : Covered(T, At(c), n) => Covered(T, k, n)
  PROVE  Single(T)'
<1> DEFINE s == cl[c].steps key == Call(c).key
<1>1. s \in Seq(CallRec) /\ s # <<>> /\ Shape(T, s, Fits(T))
  BY NextShape
<1>2. Tail(s) \in Seq(CallRec)
  BY <1>1, HeadTailProperties
<1>3. PICK q : /\ cl' = [cl EXCEPT ![c] = q] /\ q.steps = Tail(s)
               /\ q.n \in {-1, 0, 1} /\ Len(q.all) <= 1
               /\ \A l : Owed(q, l) = Debt(Tail(s), rec.n, l)
  <2> DEFINE more == <<>> left == Tail(s)
  <2>1. left = more \o Tail(cl[c].steps) /\ GoVia(c, rec, more)
    BY <1>2, ConcatEmptySeq DEF Go
  <2> HIDE DEF more, left
  <2>2. Reaches(c, left, rec.n)
    BY <2>1, GoesOn
  <2> QED
    BY <2>2 DEF left, Reaches
<1>4. \A l : Owed(q, l) = 0
  <2>1. \A n, l : Debt(Tail(s), n, l) = 0
    BY <1>1, HeadShape DEF Call
  <2> QED
    BY <2>1, <1>3
<1>5. \A G : Fits(T) \subseteq G /\ (Fit(T, k) => key \in G) => Shape(T, q.steps, G)
  BY <1>1, <1>3, TailShape DEF Call
<1>6. \A n \in Int : Covered(T, At(c), n) => Covered(T, k, n - Owed(cl[c], key) + Owed(q, key))
  <2>1. \A n \in Int : (n - 0) + 0 = n
    OBVIOUS
  <2> QED
    BY <2>1, <1>4
<1> QED
  BY <1>3, <1>4, <1>5, <1>6, HideStep

\* The command ends where it owes nothing.
LEMMA HideDone ==
  ASSUME OverlapInv, NEW T \in {TList, TSet, TStr}, Single(T), NEW c \in Clients, Busy(c),
         Owed(cl[c], Call(c).key) = 0, Done(c), Local
  PROVE  Single(T)'
<1>1. Call(c).key \in Keys /\ At(c) = db[Call(c).key]
  BY NextCall DEF At
<1>2. Idle.steps = <<>> /\ Idle.n = 0 /\ Idle.all = <<>> /\ Len(<<>>) = 0
  BY DEF Idle
<1>3. /\ \A l : Owed(Idle, l) = 0
      /\ \A G : Shape(T, Idle.steps, G)
  BY <1>2 DEF Owed, Debt, Shape
<1>4. cl' = [cl EXCEPT ![c] = Idle] /\ db' = [db EXCEPT ![Call(c).key] = At(c)]
  BY <1>1 DEF Done, Local, OverlapInv
<1>5. \A n \in Int : Covered(T, At(c), n)
                       => Covered(T, At(c), n - Owed(cl[c], Call(c).key) + Owed(Idle, Call(c).key))
  <2>1. \A n \in Int : (n - 0) + 0 = n
    OBVIOUS
  <2> QED
    BY <2>1, <1>3
<1>6. Idle.n \in {-1, 0, 1} /\ Len(Idle.all) <= 1
  BY <1>2
<1> QED
  BY <1>3, <1>4, <1>5, <1>6, HideStep

-----------------------------------------------------------------------------
(***************************************************************************)
(* What the store calls do to the cover of a key.                          *)
(***************************************************************************)
LEMMA Written ==
  ASSUME NEW k \in KeyRec
  PROVE  /\ k.t \in KeyTypes /\ k.cnt \in Int /\ k.data \in Data
         /\ \A s : LET a == WithList(k, s)
                  IN  /\ a.t = k.t /\ a.cnt = k.cnt
                      /\ a.data = [list |-> s, set |-> k.data.set, str |-> k.data.str]
         /\ \A ms : LET a == WithSet(k, ms)
                   IN  /\ a.t = k.t /\ a.cnt = k.cnt
                       /\ a.data = [list |-> k.data.list, set |-> ms, str |-> k.data.str]
         /\ \A v : LET a == [k EXCEPT !.data.str = v]
                  IN  /\ a.t = k.t /\ a.cnt = k.cnt
                      /\ a.data = [list |-> k.data.list, set |-> k.data.set, str |-> v]
<1>1. /\ k = [t |-> k.t, exp |-> k.exp, cnt |-> k.cnt, data |-> k.data]
      /\ k.t \in KeyTypes /\ k.exp \in {0, 2} /\ k.cnt \in Int /\ k.data \in Data
  BY DEF KeyRec
<1>2. k.data = [list |-> k.data.list, set |-> k.data.set, str |-> k.data.str]
  BY <1>1 DEF Data
<1>3. ASSUME NEW s
      PROVE  WithList(k, s) = [t |-> k.t, exp |-> k.exp, cnt |-> k.cnt,
                               data |-> [list |-> s, set |-> k.data.set, str |-> k.data.str]]
  BY <1>1, <1>2 DEF WithList
<1>4. ASSUME NEW ms
      PROVE  WithSet(k, ms) = [t |-> k.t, exp |-> k.exp, cnt |-> k.cnt,
                               data |-> [list |-> k.data.list, set |-> ms, str |-> k.data.str]]
  BY <1>1, <1>2 DEF WithSet
<1>5. ASSUME NEW v
      PROVE  [k EXCEPT !.data.str = v] = [t |-> k.t, exp |-> k.exp, cnt |-> k.cnt,
                               data |-> [list |-> k.data.list, set |-> k.data.set, str |-> v]]
  BY <1>1, <1>2
<1>6. ASSUME NEW s
      PROVE  LET a == WithList(k, s)
             IN  /\ a.t = k.t /\ a.cnt = k.cnt
                 /\ a.data = [list |-> s, set |-> k.data.set, str |-> k.data.str]
  BY <1>3
<1>7. ASSUME NEW ms
      PROVE  LET a == WithSet(k, ms)
             IN  /\ a.t = k.t /\ a.cnt = k.cnt
                 /\ a.data = [list |-> k.data.list, set |-> ms, str |-> k.data.str]
  BY <1>4
<1>8. ASSUME NEW v
      PROVE  LET a == [k EXCEPT !.data.str = v]
             IN  /\ a.t = k.t /\ a.cnt = k.cnt
                 /\ a.data = [list |-> k.data.list, set |-> k.data.set, str |-> v]
  <2> DEFINE a == [k EXCEPT !.data.str = v]
  <2>1. a = [t |-> k.t, exp |-> k.exp, cnt |-> k.cnt,
             data |-> [list |-> k.data.list, set |-> k.data.set, str |-> v]]
    BY <1>5
  <2> HIDE DEF a
  <2>2. /\ a.t = k.t /\ a.cnt = k.cnt
        /\ a.data = [list |-> k.data.list, set |-> k.data.set, str |-> v]
    BY <2>1
  <2> QED
    BY <2>2 DEF a
<1> QED
  BY <1>1, <1>6, <1>7, <1>8

LEMMA Sizes ==
  /\ \A d : Only(TList, d) <=> d = [list |-> d.list, set |-> {}, str |-> Gone]
  /\ \A d : Only(TSet, d) <=> d = [list |-> <<>>, set |-> d.set, str |-> Gone]
  /\ \A d : Only(TStr, d) <=> d = [list |-> <<>>, set |-> {}, str |-> d.str]
  /\ \A d : Size(TList, d) = Len(d.list) /\ Size(TSet, d) = Cardinality(d.set) /\ Size(TStr, d) = 0
<1>1. /\ TList # TSet /\ TList # TStr /\ TSet # TStr
  BY TypesAssumption
<1>2. \A d : /\ Only(TList, d) <=> d = [list |-> d.list, set |-> {}, str |-> Gone]
             /\ Size(TList, d) = Len(d.list)
  BY <1>1 DEF Only, Size
<1>3. \A d : /\ Only(TSet, d) <=> d = [list |-> <<>>, set |-> d.set, str |-> Gone]
             /\ Size(TSet, d) = Cardinality(d.set)
  BY <1>1 DEF Only, Size
<1>4. \A d : /\ Only(TStr, d) <=> d = [list |-> <<>>, set |-> {}, str |-> d.str]
             /\ Size(TStr, d) = 0
  BY <1>1 DEF Only, Size
<1> QED
  BY <1>2, <1>3, <1>4

LEMMA SizeInt ==
  ASSUME NEW T \in {TList, TSet, TStr}, NEW d \in Data, IsFiniteSet(d.set)
  PROVE  Size(T, d) \in Int
<1>1. Len(d.list) \in Nat /\ Cardinality(d.set) \in Nat
  BY FS_CardinalityType DEF Data
<1> QED
  BY <1>1, Sizes

LEMMA CoverSame ==
  ASSUME NEW T, NEW k, NEW k2, k2.t = k.t, k2.cnt = k.cnt, k2.data = k.data, NEW n, Covered(T, k, n)
  PROVE  Covered(T, k2, n)
  BY DEF Covered, Visible

\* Claiming a key, and adding to its count.
LEMMA CoverEnsure ==
  ASSUME NEW T \in {TList, TSet, TStr}, NEW k \in KeyRec, TypeAllows(k, T), NEW d \in Int
  PROVE  /\ Fit(T, EnsureType(k, T, d))
         /\ \A n \in Int : Covered(T, k, n) => Covered(T, EnsureType(k, T, d), n - d)
<1> DEFINE a == EnsureType(k, T, d)
<1>1. a.t = T /\ a.cnt = k.cnt + d /\ a.data = k.data /\ k.t \in {NoType, T} /\ k.cnt \in Int
  BY DEF EnsureType, TypeAllows, KeyRec
<1> HIDE DEF a
<1>2. ASSUME NEW n \in Int, Covered(T, k, n)
      PROVE  Covered(T, a, n - d)
  <2>1. Only(T, k.data) /\ IsFiniteSet(k.data.set) /\ k.cnt + n >= Size(T, k.data)
    BY <1>1, <1>2 DEF Covered
  <2>2. a.cnt + (n - d) = k.cnt + n
    BY <1>1
  <2>3. T # NoType
    BY TypesAssumption
  <2> QED
    BY <1>1, <2>1, <2>2, <2>3 DEF Covered
<1> QED
  BY <1>1, <1>2 DEF Fit, a

\* Deleting the meta item of a key that counts nothing.
LEMMA CoverDrop ==
  ASSUME NEW T \in {TList, TSet}, NEW k \in KeyRec, Fit(T, k)
  PROVE  /\ Fit(T, DeleteMetaIfEmpty(k))
         /\ \A n \in Int : Covered(T, k, n) => Covered(T, DeleteMetaIfEmpty(k), n)
<1>1. T # TStr /\ k.t \in {NoType, T} /\ k.cnt \in Int /\ k.data \in Data
  BY TypesAssumption DEF Fit, KeyRec
<1>2. CASE k.cnt <= 0
  <2> DEFINE a == DeleteMetaIfEmpty(k)
  <2>1. a.t = NoType /\ a.cnt = 0 /\ a.data = k.data
    BY <1>2 DEF DeleteMetaIfEmpty, NoMeta, Claimed
  <2> HIDE DEF a
  <2>2. ASSUME NEW n \in Int, Covered(T, k, n)
        PROVE  Covered(T, a, n)
    <3>1. Only(T, k.data) /\ IsFiniteSet(k.data.set) /\ k.cnt + n >= Size(T, k.data)
      BY <1>1, <2>2 DEF Covered
    <3> DEFINE size == Size(T, k.data)
    <3>2. size \in Int
      BY <1>1, <3>1, SizeInt
    <3> HIDE DEF size
    <3>3. 0 + n >= size
      BY <1>1, <1>2, <3>1, <3>2 DEF size
    <3> QED
      BY <1>1, <2>1, <3>1, <3>3 DEF Covered, size
  <2> QED
    BY <1>1, <2>1, <2>2 DEF Fit, a
<1>3. CASE ~(k.cnt <= 0)
  BY <1>3 DEF DeleteMetaIfEmpty
<1> QED
  BY <1>2, <1>3

\* Writing a list of d elements more, or a set of d members more.
LEMMA CoverList ==
  ASSUME NEW k \in KeyRec, Fit(TList, k), NEW s \in Seq(Nat), NEW d \in Int,
         Len(s) = Len(k.data.list) + d
  PROVE  /\ Fit(TList, WithList(k, s))
         /\ \A n \in Int : Covered(TList, k, n) => Covered(TList, WithList(k, s), n + d)
<1> DEFINE a == WithList(k, s)
<1>1. /\ a.t = k.t /\ a.cnt = k.cnt /\ a.data = [list |-> s, set |-> k.data.set, str |-> k.data.str]
      /\ k.t \in {NoType, TList} /\ k.cnt \in Int /\ k.data \in Data
  BY Written DEF Fit
<1> HIDE DEF a
<1>2. ASSUME NEW n \in Int, Covered(TList, k, n)
      PROVE  Covered(TList, a, n + d)
  <2>1. /\ k.data = [list |-> k.data.list, set |-> {}, str |-> Gone]
        /\ k.t = NoType => k.cnt = 0
        /\ k.cnt + n >= Len(k.data.list)
    BY <1>1, <1>2, Sizes, SMTT(20), ZenonT(30) DEF Covered
  <2>2. a.data = [list |-> s, set |-> {}, str |-> Gone]
    <3>1. k.data.set = {} /\ k.data.str = Gone
      BY <2>1
    <3> QED
      BY <1>1, <3>1
  <2>3. a.data.list = s /\ a.data.set = {} /\ a.data = [list |-> a.data.list, set |-> {}, str |-> Gone]
    BY <2>2
  <2>4. Only(TList, a.data) /\ Size(TList, a.data) = Len(s) /\ IsFiniteSet(a.data.set)
    BY <2>3, Sizes, FS_EmptySet
  <2>5. a.cnt + (n + d) >= Len(s)
    <3>1. Len(k.data.list) \in Nat /\ Len(s) \in Nat
      BY <1>1 DEF Data
    <3> QED
      BY <3>1, <2>1, <1>1
  <2>6. TList # TStr
    BY TypesAssumption
  <2> QED
    BY <1>1, <2>1, <2>4, <2>5, <2>6 DEF Covered
<1> QED
  BY <1>1, <1>2 DEF Fit, a

LEMMA CoverSet ==
  ASSUME NEW k \in KeyRec, Fit(TSet, k), NEW ms \in SUBSET Nat, NEW d \in Int,
         IsFiniteSet(k.data.set) => IsFiniteSet(ms) /\ Cardinality(ms) = Cardinality(k.data.set) + d
  PROVE  /\ Fit(TSet, WithSet(k, ms))
         /\ \A n \in Int : Covered(TSet, k, n) => Covered(TSet, WithSet(k, ms), n + d)
<1> DEFINE a == WithSet(k, ms)
<1>1. /\ a.t = k.t /\ a.cnt = k.cnt /\ a.data = [list |-> k.data.list, set |-> ms, str |-> k.data.str]
      /\ k.t \in {NoType, TSet} /\ k.cnt \in Int /\ k.data \in Data
  BY Written DEF Fit
<1> HIDE DEF a
<1>2. ASSUME NEW n \in Int, Covered(TSet, k, n)
      PROVE  Covered(TSet, a, n + d)
  <2>1. /\ k.data = [list |-> <<>>, set |-> k.data.set, str |-> Gone]
        /\ k.t = NoType => k.cnt = 0
        /\ k.cnt + n >= Cardinality(k.data.set) /\ IsFiniteSet(k.data.set)
    BY <1>1, <1>2, Sizes DEF Covered
  <2>2. a.data = [list |-> <<>>, set |-> ms, str |-> Gone]
    <3>1. k.data.list = <<>> /\ k.data.str = Gone
      BY <2>1
    <3> QED
      BY <1>1, <3>1
  <2>3. a.data.set = ms /\ a.data = [list |-> <<>>, set |-> a.data.set, str |-> Gone]
    BY <2>2
  <2>4. Only(TSet, a.data) /\ Size(TSet, a.data) = Cardinality(ms) /\ IsFiniteSet(a.data.set)
    BY <2>1, <2>3, Sizes
  <2>5. a.cnt + (n + d) >= Cardinality(ms)
    <3>1. Cardinality(k.data.set) \in Nat /\ Cardinality(ms) = Cardinality(k.data.set) + d
      BY <2>1, FS_CardinalityType
    <3> QED
      BY <3>1, <2>1, <1>1
  <2>6. TSet # TStr
    BY TypesAssumption
  <2> QED
    BY <1>1, <2>1, <2>4, <2>5, <2>6 DEF Covered
<1> QED
  BY <1>1, <1>2 DEF Fit, a

LEMMA CoverString ==
  ASSUME NEW k \in KeyRec, Fit(TStr, k), NEW v \in Nat
  PROVE  /\ Fit(TStr, [k EXCEPT !.data.str = v])
         /\ \A n \in Int : Covered(TStr, k, n) => Covered(TStr, [k EXCEPT !.data.str = v], n)
<1> DEFINE a == [k EXCEPT !.data.str = v]
<1>1. /\ a.t = k.t /\ a.cnt = k.cnt /\ a.data = [list |-> k.data.list, set |-> k.data.set, str |-> v]
      /\ k.t = TStr /\ k.data \in Data
  BY Written DEF Fit
<1> HIDE DEF a
<1>2. ASSUME NEW n \in Int, Covered(TStr, k, n)
      PROVE  Covered(TStr, a, n)
  <2>1. /\ k.data = [list |-> <<>>, set |-> {}, str |-> k.data.str] /\ k.cnt + n >= 0
    BY <1>1, <1>2, Sizes DEF Covered
  <2>2. a.data = [list |-> <<>>, set |-> {}, str |-> v]
    <3>1. k.data.list = <<>> /\ k.data.set = {}
      BY <2>1
    <3> QED
      BY <1>1, <3>1
  <2>3. a.data.set = {} /\ a.data = [list |-> <<>>, set |-> {}, str |-> a.data.str]
    BY <2>2
  <2>4. Only(TStr, a.data) /\ Size(TStr, a.data) = 0 /\ IsFiniteSet(a.data.set)
    BY <2>3, Sizes, FS_EmptySet
  <2>5. TStr # NoType
    BY TypesAssumption
  <2> QED
    BY <1>1, <2>1, <2>4, <2>5 DEF Covered
<1> QED
  BY <1>1, <1>2 DEF Fit, a

-----------------------------------------------------------------------------
(***************************************************************************)
(* One lemma per kind of call: the cover and the shapes are kept.          *)
(***************************************************************************)
LEMMA OwesNothing ==
  ASSUME NEW c, Call(c).call \notin Pushes \cup {"count"}
  PROVE  \A l : Owed(cl[c], l) = 0
  BY DEF Owed, Debt, Call

LEMMA Unchanged ==
  ASSUME OverlapInv, NEW c \in Clients, Busy(c), Local
  PROVE  db' = [db EXCEPT ![Call(c).key] = At(c)]
<1>1. Call(c).key \in Keys /\ At(c) = db[Call(c).key]
  BY NextCall DEF At
<1> QED
  BY <1>1 DEF Local, OverlapInv

LEMMA HideChecks ==
  ASSUME OverlapInv, NEW T \in {TList, TSet, TStr}, Single(T), NEW c \in Clients, Checks(c)
  PROVE  Single(T)'
<1>1. Busy(c)
  BY DEF Checks, LiveStep, TypeStep, AbsentStep, IsMemberStep, OperandStep, SomeStep, Calls
<1>2. /\ Call(c).call \in CallsOf(T) /\ (Call(c).type = T \/ Call(c).call = "drop")
      /\ cl[c].n \in {-1, 0, 1} /\ Len(cl[c].all) <= 1
      /\ cl[c] \in ClientRec /\ At(c).cnt \in Int
  BY <1>1, NextShape, NextCall
<1>3. Call(c).call \in {"live", "type", "absent", "ismember"} /\ Local
  <2>1. Call(c).call \notin {"operand", "some"}
    BY <1>2, CallsOfTypes DEF Pushes, Pops
  <2> QED
    BY <2>1 DEF Checks, LiveStep, TypeStep, AbsentStep, IsMemberStep, OperandStep, SomeStep, Calls
<1>4. Call(c).call \notin Changes /\ \A l : Owed(cl[c], l) = 0
  BY <1>3, OwesNothing DEF Changes, Pushes, Pops
<1>5. db' = [db EXCEPT ![Call(c).key] = At(c)]
  BY <1>1, <1>3, Unchanged
<1>6. CASE Done(c)
  BY <1>1, <1>3, <1>4, <1>6, HideDone
<1>7. ASSUME NEW rec \in ClientRec, rec.n = cl[c].n, rec.all = cl[c].all, Go(c, rec),
             Call(c).call \in Claims => Fit(T, At(c))
      PROVE  Single(T)'
  BY <1>1, <1>2, <1>4, <1>5, <1>7, HideOther
<1>8. CASE LiveStep(c) /\ ~Done(c)
  <2> DEFINE rec == [cl[c] EXCEPT !.cnt = At(c).cnt]
  <2>1. Go(c, rec) /\ At(c).t = Call(c).type /\ Call(c).call = "live"
    BY <1>8 DEF LiveStep, Calls
  <2>2. PICK q \in ClientRec : q = rec /\ q.n = cl[c].n /\ q.all = cl[c].all
    BY <1>2, WithCount
  <2> HIDE DEF rec
  <2>3. Fit(T, At(c))
    BY <2>1, <1>2 DEF Fit
  <2> QED
    BY <2>1, <2>2, <2>3, <1>7
<1>9. CASE (TypeStep(c) \/ AbsentStep(c) \/ IsMemberStep(c)) /\ ~Done(c)
  <2>1. Go(c, cl[c]) /\ Call(c).call \notin Claims
    BY <1>9 DEF TypeStep, AbsentStep, IsMemberStep, GoOn, Calls, Claims
  <2> QED
    BY <2>1, <1>2, <1>7
<1>10. LiveStep(c) \/ TypeStep(c) \/ AbsentStep(c) \/ IsMemberStep(c)
  BY <1>3 DEF Checks, OperandStep, SomeStep, Calls
<1> QED
  BY <1>6, <1>8, <1>9, <1>10

LEMMA HideEnsure ==
  ASSUME OverlapInv, NEW T \in {TList, TSet, TStr}, Single(T), NEW c \in Clients, EnsureStep(c)
  PROVE  Single(T)'
<1>1. Busy(c) /\ Call(c).call = "ensure"
  BY DEF EnsureStep, Calls
<1>2. /\ Call(c).type = T /\ cl[c].n \in {-1, 0, 1} /\ Len(cl[c].all) <= 1
      /\ cl[c] \in ClientRec /\ At(c) \in KeyRec /\ T \in KeyTypes
  BY <1>1, NextShape, NextCall
<1>3. Call(c).call \notin Changes /\ \A l : Owed(cl[c], l) = 0
  BY <1>1, OwesNothing DEF Changes, Pushes, Pops
<1>4. CASE Done(c) /\ Local
  BY <1>1, <1>3, <1>4, HideDone
<1>5. CASE ~(Done(c) /\ Local)
  <2> DEFINE a == EnsureTypeExpiring(At(c), T, Now)
  <2>1. /\ GoVia(c, cl[c], IF TakesOver(At(c), Now) THEN DeleteMembers(Call(c).key) ELSE <<>>)
        /\ Write(c, a) /\ ExpiringAllows(At(c), T, Now)
    BY <1>2, <1>5 DEF EnsureStep
  <2>2. ~TakesOver(At(c), Now)
    BY <1>2, Primitives
  <2>3. Go(c, cl[c]) /\ TypeAllows(At(c), T) /\ a = EnsureType(At(c), T, 0)
    BY <2>1, <2>2 DEF Go, ExpiringAllows, EnsureTypeExpiring
  <2>4. db' = [db EXCEPT ![Call(c).key] = a]
    BY <2>1 DEF Write
  <2>5. Fit(T, a) /\ \A n \in Int : Covered(T, At(c), n) => Covered(T, a, n)
    <3> DEFINE d == 0
    <3>1. d \in Int /\ \A n \in Int : n - d = n
      OBVIOUS
    <3>2. a = EnsureType(At(c), T, d)
      BY <2>3
    <3> HIDE DEF d, a
    <3>3. Fit(T, a) /\ \A n \in Int : Covered(T, At(c), n) => Covered(T, a, n - d)
      BY <1>2, <2>3, <3>1, <3>2, CoverEnsure
    <3> QED
      BY <3>1, <3>3
  <2> HIDE DEF a
  <2> QED
    BY <1>1, <1>2, <1>3, <2>3, <2>4, <2>5, HideOther
<1> QED
  BY <1>4, <1>5

LEMMA HideDrop ==
  ASSUME OverlapInv, NEW T \in {TList, TSet, TStr}, Single(T), NEW c \in Clients,
         DropStep(c) \/ PersistStep(c)
  PROVE  Single(T)'
<1>1. Busy(c) /\ Call(c).call \in {"drop", "persist"} /\ Go(c, cl[c])
  BY DEF DropStep, PersistStep, Calls, GoOn
<1>2. /\ Call(c).call \in CallsOf(T) /\ Fit(T, At(c))
      /\ cl[c].n \in {-1, 0, 1} /\ Len(cl[c].all) <= 1
      /\ cl[c] \in ClientRec /\ At(c) \in KeyRec
  BY <1>1, NextShape, NextCall DEF Reading
<1>3. Call(c).call \notin Changes /\ Call(c).call \notin Claims /\ \A l : Owed(cl[c], l) = 0
  BY <1>1, OwesNothing DEF Changes, Pushes, Pops, Claims
<1>4. CASE DropStep(c)
  <2> DEFINE a == DeleteMetaIfEmpty(At(c))
  <2>1. db' = [db EXCEPT ![Call(c).key] = a] /\ Call(c).call = "drop"
    BY <1>4 DEF DropStep, Write, Calls
  <2>2. T \in {TList, TSet}
    BY <1>2, <2>1, CallsOfTypes
  <2>3. Fit(T, a) /\ \A n \in Int : Covered(T, At(c), n) => Covered(T, a, n)
    BY <1>2, <2>2, CoverDrop
  <2> HIDE DEF a
  <2> QED
    BY <1>1, <1>2, <1>3, <2>1, <2>3, HideOther
<1>5. CASE PersistStep(c)
  <2> DEFINE a == Persist(At(c))
  <2>1. db' = [db EXCEPT ![Call(c).key] = a]
    BY <1>5 DEF PersistStep, Write
  <2>2. a.t = At(c).t /\ a.cnt = At(c).cnt /\ a.data = At(c).data
    BY <1>2 DEF Persist, SetExpire, KeyRec
  <2> HIDE DEF a
  <2>3. Fit(T, a) /\ \A n \in Int : Covered(T, At(c), n) => Covered(T, a, n)
    BY <1>2, <2>2, CoverSame DEF Fit
  <2> QED
    BY <1>1, <1>2, <1>3, <2>1, <2>3, HideOther
<1> QED
  BY <1>4, <1>5

\* adjustCount: what was owed is counted, or dropped with the meta item.
LEMMA HideCount ==
  ASSUME OverlapInv, NEW T \in {TList, TSet, TStr}, Single(T), NEW c \in Clients, CountStep(c)
  PROVE  Single(T)'
<1> DEFINE s == cl[c].steps key == Call(c).key n == cl[c].n
           a == EnsureType(At(c), T, n)
           d == S("drop", key, NoType)
           more == IF n < 0 /\ a.cnt <= 0 THEN <<d>> ELSE <<>>
           left == more \o Tail(s)
<1>1. Busy(c) /\ Call(c).call = "count"
  BY DEF CountStep, Calls
<1>2. /\ s \in Seq(CallRec) /\ s # <<>> /\ Shape(T, s, Fits(T))
      /\ "count" \in CallsOf(T) /\ Call(c).type = T /\ Fit(T, At(c))
      /\ n \in {-1, 0, 1} /\ Len(cl[c].all) <= 1
      /\ cl[c] \in ClientRec /\ At(c) \in KeyRec /\ key \in Keys
  BY <1>1, NextShape, NextCall DEF Reading
<1>3. Call(c).call \notin Changes /\ Call(c).call \notin Claims
  BY <1>1 DEF Changes, Pushes, Pops, Claims
<1>4. \A l : Owed(cl[c], l) = IF l = key THEN n ELSE 0
  BY <1>1, <1>2 DEF Owed, Debt, Call
<1>5. CASE n = 0
  <2>1. Go(c, cl[c]) /\ Local
    BY <1>5 DEF CountStep, GoOn
  <2>2. db' = [db EXCEPT ![key] = At(c)]
    BY <1>1, <2>1, Unchanged
  <2>3. Owed(cl[c], key) = 0
    BY <1>4, <1>5
  <2> QED
    BY <1>1, <1>2, <1>3, <2>1, <2>2, <2>3, HideOther
<1>6. CASE n # 0
  <2>1. TypeAllows(At(c), T)
    BY <1>2 DEF Fit, TypeAllows
  <2>2. GoVia(c, cl[c], more) /\ Write(c, a)
    BY <1>2, <1>6, <2>1 DEF CountStep
  <2>3. db' = [db EXCEPT ![key] = a]
    BY <2>2 DEF Write
  <2>4. Fit(T, a) /\ \A m \in Int : Covered(T, At(c), m) => Covered(T, a, m - n)
    <3>1. n \in Int
      BY <1>2
    <3> HIDE DEF n
    <3> QED
      BY <3>1, <1>2, <2>1, CoverEnsure
  <2> HIDE DEF a
  <2>5. PICK q : /\ cl' = [cl EXCEPT ![c] = q] /\ q.steps = left
                 /\ q.n \in {-1, 0, 1} /\ Len(q.all) <= 1
                 /\ \A l : Owed(q, l) = Debt(left, n, l)
    <3> HIDE DEF more
    <3>1. left = more \o Tail(cl[c].steps)
      OBVIOUS
    <3> HIDE DEF left, s
    <3>2. Reaches(c, left, n)
      BY <3>1, <1>1, <1>2, <2>2, GoesOn
    <3> QED
      BY <3>2 DEF Reaches
  <2>6. /\ \A m, l : Debt(left, m, l) = 0
        /\ \A G : Fits(T) \subseteq G /\ key \in G => Shape(T, left, G)
    <3>0. Tail(s) \in Seq(CallRec) /\ Head(s).call = "count" /\ Head(s).key = key /\ Head(s).call \notin Claims
      BY <1>1, <1>2, <1>3, HeadTailProperties DEF Call
    <3>1. CASE more = <<>>
      <4>1. left = Tail(s)
        BY <3>0, <3>1, ConcatEmptySeq
      <4>2. \A m, l : Debt(Tail(s), m, l) = 0
        BY <1>2, <1>3, HeadShape DEF Call
      <4>3. \A G : Fits(T) \subseteq G => Shape(T, Tail(s), G)
        BY <1>2, <3>0, TailShape
      <4> HIDE DEF left
      <4> QED
        BY <4>1, <4>2, <4>3
    <3>2. CASE more = <<d>>
      <4>1. d \in OtherRec /\ d.call = "drop" /\ d.key = key
        BY <1>1, OtherExists DEF S, Others
      <4>2. "drop" \in CallsOf(T)
        BY <1>2, CallsOfTypes
      <4> HIDE DEF d
      <4>3. left = <<d>> \o Tail(s)
        BY <3>2
      <4>4. \A G : Fits(T) \subseteq G /\ key \in G => Shape(T, <<d>> \o Tail(s), G)
        BY <1>2, <3>0, <4>1, <4>2, DropShape
      <4>5. Head(<<d>> \o Tail(s)) = d
        <5>1. d \in CallRec
          BY <4>1 DEF OtherRec, CallRec
        <5> HIDE DEF s
        <5> QED
          BY <5>1, <3>0
      <4>6. \A m, l : Debt(<<d>> \o Tail(s), m, l) = 0
        BY <4>1, <4>5 DEF Debt, Pushes
      <4> HIDE DEF left
      <4> QED
        BY <4>3, <4>4, <4>6
    <3> QED
      BY <3>1, <3>2
  <2> HIDE DEF left
  <2>7. \A l : Owed(q, l) = 0
    BY <2>5, <2>6
  <2>8. \A G : Fits(T) \subseteq G /\ (Fit(T, a) => key \in G) => Shape(T, q.steps, G)
    BY <2>4, <2>5, <2>6
  <2>9. \A m \in Int : Covered(T, At(c), m) => Covered(T, a, m - Owed(cl[c], key) + Owed(q, key))
    <3>1. \A m \in Int : (m - n) + 0 = m - n
      BY <1>2
    <3> QED
      BY <3>1, <2>4, <2>7, <1>4
  <2> QED
    BY <1>1, <2>3, <2>4, <2>5, <2>7, <2>8, <2>9, HideStep
<1> QED
  BY <1>5, <1>6

\* A push adds one element, a pop takes one.
LEMMA HidePush ==
  ASSUME OverlapInv, NEW T \in {TList, TSet, TStr}, Single(T), NEW c \in Clients, PushStep(c)
  PROVE  Single(T)'
<1> DEFINE r == cl[c]
           e == IF r.hand = <<>> THEN <<r.cmd.new>> ELSE r.hand
           s == At(c).data.list
           n == 1
           rec == Holding(r, <<>>, n)
<1>1. Busy(c) /\ Call(c).call \in Pushes
  BY DEF PushStep, Calls, Pushes
<1>2. /\ Call(c).call \in CallsOf(T) /\ Fit(T, At(c)) /\ Len(r.all) <= 1
      /\ r \in ClientRec /\ At(c) \in KeyRec /\ s \in Seq(Nat)
  BY <1>1, NextShape, NextCall DEF Reading, Pushes
<1>3. T = TList
  BY <1>1, <1>2, CallsOfTypes DEF Pushes
<1>n. n \in Int /\ n \in {-1, 0, 1} /\ n = 1
  OBVIOUS
<1>4. PICK list \in {e \o s, s \o e} : Write(c, WithList(At(c), list)) /\ Go(c, rec)
  BY DEF PushStep, Holding
<1>5. list \in Seq(Nat) /\ Len(list) = Len(s) + n
  <2>1. e \in Seq(Nat) /\ Len(e) = 1
    <3>1. r.hand \in Hand /\ r.cmd.new \in Nat
      BY <1>2 DEF ClientRec, Command
    <3>2. CASE r.hand = <<>>
      BY <3>1, <3>2
    <3>3. CASE r.hand # <<>>
      <4>1. r.hand = <<r.hand[1]>> /\ r.hand[1] \in Nat
        BY <3>1, <3>3, HandHolds
      <4> DEFINE x == r.hand[1]
      <4>2. e = <<x>> /\ x \in Nat
        BY <4>1, <3>3
      <4> HIDE DEF x, e
      <4> QED
        BY <4>2
    <3> QED
      BY <3>2, <3>3
  <2> HIDE DEF e, s
  <2>2. s \in Seq(Nat)
    BY <1>2 DEF s
  <2>3. e \o s \in Seq(Nat) /\ Len(e \o s) = Len(e) + Len(s)
    BY <2>1, <2>2, ConcatProperties
  <2>4. s \o e \in Seq(Nat) /\ Len(s \o e) = Len(s) + Len(e)
    BY <2>1, <2>2, ConcatProperties
  <2>5. CASE list = e \o s
    <3>1. Len(list) = 1 + Len(s) /\ Len(s) \in Nat /\ list \in Seq(Nat)
      BY <2>1, <2>2, <2>3, <2>5
    <3> QED
      BY <3>1
  <2>6. CASE list = s \o e
    <3>1. Len(list) = Len(s) + 1 /\ Len(s) \in Nat /\ list \in Seq(Nat)
      BY <2>1, <2>2, <2>4, <2>6
    <3> QED
      BY <3>1
  <2> QED
    BY <2>5, <2>6, <1>4
<1> HIDE DEF n
<1>6. rec \in ClientRec /\ rec.n = n /\ rec.all = r.all
  <2>1. <<>> \in Hand
    BY HandTypes
  <2> QED
    BY <2>1, <1>2, <1>n, WithHand, SMTT(20), ZenonT(30)
<1> HIDE DEF rec
<1> DEFINE a == WithList(At(c), list)
<1>7. Fit(T, a) /\ \A m \in Int : Covered(T, At(c), m) => Covered(T, a, m + rec.n)
  BY <1>2, <1>3, <1>5, <1>6, <1>n, CoverList
<1>8. db' = [db EXCEPT ![Call(c).key] = a]
  BY <1>4 DEF Write
<1>9. Call(c).call \in Changes /\ Call(c).call \notin Pops
  BY <1>1 DEF Changes, Pushes, Pops
<1> HIDE DEF a, s, e
<1>10. rec.n \in {-1, 0, 1} /\ Len(rec.all) <= 1 /\ rec.n = 1
  BY <1>2, <1>6, <1>n
<1> HIDE DEF r
<1> QED
  BY <1>1, <1>4, <1>6, <1>7, <1>8, <1>9, <1>10, HideChange

LEMMA HidePop ==
  ASSUME OverlapInv, NEW T \in {TList, TSet, TStr}, Single(T), NEW c \in Clients, PopStep(c)
  PROVE  Single(T)'
<1> DEFINE r == cl[c]
           s == At(c).data.list
           n == -1
<1>1. Busy(c) /\ Call(c).call \in Pops
  BY DEF PopStep, Calls, Pops
<1>2. /\ Call(c).call \in CallsOf(T) /\ Fit(T, At(c)) /\ Len(r.all) <= 1
      /\ r \in ClientRec /\ At(c) \in KeyRec /\ s \in Seq(Nat)
  BY <1>1, NextShape, NextCall DEF Reading, Pops
<1>3. T = TList
  BY <1>1, <1>2, CallsOfTypes DEF Pops
<1>4. Call(c).call \in Changes /\ Call(c).call \notin Pushes /\ Call(c).call # "count"
  BY <1>1 DEF Changes, Pushes, Pops
<1>5. CASE s = <<>>
  <2>1. Done(c) /\ Local
    BY <1>5 DEF PopStep
  <2>2. Owed(cl[c], Call(c).key) = 0
    BY <1>4, OwesNothing
  <2> QED
    BY <1>1, <2>1, <2>2, HideDone
<1>6. CASE s # <<>>
  <2>1. PICK p \in {<<Head(s), Tail(s)>>, <<SE!Last(s), SE!Front(s)>>} :
          Go(c, Holding(r, <<p[1]>>, n)) /\ Write(c, WithList(At(c), p[2]))
    <3>1. CASE Call(c).call = "lpop"
      <4>1. Go(c, Holding(r, <<Head(s)>>, n)) /\ Write(c, WithList(At(c), Tail(s)))
        BY <1>6, <3>1 DEF PopStep, Holding
      <4> HIDE DEF s, n
      <4> QED
        BY <4>1
    <3>2. CASE Call(c).call # "lpop"
      <4>1. Go(c, Holding(r, <<SE!Last(s)>>, n)) /\ Write(c, WithList(At(c), SE!Front(s)))
        BY <1>6, <3>2 DEF PopStep, Holding
      <4> HIDE DEF s, n
      <4> QED
        BY <4>1
    <3> QED
      BY <3>1, <3>2
  <2>n. n \in Int /\ n \in {-1, 0, 1} /\ n = -1
    OBVIOUS
  <2>2. p[1] \in Nat /\ p[2] \in Seq(Nat) /\ Len(p[2]) = Len(s) + n
    <3> HIDE DEF s
    <3>1. Head(s) \in Nat /\ Tail(s) \in Seq(Nat) /\ Len(Tail(s)) = Len(s) - 1
      BY <1>2, <1>6, HeadTailProperties
    <3>2. SE!Last(s) \in Nat /\ SE!Front(s) \in Seq(Nat) /\ Len(SE!Front(s)) = Len(s) - 1
      <4>1. Len(s) \in Nat \ {0}
        BY <1>2, <1>6, EmptySeq
      <4>2. \A i \in 1 .. Len(s) : s[i] \in Nat
        BY <1>2, ElementOfSeq
      <4> DEFINE m == Len(s) - 1 one == 1
      <4>3. SE!Last(s) \in Nat /\ SE!Front(s) = SubSeq(s, one, m)
        BY <4>1, <4>2 DEF SE!Last, SE!Front
      <4>4. m \in Int /\ one \in Int /\ \A i \in one .. m : s[i] \in Nat
        BY <4>1, <4>2
      <4>5. (IF one <= m THEN m - one + 1 ELSE 0) = Len(s) - 1
        BY <4>1, SMTT(20), ZenonT(30)
      <4> HIDE DEF m, one
      <4>6. SubSeq(s, one, m) \in Seq(Nat) /\ Len(SubSeq(s, one, m)) = IF one <= m THEN m - one + 1 ELSE 0
        BY <4>4, SubSeqProperties
      <4> QED
        BY <4>3, <4>5, <4>6
    <3>3. Len(s) \in Nat /\ Len(s) + n = Len(s) - 1
      BY <1>2
    <3> HIDE DEF n
    <3>4. CASE p = <<Head(s), Tail(s)>>
      <4>1. p[1] = Head(s) /\ p[2] = Tail(s)
        BY <3>4
      <4> QED
        BY <4>1, <3>1, <3>3
    <3>5. CASE p = <<SE!Last(s), SE!Front(s)>>
      <4>1. p[1] = SE!Last(s) /\ p[2] = SE!Front(s)
        BY <3>5
      <4> QED
        BY <4>1, <3>2, <3>3
    <3> QED
      BY <2>1, <3>4, <3>5
  <2> HIDE DEF n
  <2> DEFINE rec == Holding(r, <<p[1]>>, n)
             a == WithList(At(c), p[2])
  <2>3. rec \in ClientRec /\ rec.n = n /\ rec.all = r.all
    <3> DEFINE x == p[1]
    <3>1. x \in Nat
      BY <2>2
    <3> HIDE DEF x
    <3>2. <<x>> \in Hand
      BY <3>1, HandTypes
    <3>3. Holding(r, <<x>>, n) \in ClientRec /\ Holding(r, <<x>>, n).n = n /\ Holding(r, <<x>>, n).all = r.all
      BY <3>2, <1>2, <2>n, WithHand
    <3> QED
      BY <3>3 DEF x
  <2>4. Fit(T, a) /\ \A m \in Int : Covered(T, At(c), m) => Covered(T, a, m + n)
    BY <1>2, <1>3, <2>2, <2>n, CoverList
  <2>5. db' = [db EXCEPT ![Call(c).key] = a] /\ Go(c, rec)
    BY <2>1 DEF Write
  <2> HIDE DEF a, s, rec
  <2>6. rec.n \in {-1, 0, 1} /\ Len(rec.all) <= 1 /\ rec.n = -1
    BY <1>2, <2>3, <2>n
  <2>7. \A m \in Int : Covered(T, At(c), m) => Covered(T, a, m + rec.n)
    BY <2>3, <2>4
  <2> HIDE DEF r
  <2> QED
    BY <1>1, <1>4, <2>3, <2>4, <2>5, <2>6, <2>7, HideChange
<1> QED
  BY <1>5, <1>6

\* SADD of one member counts it if it is new, SREM if it was there.
LEMMA HideSets ==
  ASSUME OverlapInv, NEW T \in {TList, TSet, TStr}, Single(T), NEW c \in Clients,
         SAddStep(c) \/ SRemStep(c)
  PROVE  Single(T)'
<1> DEFINE set == At(c).data.set
<1>1. Busy(c) /\ Call(c).call \in {"sadd", "srem"}
  BY DEF SAddStep, SRemStep, Calls
<1>2. /\ Call(c).call \in CallsOf(T) /\ Fit(T, At(c)) /\ Len(cl[c].all) <= 1
      /\ cl[c] \in ClientRec /\ At(c) \in KeyRec /\ set \subseteq Nat
      /\ cl[c].all \in Seq(Nat) /\ cl[c].cmd.elem \in Nat
  BY <1>1, NextShape, NextCall DEF Reading, ClientRec, Command, KeyRec, Data
<1>3. T = TSet
  BY <1>1, <1>2, CallsOfTypes DEF Pushes, Pops
<1>4. Call(c).call \in Changes /\ Call(c).call \notin Pushes /\ Call(c).call \notin Pops
  BY <1>1 DEF Changes, Pushes, Pops
<1>5. ASSUME NEW ms \in SUBSET Nat, NEW d \in {-1, 0, 1}, NEW all \in Seq(Nat), Len(all) <= 1,
             IsFiniteSet(set) => IsFiniteSet(ms) /\ Cardinality(ms) = Cardinality(set) + d,
             Go(c, Having(cl[c], all, d)), Write(c, WithSet(At(c), ms))
      PROVE  Single(T)'
  <2> DEFINE a == WithSet(At(c), ms)
             rec == Having(cl[c], all, d)
  <2>1. rec \in ClientRec /\ rec.n = d /\ rec.all = all
    <3>1. d \in Int
      BY <1>5
    <3> QED
      BY <3>1, <1>2, <1>5, WithElements
  <2>2. Go(c, rec)
    BY <1>5
  <2>3. Fit(T, a) /\ \A n \in Int : Covered(T, At(c), n) => Covered(T, a, n + rec.n)
    BY <1>2, <1>3, <1>5, <2>1, CoverSet
  <2>4. db' = [db EXCEPT ![Call(c).key] = a]
    BY <1>5 DEF Write
  <2>5. rec.n \in {-1, 0, 1} /\ Len(rec.all) <= 1
    BY <1>5, <2>1
  <2> HIDE DEF a, rec, set
  <2> QED
    BY <1>1, <1>4, <2>1, <2>2, <2>3, <2>4, <2>5, HideChange
<1>6. CASE SAddStep(c)
  <2> DEFINE add == SE!ToSet(cl[c].all)
             d == Cardinality(add \ set)
             ms == set \cup add
             none == <<>>
  <2>1. Go(c, Having(cl[c], none, d)) /\ Write(c, WithSet(At(c), ms))
    BY <1>6 DEF SAddStep, Having
  <2>2. add \subseteq Nat /\ \E x : add \subseteq {x}
    <3>1. add \subseteq Nat
      BY <1>2, ElementsFinite
    <3>2. add = {cl[c].all[i] : i \in DOMAIN cl[c].all}
      BY DEF SE!ToSet
    <3>3. \A i \in DOMAIN cl[c].all : i = 1
      BY <1>2
    <3> HIDE DEF add
    <3>4. add \subseteq {cl[c].all[1]}
      BY <3>2, <3>3
    <3> QED
      BY <3>1, <3>4
  <2>3. PICK x : add \subseteq {x}
    BY <2>2
  <2> HIDE DEF add, set
  <2>4. CASE add \ set = {}
    <3>1. d = 0 /\ ms = set
      BY <2>4, FS_EmptySet
    <3>2. IsFiniteSet(set) => Cardinality(set) \in Nat
      BY FS_CardinalityType
    <3>3. d \in {-1, 0, 1} /\ ms \in SUBSET Nat
      BY <3>1, <1>2
    <3>4. IsFiniteSet(set) => IsFiniteSet(ms) /\ Cardinality(ms) = Cardinality(set) + d
      BY <3>1, <3>2
    <3>5. none \in Seq(Nat) /\ Len(none) <= 1
      OBVIOUS
    <3> HIDE DEF d, ms, none
    <3> QED
      BY <1>5, <2>1, <3>3, <3>4, <3>5
  <2>5. CASE add \ set # {}
    <3>1. add \ set = {x} /\ ms = set \cup {x} /\ x \notin set
      BY <2>3, <2>5
    <3>2. d = 1
      BY <3>1, FS_Singleton
    <3>3. d \in {-1, 0, 1} /\ ms \in SUBSET Nat
      BY <3>2, <2>2, <1>2
    <3>4. IsFiniteSet(set) => IsFiniteSet(ms) /\ Cardinality(ms) = Cardinality(set) + d
      BY <3>1, <3>2, FS_AddElement
    <3>5. none \in Seq(Nat) /\ Len(none) <= 1
      OBVIOUS
    <3> HIDE DEF d, ms, none
    <3> QED
      BY <1>5, <2>1, <3>3, <3>4, <3>5
  <2> QED
    BY <2>4, <2>5
<1>7. CASE SRemStep(c)
  <2> DEFINE m == cl[c].cmd.elem
             d == IF m \in set THEN -1 ELSE 0
             ms == set \ {m}
             all == <<m>>
  <2>1. Go(c, Having(cl[c], all, d)) /\ Write(c, WithSet(At(c), ms))
    BY <1>7 DEF SRemStep, Having
  <2>2. all \in Seq(Nat) /\ Len(all) <= 1
    BY <1>2
  <2>3. d \in {-1, 0, 1} /\ ms \in SUBSET Nat
    BY <1>2
  <2> HIDE DEF set
  <2>4. IsFiniteSet(set) => IsFiniteSet(ms) /\ Cardinality(ms) = Cardinality(set) + d
    <3>1. CASE m \in set
      <4>1. \A i \in Int : i - 1 = i + d
        BY <3>1
      <4>2. IsFiniteSet(set) => Cardinality(set) \in Int
        BY FS_CardinalityType
      <4>3. IsFiniteSet(set) => IsFiniteSet(ms) /\ Cardinality(ms) = Cardinality(set) - 1
        BY <3>1, FS_RemoveElement
      <4> QED
        BY <4>1, <4>2, <4>3
    <3>2. CASE m \notin set
      <4>1. \A i \in Int : i = i + d
        BY <3>2
      <4>2. IsFiniteSet(set) => Cardinality(set) \in Int
        BY FS_CardinalityType
      <4>3. ms = set
        BY <3>2
      <4> QED
        BY <4>1, <4>2, <4>3
    <3> QED
      BY <3>1, <3>2
  <2> HIDE DEF d, ms, all
  <2> QED
    BY <1>5, <2>1, <2>2, <2>3, <2>4
<1> QED
  BY <1>6, <1>7

LEMMA HideString ==
  ASSUME OverlapInv, NEW T \in {TList, TSet, TStr}, Single(T), NEW c \in Clients, SetStringStep(c)
  PROVE  Single(T)'
<1> DEFINE v == cl[c].cmd.new
           a == [At(c) EXCEPT !.data.str = v]
<1>1. Busy(c) /\ Call(c).call = "setstring" /\ Go(c, cl[c]) /\ db' = [db EXCEPT ![Call(c).key] = a]
  BY DEF SetStringStep, Calls, GoOn, Write
<1>2. /\ Call(c).call \in CallsOf(T) /\ Fit(T, At(c))
      /\ cl[c].n \in {-1, 0, 1} /\ Len(cl[c].all) <= 1
      /\ cl[c] \in ClientRec /\ At(c) \in KeyRec /\ v \in Nat
  BY <1>1, NextShape, NextCall DEF Reading, ClientRec, Command
<1>3. T = TStr
  BY <1>1, <1>2, CallsOfTypes DEF Pushes, Pops
<1>4. Call(c).call \notin Changes /\ Call(c).call \notin Claims /\ \A l : Owed(cl[c], l) = 0
  BY <1>1, OwesNothing DEF Changes, Pushes, Pops, Claims
<1> HIDE DEF v
<1>5. Fit(T, a) /\ \A n \in Int : Covered(T, At(c), n) => Covered(T, a, n)
  BY <1>2, <1>3, CoverString
<1> HIDE DEF a
<1> QED
  BY <1>1, <1>2, <1>4, <1>5, HideOther

LEMMA HideContinue ==
  ASSUME OverlapInv, NEW T \in {TList, TSet, TStr}, Single(T), NEW c \in Clients, Continue(c)
  PROVE  Single(T)'
<1>1. CASE Checks(c)
  BY <1>1, HideChecks
<1>2. CASE EnsureStep(c)
  BY <1>2, HideEnsure
<1>3. CASE CountStep(c)
  BY <1>3, HideCount
<1>4. CASE DropStep(c) \/ PersistStep(c)
  BY <1>4, HideDrop
<1>5. CASE PushStep(c)
  BY <1>5, HidePush
<1>6. CASE PopStep(c)
  BY <1>6, HidePop
<1>7. CASE SAddStep(c) \/ SRemStep(c)
  BY <1>7, HideSets
<1>8. CASE SetStringStep(c)
  BY <1>8, HideString
<1>9. CASE \/ DeleteMetaStep(c) \/ GuardStep(c) \/ OverwriteStep(c)
           \/ LRangeAllStep(c) \/ QueryStep(c) \/ DeleteStep(c) \/ RefillStep(c)
  <2>1. Busy(c) /\ Call(c).call \in {"delmeta", "guard", "overwrite", "readall", "query", "delete", "refill"}
    BY <1>9 DEF DeleteMetaStep, GuardStep, OverwriteStep, LRangeAllStep, QueryStep, DeleteStep, RefillStep, Calls
  <2>2. Call(c).call \in CallsOf(T)
    BY <2>1, NextShape
  <2> QED
    BY <2>1, <2>2, CallsOfTypes DEF Pushes, Pops
<1> QED
  BY <1>1, <1>2, <1>3, <1>4, <1>5, <1>6, <1>7, <1>8, <1>9 DEF Continue, MetaCalls, DataCalls

\* A command that starts owes nothing: it begins with a check.
Starts(c, T, r) ==
    /\ cl' = [cl EXCEPT ![c] = r] /\ db' = db /\ kinds' = kinds \cup {T}
    /\ r.n \in {-1, 0, 1} /\ Len(r.all) <= 1
    /\ \A l : Owed(r, l) = 0
    /\ \A F : Shape(T, r.steps, F)

LEMMA StartShape ==
  ASSUME ~serial, OverlapInv, NEW c \in Clients, Start(c)
  PROVE  \E T \in {TList, TSet, TStr} : \E r : Starts(c, T, r)
<1> DEFINE b == 10 + ops
<1>1. db' = db /\ b \in Nat
  BY TableAssumption DEF Start, OverlapInv
<1>2. PICK request \in Requests :
        /\ cl' = [cl EXCEPT ![c] = [Idle EXCEPT !.cmd = [request EXCEPT !.new = b],
                                                !.steps = Handler([request EXCEPT !.new = b])]]
        /\ kinds' = kinds \cup {Kind([request EXCEPT !.new = b].op)}
  BY DEF Start
<1>3. PICK cmd : /\ cmd = Carrying(request, b)
                 /\ cl' = [cl EXCEPT ![c] = [Idle EXCEPT !.cmd = cmd, !.steps = Handler(cmd)]]
                 /\ kinds' = kinds \cup {Kind(cmd.op)}
  BY <1>2, RequestCarries
<1> HIDE DEF b
<1>4. /\ Handler(cmd) \in Seq(CallRec) /\ Handler(cmd) # <<>>
      /\ \A F : Shape(Kind(cmd.op), Handler(cmd), F) /\ Handler(cmd)[1].call \in Reading
  <2>1. \E q \in Requests : cmd = Carrying(q, b)
    BY <1>3
  <2>2. Handler(cmd) \in Seq(CallRec) /\ Handler(cmd) # <<>>
    BY <2>1, <1>1, HandlerCalls
  <2>3. \A F : Shape(Kind(cmd.op), Handler(cmd), F) /\ Handler(cmd)[1].call \in Reading
    BY <2>1, <1>1, HandlerShape
  <2> QED
    BY <2>2, <2>3
<1> DEFINE r == [cmd |-> cmd, steps |-> Handler(cmd), hand |-> <<>>, n |-> 0, cnt |-> 0,
                 all |-> <<>>, sets |-> <<>>, lst |-> NoData]
<1>5. cl' = [cl EXCEPT ![c] = r]
  <2>1. r = [Idle EXCEPT !.cmd = cmd, !.steps = Handler(cmd)]
    BY Zenon, StartingIdle
  <2> QED
    BY <1>3, <2>1, Zenon
<1>6. r.steps = Handler(cmd) /\ r.n = 0 /\ r.all = <<>>
  OBVIOUS
<1>7. Len(<<>>) = 0 /\ 0 \in {-1, 0, 1} /\ 0 <= 1
  OBVIOUS
<1> DEFINE s == Handler(cmd)
<1>8. Head(s).call \in Reading
  <2>1. s \in Seq(CallRec) /\ s # <<>> /\ s[1].call \in Reading
    BY <1>4
  <2> HIDE DEF s
  <2> QED
    BY <2>1
<1> HIDE DEF r, s
<1>9. \A l : Owed(r, l) = 0
  <2>1. Head(s).call # "count" /\ Head(s).call \notin Pushes
    BY <1>8 DEF Reading, Pushes
  <2> QED
    BY <2>1, <1>6 DEF Owed, Debt, s
<1>10. Kind(cmd.op) \in {TList, TSet, TStr}
  BY DEF Kind
<1>11. r.n \in {-1, 0, 1} /\ Len(r.all) <= 1
  BY <1>6, <1>7
<1>12. \A F : Shape(Kind(cmd.op), r.steps, F)
  BY <1>4, <1>6
<1> QED
  BY <1>1, <1>3, <1>5, <1>9, <1>10, <1>11, <1>12 DEF Starts

LEMMA StartSingle ==
  ASSUME OverlapInv, NEW T \in {TList, TSet, TStr}, Single(T), NEW c \in Clients, ~Busy(c),
         NEW r, Starts(c, T, r)
  PROVE  Single(T)'
<1>1. cl'[c] = r /\ \A d \in Clients \ {c} : cl'[d] = cl[d]
  BY DEF OverlapInv, Starts
<1>2. \A l : Owed(cl[c], l) = 0
  BY DEF Owed, Debt, Busy
<1>3. \A l : Owing(cl', l) = Owing(cl, l)
  <2> TAKE l
  <2> DEFINE C == cl C2 == cl' zero == 0
  <2>1. /\ OthersAlike(C, C2, c) /\ C2[c] = r /\ zero \in {-1, 0, 1} /\ zero = 0
        /\ Owed(C[c], l) = zero /\ Owed(C2[c], l) = zero
    BY <1>1, <1>2 DEF OthersAlike, Starts
  <2> HIDE DEF C, C2, zero
  <2>2. /\ Owing(C, l) \in Int
        /\ Owing(C2, l) = Owing(C, l) - Owed(C[c], l) + Owed(C2[c], l)
    BY <2>1, OwingChange
  <2>3. Owing(C2, l) = Owing(C, l) - zero + zero
    BY <2>1, <2>2, Zenon
  <2>4. Owing(C2, l) = Owing(C, l)
    BY <2>1, <2>2, <2>3
  <2> QED
    BY <2>4 DEF C, C2
<1>4. \A l \in Keys : Covered(T, db'[l], Owing(cl', l))
  BY <1>3 DEF Single, Starts
<1> DEFINE G == {l \in Keys : Fit(T, db'[l])}
<1>5. G = Fits(T)
  BY DEF Fits, Starts
<1>6. \A d \in Clients : Shape(T, cl'[d].steps, G) /\ cl'[d].n \in {-1, 0, 1} /\ Len(cl'[d].all) <= 1
  <2> HIDE DEF G
  <2> QED
    BY <1>1, <1>5 DEF Single, Starts
<1> QED
  BY <1>4, <1>6 DEF Single, Fits

LEMMA ContinueFaults ==
  ASSUME NEW c, Continue(c)
  PROVE  faults' = faults
<1>1. Local => faults' = faults
  BY DEF Local
<1>2. \A k : Write(c, k) => faults' = faults
  BY DEF Write
<1>3. CASE Checks(c)
  BY <1>1, <1>3 DEF Checks, LiveStep, TypeStep, AbsentStep, IsMemberStep, OperandStep, SomeStep
<1>4. CASE MetaCalls(c)
  BY <1>1, <1>2, <1>4 DEF MetaCalls, EnsureStep, CountStep, DropStep, DeleteMetaStep, GuardStep, OverwriteStep,
                          PersistStep
<1>5. CASE PushStep(c) \/ PopStep(c)
  BY <1>1, <1>2, <1>5 DEF PushStep, PopStep
<1>6. CASE LRangeAllStep(c)
  BY <1>1, <1>6 DEF LRangeAllStep, LSetEdit, LTrimEdit, LRemEdit, LInsertEdit, Rewrite
<1>7. CASE QueryStep(c) \/ DeleteStep(c) \/ RefillStep(c) \/ SAddStep(c) \/ SRemStep(c) \/ SetStringStep(c)
  BY <1>1, <1>2, <1>7 DEF QueryStep, DeleteStep, RefillStep, SAddStep, SRemStep, SetStringStep
<1> QED
  BY <1>3, <1>4, <1>5, <1>6, <1>7 DEF Continue, DataCalls

\* The step of a connection keeps the invariant; after a failure it claims nothing.
LEMMA HideNext ==
  ASSUME IInv, HideInv, [Next]_vars
  PROVE  HideInv'
<1>1. CASE UNCHANGED vars
  BY <1>1 DEF vars, HideInv, Single, Fits
<1>2. CASE Next /\ ~serial'
  <2>1. PICK c \in Clients : Start(c) \/ Step(c) \/ Failure(c)
    BY <1>2 DEF Next
  <2>2. serial' = serial /\ OverlapInv
    BY <2>1, <1>2 DEF Start, Step, Failure, Record, IInv
  <2>3. ~serial
    BY <1>2, <2>2
  <2>4. CASE Start(c)
    <3>kind. PICK T \in {TList, TSet, TStr} : \E r : Starts(c, T, r)
      BY <2>2, <2>3, <2>4, StartShape
    <3>start. PICK r : Starts(c, T, r)
      BY <3>kind
    <3>1. kinds' = kinds \cup {T}
      BY <3>start DEF Starts
    <3>2. ~Busy(c) /\ faults' = faults
      BY <2>3, <2>4 DEF Start
    <3>3. ASSUME NEW U \in {TList, TSet, TStr}, faults = 0, kinds' \subseteq {U}
          PROVE  Single(U)'
      <4>1. U = T /\ kinds \subseteq {T}
        BY <3>1, <3>3
      <4>2. Single(T)
        BY <2>3, <3>3, <4>1 DEF HideInv
      <4>3. Single(T)'
        BY <2>2, <3>start, <3>2, <4>2, StartSingle
      <4> QED
        BY <4>1, <4>3
    <3>4. kinds' \subseteq {TList, TSet, TStr}
      BY <2>3, <3>1 DEF HideInv
    <3> QED
      BY <3>2, <3>3, <3>4 DEF HideInv
  <2>5. CASE Step(c)
    <3>1. Continue(c) /\ kinds' = kinds
      BY <2>5 DEF Step, Record
    <3>2. faults' = faults
      BY <2>2, <2>3, <3>1, ContinueFaults
    <3>3. ASSUME NEW T \in {TList, TSet, TStr}, faults = 0, kinds \subseteq {T}
          PROVE  Single(T)'
      <4>1. Single(T)
        BY <2>3, <3>3 DEF HideInv
      <4> QED
        BY <2>2, <3>1, <4>1, HideContinue
    <3> QED
      BY <2>3, <3>1, <3>2, <3>3 DEF HideInv
  <2>6. CASE Failure(c)
    <3>1. kinds' = kinds /\ faults' = faults + 1 /\ faults \in Nat
      BY <2>2, <2>6, TableAssumption DEF Failure, Fail, Record, OverlapInv
    <3>2. faults' # 0
      BY <3>1
    <3> QED
      BY <2>3, <3>1, <3>2 DEF HideInv
  <2> QED
    BY <2>1, <2>4, <2>5, <2>6
<1>3. CASE serial'
  BY <1>3 DEF HideInv
<1> QED
  BY <1>1, <1>2, <1>3

-----------------------------------------------------------------------------
LEMMA VisibleCases ==
  ASSUME NEW k
  PROVE  /\ k.t = NoType => (Visible(k) <=> k.data = NoData)
         /\ k.t = TList => (Visible(k) <=> Only(TList, k.data) /\ k.cnt >= Size(TList, k.data))
         /\ k.t = TSet => (Visible(k) <=> Only(TSet, k.data) /\ k.cnt >= Size(TSet, k.data))
         /\ k.t = TStr => (Visible(k) <=> Only(TStr, k.data))
<1>1. /\ NoType # TList /\ NoType # TSet /\ NoType # TStr
      /\ TList # TSet /\ TList # TStr /\ TSet # TStr
  BY TypesAssumption
<1>2. k.t = NoType => (Visible(k) <=> k.data = NoData)
  BY <1>1 DEF Visible
<1>3. ASSUME k.t = TList
      PROVE  Visible(k) <=> Only(TList, k.data) /\ k.cnt >= Size(TList, k.data)
  <2>1. Visible(k) <=> /\ k.data = [list |-> k.data.list, set |-> {}, str |-> Gone]
                       /\ k.cnt >= Len(k.data.list)
    BY <1>1, <1>3 DEF Visible
  <2> QED
    BY <2>1, Sizes
<1>4. ASSUME k.t = TSet
      PROVE  Visible(k) <=> Only(TSet, k.data) /\ k.cnt >= Size(TSet, k.data)
  <2>1. Visible(k) <=> /\ k.data = [list |-> <<>>, set |-> k.data.set, str |-> Gone]
                       /\ k.cnt >= Cardinality(k.data.set)
    BY <1>1, <1>4 DEF Visible
  <2> QED
    BY <2>1, Sizes
<1>5. ASSUME k.t = TStr
      PROVE  Visible(k) <=> Only(TStr, k.data)
  <2>1. Visible(k) <=> k.data = [list |-> <<>>, set |-> {}, str |-> k.data.str]
    BY <1>1, <1>5 DEF Visible
  <2> QED
    BY <2>1, Sizes
<1> QED
  BY <1>2, <1>3, <1>4, <1>5

\* A key that counts what it holds is covered.
LEMMA CoverVisible ==
  ASSUME NEW k, k.t \in KeyTypes, k.cnt \in Int, IsFiniteSet(k.data.set), Visible(k),
         k.t = NoType => k.cnt = 0, k.t # TStr, NEW T \in {TList, TSet, TStr}
  PROVE  Covered(T, k, 0)
<1>1. TypesAssumption
  BY TypesAssumption
<1>2. CASE k.t = NoType
  <2>1. k.data = NoData /\ k.cnt = 0
    BY <1>2, VisibleCases
  <2>2. /\ NoData = [list |-> <<>>, set |-> {}, str |-> Gone] /\ NoData.list = <<>>
        /\ NoData.set = {} /\ NoData.str = Gone
    BY DEF NoData
  <2>3. Only(T, NoData)
    BY <2>2, Sizes
  <2>4. Size(T, NoData) = 0
    <3>1. Len(<<>>) = 0 /\ Cardinality({}) = 0
      BY FS_EmptySet
    <3>2. Size(TList, NoData) = 0 /\ Size(TSet, NoData) = 0 /\ Size(TStr, NoData) = 0
      BY <2>2, <3>1, Sizes
    <3> QED
      BY <3>2
  <2>5. 0 + 0 >= 0
    OBVIOUS
  <2> QED
    BY <1>2, <2>1, <2>3, <2>4, <2>5 DEF Covered
<1>3. CASE k.t = T
  <2>1. Only(T, k.data) /\ (T # TStr => k.cnt >= Size(T, k.data))
    BY <1>3, VisibleCases
  <2>2. k.cnt + 0 = k.cnt /\ T # NoType
    BY TypesAssumption
  <2> QED
    BY <1>3, <2>1, <2>2 DEF Covered
<1>4. CASE k.t # NoType /\ k.t # T
  BY <1>4 DEF Covered
<1> QED
  BY <1>2, <1>3, <1>4

LEMMA TablesVisible ==
  ASSUME NEW k, k \in First \cup Second, k.t # TStr, k.exp # 1
  PROVE  IsFiniteSet(k.data.set) /\ Visible(k) /\ (k.t = NoType => k.cnt = 0)
<1>1. /\ \A s : [NoData EXCEPT !.list = s] = [list |-> s, set |-> {}, str |-> Gone]
      /\ \A ms : [NoData EXCEPT !.set = ms] = [list |-> <<>>, set |-> ms, str |-> Gone]
  <2>1. ASSUME NEW s PROVE [NoData EXCEPT !.list = s] = [list |-> s, set |-> {}, str |-> Gone]
    BY DEF NoData
  <2>2. ASSUME NEW ms PROVE [NoData EXCEPT !.set = ms] = [list |-> <<>>, set |-> ms, str |-> Gone]
    BY DEF NoData
  <2> QED
    BY <2>1, <2>2
<1>2. \A s \in Seq(Nat) : \A exp : LET a == ListKey(s, exp)
                                   IN  IsFiniteSet(a.data.set) /\ Visible(a) /\ a.t # NoType
  <2> TAKE s \in Seq(Nat)
  <2> TAKE exp
  <2> DEFINE a == ListKey(s, exp)
  <2>1. a.t = TList /\ a.cnt = Len(s) /\ a.data = [list |-> s, set |-> {}, str |-> Gone]
    BY <1>1 DEF ListKey
  <2> HIDE DEF a
  <2>2. a.data.list = s /\ a.data.set = {} /\ a.data = [list |-> a.data.list, set |-> {}, str |-> Gone]
    BY <2>1
  <2>3. Only(TList, a.data) /\ Size(TList, a.data) = Len(s) /\ Len(s) >= Len(s)
    BY <2>2, Sizes
  <2>4. Visible(a)
    BY <2>1, <2>3, VisibleCases
  <2> QED
    BY <2>1, <2>2, <2>4, FS_EmptySet, TypesAssumption DEF a
<1>3. \A ms, exp : IsFiniteSet(ms) => LET a == SetKey(ms, exp)
                                      IN  IsFiniteSet(a.data.set) /\ Visible(a) /\ a.t # NoType
  <2> TAKE ms, exp
  <2> HAVE IsFiniteSet(ms)
  <2> DEFINE a == SetKey(ms, exp)
  <2>1. a.t = TSet /\ a.cnt = Cardinality(ms) /\ a.data = [list |-> <<>>, set |-> ms, str |-> Gone]
    BY <1>1 DEF SetKey
  <2> HIDE DEF a
  <2>2. a.data.set = ms /\ a.data = [list |-> <<>>, set |-> a.data.set, str |-> Gone]
    BY <2>1
  <2>3. Only(TSet, a.data) /\ Size(TSet, a.data) = Cardinality(ms) /\ Cardinality(ms) >= Cardinality(ms)
    BY <2>2, Sizes, FS_CardinalityType
  <2>4. Visible(a)
    BY <2>1, <2>3, VisibleCases
  <2> QED
    BY <2>1, <2>2, <2>4, TypesAssumption DEF a
<1>4. Absent.t = NoType /\ Absent.cnt = 0 /\ Absent.data = NoData /\ NoData.set = {}
  BY DEF Absent, NoData
<1>5. Visible(Absent) /\ IsFiniteSet(Absent.data.set)
  BY <1>4, VisibleCases, FS_EmptySet
<1>6. \A s : ListKey(s, 1).exp = 1
  BY DEF ListKey
<1>7. SetKey({5, 6}, 1).exp = 1 /\ StringKey(7).t = TStr
  BY DEF SetKey, StringKey
<1>8. k \in {Absent, ListKey(<<1, 2>>, 0), SetKey({4, 5}, 0), ListKey(<<3>>, 2), SetKey({5}, 0)}
  BY <1>6, <1>7 DEF First, Second
<1>9. IsFiniteSet({4, 5}) /\ IsFiniteSet({5})
  <2>1. IsFiniteSet({4}) /\ IsFiniteSet({5}) /\ {4} \cup {5} = {4, 5}
    BY FS_Singleton
  <2> QED
    BY <2>1, FS_AddElement
<1>10. <<1, 2>> \in Seq(Nat) /\ <<3>> \in Seq(Nat)
  OBVIOUS
<1> QED
  BY <1>2, <1>3, <1>4, <1>5, <1>8, <1>9, <1>10, SMTT(20), ZenonT(30)

LEMMA NoneOwed ==
  ASSUME NEW C, \A c \in Clients : C[c].steps = <<>>
  PROVE  \A k : Owing(C, k) = 0
<1> TAKE k
<1>1. \A c \in Clients : Owed(C[c], k) = 0
  BY DEF Owed, Debt
<1> DEFINE one == 1 minus == -1
<1>2. one # 0 /\ minus # 0
  OBVIOUS
<1>3. Owing(C, k) = Cardinality(Owers(C, k, one)) - Cardinality(Owers(C, k, minus))
  BY DEF Owing, Owers
<1> HIDE DEF one, minus
<1>4. Owers(C, k, one) = {} /\ Owers(C, k, minus) = {}
  BY <1>1, <1>2 DEF Owers
<1> QED
  BY <1>3, <1>4, FS_EmptySet

LEMMA HideInit == Init => HideInv
<1> SUFFICES ASSUME Init, ~serial PROVE HideInv
  BY DEF HideInv
<1> SUFFICES ASSUME NEW T \in {TList, TSet, TStr} PROVE Single(T)
  BY DEF HideInv, Init
<1>1. \A c \in Clients : cl[c].steps = <<>> /\ cl[c].n = 0 /\ cl[c].all = <<>>
  BY DEF Init, Idle
<1>2. \A c \in Clients : Shape(T, cl[c].steps, Fits(T)) /\ cl[c].n \in {-1, 0, 1} /\ Len(cl[c].all) <= 1
  <2>1. Len(<<>>) = 0 /\ 0 \in {-1, 0, 1} /\ 0 <= 1
    OBVIOUS
  <2>2. \A F : Shape(T, <<>>, F)
    BY <2>1 DEF Shape
  <2> QED
    BY <1>1, <2>1, <2>2
<1>3. \A k \in Keys : Covered(T, db[k], Owing(cl, k))
  <2> TAKE k \in Keys
  <2>1. db[k] \in First \cup Second /\ db[k].t # TStr /\ db[k].exp # 1
    BY DEF Init, Tables
  <2>2. db[k] \in KeyRec
    BY <2>1, TablesBegin
  <2>3. IsFiniteSet(db[k].data.set) /\ Visible(db[k]) /\ (db[k].t = NoType => db[k].cnt = 0)
    BY <2>1, TablesVisible
  <2>4. Covered(T, db[k], 0)
    <3>1. db[k].t \in KeyTypes /\ db[k].cnt \in Int
      BY <2>2 DEF KeyRec
    <3> QED
      BY <2>1, <2>3, <3>1, CoverVisible
  <2>5. Owing(cl, k) = 0
    BY <1>1, NoneOwed
  <2> QED
    BY <2>4, <2>5
<1> QED
  BY <1>2, <1>3 DEF Single

LEMMA CoveredShows ==
  ASSUME NEW T \in {TList, TSet, TStr}, NEW k, k.cnt \in Int, k.data \in Data, Covered(T, k, 0)
  PROVE  Visible(k)
<1>1. CASE k.t = T
  <2>1. Only(T, k.data) /\ k.cnt + 0 >= Size(T, k.data)
    BY <1>1 DEF Covered
  <2>2. k.cnt + 0 = k.cnt
    OBVIOUS
  <2>3. k.cnt >= Size(T, k.data)
    BY <2>1, <2>2
  <2> QED
    BY <1>1, <2>1, <2>3, VisibleCases
<1>2. CASE k.t = NoType
  <2>1. /\ Only(T, k.data) /\ 0 + 0 >= Size(T, k.data) /\ IsFiniteSet(k.data.set)
        /\ T = TStr => k.data = NoData
    BY <1>2 DEF Covered
  <2>2. k.data = NoData
    <3>1. CASE T = TList
      <4>1. k.data = [list |-> k.data.list, set |-> {}, str |-> Gone] /\ 0 + 0 >= Len(k.data.list)
        BY <2>1, <3>1, Sizes
      <4>2. k.data.list = <<>>
        <5>1. k.data.list \in Seq(Nat) /\ Len(k.data.list) \in Nat
          BY DEF Data
        <5> QED
          BY <4>1, <5>1, EmptySeq
      <4> QED
        BY <4>1, <4>2 DEF NoData
    <3>2. CASE T = TSet
      <4>1. k.data = [list |-> <<>>, set |-> k.data.set, str |-> Gone] /\ 0 + 0 >= Cardinality(k.data.set)
        BY <2>1, <3>2, Sizes
      <4>2. k.data.set = {}
        <5>1. Cardinality(k.data.set) \in Nat /\ (Cardinality(k.data.set) = 0 => k.data.set = {})
          BY <2>1, FS_CardinalityType, FS_EmptySet
        <5> QED
          BY <4>1, <5>1
      <4> QED
        BY <4>1, <4>2 DEF NoData
    <3> QED
      BY <2>1, <3>1, <3>2
  <2> QED
    BY <1>2, <2>2, VisibleCases
<1>3. CASE k.t \notin {NoType, T}
  BY <1>3 DEF Covered
<1> QED
  BY <1>1, <1>2, <1>3

LEMMA InvHidden == IInv /\ HideInv /\ ~serial => NothingHidden
<1> SUFFICES ASSUME IInv, HideInv, ~serial, AllIdle, faults = 0, \A s, t \in kinds : s = t, NEW k \in Keys
             PROVE  Visible(db[k])
  BY DEF NothingHidden
<1>1. PICK T \in {TList, TSet, TStr} : kinds \subseteq {T}
  <2>1. kinds \subseteq {TList, TSet, TStr}
    BY DEF HideInv
  <2>2. CASE kinds = {}
    BY <2>2
  <2>3. CASE kinds # {}
    BY <2>1, <2>3
  <2> QED
    BY <2>2, <2>3
<1>2. Single(T)
  BY <1>1 DEF HideInv
<1>3. Owing(cl, k) = 0
  BY NoneOwed DEF AllIdle, Busy
<1>4. Covered(T, db[k], 0)
  BY <1>2, <1>3 DEF Single
<1>5. db[k].cnt \in Int /\ db[k].data \in Data
  BY DEF IInv, OverlapInv, KeyRec
<1> QED
  BY <1>4, <1>5, CoveredShows

\* adjustCount, DeleteMetaIfEmpty, LPUSH, LPOP, RPOPLPUSH, SMOVE, MSETNX: overlapping
\* commands of one type, however many and on whatever keys, leave no data item that its
\* key does not account for once they have all ended and no store call failed.
THEOREM NothingStaysHidden == Spec => [](~serial => NothingHidden)
<1>1. Init => IInv /\ HideInv
  BY InitInv, HideInit
<1>2. IInv /\ HideInv /\ [Next]_vars => (IInv /\ HideInv)'
  BY StepInv, HideNext
<1>3. IInv /\ HideInv => (~serial => NothingHidden)
  BY InvHidden
<1> QED
  BY <1>1, <1>2, <1>3, PTL DEF Spec
=============================================================================
