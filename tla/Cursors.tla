------------------------------- MODULE Cursors ------------------------------
(***************************************************************************)
(* SCAN, and SSCAN, HSCAN and ZSCAN over one key: clients that iterate     *)
(* page by page over something that changes, and the registry that turns   *)
(* DynamoDB's page token into the number a client sends back.              *)
(*                                                                         *)
(* What is iterated over is a row of slots in the order DynamoDB pages     *)
(* them; a slot holds an element or not.  A page token is the last slot a  *)
(* page has looked at.  Cursors are random 64-bit numbers: one that a      *)
(* client still holds is taken not to be drawn again, and a cursor of      *)
(* another instance is one this registry does not know.                    *)
(***************************************************************************)
EXTENDS Integers, FiniteSets, Sequences, SequencesExt

CONSTANTS Clients,
          LastSlot,        \* the slots are 1 .. LastSlot
          Cursors,     \* cursor numbers other than zero
          NoCursor,    \* the cursor 0
          Capacity,    \* Config.Capacity
          TTL,         \* Config.TTL, in ticks
          MaxFaults    \* bound: failed calls, lost replies and restarts

ASSUME CursorsAssumption ==
    /\ NoCursor \notin Cursors
    /\ LastSlot \in Nat /\ Capacity \in Nat \ {0} /\ TTL \in Nat \ {0} /\ MaxFaults \in Nat
    \* There are 2^64 - 1 numbers, and Capacity is an int.
    /\ IsFiniteSet(Cursors) /\ Capacity <= Cardinality(Cursors)

Slots == 1 .. LastSlot

VARIABLES present,    \* the slots that hold a live element
          registry,   \* the entries, most recently used first: [cursor, lek, age]
          cl,         \* per client: its cursor, and what its call has read
          got,        \* history: what the current iteration has returned
          always,     \* history: what has been there since it started
          newer,      \* history: per cursor, the cursors used after it
          faults

vars == <<present, registry, cl, got, always, newer, faults>>
histories == <<got, always>>

Idle == [pc |-> "idle", cursor |-> NoCursor, lek |-> 0, page |-> {}, next |-> 0,
         reply |-> NoCursor]

Init ==
    /\ present \in SUBSET Slots
    /\ registry = << >>
    /\ cl = [c \in Clients |-> Idle]
    /\ got = [c \in Clients |-> {}] /\ always = [c \in Clients |-> present]
    /\ newer = [n \in Cursors |-> Cursors]
    /\ faults = 0

-----------------------------------------------------------------------------
(***************************************************************************)
(* The registry (internal/scan).  Each operation runs under its mutex.     *)
(***************************************************************************)
Known == {e.cursor : e \in ToSet(registry)}
Place(cursor) == CHOOSE k \in DOMAIN registry : registry[k].cursor = cursor
Entry(cursor) == registry[Place(cursor)]

\* newCursorLocked.
Fresh == Cursors \ (Known \cup {cl[c].cursor : c \in Clients} \cup {cl[c].reply : c \in Clients})

\* A registry that never evicts.
Save_Unbounded(n, lek) ==
    registry' = <<[cursor |-> n, lek |-> lek, age |-> 0]>> \o registry

\* Save: to the front; what exceeds the capacity falls off the back.
Save(n, lek) ==
    LET all == <<[cursor |-> n, lek |-> lek, age |-> 0]>> \o registry
    IN  registry' = SubSeq(all, 1, IF Len(all) > Capacity THEN Capacity ELSE Len(all))

\* A registry that evicts in the order of creation.
Touch_Not(n) == UNCHANGED registry

\* load, found: to the front.  The age stays that of the Save.
Touch(n) == registry' = <<Entry(n)>> \o RemoveAt(registry, Place(n))

\* load, past the TTL: removed, when it is asked for and not before.
Expired(n) == Entry(n).age >= TTL
Forget(n) == registry' = RemoveAt(registry, Place(n))

\* The history of use: n is now the newest.  A cursor that Capacity others have passed,
\* or that was forgotten, is behind all.
Used(n) ==
    newer' = [m \in Cursors |-> IF m = n THEN {}
                                ELSE IF Cardinality(newer[m] \cup {n}) >= Capacity THEN Cursors
                                ELSE newer[m] \cup {n}]

-----------------------------------------------------------------------------
(***************************************************************************)
(* One call of a client: the handler loads the token, fetches a page, saves *)
(* the next token and replies.                                             *)
(***************************************************************************)
\* A client at the beginning of an iteration.
Begins(c) ==
    /\ cl' = [cl EXCEPT ![c] = Idle]
    /\ got' = [got EXCEPT ![c] = {}]
    /\ always' = [always EXCEPT ![c] = present]

\* Cursor 0: no token.
LoadNothing(c) ==
    /\ cl[c].pc = "idle" /\ cl[c].cursor = NoCursor
    /\ cl' = [cl EXCEPT ![c].pc = "page"]
    /\ UNCHANGED <<present, registry, histories, newer, faults>>

LoadToken(c) ==
    /\ cl[c].pc = "idle" /\ cl[c].cursor \in Known /\ ~Expired(cl[c].cursor)
    /\ cl' = [cl EXCEPT ![c].pc = "page", ![c].lek = Entry(cl[c].cursor).lek]
    /\ Touch(cl[c].cursor) /\ Used(cl[c].cursor)
    /\ UNCHANGED <<present, histories, faults>>

\* "ERR invalid cursor, restart scan", and the client does.
LoadInvalid(c) ==
    /\ cl[c].pc = "idle" /\ cl[c].cursor # NoCursor
    /\ \/ cl[c].cursor \notin Known /\ UNCHANGED <<registry, newer>>
       \/ /\ cl[c].cursor \in Known /\ Expired(cl[c].cursor)
          /\ Forget(cl[c].cursor)
          /\ newer' = [newer EXCEPT ![cl[c].cursor] = Cursors]
    /\ Begins(c)
    /\ UNCHANGED <<present, faults>>

\* ScanKeys, SScan, ... (external): DynamoDB looks at the slots after the token, one
\* or more of them; with no token to go on it has reached the end.
FetchPage(c) ==
    /\ cl[c].pc = "page"
    /\ \E last \in {s \in Slots : s > cl[c].lek} \cup {0} :
         LET here == {s \in present : cl[c].lek < s /\ (last = 0 \/ s <= last)}
         IN  cl' = [cl EXCEPT ![c] = [@ EXCEPT !.pc = IF last = 0 THEN "reply" ELSE "save",
                                               !.page = here, !.next = last, !.lek = 0]]
    /\ UNCHANGED <<present, registry, histories, newer, faults>>

\* A handler that moves the client's own cursor on to the next token.
SaveToken_InPlace(c) ==
    /\ cl[c].pc = "save"
    /\ LET n == IF cl[c].cursor \in Known THEN cl[c].cursor ELSE CHOOSE n \in Fresh : TRUE
           others == SelectSeq(registry, LAMBDA e : e.cursor # n)
       IN  /\ cl' = [cl EXCEPT ![c].pc = "reply", ![c].reply = n]
           /\ registry' = SubSeq(<<[cursor |-> n, lek |-> cl[c].next, age |-> 0]>> \o others, 1,
                                 IF Len(others) >= Capacity THEN Capacity ELSE Len(others) + 1)
           /\ Used(n)
    /\ UNCHANGED <<present, histories, faults>>

SaveToken(c) ==
    /\ cl[c].pc = "save"
    /\ \E n \in Fresh :
         /\ cl' = [cl EXCEPT ![c].pc = "reply", ![c].reply = n]
         /\ Save(n, cl[c].next) /\ Used(n)
    /\ UNCHANGED <<present, histories, faults>>

\* The reply arrives.
Reply(c) ==
    /\ cl[c].pc = "reply"
    /\ got' = [got EXCEPT ![c] = @ \cup cl[c].page]
    /\ cl' = [cl EXCEPT ![c] = [Idle EXCEPT !.pc = IF cl[c].next = 0 THEN "done" ELSE "idle",
                                            !.cursor = cl[c].reply]]
    /\ UNCHANGED <<present, registry, always, newer, faults>>

\* The page fails, or the reply is lost: the client calls again with the cursor it has.
CallFails(c) ==
    /\ cl[c].pc \in {"page", "reply"} /\ faults < MaxFaults
    /\ faults' = faults + 1
    /\ cl' = [cl EXCEPT ![c] = [Idle EXCEPT !.cursor = cl[c].cursor]]
    /\ UNCHANGED <<present, registry, histories, newer>>

StartOver(c) ==
    /\ cl[c].pc = "done"
    /\ Begins(c)
    /\ UNCHANGED <<present, registry, newer, faults>>

-----------------------------------------------------------------------------
\* Other clients write; elements expire.
Change ==
    \E s \in Slots :
        /\ present' = IF s \in present THEN present \ {s} ELSE present \cup {s}
        /\ always' = [c \in Clients |-> always[c] \cap present']
        /\ UNCHANGED <<registry, cl, got, newer, faults>>

Tick ==
    /\ \E k \in DOMAIN registry : registry[k].age < TTL
    /\ registry' = [k \in DOMAIN registry |->
                      [registry[k] EXCEPT !.age = IF @ < TTL THEN @ + 1 ELSE @]]
    /\ UNCHANGED <<present, cl, histories, newer, faults>>

\* The instance restarts: its registry is in memory, and the calls in flight fail.
Reboot ==
    /\ faults < MaxFaults
    /\ faults' = faults + 1
    /\ registry' = << >>
    /\ newer' = [n \in Cursors |-> Cursors]
    /\ cl' = [c \in Clients |-> IF cl[c].pc = "done" THEN cl[c]
                                ELSE [Idle EXCEPT !.cursor = cl[c].cursor]]
    /\ UNCHANGED <<present, histories>>

Next ==
    \/ \E c \in Clients : \/ LoadNothing(c) \/ LoadToken(c) \/ LoadInvalid(c)
                          \/ FetchPage(c) \/ SaveToken(c) \/ Reply(c)
                          \/ CallFails(c) \/ StartOver(c)
    \/ Change \/ Tick \/ Reboot

Spec == Init /\ [][Next]_vars

-----------------------------------------------------------------------------
EntryType == [cursor : Cursors, lek : Slots, age : 0 .. TTL]

\* Every variable has its type; the registry keeps its capacity and holds a cursor once.
TypeOK ==
    /\ present \in SUBSET Slots
    /\ registry \in Seq(EntryType) /\ Len(registry) <= Capacity
    /\ \A j, k \in DOMAIN registry : registry[j].cursor = registry[k].cursor => j = k
    /\ cl \in [Clients -> [pc : {"idle", "page", "save", "reply", "done"},
                           cursor : Cursors \cup {NoCursor}, lek : Slots \cup {0},
                           page : SUBSET Slots, next : Slots \cup {0},
                           reply : Cursors \cup {NoCursor}]]
    /\ got \in [Clients -> SUBSET Slots] /\ always \in [Clients -> SUBSET Slots]
    /\ newer \in [Cursors -> SUBSET Cursors]
    /\ faults \in 0 .. MaxFaults

\* SCAN's contract (handleScan, handleSScan): an iteration that ends has returned
\* every element that was there from its beginning to its end, whatever was added
\* or removed, and with calls that failed, replies lost and calls repeated.
CompleteIteration == \A c \in Clients : cl[c].pc = "done" => always[c] \subseteq got[c]

\* Registry.Save and load: the cap takes the least recently used cursor; a cursor stays
\* until Capacity others have been used after it, or its TTL is over.
CursorOutlivesUse ==
    \A n \in Cursors : Cardinality(newer[n]) < Capacity => n \in Known
=============================================================================
