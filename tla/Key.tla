-------------------------------- MODULE Key ---------------------------------
(***************************************************************************)
(* One key under the Set, Hash, Sorted Set, String and key-level commands  *)
(* of any number of connections, the background work and the faults: the   *)
(* composition the runs check.  A run chooses with Commands what its       *)
(* clients issue.                                                          *)
(***************************************************************************)
EXTENDS SetCommands, HashCommands, ZSetCommands, StringCommands

CONSTANT Commands   \* the commands the clients issue

vars == <<coreVars, ledger, landed>>

KeyStart(c) ==
    \/ "del" \in Commands /\ DelStart(c)
    \/ "expire" \in Commands /\ ExpireStart(c)
    \/ "persist" \in Commands /\ PersistStart(c)

\* A command arrives on connection c; the connection's next store call.
Start(c) ==
    /\ \/ KeyStart(c) \/ SetCommandStart(c, Commands) \/ HashCommandStart(c, Commands)
       \/ ZSetCommandStart(c, Commands) \/ StringCommandStart(c, Commands)
    /\ UNCHANGED <<ledger, landed>>

Continue(c) ==
    \/ KeyCommand(c) /\ Untold
    \/ SetCommand(c) \/ HashCommand(c) \/ ZSetCommand(c) \/ StringCommand(c)

\* What happens outside the commands.
Work == Background /\ Untold
Mishap == Faults /\ Untold

Init == CoreInit /\ ledger = [m \in Members |-> 0] /\ landed = [sk \in SK |-> 0]

Next ==
    \/ \E c \in Clients : Start(c) \/ Continue(c)
    \/ Work
    \/ Mishap

Spec == Init /\ [][Next]_vars

(***************************************************************************)
(* A command that has started is carried through, and the deleter's and    *)
(* the sweeper's goroutines run; nobody has to send a command, and nothing *)
(* has to fail.                                                            *)
(***************************************************************************)
Fairness ==
    /\ \A c \in Clients : WF_vars(Continue(c))
    /\ WF_vars(WorkerSteps /\ Untold)
    /\ WF_vars(SweepScan /\ Untold)
    /\ WF_vars(SweepReclaim /\ Untold)

FairSpec == Spec /\ Fairness

-----------------------------------------------------------------------------
(***************************************************************************)
(* Properties.                                                             *)
(***************************************************************************)

\* Every variable has its type; the deleter's queue is bounded.
TypeOK ==
    /\ CoreTypeOK
    /\ ledger \in [Members -> Int]
    /\ landed \in [SK -> Nat]

AllIdle == \A c \in Clients : At(c, "idle")

\* SPOP's reply and SREM's count (handleSPop, handleSRem) are what the deletes
\* confirmed: no member is reported removed more often than it was reported
\* added, so two SPOPs never both hand out the same member.
PoppedAtMostOnce == \A m \in Members : ledger[m] >= 0

\* adjustCount and DeleteMetaIfEmpty (datacmd.go, store.go): a member that was
\* added and not removed is never left under a removed meta item once the
\* commands, and the reclaims they asked for, are done.
Settled == AllIdle /\ queued = 0 /\ worker.pc = "idle"
NoStrandedMember == Settled /\ Present(item) # {} => HasMeta(item)

\* adjustCount: commands that race may make meta.cnt overstate the set, but with
\* what the commands in flight still owe it never falls short of the members
\* that are there, which is what keeps DeleteMetaIfEmpty from hiding one.  Owed is
\* the sum of their shares: a Tally is that of the positive ones.
Tally(f) == Cardinality(UNION {{c} \X (1 .. f[c]) : c \in Clients})
Share == [c \in Clients |-> IF At(c, "drop") THEN 0 ELSE cl[c].n]
Owed == Tally(Share) - Tally([c \in Clients |-> -Share[c]])
CountCoversMembers == item.cnt + Owed >= Cardinality(Present(item))

\* WRONGTYPE: no step turns a live key of one type into a live key of another;
\* the key is gone, or has expired, in between.
LiveTypeIsStable ==
    [][ Live(item, now) /\ HasMeta(item') => item'.t = item.t ]_vars

\* Store.IncrBy, rmwString: every increment that landed since the value was last
\* written is in the value.
NoLostUpdate == \A sk \in SK : Base(item.data[sk]) = landed[sk]

\* Sweeper.run: data items without a meta item do not stay for ever, whether their
\* key was dropped by a full queue, a failed reclaim, a crash or native TTL.
OrphansReclaimed == []<>(HasMeta(item) \/ Present(item) = {})
=============================================================================
