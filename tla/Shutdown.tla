------------------------------ MODULE Shutdown ------------------------------
(***************************************************************************)
(* The life of the TCP server's goroutines from serving to exit: commands  *)
(* in flight (Server.onCommand), the lazy deleter's worker with its queue  *)
(* and rate gate (Deleter.run), the sweeper and the health probe, and the  *)
(* main goroutine that takes them down in order (Server.Drain, then Stop   *)
(* of each worker).                                                        *)
(*                                                                         *)
(* A job is the reclaim a DEL owes: it is born in a command that removed a *)
(* meta item and ends processed by the worker, dropped by a full queue, or *)
(* lost.  The workers' contexts are context.Background(), so the ctx.Done  *)
(* branches of their selects are never taken and are left out.             *)
(***************************************************************************)
EXTENDS Integers, FiniteSets, Sequences

CONSTANTS Conns,      \* connections
          Jobs,       \* bound: the deletions the clients will ask for
          NoJob,      \* "no deletion in hand"
          Dispatches, \* bound: commands that delete nothing
          QueueCap    \* DeleterConfig.QueueCapacity

ASSUME ShutdownAssumption ==
    /\ Dispatches \in Nat /\ QueueCap \in Nat \ {0}
    /\ NoJob \notin Jobs

VARIABLES main,      \* the main goroutine
          closing,   \* Server.closing
          timedOut,  \* Drain gave up waiting
          conn,      \* per connection: what its command is doing, and its job
          left,      \* commands without a job still to come
          job,       \* per job: where it is
          queue,     \* Deleter.queue
          worker,    \* Deleter.run: where it is, and the job it took
          limited,   \* DeleterConfig.RatePerSecond > 0
          quit,      \* the workers whose quit channel is closed
          ticker     \* Sweeper.run and backendProbe.run

vars == <<main, closing, timedOut, conn, left, job, queue, worker, limited, quit, ticker>>
serverVars == <<closing, timedOut, conn, left>>
deleterVars == <<queue, worker>>

Tickers == {"sweeper", "probe"}

AtRest == [pc |-> "idle", job |-> NoJob]

Init ==
    /\ main = "serving"
    /\ closing = FALSE /\ timedOut = FALSE
    /\ conn = [c \in Conns |-> AtRest]
    /\ left = Dispatches
    /\ job = [j \in Jobs |-> "unborn"]
    /\ queue = << >>
    /\ worker = [pc |-> "select", job |-> NoJob]
    /\ limited \in BOOLEAN
    /\ quit = {}
    /\ ticker = [n \in Tickers |-> "waiting"]

\* WaitGroup.inflight: the dispatches that have not returned.
InFlight == {c \in Conns : conn[c].pc # "idle"}

-----------------------------------------------------------------------------
(***************************************************************************)
(* Commands.  onCommand looks at closing and counts itself in under the    *)
(* read lock, so the two are one step against Drain's write lock.          *)
(***************************************************************************)
Dispatching(c, next) ==
    /\ conn[c].pc = "idle"
    /\ conn' = [conn EXCEPT ![c] = next]
    /\ UNCHANGED <<main, closing, timedOut, queue, worker, limited, quit, ticker>>

\* A command that is let in whatever closing says.
OnCommand_Unguarded(c) ==
    \/ /\ left > 0 /\ left' = left - 1
       /\ Dispatching(c, [pc |-> "plain", job |-> NoJob])
       /\ UNCHANGED job
    \/ \E j \in Jobs :
         /\ job[j] = "unborn" /\ job' = [job EXCEPT ![j] = "owed"]
         /\ Dispatching(c, [pc |-> "enqueue", job |-> j])
         /\ UNCHANGED left

OnCommand(c) ==
    /\ ~closing
    /\ \/ /\ left > 0 /\ left' = left - 1
          /\ Dispatching(c, [pc |-> "plain", job |-> NoJob])
          /\ UNCHANGED job
       \/ \E j \in Jobs :
            /\ job[j] = "unborn" /\ job' = [job EXCEPT ![j] = "owed"]
            /\ Dispatching(c, [pc |-> "enqueue", job |-> j])
            /\ UNCHANGED left

\* Deleter.Enqueue: never blocks, drops what does not fit.  Nobody tells it that
\* the worker has stopped.
Enqueue(c) ==
    /\ conn[c].pc = "enqueue"
    /\ LET j == conn[c].job IN
         IF Len(queue) < QueueCap
           THEN queue' = Append(queue, j) /\ job' = [job EXCEPT ![j] = "queued"]
           ELSE job' = [job EXCEPT ![j] = "dropped"] /\ UNCHANGED queue
    /\ conn' = [conn EXCEPT ![c] = [pc |-> "plain", job |-> NoJob]]
    /\ UNCHANGED <<main, closing, timedOut, left, worker, limited, quit, ticker>>

\* The handler replies; the deferred inflight.Done.
Done(c) ==
    /\ conn[c].pc = "plain"
    /\ conn' = [conn EXCEPT ![c] = AtRest]
    /\ UNCHANGED <<main, closing, timedOut, left, job, queue, worker, limited, quit, ticker>>

-----------------------------------------------------------------------------
(***************************************************************************)
(* Deleter.run.  A select with several cases ready takes any of them.      *)
(***************************************************************************)
WorkerStep == UNCHANGED <<main, serverVars, limited, quit, ticker>>

Take(next) ==
    /\ queue # << >>
    /\ queue' = Tail(queue)
    /\ job' = [job EXCEPT ![Head(queue)] = "taken"]
    /\ worker' = [pc |-> next, job |-> Head(queue)]

SelectJob ==
    /\ worker.pc = "select"
    /\ Take(IF limited THEN "gate" ELSE "process")
    /\ WorkerStep

SelectQuit ==
    /\ worker.pc = "select" /\ "deleter" \in quit
    /\ worker' = [worker EXCEPT !.pc = "drain"]
    /\ UNCHANGED <<job, queue>> /\ WorkerStep

GateTick ==
    /\ worker.pc = "gate"
    /\ worker' = [worker EXCEPT !.pc = "process"]
    /\ UNCHANGED <<job, queue>> /\ WorkerStep

\* A quit at the rate gate that goes to the queue and forgets the job in hand.
GateQuit_Forgets ==
    /\ worker.pc = "gate" /\ "deleter" \in quit
    /\ worker' = [pc |-> "drain", job |-> NoJob]
    /\ UNCHANGED <<job, queue>> /\ WorkerStep

\* "Honour the pk we already dequeued, then drain the rest."
GateQuit ==
    /\ worker.pc = "gate" /\ "deleter" \in quit
    /\ worker' = [worker EXCEPT !.pc = "process then drain"]
    /\ UNCHANGED <<job, queue>> /\ WorkerStep

Process ==
    /\ worker.pc \in {"process", "process then drain"}
    /\ job' = [job EXCEPT ![worker.job] = "processed"]
    /\ worker' = [pc |-> IF worker.pc = "process" THEN "select" ELSE "drain", job |-> NoJob]
    /\ UNCHANGED queue /\ WorkerStep

\* Deleter.drain: no rate limit; ends when the queue is empty.
DrainQueue ==
    /\ worker.pc = "drain"
    /\ IF queue = << >>
         THEN worker' = [worker EXCEPT !.pc = "exited"] /\ UNCHANGED <<job, queue>>
         ELSE Take("process then drain")
    /\ WorkerStep

Worker == SelectJob \/ SelectQuit \/ GateTick \/ GateQuit \/ Process \/ DrainQueue

\* Sweeper.run and backendProbe.run: a tick starts a pass; quit is looked at
\* between passes only.
TickerStep(n, from, to) ==
    /\ ticker[n] = from
    /\ ticker' = [ticker EXCEPT ![n] = to]
    /\ UNCHANGED <<main, serverVars, job, deleterVars, limited, quit>>

PassStarts(n) == TickerStep(n, "waiting", "passing")
PassEnds(n) == TickerStep(n, "passing", "waiting")
TickerQuit(n) == n \in quit /\ TickerStep(n, "waiting", "exited")

-----------------------------------------------------------------------------
(***************************************************************************)
(* The main goroutine: a signal or a listener error, Drain, then the Stops. *)
(***************************************************************************)
MainStep == UNCHANGED <<conn, left, job, deleterVars, limited, ticker>>

\* Drain: closing under the write lock; Close of the listener and connections.
Signal ==
    /\ main = "serving"
    /\ main' = "draining" /\ closing' = TRUE
    /\ UNCHANGED <<timedOut, quit>> /\ MainStep

\* A Drain that waits for the dispatches however long they take.
DrainTimeout_Never == FALSE /\ UNCHANGED vars

DrainTimeout ==
    /\ main = "draining" /\ InFlight # {}
    /\ main' = "stop probe" /\ timedOut' = TRUE
    /\ UNCHANGED <<closing, quit>> /\ MainStep

DrainDone ==
    /\ main = "draining" /\ InFlight = {}
    /\ main' = "stop probe"
    /\ UNCHANGED <<closing, timedOut, quit>> /\ MainStep

\* Stop: close quit once, then wait for done.
CloseQuit(label, name) ==
    /\ main = label /\ name \notin quit
    /\ quit' = quit \cup {name}
    /\ UNCHANGED <<main, closing, timedOut>> /\ MainStep
AwaitDone(label, name, exited, next) ==
    /\ main = label /\ name \in quit /\ exited
    /\ main' = next
    /\ UNCHANGED <<closing, timedOut, quit>> /\ MainStep

StopProbe == CloseQuit("stop probe", "probe") \/ AwaitDone("stop probe", "probe", ticker["probe"] = "exited", "stop sweeper")
StopSweeper == CloseQuit("stop sweeper", "sweeper") \/ AwaitDone("stop sweeper", "sweeper", ticker["sweeper"] = "exited", "stop deleter")

StopDeleter == CloseQuit("stop deleter", "deleter") \/ AwaitDone("stop deleter", "deleter", worker.pc = "exited", "exit")

Main == Signal \/ DrainTimeout \/ DrainDone \/ StopProbe \/ StopSweeper \/ StopDeleter

Exited == main = "exit" /\ UNCHANGED vars

Next ==
    \/ main # "exit" /\ \E c \in Conns : OnCommand(c) \/ Enqueue(c) \/ Done(c)
    \/ main # "exit" /\ Worker
    \/ main # "exit" /\ \E n \in Tickers : PassStarts(n) \/ PassEnds(n) \/ TickerQuit(n)
    \/ Main
    \/ Exited

Spec == Init /\ [][Next]_vars

(***************************************************************************)
(* The goroutines run, time passes, and a pass of the workers ends (their  *)
(* DynamoDB calls give up after the SDK's retries).  A ticker that is      *)
(* ready does not starve quit for ever.  No dispatch is assumed to return, *)
(* and nobody has to send the signal.                                      *)
(***************************************************************************)
Fairness ==
    /\ WF_vars(Worker) /\ SF_vars(SelectQuit)
    /\ \A n \in Tickers : WF_vars(PassEnds(n)) /\ SF_vars(TickerQuit(n))
    /\ WF_vars(DrainTimeout \/ DrainDone)
    /\ WF_vars(StopProbe) /\ WF_vars(StopSweeper) /\ WF_vars(StopDeleter)

FairSpec == Spec /\ Fairness

-----------------------------------------------------------------------------
Places == {"unborn", "owed", "queued", "dropped", "taken", "processed"}

TypeOK ==
    /\ main \in {"serving", "draining", "stop probe", "stop sweeper", "stop deleter", "exit"}
    /\ closing \in BOOLEAN /\ timedOut \in BOOLEAN /\ limited \in BOOLEAN
    /\ conn \in [Conns -> [pc : {"idle", "plain", "enqueue"}, job : Jobs \cup {NoJob}]]
    /\ left \in 0 .. Dispatches
    /\ job \in [Jobs -> Places]
    /\ queue \in Seq(Jobs) /\ Len(queue) <= QueueCap
    /\ worker \in [pc : {"select", "gate", "process", "process then drain", "drain", "exited"},
                   job : Jobs \cup {NoJob}]
    /\ quit \in SUBSET (Tickers \cup {"deleter"})
    /\ ticker \in [Tickers -> {"waiting", "passing", "exited"}]

\* Server.Drain: "draining here, before the caller stops the background deleter, keeps
\* that reclaim from being lost". When Drain did not give up, every reclaim a command
\* owed has been processed when the process exits, or was dropped by a full queue.
NoReclaimLost ==
    main = "exit" /\ ~timedOut => \A j \in Jobs : job[j] \in {"unborn", "processed", "dropped"}

\* Server.onCommand: after a Drain that did not give up no command is running, so none
\* can enqueue to a deleter that is being stopped.
QuietAfterDrain == main \notin {"serving", "draining"} /\ ~timedOut => InFlight = {}

\* The shutdown sequence of run (assembly.go): once the signal is there the process exits,
\* whatever the commands in flight do.
ShutdownEnds == main = "draining" ~> main = "exit"
=============================================================================
