--------------------------- MODULE LifecycleProofs ---------------------------
(***************************************************************************)
(* Theorems about the server, for any connections, any deletions and any   *)
(* capacity of the queue; about the embedded client, for any number of     *)
(* connections and of requests; and about a process of either deployment:  *)
(* the invariants of the one that runs are kept by its steps, those of the *)
(* other by its variables standing still.                                  *)
(***************************************************************************)
EXTENDS Lifecycle, SequenceTheorems, TLAPS

-----------------------------------------------------------------------------
(***************************************************************************)
(* The server (Shutdown).                                                  *)
(***************************************************************************)

(***************************************************************************)
(* The order in which run (assembly.go) takes things down: closing is set  *)
(* with the signal; Drain can only have given up after that; the deleter   *)
(* is told to quit last, drains only when told, and has exited when the    *)
(* process does.                                                           *)
(***************************************************************************)
OrderInv ==
    /\ closing <=> main # "serving"
    /\ timedOut => main \notin {"serving", "draining"}
    /\ "deleter" \in quit => main \in {"stop deleter", "exit"}
    /\ worker.pc \in {"process then drain", "drain", "exited"} => "deleter" \in quit
    /\ main = "exit" => worker.pc = "exited"

(***************************************************************************)
(* Where a reclaim is: owed by a command that is about to enqueue it, in   *)
(* the queue, or in the worker's hand.  The worker holds one only between  *)
(* taking it and processing it.                                            *)
(***************************************************************************)
InQueue(j) == \E i \in 1 .. Len(queue) : queue[i] = j

OwedInv ==
    /\ \A c \in Conns : conn[c].pc = "enqueue" => conn[c].job \in Jobs
    /\ \A j \in Jobs :
         job[j] = "owed" => \E c \in Conns : conn[c].pc = "enqueue" /\ conn[c].job = j

QueuedInv == \A j \in Jobs : job[j] = "queued" => InQueue(j)

TakenInv ==
    \A j \in Jobs :
      job[j] = "taken" => worker.job = j /\ worker.pc \in {"gate", "process", "process then drain"}

\* An exited worker leaves nothing behind, unless a command that Drain gave up on
\* enqueues after it.
DrainedInv == worker.pc = "exited" /\ ~timedOut => queue = << >>

Inv == TypeOK /\ OrderInv /\ OwedInv /\ QueuedInv /\ TakenInv /\ QuietAfterDrain /\ DrainedInv

\* Before the first command nothing is owed, queued or taken.
LEMMA InitInv == Init => Inv
<1> SUFFICES ASSUME Init PROVE Inv
  OBVIOUS
<1> USE ShutdownAssumption DEF Init, AtRest
<1>1. TypeOK
  <2>1. closing \in BOOLEAN /\ timedOut \in BOOLEAN /\ limited \in BOOLEAN
    BY Zenon
  <2>2. conn \in [Conns -> [pc : {"idle", "plain", "enqueue"}, job : Jobs \cup {NoJob}]]
    OBVIOUS
  <2>3. queue \in Seq(Jobs) /\ Len(queue) <= QueueCap /\ left \in 0 .. Dispatches
    OBVIOUS
  <2>4. job \in [Jobs -> Places] /\ ticker \in [Tickers -> {"waiting", "passing", "exited"}]
    BY DEF Places
  <2> QED
    BY <2>1, <2>2, <2>3, <2>4 DEF TypeOK
<1>2. OrderInv /\ OwedInv /\ QueuedInv /\ TakenInv /\ QuietAfterDrain /\ DrainedInv
  BY DEF OrderInv, OwedInv, QueuedInv, TakenInv, QuietAfterDrain, DrainedInv
<1> QED
  BY <1>1, <1>2 DEF Inv

(***************************************************************************)
(* What Append and Tail do to the queue's elements.                        *)
(***************************************************************************)
LEMMA QueueAppend ==
  ASSUME NEW q \in Seq(Jobs), NEW j \in Jobs
  PROVE  /\ Append(q, j) \in Seq(Jobs) /\ Len(Append(q, j)) = Len(q) + 1
         /\ Append(q, j)[Len(q) + 1] = j
         /\ \A i \in 1 .. Len(q) : Append(q, j)[i] = q[i]
  OBVIOUS

LEMMA QueueTail ==
  ASSUME NEW q \in Seq(Jobs), q # << >>, Len(q) <= QueueCap
  PROVE  /\ Head(q) \in Jobs /\ Head(q) = q[1]
         /\ Tail(q) \in Seq(Jobs) /\ Len(Tail(q)) <= QueueCap
         /\ \A i \in 2 .. Len(q) : Tail(q)[i - 1] = q[i]
  BY ShutdownAssumption

\* What is not in hand and not taken now stays in the queue.
LEMMA QueueKeeps ==
  ASSUME NEW q \in Seq(Jobs), q # << >>, NEW j \in Jobs, j # Head(q),
         \E i \in 1 .. Len(q) : q[i] = j
  PROVE  \E i \in 1 .. Len(Tail(q)) : Tail(q)[i] = j
<1>1. PICK i \in 1 .. Len(q) : q[i] = j
  OBVIOUS
<1>2. i \in 2 .. Len(q)
  BY <1>1
<1>3. i - 1 \in 1 .. Len(Tail(q)) /\ Tail(q)[i - 1] = j
  BY <1>1, <1>2
<1> QED
  BY <1>3

\* The worker takes the head of the queue, from a state in which it holds no job.
LEMMA TakeInv ==
  ASSUME Inv, NEW next \in {"gate", "process", "process then drain"}, Take(next), WorkerStep,
         worker.pc \in {"select", "drain"},
         next = "process then drain" => "deleter" \in quit
  PROVE  Inv'
<1>1. /\ queue # << >> /\ queue' = Tail(queue)
      /\ job' = [job EXCEPT ![Head(queue)] = "taken"]
      /\ worker' = [pc |-> next, job |-> Head(queue)]
      /\ UNCHANGED <<main, closing, timedOut, conn, left, limited, quit, ticker>>
  BY DEF Take, WorkerStep, serverVars
<1>2. /\ queue \in Seq(Jobs) /\ Len(queue) <= QueueCap /\ QueueCap \in Nat
      /\ job \in [Jobs -> Places]
  BY ShutdownAssumption DEF Inv, TypeOK
<1>3. Head(queue) \in Jobs /\ Tail(queue) \in Seq(Jobs) /\ Len(Tail(queue)) <= QueueCap
  BY <1>1, <1>2, QueueTail, Zenon
<1>4. TypeOK'
  <2>1. queue' \in Seq(Jobs) /\ Len(queue') <= QueueCap
    BY <1>1, <1>2, <1>3
  <2>2. job' \in [Jobs -> Places]
    BY <1>1, <1>2, <1>3 DEF Places
  <2>3. worker' \in [pc : {"select", "gate", "process", "process then drain", "drain", "exited"},
                     job : Jobs \cup {NoJob}]
    BY <1>1, <1>3
  <2> QED
    BY <1>1, <2>1, <2>2, <2>3 DEF Inv, TypeOK
<1>5. OrderInv'
  BY <1>1 DEF Inv, OrderInv
<1>6. QuietAfterDrain' /\ DrainedInv'
  BY <1>1 DEF Inv, QuietAfterDrain, DrainedInv, InFlight
<1>7. QueuedInv'
  <2>1. ASSUME NEW j \in Jobs, job'[j] = "queued" PROVE InQueue(j)'
    <3>1. job[j] = "queued" /\ j # Head(queue)
      BY <1>1, <1>2, <2>1
    <3>2. InQueue(j)
      BY <3>1 DEF Inv, QueuedInv
    <3> QED
      BY <1>1, <1>2, <3>1, <3>2, QueueKeeps DEF InQueue
  <2> QED
    BY <2>1 DEF QueuedInv
<1>8. OwedInv'
  <2>1. ASSUME NEW j \in Jobs, job'[j] = "owed" PROVE job[j] = "owed"
    BY <1>1, <1>2, <2>1
  <2> QED
    BY <1>1, <2>1 DEF Inv, OwedInv
<1>9. TakenInv'
  <2>1. ASSUME NEW j \in Jobs, job'[j] = "taken" PROVE j = Head(queue)
    BY <1>1, <1>2, <2>1 DEF Inv, TakenInv
  <2> QED
    BY <1>1, <2>1 DEF TakenInv
<1> QED
  BY <1>4, <1>5, <1>6, <1>7, <1>8, <1>9 DEF Inv

-----------------------------------------------------------------------------
\* A command is let in while the server serves; the reclaim it will owe is new.
LEMMA OnCommandInv ==
  ASSUME Inv, NEW c \in Conns, OnCommand(c)
  PROVE  Inv'
<1>1. /\ ~closing /\ conn[c].pc = "idle"
      /\ UNCHANGED <<main, closing, timedOut, queue, worker, limited, quit, ticker>>
  BY DEF OnCommand, Dispatching
<1>2. /\ conn \in [Conns -> [pc : {"idle", "plain", "enqueue"}, job : Jobs \cup {NoJob}]]
      /\ job \in [Jobs -> Places] /\ left \in 0 .. Dispatches /\ Dispatches \in Nat
  BY ShutdownAssumption DEF Inv, TypeOK
<1>3. /\ conn' \in [Conns -> [pc : {"idle", "plain", "enqueue"}, job : Jobs \cup {NoJob}]]
      /\ job' \in [Jobs -> Places] /\ left' \in 0 .. Dispatches
      /\ conn'[c].pc = "enqueue" => conn'[c].job \in Jobs
      /\ \A j \in Jobs : \/ job'[j] = job[j]
                         \/ /\ job'[j] = "owed"
                            /\ conn'[c].pc = "enqueue" /\ conn'[c].job = j
      /\ \A d \in Conns : d # c => conn'[d] = conn[d]
  <2>1. CASE left > 0 /\ left' = left - 1 /\ UNCHANGED job
             /\ conn' = [conn EXCEPT ![c] = [pc |-> "plain", job |-> NoJob]]
    <3>1. left' \in 0 .. Dispatches
      BY <1>2, <2>1
    <3>2. conn'[c].pc = "plain" /\ \A d \in Conns : d # c => conn'[d] = conn[d]
      BY <1>2, <2>1
    <3>3. conn' \in [Conns -> [pc : {"idle", "plain", "enqueue"}, job : Jobs \cup {NoJob}]]
      BY <1>2, <2>1
    <3> QED
      BY <1>2, <2>1, <3>1, <3>2, <3>3
  <2>2. CASE \E j \in Jobs : /\ job' = [job EXCEPT ![j] = "owed"] /\ UNCHANGED left
                             /\ conn' = [conn EXCEPT ![c] = [pc |-> "enqueue", job |-> j]]
    <3>1. PICK j \in Jobs : /\ job' = [job EXCEPT ![j] = "owed"] /\ UNCHANGED left
                            /\ conn' = [conn EXCEPT ![c] = [pc |-> "enqueue", job |-> j]]
      BY <2>2
    <3>2. /\ conn'[c].pc = "enqueue" /\ conn'[c].job = j
          /\ \A d \in Conns : d # c => conn'[d] = conn[d]
      BY <1>2, <3>1
    <3>3. conn' \in [Conns -> [pc : {"idle", "plain", "enqueue"}, job : Jobs \cup {NoJob}]]
      BY <1>2, <3>1
    <3>4. /\ job' \in [Jobs -> Places]
          /\ \A k \in Jobs : job'[k] = IF k = j THEN "owed" ELSE job[k]
      BY <1>2, <3>1 DEF Places
    <3> QED
      BY <1>2, <3>1, <3>2, <3>3, <3>4
  <2> QED
    BY <2>1, <2>2 DEF OnCommand, Dispatching
<1>4. TypeOK'
  BY <1>1, <1>3 DEF Inv, TypeOK
<1>5. OrderInv' /\ DrainedInv'
  BY <1>1 DEF Inv, OrderInv, DrainedInv
<1>6. QuietAfterDrain'
  BY <1>1 DEF Inv, OrderInv, QuietAfterDrain
<1>7. OwedInv'
  <2>1. \A d \in Conns : conn'[d].pc = "enqueue" => conn'[d].job \in Jobs
    BY <1>3 DEF Inv, OwedInv
  <2>2. ASSUME NEW j \in Jobs, job'[j] = "owed"
        PROVE  \E d \in Conns : conn'[d].pc = "enqueue" /\ conn'[d].job = j
    <3>1. CASE job[j] = "owed"
      <4>1. PICK d \in Conns : conn[d].pc = "enqueue" /\ conn[d].job = j
        BY <3>1 DEF Inv, OwedInv
      <4>2. d # c
        BY <1>1, <4>1
      <4> QED
        BY <1>3, <4>1, <4>2
    <3> QED
      BY <1>3, <2>2, <3>1
  <2> QED
    BY <2>1, <2>2 DEF OwedInv
<1>8. QueuedInv' /\ TakenInv'
  <2>1. ASSUME NEW j \in Jobs, job'[j] # "owed" PROVE job'[j] = job[j]
    BY <1>3, <2>1
  <2>2. QueuedInv'
    BY <1>1, <2>1 DEF Inv, QueuedInv, InQueue
  <2>3. TakenInv'
    BY <1>1, <2>1 DEF Inv, TakenInv
  <2> QED
    BY <2>2, <2>3
<1> QED
  BY <1>4, <1>5, <1>6, <1>7, <1>8 DEF Inv

\* A command that enqueues is in flight: the worker cannot have exited unless Drain
\* gave up on it.
LEMMA EnqueueInv ==
  ASSUME Inv, NEW c \in Conns, Enqueue(c)
  PROVE  Inv'
<1>a. PICK j \in Jobs : j = conn[c].job
  BY DEF Inv, OwedInv, Enqueue
<1>1. /\ conn[c].pc = "enqueue" /\ conn' = [conn EXCEPT ![c] = [pc |-> "plain", job |-> NoJob]]
      /\ UNCHANGED <<main, closing, timedOut, left, worker, limited, quit, ticker>>
  BY DEF Enqueue
<1>2. /\ conn \in [Conns -> [pc : {"idle", "plain", "enqueue"}, job : Jobs \cup {NoJob}]]
      /\ job \in [Jobs -> Places] /\ queue \in Seq(Jobs) /\ Len(queue) <= QueueCap
      /\ QueueCap \in Nat
  BY ShutdownAssumption DEF Inv, TypeOK
<1>3. /\ queue' \in Seq(Jobs) /\ Len(queue') <= QueueCap
      /\ \A k \in Jobs : InQueue(k) => InQueue(k)'
      /\ job' \in [Jobs -> Places]
      /\ \A k \in Jobs : k # j => job'[k] = job[k]
      /\ job'[j] = "dropped" \/ (job'[j] = "queued" /\ InQueue(j)')
  <2>1. CASE Len(queue) < QueueCap /\ queue' = Append(queue, j) /\ job' = [job EXCEPT ![j] = "queued"]
    <3>1. /\ queue' \in Seq(Jobs) /\ Len(queue) \in Nat /\ Len(queue') = Len(queue) + 1
          /\ queue'[Len(queue) + 1] = j
          /\ \A i \in 1 .. Len(queue) : queue'[i] = queue[i]
      BY <1>2, <2>1, QueueAppend, LenProperties
    <3>2. \A k \in Jobs : InQueue(k) => InQueue(k)'
      BY <3>1 DEF InQueue
    <3>3. InQueue(j)' /\ Len(queue') <= QueueCap
      BY <1>2, <2>1, <3>1 DEF InQueue
    <3> QED
      BY <1>2, <2>1, <3>1, <3>2, <3>3 DEF Places
  <2>2. CASE UNCHANGED queue /\ job' = [job EXCEPT ![j] = "dropped"]
    <3>1. \A k \in Jobs : InQueue(k) => InQueue(k)'
      BY <2>2 DEF InQueue
    <3> QED
      BY <1>2, <2>2, <3>1 DEF Places
  <2> QED
    BY <1>a, <2>1, <2>2 DEF Enqueue
<1>4. TypeOK'
  BY <1>1, <1>2, <1>3 DEF Inv, TypeOK
<1>5. OrderInv'
  BY <1>1 DEF Inv, OrderInv
<1>6. c \in InFlight /\ InFlight' \subseteq InFlight
  BY <1>1, <1>2 DEF InFlight
<1>7. QuietAfterDrain'
  BY <1>1, <1>6 DEF Inv, QuietAfterDrain
<1>8. DrainedInv'
  BY <1>1, <1>6 DEF Inv, OrderInv, QuietAfterDrain, DrainedInv
<1>9. OwedInv'
  <2>1. \A d \in Conns : conn'[d].pc = "enqueue" => conn'[d].job \in Jobs
    BY <1>1, <1>2 DEF Inv, OwedInv
  <2>2. ASSUME NEW k \in Jobs, job'[k] = "owed"
        PROVE  \E d \in Conns : conn'[d].pc = "enqueue" /\ conn'[d].job = k
    <3>1. k # j /\ job[k] = "owed"
      BY <1>3, <2>2
    <3>2. PICK d \in Conns : conn[d].pc = "enqueue" /\ conn[d].job = k
      BY <3>1 DEF Inv, OwedInv
    <3>3. d # c
      BY <1>a, <3>1, <3>2
    <3> QED
      BY <1>1, <1>2, <3>2, <3>3
  <2> QED
    BY <2>1, <2>2 DEF OwedInv
<1>10. QueuedInv'
  BY <1>3 DEF Inv, QueuedInv
<1>11. TakenInv'
  BY <1>1, <1>3 DEF Inv, TakenInv
<1> QED
  BY <1>4, <1>5, <1>7, <1>8, <1>9, <1>10, <1>11 DEF Inv

LEMMA DoneInv ==
  ASSUME Inv, NEW c \in Conns, Done(c)
  PROVE  Inv'
<1>1. /\ conn[c].pc = "plain" /\ conn' = [conn EXCEPT ![c] = [pc |-> "idle", job |-> NoJob]]
      /\ UNCHANGED <<main, closing, timedOut, left, job, queue, worker, limited, quit, ticker>>
  BY DEF Done, AtRest
<1>2. conn \in [Conns -> [pc : {"idle", "plain", "enqueue"}, job : Jobs \cup {NoJob}]]
  BY DEF Inv, TypeOK
<1>3. TypeOK'
  BY <1>1, <1>2 DEF Inv, TypeOK
<1>4. OrderInv' /\ DrainedInv'
  BY <1>1 DEF Inv, OrderInv, DrainedInv
<1>5. QuietAfterDrain'
  BY <1>1, <1>2 DEF Inv, QuietAfterDrain, InFlight
<1>6. OwedInv'
  <2>1. conn'[c].pc = "idle" /\ \A d \in Conns : d # c => conn'[d] = conn[d]
    BY <1>1, <1>2
  <2>2. \A d \in Conns : conn[d].pc = "enqueue" \/ conn'[d].pc = "enqueue" => conn'[d] = conn[d]
    BY <1>1, <2>1
  <2> QED
    BY <1>1, <2>2 DEF Inv, OwedInv
<1>7. QueuedInv' /\ TakenInv'
  BY <1>1 DEF Inv, QueuedInv, TakenInv, InQueue
<1> QED
  BY <1>3, <1>4, <1>5, <1>6, <1>7 DEF Inv
-----------------------------------------------------------------------------
\* A step of the worker that takes no job and finishes none.
LEMMA WorkerMoves ==
  ASSUME Inv, NEW pc \in {"process", "process then drain", "drain", "exited"},
         worker' = [worker EXCEPT !.pc = pc], UNCHANGED <<job, queue>>, WorkerStep,
         pc # "process" => "deleter" \in quit,
         pc \in {"drain", "exited"} => worker.pc \in {"select", "drain"},
         pc = "exited" => queue = << >>,
         worker.pc # "exited"
  PROVE  Inv'
<1>1. /\ UNCHANGED <<main, closing, timedOut, conn, left, job, queue, limited, quit, ticker>>
      /\ worker \in [pc : {"select", "gate", "process", "process then drain", "drain", "exited"},
                     job : Jobs \cup {NoJob}]
  BY DEF WorkerStep, serverVars, Inv, TypeOK
<1>2. worker'.pc = pc /\ worker'.job = worker.job
  BY <1>1
<1>3. TypeOK'
  BY <1>1 DEF Inv, TypeOK
<1>4. OrderInv'
  BY <1>1, <1>2 DEF Inv, OrderInv
<1>5. QuietAfterDrain' /\ DrainedInv'
  BY <1>1, <1>2 DEF Inv, QuietAfterDrain, DrainedInv, InFlight
<1>6. OwedInv' /\ QueuedInv'
  <2>1. OwedInv'
    BY <1>1 DEF Inv, OwedInv
  <2>2. UNCHANGED <<job, queue>> /\ QueuedInv
    BY <1>1 DEF Inv
  <2>3. QueuedInv'
    BY <2>2 DEF QueuedInv, InQueue
  <2> QED
    BY <2>1, <2>3
<1>7. TakenInv'
  BY <1>1, <1>2 DEF Inv, TakenInv
<1> QED
  BY <1>3, <1>4, <1>5, <1>6, <1>7 DEF Inv

\* The worker processes the job in its hand, and holds none afterwards.
LEMMA ProcessInv ==
  ASSUME Inv, Process
  PROVE  Inv'
<1>1. /\ UNCHANGED <<main, closing, timedOut, conn, left, queue, limited, quit, ticker>>
      /\ job' = [job EXCEPT ![worker.job] = "processed"]
      /\ worker.pc \in {"process", "process then drain"}
      /\ worker' = [pc |-> IF worker.pc = "process" THEN "select" ELSE "drain", job |-> NoJob]
      /\ job \in [Jobs -> Places]
  BY DEF Process, WorkerStep, serverVars, Inv, TypeOK
<1>2. \A j \in Jobs : job'[j] = IF j = worker.job THEN "processed" ELSE job[j]
  BY <1>1
<1>3. worker'.pc = IF worker.pc = "process" THEN "select" ELSE "drain"
  BY <1>1
<1>4. TypeOK'
  <2>1. job' \in [Jobs -> Places]
    BY <1>1 DEF Places
  <2>2. worker' \in [pc : {"select", "gate", "process", "process then drain", "drain", "exited"},
                     job : Jobs \cup {NoJob}]
    BY <1>1
  <2> QED
    BY <1>1, <2>1, <2>2 DEF Inv, TypeOK
<1>5. OrderInv'
  BY <1>1, <1>3 DEF Inv, OrderInv
<1>6. QuietAfterDrain' /\ DrainedInv'
  BY <1>1, <1>3 DEF Inv, QuietAfterDrain, DrainedInv, InFlight
<1>7. OwedInv' /\ QueuedInv'
  BY <1>1, <1>2 DEF Inv, OwedInv, QueuedInv, InQueue
<1>8. TakenInv'
  BY <1>2 DEF Inv, TakenInv
<1> QED
  BY <1>4, <1>5, <1>6, <1>7, <1>8 DEF Inv

\* Deleter.run, whatever it does.
LEMMA WorkerInv ==
  ASSUME Inv, Worker
  PROVE  Inv'
<1>1. CASE SelectJob
  <2>1. PICK next \in {"gate", "process"} : Take(next)
    BY <1>1, Zenon DEF SelectJob
  <2> QED
    BY <1>1, <2>1, TakeInv DEF SelectJob
<1>2. CASE SelectQuit
  BY <1>2, WorkerMoves DEF SelectQuit
<1>3. CASE GateTick
  BY <1>3, WorkerMoves DEF GateTick
<1>4. CASE GateQuit
  BY <1>4, WorkerMoves DEF GateQuit
<1>5. CASE Process
  BY <1>5, ProcessInv
<1>6. CASE DrainQueue
  <2>1. worker.pc = "drain" /\ "deleter" \in quit /\ WorkerStep
    BY <1>6 DEF DrainQueue, Inv, OrderInv
  <2>2. CASE queue = << >>
    BY <1>6, <2>1, <2>2, WorkerMoves DEF DrainQueue
  <2>3. CASE queue # << >>
    BY <1>6, <2>1, <2>3, TakeInv DEF DrainQueue
  <2> QED
    BY <2>2, <2>3
<1> QED
  BY <1>1, <1>2, <1>3, <1>4, <1>5, <1>6 DEF Worker

\* The sweeper and the health probe touch nothing but themselves.
LEMMA TickerInv ==
  ASSUME Inv, NEW n \in Tickers, NEW from, NEW to \in {"waiting", "passing", "exited"},
         TickerStep(n, from, to)
  PROVE  Inv'
<1>1. /\ UNCHANGED <<main, closing, timedOut, conn, left, job, queue, worker, limited, quit>>
      /\ ticker' = [ticker EXCEPT ![n] = to]
  BY DEF TickerStep, serverVars, deleterVars
<1>2. TypeOK'
  BY <1>1 DEF Inv, TypeOK
<1>3. OrderInv' /\ QuietAfterDrain' /\ DrainedInv'
  BY <1>1 DEF Inv, OrderInv, QuietAfterDrain, DrainedInv, InFlight
<1>4. OwedInv' /\ QueuedInv' /\ TakenInv'
  BY <1>1 DEF Inv, OwedInv, QueuedInv, TakenInv, InQueue
<1> QED
  BY <1>2, <1>3, <1>4 DEF Inv

-----------------------------------------------------------------------------
\* A step of the main goroutine, which never touches the commands or the queue.
LEMMA MainMoves ==
  ASSUME Inv, MainStep, TypeOK', OrderInv', QuietAfterDrain', timedOut => timedOut'
  PROVE  Inv'
<1>1. UNCHANGED <<conn, left, job, queue, worker, limited, ticker>>
  BY DEF MainStep, deleterVars
<1>2. DrainedInv'
  BY <1>1 DEF Inv, DrainedInv
<1>3. OwedInv' /\ QueuedInv' /\ TakenInv'
  BY <1>1 DEF Inv, OwedInv, QueuedInv, TakenInv, InQueue
<1> QED
  BY <1>2, <1>3 DEF Inv

LEMMA SignalInv ==
  ASSUME Inv, Signal
  PROVE  Inv'
<1>1. /\ main = "serving" /\ main' = "draining" /\ closing' = TRUE
      /\ UNCHANGED <<timedOut, quit, conn, left, job, queue, worker, limited, ticker>>
  BY DEF Signal, MainStep, deleterVars
<1>2. TypeOK'
  BY <1>1 DEF Inv, TypeOK
<1>3. OrderInv' /\ QuietAfterDrain'
  BY <1>1 DEF Inv, OrderInv, QuietAfterDrain
<1> QED
  BY <1>1, <1>2, <1>3, MainMoves DEF Signal

\* Drain returns: because it gave up, or because no command is running.
LEMMA DrainInv ==
  ASSUME Inv, DrainTimeout \/ DrainDone
  PROVE  Inv'
<1>1. /\ main = "draining" /\ main' = "stop probe" /\ MainStep
      /\ UNCHANGED <<closing, quit, conn, left, job, queue, worker, limited, ticker>>
      /\ timedOut' = TRUE \/ (UNCHANGED timedOut /\ InFlight = {})
  BY DEF DrainTimeout, DrainDone, MainStep, deleterVars
<1>2. TypeOK'
  BY <1>1 DEF Inv, TypeOK
<1>3. OrderInv' /\ QuietAfterDrain'
  BY <1>1 DEF Inv, OrderInv, QuietAfterDrain, InFlight
<1>4. timedOut => timedOut'
  BY <1>1, Zenon
<1> QED
  BY <1>1, <1>2, <1>3, <1>4, MainMoves

\* Stop of a worker, in the order in which run calls them.
LEMMA StopInv ==
  ASSUME Inv, StopProbe \/ StopSweeper \/ StopDeleter
  PROVE  Inv'
<1>1. /\ MainStep /\ UNCHANGED <<closing, timedOut, conn, left, job, queue, worker, limited, ticker>>
      /\ main \in {"stop probe", "stop sweeper", "stop deleter"}
      /\ main' \in {"stop probe", "stop sweeper", "stop deleter", "exit"}
      /\ quit' \in SUBSET (Tickers \cup {"deleter"})
      /\ "deleter" \in quit' => main' \in {"stop deleter", "exit"}
      /\ "deleter" \in quit => "deleter" \in quit'
      /\ main' = "exit" => worker.pc = "exited"
  BY DEF StopProbe, StopSweeper, StopDeleter, CloseQuit, AwaitDone, MainStep, deleterVars,
         Inv, TypeOK, OrderInv, Tickers
<1>2. TypeOK'
  BY <1>1 DEF Inv, TypeOK
<1>3. OrderInv' /\ QuietAfterDrain'
  BY <1>1 DEF Inv, OrderInv, QuietAfterDrain, InFlight
<1> QED
  BY <1>1, <1>2, <1>3, MainMoves
LEMMA StepInv ==
  ASSUME Inv, [Next]_vars
  PROVE  Inv'
<1>1. CASE \E c \in Conns : OnCommand(c) \/ Enqueue(c) \/ Done(c)
  BY <1>1, OnCommandInv, EnqueueInv, DoneInv
<1>2. CASE Worker
  BY <1>2, WorkerInv
<1>3. CASE \E n \in Tickers : PassStarts(n) \/ PassEnds(n) \/ TickerQuit(n)
  BY <1>3, TickerInv DEF PassStarts, PassEnds, TickerQuit
<1>4. CASE Main
  BY <1>4, SignalInv, DrainInv, StopInv DEF Main
<1>5. CASE UNCHANGED vars
  <2>1. UNCHANGED <<main, closing, timedOut, conn, left, job, queue, worker, limited, quit, ticker>>
    BY <1>5 DEF vars
  <2>2. TypeOK'
    BY <2>1 DEF Inv, TypeOK
  <2>3. OrderInv' /\ QuietAfterDrain' /\ DrainedInv'
    BY <2>1 DEF Inv, OrderInv, QuietAfterDrain, DrainedInv, InFlight
  <2>4. OwedInv' /\ QueuedInv' /\ TakenInv'
    BY <2>1 DEF Inv, OwedInv, QueuedInv, TakenInv, InQueue
  <2> QED
    BY <2>2, <2>3, <2>4 DEF Inv
<1> QED
  BY <1>1, <1>2, <1>3, <1>4, <1>5 DEF Next, Exited

LEMMA Invariance == Spec => []Inv
<1> QED
  BY InitInv, StepInv, PTL DEF Spec

\* What Inv says at the exit: a reclaim that is owed, queued or taken needs a command
\* in flight, a queue with something in it, or a worker still running.
LEMMA InvReclaims == Inv => NoReclaimLost
<1> SUFFICES ASSUME Inv, main = "exit", ~timedOut, NEW j \in Jobs
             PROVE  job[j] \in {"unborn", "processed", "dropped"}
  BY DEF NoReclaimLost
<1>1. worker.pc = "exited" /\ queue = << >> /\ InFlight = {}
  BY DEF Inv, OrderInv, DrainedInv, QuietAfterDrain
<1>2. job[j] # "owed"
  BY <1>1 DEF Inv, OwedInv, InFlight
<1>3. job[j] # "queued"
  BY <1>1 DEF Inv, QueuedInv, InQueue
<1>4. job[j] # "taken"
  BY <1>1 DEF Inv, TakenInv
<1>5. job[j] \in Places
  BY DEF Inv, TypeOK
<1> QED
  BY <1>2, <1>3, <1>4, <1>5 DEF Places

-----------------------------------------------------------------------------
(***************************************************************************)
(* The theorems.                                                           *)
(***************************************************************************)

\* Server, Deleter.run, Sweeper.run: every variable keeps its type; the deleter's queue
\* never holds more than its capacity.
THEOREM TypeCorrect == Spec => []TypeOK
<1>1. Inv => TypeOK
  BY DEF Inv
<1> QED
  BY <1>1, Invariance, PTL

\* Server.Drain before Deleter.Stop: whenever the process exits after a Drain that did
\* not give up, every reclaim a command owed was processed or dropped by a full queue.
THEOREM ReclaimsKept == Spec => []NoReclaimLost
<1> QED
  BY InvReclaims, Invariance, PTL

\* Server.onCommand: no command runs once a Drain that did not give up has returned.
THEOREM QuietWhenStopped == Spec => []QuietAfterDrain
<1>1. Inv => QuietAfterDrain
  BY DEF Inv
<1> QED
  BY <1>1, Invariance, PTL

-----------------------------------------------------------------------------
(***************************************************************************)
(* The embedded client (InProc).                                           *)
(***************************************************************************)

(***************************************************************************)
(* The types of the functions and of every field; deadlines are 0 (none)   *)
(* or 1 (the only one there is).                                           *)
(***************************************************************************)
Requests == Seq(1 .. MaxRequests)
Pipe == [buf : Requests, closed : BOOLEAN, waiting : BOOLEAN]
User == [pc : {"none", "dialing", "idle", "reading", "eof", "closed"}, sent : 0 .. MaxRequests,
         got : Requests, readDead : {0, 1}, dl : {0, 1}, timer : BOOLEAN]

EmbeddedTypes ==
    /\ clock \in {0, 1}
    /\ up \in [Dials -> Pipe] /\ down \in [Dials -> Pipe]
    /\ user \in [Dials -> User]
    /\ acceptor \in [Dials -> {"none", "accepting", "parked"}]
    /\ handler \in [Dials -> [pc : {"none", "reading", "serving", "closing", "ended"}, batch : Requests]]
    /\ wrote \in [Dials -> Requests]
    /\ closer \in [pc : {"open", "closing", "closed"}, conns : SUBSET Dials]

\* Only a reader in its loop sleeps, and only a Read in its loop has a timer.
SleepersRead ==
    \A d \in Dials : /\ down[d].waiting => user[d].pc = "reading"
                     /\ up[d].waiting => handler[d].pc = "reading"

(***************************************************************************)
(* What the client read and what it may still read is what was written;    *)
(* EOF is seen on a closed direction with nothing left in it, to which no  *)
(* Write can add.                                                          *)
(***************************************************************************)
NothingLost == \A d \in Dials : user[d].got \o down[d].buf = wrote[d]
EOFIsFinal == \A d \in Dials : user[d].pc = "eof" => down[d].closed /\ down[d].buf = << >>

(***************************************************************************)
(* A dialed connection is tracked or closed, and a closer that has         *)
(* finished tracks none.                                                   *)
(***************************************************************************)
Cut == {d \in Dials : up[d].closed /\ down[d].closed}
TrackedOrCut == \A d \in Dials : acceptor[d] # "none" => d \in closer.conns \cup Cut
ClosedTracksNone == closer.pc = "closed" => closer.conns = {}

EmbeddedInv ==
    /\ EmbeddedTypes /\ SleepersRead /\ NothingLost /\ EOFIsFinal /\ TrackedOrCut /\ ClosedTracksNone

LEMMA EmbeddedInitInv == EmbeddedInit => EmbeddedInv
<1> SUFFICES ASSUME EmbeddedInit PROVE EmbeddedInv
  OBVIOUS
<1>1. EmbeddedTypes
  BY InProcAssumption DEF EmbeddedInit, EmbeddedTypes, NewPipe, Pipe, User, Requests
<1>2. SleepersRead /\ EOFIsFinal /\ TrackedOrCut /\ ClosedTracksNone
  BY DEF EmbeddedInit, NewPipe, SleepersRead, EOFIsFinal, TrackedOrCut, ClosedTracksNone
<1>3. NothingLost
  <2>1. << >> \o << >> = << >>
    BY ConcatEmptySeq
  <2> QED
    BY <2>1 DEF EmbeddedInit, NewPipe, NothingLost
<1> QED
  BY <1>1, <1>2, <1>3 DEF EmbeddedInv

-----------------------------------------------------------------------------
(***************************************************************************)
(* What the operations of pipeBuffer do to a pipe.                         *)
(***************************************************************************)
LEMMA PipeOperations ==
  ASSUME NEW p \in Pipe, NEW bytes \in Requests
  PROVE  /\ Broadcast(p) \in Pipe /\ Broadcast(p).buf = p.buf
         /\ Broadcast(p).closed = p.closed /\ Broadcast(p).waiting = FALSE
         /\ pipeClose(p) \in Pipe /\ pipeClose(p).buf = p.buf
         /\ pipeClose(p).closed = TRUE /\ pipeClose(p).waiting = FALSE
         /\ pipeWrite(p, bytes) \in Pipe /\ pipeWrite(p, bytes).closed = p.closed
         /\ pipeWrite(p, bytes).waiting => p.waiting
<1>1. p.buf \in Requests /\ p.closed \in BOOLEAN /\ p.waiting \in BOOLEAN
  BY DEF Pipe
<1>2. p.buf \o bytes \in Requests
  BY <1>1, ConcatProperties DEF Requests
<1>3. /\ Broadcast(p) \in Pipe /\ Broadcast(p).buf = p.buf
      /\ Broadcast(p).closed = p.closed /\ Broadcast(p).waiting = FALSE
  BY DEF Pipe, Broadcast
<1>4. /\ pipeClose(p) \in Pipe /\ pipeClose(p).buf = p.buf
      /\ pipeClose(p).closed = TRUE /\ pipeClose(p).waiting = FALSE
  BY DEF Pipe, Broadcast, pipeClose
<1>5. /\ pipeWrite(p, bytes) \in Pipe /\ pipeWrite(p, bytes).closed = p.closed
      /\ pipeWrite(p, bytes).waiting => p.waiting
  <2>1. CASE p.closed
    BY <2>1 DEF pipeWrite
  <2>2. CASE ~p.closed
    BY <1>2, <2>2 DEF Pipe, Broadcast, pipeWrite
  <2> QED
    BY <2>1, <2>2
<1> QED
  BY <1>3, <1>4, <1>5

LEMMA WriteAppends ==
  ASSUME NEW p \in Pipe, NEW bytes \in Requests, ~p.closed
  PROVE  pipeWrite(p, bytes).buf = p.buf \o bytes
  BY DEF Pipe, Broadcast, pipeWrite

\* bufConn.Close closes both directions of a connection, wakes their readers, and
\* leaves what is buffered.
LEMMA CloseConnsPipes ==
  ASSUME up \in [Dials -> Pipe], down \in [Dials -> Pipe], NEW ds \in SUBSET Dials, CloseConns(ds)
  PROVE  /\ up' \in [Dials -> Pipe] /\ down' \in [Dials -> Pipe]
         /\ \A d \in ds : /\ up'[d].closed = TRUE /\ up'[d].waiting = FALSE
                          /\ down'[d].closed = TRUE /\ down'[d].waiting = FALSE
                          /\ down'[d].buf = down[d].buf
         /\ \A d \in Dials \ ds : up'[d] = up[d] /\ down'[d] = down[d]
<1>1. << >> \in Requests
  BY DEF Requests
<1>2. \A d \in Dials : up[d] \in Pipe /\ down[d] \in Pipe
  OBVIOUS
<1>3. /\ up' = [d \in Dials |-> IF d \in ds THEN pipeClose(up[d]) ELSE up[d]]
      /\ down' = [d \in Dials |-> IF d \in ds THEN pipeClose(down[d]) ELSE down[d]]
  BY DEF CloseConns
<1>4. \A d \in Dials :
        /\ pipeClose(up[d]) \in Pipe /\ pipeClose(up[d]).closed = TRUE /\ pipeClose(up[d]).waiting = FALSE
        /\ pipeClose(down[d]) \in Pipe /\ pipeClose(down[d]).closed = TRUE
        /\ pipeClose(down[d]).waiting = FALSE /\ pipeClose(down[d]).buf = down[d].buf
  BY <1>1, <1>2, PipeOperations
<1>5. up' \in [Dials -> Pipe] /\ down' \in [Dials -> Pipe]
  BY <1>2, <1>3, <1>4
<1>6. \A d \in ds : /\ up'[d].closed = TRUE /\ up'[d].waiting = FALSE
                    /\ down'[d].closed = TRUE /\ down'[d].waiting = FALSE
                    /\ down'[d].buf = down[d].buf
  BY <1>3, <1>4
<1>7. \A d \in Dials \ ds : up'[d] = up[d] /\ down'[d] = down[d]
  BY <1>3
<1> QED
  BY <1>5, <1>6, <1>7

\* What a close keeps: unread bytes, closed ends, and who sleeps where nothing closed.
LEMMA CloseConnsKeeps ==
  ASSUME EmbeddedInv, NEW ds \in SUBSET Dials, CloseConns(ds)
  PROVE  /\ up' \in [Dials -> Pipe] /\ down' \in [Dials -> Pipe]
         /\ \A d \in Dials : /\ down'[d].buf = down[d].buf
                             /\ down[d].closed => down'[d].closed
                             /\ down'[d].waiting => down[d].waiting
                             /\ up'[d].waiting => up[d].waiting
         /\ Cut \cup ds \subseteq Cut'
<1>1. up \in [Dials -> Pipe] /\ down \in [Dials -> Pipe]
  BY DEF EmbeddedInv, EmbeddedTypes
<1>2. /\ up' \in [Dials -> Pipe] /\ down' \in [Dials -> Pipe]
      /\ \A d \in ds : /\ up'[d].closed = TRUE /\ up'[d].waiting = FALSE
                       /\ down'[d].closed = TRUE /\ down'[d].waiting = FALSE
                       /\ down'[d].buf = down[d].buf
      /\ \A d \in Dials \ ds : up'[d] = up[d] /\ down'[d] = down[d]
  BY <1>1, CloseConnsPipes
<1>3. ASSUME NEW d \in ds
      PROVE  /\ down'[d].buf = down[d].buf
             /\ down[d].closed => down'[d].closed
             /\ down'[d].waiting => down[d].waiting
             /\ up'[d].waiting => up[d].waiting
             /\ d \in Cut'
  BY <1>2 DEF Cut
<1>4. ASSUME NEW d \in Dials \ ds
      PROVE  /\ down'[d].buf = down[d].buf
             /\ down[d].closed => down'[d].closed
             /\ down'[d].waiting => down[d].waiting
             /\ up'[d].waiting => up[d].waiting
             /\ d \in Cut => d \in Cut'
  BY <1>2 DEF Cut
<1>5. Cut \cup ds \subseteq Cut'
  BY <1>3, <1>4 DEF Cut
<1> QED
  BY <1>2, <1>3, <1>4, <1>5

-----------------------------------------------------------------------------
(***************************************************************************)
(* Steps that leave every pipe alone.                                      *)
(***************************************************************************)
LEMMA UserMoves ==
  ASSUME EmbeddedInv, NEW d \in Dials, user' \in [Dials -> User],
         UNCHANGED <<clock, up, down, serverSide, closer>>,
         \A e \in Dials \ {d} : user'[e] = user[e],
         user'[d].got = user[d].got, user'[d].pc # "eof", user[d].pc # "reading"
  PROVE  EmbeddedInv'
<1> USE DEF EmbeddedInv
<1>1. UNCHANGED <<clock, up, down, acceptor, handler, wrote, closer>>
  BY DEF serverSide
<1>2. EmbeddedTypes'
  BY <1>1 DEF EmbeddedTypes
<1>3. SleepersRead'
  BY <1>1 DEF SleepersRead
<1>4. EOFIsFinal'
  BY <1>1 DEF EOFIsFinal
<1>5. NothingLost'
  BY <1>1 DEF NothingLost
<1>6. TrackedOrCut' /\ ClosedTracksNone'
  BY <1>1 DEF TrackedOrCut, ClosedTracksNone, Cut
<1> QED
  BY <1>2, <1>3, <1>4, <1>5, <1>6

LEMMA DialPairInv ==
  ASSUME EmbeddedInv, NEW d \in Dials, DialPair(d)
  PROVE  EmbeddedInv'
<1>1. user \in [Dials -> User] /\ user[d].pc = "none" /\ user' = [user EXCEPT ![d].pc = "dialing"]
  BY DEF DialPair, EmbeddedInv, EmbeddedTypes
<1>2. /\ user' \in [Dials -> User] /\ user'[d].pc = "dialing" /\ user'[d].got = user[d].got
      /\ \A e \in Dials \ {d} : user'[e] = user[e]
  BY <1>1 DEF User
<1> QED
  BY <1>1, <1>2, UserMoves DEF DialPair

LEMMA ReadInv ==
  ASSUME EmbeddedInv, NEW d \in Dials, Read(d)
  PROVE  EmbeddedInv'
<1>1. user \in [Dials -> User] /\ user[d].pc = "idle"
  BY DEF Read, EmbeddedInv, EmbeddedTypes
<1>2. PICK pc \in {"idle", "reading"}, timer \in BOOLEAN :
        user' = [user EXCEPT ![d].pc = pc, ![d].dl = user[d].readDead, ![d].timer = timer]
  BY Zenon DEF Read
<1> DEFINE r == [user[d] EXCEPT !.pc = pc, !.dl = user[d].readDead, !.timer = timer]
<1>3. r \in User /\ r.pc = pc /\ r.got = user[d].got
  BY <1>1 DEF User
<1>4. user' = [user EXCEPT ![d] = r]
  BY <1>1, <1>2
<1>5. /\ user' \in [Dials -> User] /\ user'[d].pc = pc /\ user'[d].got = user[d].got
      /\ \A e \in Dials \ {d} : user'[e] = user[e]
  BY <1>1, <1>3, <1>4
<1> QED
  BY <1>1, <1>5, UserMoves DEF Read

LEMMA AcceptInv ==
  ASSUME EmbeddedInv, NEW d \in Dials, Accept(d)
  PROVE  EmbeddedInv'
<1> USE DEF EmbeddedInv
<1>1. /\ acceptor[d] = "accepting" /\ acceptor' = [acceptor EXCEPT ![d] = "parked"]
      /\ handler' = [handler EXCEPT ![d].pc = "reading"]
      /\ UNCHANGED <<clock, up, down, user, wrote, closer>>
  BY DEF Accept
<1>2. /\ acceptor \in [Dials -> {"none", "accepting", "parked"}]
      /\ handler \in [Dials -> [pc : {"none", "reading", "serving", "closing", "ended"}, batch : Requests]]
  BY DEF EmbeddedTypes
<1>3. /\ acceptor' \in [Dials -> {"none", "accepting", "parked"}]
      /\ handler' \in [Dials -> [pc : {"none", "reading", "serving", "closing", "ended"}, batch : Requests]]
  BY <1>1, <1>2
<1>4. /\ handler'[d].pc = "reading" /\ \A e \in Dials \ {d} : handler'[e] = handler[e]
      /\ \A e \in Dials : acceptor'[e] # "none" => acceptor[e] # "none"
  BY <1>1, <1>2
<1>5. EmbeddedTypes'
  BY <1>1, <1>3 DEF EmbeddedTypes
<1>6. SleepersRead'
  BY <1>1, <1>4 DEF SleepersRead
<1>7. EOFIsFinal' /\ NothingLost'
  BY <1>1 DEF EOFIsFinal, NothingLost
<1>8. TrackedOrCut' /\ ClosedTracksNone'
  BY <1>1, <1>4 DEF TrackedOrCut, ClosedTracksNone, Cut
<1> QED
  BY <1>5, <1>6, <1>7, <1>8

\* inProcessCloser.Close begins, or time passes.
LEMMA CloserStartsInv ==
  ASSUME EmbeddedInv, CloserStarts \/ TimePasses
  PROVE  EmbeddedInv'
<1> USE DEF EmbeddedInv
<1>1. /\ UNCHANGED <<up, down, user, acceptor, handler, wrote>>
      /\ clock' \in {0, 1} /\ closer'.conns = closer.conns
      /\ closer' \in [pc : {"open", "closing", "closed"}, conns : SUBSET Dials]
      /\ closer'.pc = "closed" => closer.pc = "closed"
  BY DEF CloserStarts, TimePasses, serverSide, EmbeddedTypes
<1>2. EmbeddedTypes'
  BY <1>1 DEF EmbeddedTypes
<1>3. SleepersRead'
  BY <1>1 DEF SleepersRead
<1>4. EOFIsFinal' /\ NothingLost'
  BY <1>1 DEF EOFIsFinal, NothingLost
<1>5. TrackedOrCut' /\ ClosedTracksNone'
  BY <1>1 DEF TrackedOrCut, ClosedTracksNone, Cut
<1> QED
  BY <1>2, <1>3, <1>4, <1>5
-----------------------------------------------------------------------------
(***************************************************************************)
(* Steps that close connections.                                           *)
(***************************************************************************)

\* go-redis or the handler closes its end.
LEMMA EndCloses ==
  ASSUME EmbeddedInv, NEW d \in Dials, CloseConns({d}), EmbeddedTypes',
         UNCHANGED <<clock, acceptor, wrote, closer>>,
         \A e \in Dials : /\ user'[e] = user[e] \/ (e = d /\ user[e].pc # "reading" /\ user'[e].pc # "eof")
                          /\ user'[e].got = user[e].got
                          /\ handler'[e] = handler[e] \/ (e = d /\ handler[e].pc # "reading")
  PROVE  EmbeddedInv'
<1> USE DEF EmbeddedInv
<1>1. /\ \A e \in Dials : /\ down'[e].buf = down[e].buf
                          /\ down[e].closed => down'[e].closed
                          /\ down'[e].waiting => down[e].waiting
                          /\ up'[e].waiting => up[e].waiting
      /\ Cut \subseteq Cut'
  BY CloseConnsKeeps
<1>2. SleepersRead'
  BY <1>1 DEF SleepersRead
<1>3. EOFIsFinal'
  BY <1>1 DEF EOFIsFinal
<1>4. NothingLost'
  BY <1>1 DEF NothingLost
<1>5. TrackedOrCut' /\ ClosedTracksNone'
  BY <1>1 DEF TrackedOrCut, ClosedTracksNone
<1> QED
  BY <1>2, <1>3, <1>4, <1>5

LEMMA UserCloseInv ==
  ASSUME EmbeddedInv, NEW d \in Dials, UserClose(d)
  PROVE  EmbeddedInv'
<1>1. /\ user[d].pc # "reading" /\ user' = [user EXCEPT ![d].pc = "closed"] /\ CloseConns({d})
      /\ UNCHANGED <<clock, acceptor, handler, wrote, closer>>
  BY DEF UserClose, serverSide
<1>2. user \in [Dials -> User]
  BY DEF EmbeddedInv, EmbeddedTypes
<1>3. /\ user' \in [Dials -> User] /\ user'[d].pc = "closed" /\ user'[d].got = user[d].got
      /\ \A e \in Dials \ {d} : user'[e] = user[e]
  BY <1>1, <1>2 DEF User
<1>4. up' \in [Dials -> Pipe] /\ down' \in [Dials -> Pipe]
  BY <1>1, CloseConnsKeeps
<1>5. EmbeddedTypes'
  BY <1>1, <1>3, <1>4 DEF EmbeddedInv, EmbeddedTypes
<1>6. \A e \in Dials : /\ user'[e] = user[e] \/ (e = d /\ user[e].pc # "reading" /\ user'[e].pc # "eof")
                       /\ user'[e].got = user[e].got
                       /\ handler'[e] = handler[e]
  BY <1>1, <1>3
<1> QED
  BY <1>1, <1>5, <1>6, EndCloses

LEMMA HandlerEndsInv ==
  ASSUME EmbeddedInv, NEW d \in Dials, HandlerEnds(d)
  PROVE  EmbeddedInv'
<1>1. /\ handler[d].pc # "reading" /\ CloseConns({d})
      /\ handler' = [handler EXCEPT ![d] = [pc |-> "ended", batch |-> << >>]]
      /\ UNCHANGED <<clock, user, acceptor, wrote, closer>>
  BY DEF HandlerEnds, Handle
<1>2. handler \in [Dials -> [pc : {"none", "reading", "serving", "closing", "ended"}, batch : Requests]]
  BY DEF EmbeddedInv, EmbeddedTypes
<1>3. /\ handler' \in [Dials -> [pc : {"none", "reading", "serving", "closing", "ended"}, batch : Requests]]
      /\ \A e \in Dials \ {d} : handler'[e] = handler[e]
  BY <1>1, <1>2 DEF Requests
<1>4. up' \in [Dials -> Pipe] /\ down' \in [Dials -> Pipe]
  BY <1>1, CloseConnsKeeps
<1>5. EmbeddedTypes'
  BY <1>1, <1>3, <1>4 DEF EmbeddedInv, EmbeddedTypes
<1>6. \A e \in Dials : /\ user'[e] = user[e] /\ user'[e].got = user[e].got
                       /\ handler'[e] = handler[e] \/ (e = d /\ handler[e].pc # "reading")
  BY <1>1, <1>3
<1> QED
  BY <1>1, <1>5, <1>6, EndCloses

\* inProcessCloser.Close: a connection leaves conns only closed, and the closer has
\* finished only when conns is empty.
LEMMA CloserSeversInv ==
  ASSUME EmbeddedInv, CloserSevers
  PROVE  EmbeddedInv'
<1> USE DEF EmbeddedInv
<1>1. UNCHANGED <<clock, user, acceptor, handler, wrote>> /\ closer.pc = "closing"
  BY DEF CloserSevers, serverSide
<1>2. closer \in [pc : {"open", "closing", "closed"}, conns : SUBSET Dials]
  BY DEF EmbeddedTypes
<1>3. CASE /\ closer.conns = {} /\ closer' = [closer EXCEPT !.pc = "closed"] /\ UNCHANGED <<up, down>>
  <2>1. /\ closer' \in [pc : {"open", "closing", "closed"}, conns : SUBSET Dials]
        /\ closer'.conns = {}
    BY <1>2, <1>3
  <2>2. EmbeddedTypes'
    BY <1>1, <1>3, <2>1 DEF EmbeddedTypes
  <2>3. SleepersRead'
    BY <1>1, <1>3 DEF SleepersRead
  <2>4. EOFIsFinal' /\ NothingLost'
    BY <1>1, <1>3 DEF EOFIsFinal, NothingLost
  <2>5. TrackedOrCut' /\ ClosedTracksNone'
    BY <1>1, <1>3, <2>1 DEF TrackedOrCut, ClosedTracksNone, Cut
  <2> QED
    BY <2>2, <2>3, <2>4, <2>5
<1>4. ASSUME NEW d \in closer.conns, closer' = [closer EXCEPT !.conns = @ \ {d}], CloseConns({d})
      PROVE  EmbeddedInv'
  <2>1. /\ closer' \in [pc : {"open", "closing", "closed"}, conns : SUBSET Dials]
        /\ closer'.conns = closer.conns \ {d} /\ closer'.pc = "closing" /\ d \in Dials
    BY <1>1, <1>2, <1>4
  <2>2. /\ up' \in [Dials -> Pipe] /\ down' \in [Dials -> Pipe]
        /\ \A e \in Dials : /\ down'[e].buf = down[e].buf
                            /\ down[e].closed => down'[e].closed
                            /\ down'[e].waiting => down[e].waiting
                            /\ up'[e].waiting => up[e].waiting
        /\ Cut \cup {d} \subseteq Cut'
    BY <1>4, <2>1, CloseConnsKeeps
  <2>3. EmbeddedTypes'
    BY <1>1, <2>1, <2>2 DEF EmbeddedTypes
  <2>4. SleepersRead'
    BY <1>1, <2>2 DEF SleepersRead
  <2>5. EOFIsFinal'
    BY <1>1, <2>2 DEF EOFIsFinal
  <2>6. NothingLost'
    BY <1>1, <2>2 DEF NothingLost
  <2>7. TrackedOrCut' /\ ClosedTracksNone'
    BY <1>1, <2>1, <2>2 DEF TrackedOrCut, ClosedTracksNone
  <2> QED
    BY <2>3, <2>4, <2>5, <2>6, <2>7
<1> QED
  BY <1>3, <1>4 DEF CloserSevers

\* track and Close take the same lock: a connection dialed while the closer runs, or
\* after it, is closed by track itself.
LEMMA DialTrackInv ==
  ASSUME EmbeddedInv, NEW d \in Dials, DialTrack(d)
  PROVE  EmbeddedInv'
<1> USE DEF EmbeddedInv
<1>1. /\ user[d].pc = "dialing" /\ user' = [user EXCEPT ![d].pc = "idle"]
      /\ acceptor' = [acceptor EXCEPT ![d] = "accepting"]
      /\ UNCHANGED <<clock, handler, wrote>>
  BY DEF DialTrack
<1>2. /\ user \in [Dials -> User] /\ up \in [Dials -> Pipe] /\ down \in [Dials -> Pipe]
      /\ acceptor \in [Dials -> {"none", "accepting", "parked"}]
      /\ closer \in [pc : {"open", "closing", "closed"}, conns : SUBSET Dials]
  BY DEF EmbeddedTypes
<1>3. /\ user' \in [Dials -> User] /\ user'[d].pc = "idle" /\ user'[d].got = user[d].got
      /\ \A e \in Dials \ {d} : user'[e] = user[e]
  BY <1>1, <1>2, SMTT(20), ZenonT(30) DEF User
<1>4. /\ acceptor' \in [Dials -> {"none", "accepting", "parked"}]
      /\ \A e \in Dials \ {d} : acceptor'[e] = acceptor[e]
  BY <1>1, <1>2
<1>5. /\ up' \in [Dials -> Pipe] /\ down' \in [Dials -> Pipe]
      /\ closer' \in [pc : {"open", "closing", "closed"}, conns : SUBSET Dials]
      /\ closer.conns \subseteq closer'.conns /\ closer'.pc = closer.pc
      /\ closer.pc # "open" => closer'.conns = closer.conns
      /\ \A e \in Dials : /\ down'[e].buf = down[e].buf
                          /\ down[e].closed => down'[e].closed
                          /\ down'[e].waiting => down[e].waiting
                          /\ up'[e].waiting => up[e].waiting
      /\ Cut \subseteq Cut' /\ d \in closer'.conns \cup Cut'
  <2>1. CASE closer.pc = "open"
    <3>1. closer' = [closer EXCEPT !.conns = @ \cup {d}] /\ UNCHANGED <<up, down>>
      BY <2>1 DEF DialTrack, Track
    <3>2. /\ closer' \in [pc : {"open", "closing", "closed"}, conns : SUBSET Dials]
          /\ closer'.conns = closer.conns \cup {d} /\ closer'.pc = closer.pc
      BY <1>2, <3>1
    <3> QED
      BY <1>2, <2>1, <3>1, <3>2 DEF Cut
  <2>2. CASE closer.pc # "open"
    <3>1. CloseConns({d}) /\ UNCHANGED closer
      BY <2>2 DEF DialTrack, Track
    <3> QED
      BY <1>2, <3>1, CloseConnsKeeps
  <2> QED
    BY <2>1, <2>2
<1>6. EmbeddedTypes'
  BY <1>1, <1>3, <1>4, <1>5 DEF EmbeddedTypes
<1>7. SleepersRead'
  BY <1>1, <1>3, <1>5 DEF SleepersRead
<1>8. EOFIsFinal'
  BY <1>1, <1>3, <1>5 DEF EOFIsFinal
<1>9. NothingLost'
  <2>1. \A e \in Dials : user'[e].got = user[e].got
    BY <1>3
  <2> QED
    BY <1>1, <1>5, <2>1 DEF NothingLost
<1>10. TrackedOrCut' /\ ClosedTracksNone'
  BY <1>4, <1>5 DEF TrackedOrCut, ClosedTracksNone
<1> QED
  BY <1>6, <1>7, <1>8, <1>9, <1>10
-----------------------------------------------------------------------------
(***************************************************************************)
(* What SubSeq does to the bytes of a pipe: those read and those left are  *)
(* those that were there.                                                  *)
(***************************************************************************)
LEMMA ConcatRegroups ==
  ASSUME NEW got \in Requests, NEW a \in Requests, NEW b \in Requests
  PROVE  (got \o a) \o b = got \o (a \o b)
  BY ConcatAssociative DEF Requests

LEMMA SplitBytes ==
  ASSUME NEW got \in Requests, NEW buf \in Requests, NEW n \in 1 .. Len(buf)
  PROVE  /\ SubSeq(buf, 1, n) \in Requests /\ SubSeq(buf, n + 1, Len(buf)) \in Requests
         /\ got \o SubSeq(buf, 1, n) \in Requests
         /\ (got \o SubSeq(buf, 1, n)) \o SubSeq(buf, n + 1, Len(buf)) = got \o buf
<1> USE DEF Requests
<1>1. SubSeq(buf, 1, n) \in Requests /\ SubSeq(buf, n + 1, Len(buf)) \in Requests
  <2>1. Len(buf) \in Nat /\ \A i \in 1 .. Len(buf) : buf[i] \in 1 .. MaxRequests
    BY LenProperties, ElementOfSeq
  <2>2. \A i \in 1 .. n : buf[i] \in 1 .. MaxRequests
    BY <2>1
  <2>3. \A i \in n + 1 .. Len(buf) : buf[i] \in 1 .. MaxRequests
    BY <2>1
  <2>4. SubSeq(buf, 1, n) \in Requests
    BY <2>1, <2>2, SubSeqProperties
  <2>5. SubSeq(buf, n + 1, Len(buf)) \in Requests
    BY <2>1, <2>3, SubSeqProperties
  <2> QED
    BY <2>4, <2>5
<1>2. SubSeq(buf, 1, n) \o SubSeq(buf, n + 1, Len(buf)) = buf
  <2>1. /\ Len(buf) \in Nat /\ 1 \in 1 .. Len(buf) + 1
        /\ n \in 1 - 1 .. Len(buf) /\ Len(buf) \in n .. Len(buf)
    OBVIOUS
  <2>2. SubSeq(buf, 1, n) \o SubSeq(buf, n + 1, Len(buf)) = SubSeq(buf, 1, Len(buf))
    BY <2>1, ConcatAdjacentSubSeq
  <2> QED
    BY <2>2, SubSeqFull
<1>3. (got \o SubSeq(buf, 1, n)) \o SubSeq(buf, n + 1, Len(buf))
        = got \o (SubSeq(buf, 1, n) \o SubSeq(buf, n + 1, Len(buf)))
  BY <1>1, ConcatRegroups
<1>4. got \o SubSeq(buf, 1, n) \in Requests
  BY <1>1, ConcatProperties
<1> QED
  BY <1>1, <1>2, <1>3, <1>4

(***************************************************************************)
(* Steps of go-redis's side that write, wake or read.                      *)
(***************************************************************************)
LEMMA SendInv ==
  ASSUME EmbeddedInv, NEW d \in Dials, Send(d)
  PROVE  EmbeddedInv'
<1> USE DEF EmbeddedInv
<1>1. /\ user[d].pc = "idle" /\ user[d].sent < MaxRequests /\ ~up[d].closed
      /\ up' = [up EXCEPT ![d] = pipeWrite(up[d], <<user[d].sent + 1>>)]
      /\ user' = [user EXCEPT ![d].sent = user[d].sent + 1]
      /\ UNCHANGED <<clock, down, acceptor, handler, wrote, closer>>
  BY DEF Send, serverSide
<1>2. user \in [Dials -> User] /\ up \in [Dials -> Pipe]
  BY DEF EmbeddedTypes
<1>a. user[d].sent + 1 \in 0 .. MaxRequests /\ user[d].sent + 1 \in 1 .. MaxRequests
  BY <1>1, <1>2, InProcAssumption DEF User
<1>3. PICK request \in Requests : request = <<user[d].sent + 1>>
  <2>1. \A i \in 1 .. MaxRequests : <<i>> \in Requests
    BY DEF Requests
  <2> QED
    BY <1>a, <2>1
<1>4. /\ user' \in [Dials -> User] /\ user'[d].pc = user[d].pc /\ user'[d].got = user[d].got
      /\ \A e \in Dials \ {d} : user'[e] = user[e]
  BY <1>1, <1>2, <1>a DEF User
<1>5. /\ pipeWrite(up[d], request) \in Pipe
      /\ pipeWrite(up[d], request).closed = up[d].closed
      /\ pipeWrite(up[d], request).waiting => up[d].waiting
  <2>1. up[d] \in Pipe
    BY <1>2
  <2> QED
    BY <2>1, PipeOperations
<1>6. /\ up' \in [Dials -> Pipe]
      /\ \A e \in Dials : (up'[e].waiting => up[e].waiting) /\ up'[e].closed = up[e].closed
  BY <1>1, <1>2, <1>3, <1>5
<1>7. EmbeddedTypes'
  BY <1>1, <1>4, <1>6 DEF EmbeddedTypes
<1>8. SleepersRead'
  BY <1>1, <1>4, <1>6 DEF SleepersRead
<1>9. EOFIsFinal'
  BY <1>1, <1>4 DEF EOFIsFinal
<1>10. NothingLost'
  BY <1>1, <1>4 DEF NothingLost
<1>11. TrackedOrCut' /\ ClosedTracksNone'
  BY <1>1, <1>6 DEF TrackedOrCut, ClosedTracksNone, Cut
<1> QED
  BY <1>7, <1>8, <1>9, <1>10, <1>11

\* A pending Read is woken, by a deadline that is set or by its timer.
LEMMA ReaderWoken ==
  ASSUME EmbeddedInv, NEW d \in Dials, user' \in [Dials -> User],
         down' = [down EXCEPT ![d] = Broadcast(down[d])],
         UNCHANGED <<clock, up, serverSide, closer>>,
         \A e \in Dials : user'[e].pc = user[e].pc /\ user'[e].got = user[e].got
  PROVE  EmbeddedInv'
<1> USE DEF EmbeddedInv
<1>1. UNCHANGED <<clock, up, acceptor, handler, wrote, closer>>
  BY DEF serverSide
<1>2. down \in [Dials -> Pipe] /\ << >> \in Requests
  BY DEF EmbeddedTypes, Requests
<1>3. /\ Broadcast(down[d]) \in Pipe /\ Broadcast(down[d]).buf = down[d].buf
      /\ Broadcast(down[d]).closed = down[d].closed /\ Broadcast(down[d]).waiting = FALSE
  BY <1>2, PipeOperations
<1>4. /\ down' \in [Dials -> Pipe]
      /\ \A e \in Dials : /\ down'[e].buf = down[e].buf /\ down'[e].closed = down[e].closed
                          /\ down'[e].waiting => down[e].waiting
  BY <1>2, <1>3
<1>5. EmbeddedTypes'
  BY <1>1, <1>4 DEF EmbeddedTypes
<1>6. SleepersRead'
  BY <1>1, <1>4 DEF SleepersRead
<1>7. EOFIsFinal'
  BY <1>4 DEF EOFIsFinal
<1>8. NothingLost'
  BY <1>1, <1>4 DEF NothingLost
<1>9. TrackedOrCut' /\ ClosedTracksNone'
  BY <1>1, <1>4 DEF TrackedOrCut, ClosedTracksNone, Cut
<1> QED
  BY <1>5, <1>6, <1>7, <1>8, <1>9

LEMMA SetReadDeadlineInv ==
  ASSUME EmbeddedInv, NEW d \in Dials, SetReadDeadline(d)
  PROVE  EmbeddedInv'
<1>1. PICK t \in {0, 1} : user' = [user EXCEPT ![d].readDead = t]
  BY DEF SetReadDeadline
<1>2. user \in [Dials -> User]
  BY DEF EmbeddedInv, EmbeddedTypes
<1>3. /\ user' \in [Dials -> User]
      /\ \A e \in Dials : user'[e].pc = user[e].pc /\ user'[e].got = user[e].got
  BY <1>1, <1>2 DEF User
<1> QED
  BY <1>3, ReaderWoken DEF SetReadDeadline

LEMMA TimerFiresInv ==
  ASSUME EmbeddedInv, NEW d \in Dials, TimerFires(d)
  PROVE  EmbeddedInv'
<1>1. user \in [Dials -> User] /\ user' = [user EXCEPT ![d].timer = FALSE]
  BY DEF TimerFires, EmbeddedInv, EmbeddedTypes
<1>2. /\ user' \in [Dials -> User]
      /\ \A e \in Dials : user'[e].pc = user[e].pc /\ user'[e].got = user[e].got
  BY <1>1 DEF User
<1> QED
  BY <1>2, ReaderWoken DEF TimerFires
\* Whatever the loop of pipeBuffer.read makes of the connection, when it keeps what is
\* written together and sees EOF only on a closed and empty direction.
LEMMA ReadKeeps ==
  ASSUME EmbeddedInv, NEW d \in Dials, NEW r \in User, NEW q \in Pipe, user[d].pc = "reading",
         user' = [user EXCEPT ![d] = r], down' = [down EXCEPT ![d] = q],
         UNCHANGED <<clock, up, serverSide, closer>>,
         r.got \o q.buf = wrote[d], q.closed = down[d].closed,
         q.waiting => r.pc = "reading", r.pc = "eof" => q.closed /\ q.buf = << >>
  PROVE  EmbeddedInv'
<1> USE DEF EmbeddedInv
<1>1. UNCHANGED <<clock, up, acceptor, handler, wrote, closer>>
  BY DEF serverSide
<1>2. user \in [Dials -> User] /\ down \in [Dials -> Pipe]
  BY DEF EmbeddedTypes
<1>3. /\ user' \in [Dials -> User] /\ down' \in [Dials -> Pipe]
      /\ user'[d] = r /\ down'[d] = q
      /\ \A e \in Dials \ {d} : user'[e] = user[e] /\ down'[e] = down[e]
  BY <1>2
<1>4. EmbeddedTypes'
  BY <1>1, <1>3 DEF EmbeddedTypes
<1>5. SleepersRead'
  BY <1>1, <1>3 DEF SleepersRead
<1>6. EOFIsFinal'
  BY <1>3 DEF EOFIsFinal
<1>7. NothingLost'
  BY <1>1, <1>3 DEF NothingLost
<1>8. TrackedOrCut' /\ ClosedTracksNone'
  <2>1. \A e \in Dials : down'[e].closed = down[e].closed
    BY <1>3
  <2> QED
    BY <1>1, <2>1 DEF TrackedOrCut, ClosedTracksNone, Cut
<1> QED
  BY <1>4, <1>5, <1>6, <1>7, <1>8

\* A Read that returns without bytes.
LEMMA ReadReturnsEmpty ==
  ASSUME EmbeddedInv, NEW d \in Dials, NEW pc \in {"idle", "eof"}, ReadReturns(d, pc, 0),
         user[d].pc = "reading", ~down[d].waiting, UNCHANGED <<clock, up, down, serverSide, closer>>,
         pc = "eof" => down[d].closed /\ down[d].buf = << >>
  PROVE  EmbeddedInv'
<1>1. /\ user \in [Dials -> User] /\ down \in [Dials -> Pipe]
      /\ user[d].got \o down[d].buf = wrote[d]
  BY DEF EmbeddedInv, EmbeddedTypes, NothingLost
<1>2. user[d].got \in Requests /\ down[d].buf \in Requests /\ down[d] \in Pipe
  BY <1>1 DEF User, Pipe
<1>3. user[d].got \o SubSeq(down[d].buf, 1, 0) = user[d].got
  <2>1. SubSeq(down[d].buf, 1, 0) = << >>
    BY SubSeqEmpty
  <2> QED
    BY <1>2, <2>1, ConcatEmptySeq DEF Requests
<1> DEFINE r == [user[d] EXCEPT !.pc = pc, !.timer = FALSE, !.dl = 0]
<1>4. r \in User /\ r.pc = pc /\ r.got = user[d].got
  BY <1>1 DEF User
<1>5. user' = [user EXCEPT ![d].pc = pc, ![d].timer = FALSE, ![d].dl = 0, ![d].got = user[d].got]
  BY <1>3 DEF ReadReturns
<1>6. user' = [user EXCEPT ![d] = r]
  BY <1>1, <1>5 DEF User
<1>7. down' = [down EXCEPT ![d] = down[d]]
  BY <1>1
<1> HIDE DEF r
<1> QED
  BY <1>1, <1>2, <1>4, <1>6, <1>7, ReadKeeps

\* The Read takes what there is, sees EOF, finds its deadline passed, or sleeps.
LEMMA ReadLoopInv ==
  ASSUME EmbeddedInv, NEW d \in Dials, ReadLoop(d)
  PROVE  EmbeddedInv'
<1>1. user[d].pc = "reading" /\ ~down[d].waiting /\ UNCHANGED <<clock, up, serverSide, closer>>
  BY DEF ReadLoop
<1>2. /\ user \in [Dials -> User] /\ down \in [Dials -> Pipe]
      /\ user[d].got \o down[d].buf = wrote[d]
  BY DEF EmbeddedInv, EmbeddedTypes, NothingLost
<1>3. /\ user[d].got \in Requests /\ down[d].buf \in Requests
      /\ user[d] \in User /\ down[d] \in Pipe
  BY <1>2 DEF User, Pipe
<1>4. ASSUME NEW n \in 1 .. Len(down[d].buf), ReadReturns(d, "idle", n),
             down' = [down EXCEPT ![d].buf = SubSeq(@, n + 1, Len(@))]
      PROVE  EmbeddedInv'
  <2>1. PICK got \in Requests, buf \in Requests :
          /\ got = user[d].got \o SubSeq(down[d].buf, 1, n)
          /\ buf = SubSeq(down[d].buf, n + 1, Len(down[d].buf))
          /\ got \o buf = wrote[d]
    <3>1. /\ SubSeq(down[d].buf, n + 1, Len(down[d].buf)) \in Requests
          /\ user[d].got \o SubSeq(down[d].buf, 1, n) \in Requests
          /\ (user[d].got \o SubSeq(down[d].buf, 1, n)) \o SubSeq(down[d].buf, n + 1, Len(down[d].buf))
               = user[d].got \o down[d].buf
      BY <1>3, SplitBytes
    <3> QED
      BY <1>2, <3>1, Zenon
  <2> DEFINE r == [user[d] EXCEPT !.pc = "idle", !.timer = FALSE, !.dl = 0, !.got = got]
             q == [down[d] EXCEPT !.buf = buf]
  <2>2. r \in User /\ r.pc = "idle" /\ r.got = got
    BY <1>3 DEF User
  <2>3. q \in Pipe /\ q.buf = buf /\ q.closed = down[d].closed /\ q.waiting = down[d].waiting
    BY <1>3 DEF Pipe
  <2>4. user' = [user EXCEPT ![d].pc = "idle", ![d].timer = FALSE, ![d].dl = 0, ![d].got = got]
    BY <1>4, <2>1 DEF ReadReturns
  <2>5. user' = [user EXCEPT ![d] = r]
    BY <1>2, <2>4 DEF User
  <2>6. down' = [down EXCEPT ![d] = q]
    BY <1>2, <1>4, <2>1 DEF Pipe
  <2> HIDE DEF r, q
  <2> QED
    BY <1>1, <2>1, <2>2, <2>3, <2>5, <2>6, ReadKeeps
<1>5. CASE down' = [down EXCEPT ![d].waiting = TRUE] /\ UNCHANGED user
  <2> DEFINE q == [down[d] EXCEPT !.waiting = TRUE]
  <2>1. q \in Pipe /\ q.buf = down[d].buf /\ q.closed = down[d].closed
    BY <1>3 DEF Pipe
  <2>2. user' = [user EXCEPT ![d] = user[d]] /\ down' = [down EXCEPT ![d] = q]
    BY <1>2, <1>5
  <2> HIDE DEF q
  <2> QED
    BY <1>1, <1>2, <1>3, <2>1, <2>2, ReadKeeps
<1>6. CASE down[d].closed /\ down[d].buf = << >> /\ ReadReturns(d, "eof", 0) /\ UNCHANGED down
  BY <1>1, <1>6, ReadReturnsEmpty
<1>7. CASE ReadReturns(d, "idle", 0) /\ UNCHANGED down
  BY <1>1, <1>7, ReadReturnsEmpty
<1> QED
  BY <1>4, <1>5, <1>6, <1>7 DEF ReadLoop
-----------------------------------------------------------------------------
(***************************************************************************)
(* redcon's handler.                                                       *)
(***************************************************************************)
HandlerTypes == [pc : {"none", "reading", "serving", "closing", "ended"}, batch : Requests]

\* Whatever redcon's read makes of the connection, when the handler sleeps only to read.
LEMMA HandlerKeeps ==
  ASSUME EmbeddedInv, NEW d \in Dials, NEW h \in HandlerTypes, NEW q \in Pipe,
         handler' = [handler EXCEPT ![d] = h], up' = [up EXCEPT ![d] = q],
         UNCHANGED <<clock, down, user, acceptor, wrote, closer>>,
         q.closed = up[d].closed, q.waiting => h.pc = "reading"
  PROVE  EmbeddedInv'
<1> USE DEF EmbeddedInv
<1>1. handler \in [Dials -> HandlerTypes] /\ up \in [Dials -> Pipe]
  BY DEF EmbeddedTypes, HandlerTypes
<1>2. /\ handler' \in [Dials -> HandlerTypes] /\ up' \in [Dials -> Pipe]
      /\ handler'[d] = h /\ up'[d] = q
      /\ \A e \in Dials \ {d} : handler'[e] = handler[e] /\ up'[e] = up[e]
  BY <1>1
<1>3. EmbeddedTypes'
  BY <1>2 DEF EmbeddedTypes, HandlerTypes
<1>4. SleepersRead'
  BY <1>2 DEF SleepersRead
<1>5. EOFIsFinal' /\ NothingLost'
  BY DEF EOFIsFinal, NothingLost
<1>6. TrackedOrCut' /\ ClosedTracksNone'
  <2>1. \A e \in Dials : up'[e].closed = up[e].closed
    BY <1>2
  <2> QED
    BY <2>1 DEF TrackedOrCut, ClosedTracksNone, Cut
<1> QED
  BY <1>3, <1>4, <1>5, <1>6

\* The handler reads what there is, sees EOF, or sleeps.
LEMMA HandlerReadInv ==
  ASSUME EmbeddedInv, NEW d \in Dials, HandlerRead(d)
  PROVE  EmbeddedInv'
<1>1. /\ handler[d].pc = "reading" /\ ~up[d].waiting
      /\ UNCHANGED <<clock, down, user, acceptor, wrote, closer>>
  BY DEF HandlerRead
<1>2. /\ handler \in [Dials -> HandlerTypes] /\ up \in [Dials -> Pipe]
      /\ handler[d] \in HandlerTypes /\ up[d] \in Pipe /\ up[d].buf \in Requests
  BY DEF EmbeddedInv, EmbeddedTypes, HandlerTypes, Pipe
<1>3. ASSUME NEW n \in 1 .. Len(up[d].buf), Handle(d, "serving", SubSeq(up[d].buf, 1, n)),
             up' = [up EXCEPT ![d].buf = SubSeq(@, n + 1, Len(@))]
      PROVE  EmbeddedInv'
  <2>1. PICK batch \in Requests, buf \in Requests :
          batch = SubSeq(up[d].buf, 1, n) /\ buf = SubSeq(up[d].buf, n + 1, Len(up[d].buf))
    <3>1. /\ SubSeq(up[d].buf, n + 1, Len(up[d].buf)) \in Requests
          /\ SubSeq(up[d].buf, 1, n) \in Requests
      BY <1>2, SplitBytes
    <3> QED
      BY <3>1, Zenon
  <2> DEFINE h == [pc |-> "serving", batch |-> batch]
             q == [up[d] EXCEPT !.buf = buf]
  <2>2. h \in HandlerTypes
    BY DEF HandlerTypes
  <2>3. q \in Pipe /\ q.closed = up[d].closed /\ q.waiting = up[d].waiting
    BY <1>2 DEF Pipe
  <2>4. handler' = [handler EXCEPT ![d] = h] /\ up' = [up EXCEPT ![d] = q]
    BY <1>2, <1>3, <2>1 DEF Handle, Pipe
  <2> HIDE DEF h, q
  <2> QED
    BY <1>1, <2>2, <2>3, <2>4, HandlerKeeps
<1>4. CASE Handle(d, "closing", << >>) /\ UNCHANGED up
  <2> DEFINE h == [pc |-> "closing", batch |-> << >>]
  <2>1. h \in HandlerTypes
    BY DEF HandlerTypes, Requests
  <2>2. handler' = [handler EXCEPT ![d] = h] /\ up' = [up EXCEPT ![d] = up[d]]
    BY <1>2, <1>4 DEF Handle
  <2> HIDE DEF h
  <2> QED
    BY <1>1, <1>2, <2>1, <2>2, HandlerKeeps
<1>5. CASE up' = [up EXCEPT ![d].waiting = TRUE] /\ UNCHANGED handler
  <2> DEFINE q == [up[d] EXCEPT !.waiting = TRUE]
  <2>1. q \in Pipe /\ q.closed = up[d].closed
    BY <1>2 DEF Pipe
  <2>2. handler' = [handler EXCEPT ![d] = handler[d]] /\ up' = [up EXCEPT ![d] = q]
    BY <1>2, <1>5
  <2> HIDE DEF q
  <2> QED
    BY <1>1, <1>2, <2>1, <2>2, HandlerKeeps
<1> QED
  BY <1>3, <1>4, <1>5 DEF HandlerRead

\* The replies of a batch go to the client's direction, unless it is closed: then the
\* Write fails and none of them counts as written.
LEMMA HandlerWriteInv ==
  ASSUME EmbeddedInv, NEW d \in Dials, HandlerWrite(d)
  PROVE  EmbeddedInv'
<1>1. handler[d].pc = "serving" /\ UNCHANGED <<clock, up, user, acceptor, closer>>
  BY DEF HandlerWrite
<1>2. /\ handler \in [Dials -> HandlerTypes] /\ down \in [Dials -> Pipe] /\ wrote \in [Dials -> Requests]
      /\ up \in [Dials -> Pipe] /\ user \in [Dials -> User]
      /\ user[d].got \o down[d].buf = wrote[d] /\ handler[d].batch \in Requests
      /\ up[d] \in Pipe /\ down[d] \in Pipe /\ down[d].buf \in Requests /\ user[d].got \in Requests
  BY DEF EmbeddedInv, EmbeddedTypes, HandlerTypes, Pipe, User, NothingLost
<1>3. CASE down[d].closed
  <2> DEFINE h == [pc |-> "closing", batch |-> << >>]
  <2>1. h \in HandlerTypes
    BY DEF HandlerTypes, Requests
  <2>2. /\ handler' = [handler EXCEPT ![d] = h] /\ up' = [up EXCEPT ![d] = up[d]]
        /\ UNCHANGED <<down, wrote>>
    BY <1>1, <1>2, <1>3 DEF HandlerWrite, Handle
  <2>3. up[d].waiting => h.pc = "reading"
    BY <1>1 DEF EmbeddedInv, SleepersRead
  <2> HIDE DEF h
  <2> QED
    BY <1>1, <1>2, <2>1, <2>2, <2>3, HandlerKeeps
<1>4. CASE ~down[d].closed
  <2> USE DEF EmbeddedInv
  <2>a. PICK batch \in Requests : batch = handler[d].batch
    BY <1>2, Zenon
  <2>b. PICK q \in Pipe : /\ q = pipeWrite(down[d], batch)
                          /\ q.closed = down[d].closed /\ q.buf = down[d].buf \o batch
                          /\ q.waiting => down[d].waiting
    <3>1. /\ pipeWrite(down[d], batch) \in Pipe
          /\ pipeWrite(down[d], batch).closed = down[d].closed
          /\ pipeWrite(down[d], batch).waiting => down[d].waiting
      BY <1>2, PipeOperations
    <3>2. pipeWrite(down[d], batch).buf = down[d].buf \o batch
      BY <1>2, <1>4, WriteAppends
    <3> QED
      BY <3>1, <3>2
  <2>1. /\ handler' = [handler EXCEPT ![d] = [pc |-> "reading", batch |-> << >>]]
        /\ down' = [down EXCEPT ![d] = q]
        /\ wrote' = [wrote EXCEPT ![d] = wrote[d] \o batch]
    BY <1>4, <2>a, <2>b DEF HandlerWrite, Handle
  <2>3. user[d].got \o q.buf = wrote[d] \o batch
    <3>1. /\ user[d].got \in Requests /\ down[d].buf \in Requests
          /\ user[d].got \o down[d].buf = wrote[d]
      BY <1>2
    <3>2. (user[d].got \o down[d].buf) \o batch = user[d].got \o (down[d].buf \o batch)
      BY <3>1, ConcatRegroups, Zenon
    <3> QED
      BY <2>b, <3>1, <3>2
  <2>4. wrote[d] \o batch \in Requests
    BY <1>2, ConcatProperties DEF Requests
  <2>5. /\ handler' \in [Dials -> HandlerTypes] /\ down' \in [Dials -> Pipe] /\ wrote' \in [Dials -> Requests]
        /\ handler'[d].pc = "reading" /\ down'[d] = q /\ wrote'[d] = wrote[d] \o batch
        /\ \A e \in Dials \ {d} : handler'[e] = handler[e] /\ down'[e] = down[e] /\ wrote'[e] = wrote[e]
    <3>1. [pc |-> "reading", batch |-> << >>] \in HandlerTypes
      BY DEF HandlerTypes, Requests
    <3> QED
      BY <1>2, <2>1, <2>4, <3>1
  <2>6. EmbeddedTypes'
    BY <1>1, <2>5 DEF EmbeddedTypes, HandlerTypes
  <2>7. SleepersRead'
    BY <1>1, <2>b, <2>5 DEF SleepersRead
  <2>8. EOFIsFinal'
    BY <1>1, <1>4, <2>5 DEF EOFIsFinal
  <2>9. NothingLost'
    BY <1>1, <2>3, <2>5 DEF NothingLost
  <2>10. TrackedOrCut' /\ ClosedTracksNone'
    <3>1. \A e \in Dials : down'[e].closed = down[e].closed
      BY <2>b, <2>5
    <3> QED
      BY <1>1, <3>1 DEF TrackedOrCut, ClosedTracksNone, Cut
  <2> QED
    BY <2>6, <2>7, <2>8, <2>9, <2>10
<1> QED
  BY <1>3, <1>4

-----------------------------------------------------------------------------
LEMMA EmbeddedStep ==
  ASSUME EmbeddedInv, [EmbeddedNext]_embeddedVars
  PROVE  EmbeddedInv'
<1>1. ASSUME NEW d \in Dials, DialPair(d) \/ DialTrack(d) \/ UserClose(d) \/ Serving(d)
      PROVE  EmbeddedInv'
  BY <1>1, DialPairInv, DialTrackInv, UserCloseInv, AcceptInv, HandlerReadInv, HandlerWriteInv,
     HandlerEndsInv DEF Serving
<1>2. ASSUME NEW d \in Talkers, Talk(d)
      PROVE  EmbeddedInv'
  <2>1. d \in Dials
    BY InProcAssumption
  <2> QED
    BY <1>2, <2>1, SendInv, ReadInv, ReadLoopInv, TimerFiresInv, SetReadDeadlineInv DEF Talk
<1>3. CASE CloserStarts \/ CloserSevers \/ TimePasses
  BY <1>3, CloserStartsInv, CloserSeversInv
<1>4. CASE UNCHANGED embeddedVars
  <2>1. UNCHANGED <<clock, up, down, user, acceptor, handler, wrote, closer>>
    BY <1>4 DEF embeddedVars
  <2>2. EmbeddedTypes' /\ SleepersRead' /\ EOFIsFinal' /\ NothingLost'
    BY <2>1 DEF EmbeddedInv, EmbeddedTypes, SleepersRead, EOFIsFinal, NothingLost
  <2>3. TrackedOrCut' /\ ClosedTracksNone'
    BY <2>1 DEF EmbeddedInv, TrackedOrCut, ClosedTracksNone, Cut
  <2> QED
    BY <2>2, <2>3 DEF EmbeddedInv
<1> QED
  BY <1>1, <1>2, <1>3, <1>4 DEF EmbeddedNext, EmbeddedExited

\* What EmbeddedInv says of the properties.
LEMMA EmbeddedInvTypes == EmbeddedInv => EmbeddedTypeOK
<1> SUFFICES ASSUME EmbeddedInv PROVE EmbeddedTypeOK
  OBVIOUS
<1>1. ASSUME NEW d \in Dials
      PROVE  /\ PipeOK(up[d]) /\ PipeOK(down[d])
             /\ user[d].pc \in {"none", "dialing", "idle", "reading", "eof", "closed"}
             /\ user[d].sent \in 0 .. MaxRequests
             /\ acceptor[d] \in {"none", "accepting", "parked"}
             /\ handler[d].pc \in {"none", "reading", "serving", "closing", "ended"}
  BY DEF EmbeddedInv, EmbeddedTypes, Pipe, Requests, User, PipeOK
<1>2. ASSUME NEW d \in Dials
      PROVE  /\ down[d].waiting => user[d].pc = "reading"
             /\ up[d].waiting => handler[d].pc = "reading"
  BY DEF EmbeddedInv, SleepersRead
<1>3. clock \in {0, 1} /\ closer.pc \in {"open", "closing", "closed"} /\ closer.conns \subseteq Dials
  BY DEF EmbeddedInv, EmbeddedTypes
<1> QED
  BY <1>1, <1>2, <1>3 DEF EmbeddedTypeOK

LEMMA EmbeddedInvReplies == EmbeddedInv => RepliesReadBeforeEOF
<1> SUFFICES ASSUME EmbeddedInv, NEW d \in Dials
             PROVE  /\ user[d].got \o down[d].buf = wrote[d]
                    /\ user[d].pc = "eof" => user[d].got = wrote[d]
  BY DEF RepliesReadBeforeEOF
<1>1. user[d].got \o down[d].buf = wrote[d]
  BY DEF EmbeddedInv, NothingLost
<1>2. user[d].pc = "eof" => down[d].buf = << >>
  BY DEF EmbeddedInv, EOFIsFinal
<1>3. user[d].got \in Requests
  BY DEF EmbeddedInv, EmbeddedTypes, User
<1>4. user[d].got \o << >> = user[d].got
  BY <1>3, ConcatEmptySeq DEF Requests
<1> QED
  BY <1>1, <1>2, <1>4

LEMMA EmbeddedInvSevered == EmbeddedInv => Severed
  BY DEF EmbeddedInv, TrackedOrCut, ClosedTracksNone, Cut, Severed

(***************************************************************************)
(* The theorems about the embedded client.                                 *)
(***************************************************************************)
LEMMA EmbeddedInvariance == EmbeddedSpec => []EmbeddedInv
<1> QED
  BY EmbeddedInitInv, EmbeddedStep, PTL DEF EmbeddedSpec

\* pipeBuffer.read and Broadcast: every variable keeps its type, and only a reader in
\* its loop sleeps on a pipe.
THEOREM EmbeddedTypeCorrect == EmbeddedSpec => []EmbeddedTypeOK
<1> QED
  BY EmbeddedInvTypes, EmbeddedInvariance, PTL

\* pipeBuffer.close: every reply whose Write was accepted is read, in order, before the
\* client sees EOF, whoever closes the connection and whenever.
THEOREM RepliesKept == EmbeddedSpec => []RepliesReadBeforeEOF
<1> QED
  BY EmbeddedInvReplies, EmbeddedInvariance, PTL

\* inProcessCloser.track and Close: once Close has returned every dialed connection is
\* closed, those tracked while it ran included.
THEOREM CloseSevers == EmbeddedSpec => []Severed
<1> QED
  BY EmbeddedInvSevered, EmbeddedInvariance, PTL

-----------------------------------------------------------------------------
LifecycleInv == deployment \in {"server", "embedded"} /\ Inv /\ EmbeddedInv

LEMMA LifecycleInitInv == LifecycleInit => LifecycleInv
  BY InitInv, EmbeddedInitInv DEF LifecycleInit, LifecycleInv

LEMMA LifecycleStep ==
  ASSUME LifecycleInv, [LifecycleNext]_lifecycleVars
  PROVE  LifecycleInv'
<1>1. UNCHANGED deployment /\ [Next]_vars /\ [EmbeddedNext]_embeddedVars
  BY DEF LifecycleNext, lifecycleVars
<1> QED
  BY <1>1, StepInv, EmbeddedStep DEF LifecycleInv

LEMMA LifecycleInvariance == LifecycleSpec => []LifecycleInv
<1> QED
  BY LifecycleInitInv, LifecycleStep, PTL DEF LifecycleSpec

(***************************************************************************)
(* The theorems about a process.                                           *)
(***************************************************************************)

\* Whichever deployment runs, every variable keeps its type, the deleter's queue stays
\* within its capacity, and only a reader in its loop sleeps on a pipe.
THEOREM LifecycleTypeCorrect == LifecycleSpec => []LifecycleTypeOK
<1>1. LifecycleInv => LifecycleTypeOK
  BY EmbeddedInvTypes DEF LifecycleInv, LifecycleTypeOK, Inv
<1> QED
  BY <1>1, LifecycleInvariance, PTL

\* Drain, then Stop, in run of the TCP server: no reclaim is lost by an exit whose Drain
\* did not give up, and no command runs once such a Drain has returned.
THEOREM ServerStopsCleanly == LifecycleSpec => [](NoReclaimLost /\ QuietAfterDrain)
<1>1. LifecycleInv => NoReclaimLost /\ QuietAfterDrain
  BY InvReclaims DEF LifecycleInv, Inv
<1> QED
  BY <1>1, LifecycleInvariance, PTL

\* The embedded client's transport: replies are read in order before EOF, and Close of
\* the closer leaves no dialed connection open.
THEOREM EmbeddedStopsCleanly == LifecycleSpec => [](RepliesReadBeforeEOF /\ Severed)
<1>1. LifecycleInv => RepliesReadBeforeEOF /\ Severed
  BY EmbeddedInvReplies, EmbeddedInvSevered DEF LifecycleInv
<1> QED
  BY <1>1, LifecycleInvariance, PTL
=============================================================================
