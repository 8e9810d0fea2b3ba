------------------------------- MODULE InProc -------------------------------
(***************************************************************************)
(* The embedded client's transport: go-redis dials in-memory connections   *)
(* (bufConn), each served by a goroutine that runs redcon's accept loop    *)
(* over a listener with one connection, and by the handler goroutine that  *)
(* loop spawns; the closer severs the server ends.                         *)
(*                                                                         *)
(* A request is its number, and so is its reply.  A direction of a         *)
(* connection is a buffer under a mutex with a condition variable: a Read  *)
(* that finds nothing sleeps (waiting) until a Broadcast wakes it, and     *)
(* then looks again.  Each direction has one reader.                       *)
(*                                                                         *)
(* The names that Shutdown uses too are prefixed with Embedded, because    *)
(* Lifecycle extends both.                                                 *)
(***************************************************************************)
EXTENDS Integers, Sequences

CONSTANTS Dials,       \* bound: connections go-redis will dial
          Talkers,     \* bound: those of them it sends and reads on
          MaxRequests  \* bound: requests per connection

ASSUME InProcAssumption == MaxRequests \in Nat /\ Talkers \subseteq Dials

VARIABLES clock,     \* 0, and 1 once the only deadline there is has come
          up, down,  \* per connection: the bytes to the server, and back
          user,      \* go-redis's side of a connection
          acceptor,  \* redcon.Serve: the goroutine that ServeConn runs on
          handler,   \* redcon's goroutine of the connection
          wrote,     \* the replies the server's Writes have accepted
          closer     \* inProcessCloser

embeddedVars == <<clock, up, down, user, acceptor, handler, wrote, closer>>
serverSide == <<acceptor, handler, wrote>>

NewPipe == [buf |-> <<>>, closed |-> FALSE, waiting |-> FALSE]

EmbeddedInit ==
    /\ clock = 0
    /\ up = [d \in Dials |-> NewPipe] /\ down = [d \in Dials |-> NewPipe]
    /\ user = [d \in Dials |-> [pc |-> "none", sent |-> 0, got |-> <<>>, readDead |-> 0, dl |-> 0, timer |-> FALSE]]
    /\ acceptor = [d \in Dials |-> "none"]
    /\ handler = [d \in Dials |-> [pc |-> "none", batch |-> <<>>]]
    /\ wrote = [d \in Dials |-> <<>>]
    /\ closer = [pc |-> "open", conns |-> {}]

-----------------------------------------------------------------------------
(***************************************************************************)
(* pipeBuffer.                                                             *)
(***************************************************************************)
Broadcast(p) == [p EXCEPT !.waiting = FALSE]

\* A write that signals nobody.
pipeWrite_Silent(p, bytes) == IF p.closed THEN p ELSE [p EXCEPT !.buf = @ \o bytes]

pipeWrite(p, bytes) == IF p.closed THEN p ELSE Broadcast([p EXCEPT !.buf = @ \o bytes])

\* A close that leaves a sleeping reader asleep, and one that drops what is unread.
pipeClose_Silent(p) == [p EXCEPT !.closed = TRUE]
pipeClose_Dropping(p) == [Broadcast(p) EXCEPT !.closed = TRUE, !.buf = <<>>]

pipeClose(p) == [Broadcast(p) EXCEPT !.closed = TRUE]

\* bufConn.Close, of either end: both directions.
CloseConns(ds) ==
    /\ up' = [d \in Dials |-> IF d \in ds THEN pipeClose(up[d]) ELSE up[d]]
    /\ down' = [d \in Dials |-> IF d \in ds THEN pipeClose(down[d]) ELSE down[d]]

Passed(dl) == dl > 0 /\ dl <= clock

-----------------------------------------------------------------------------
(***************************************************************************)
(* The Dialer of NewClient: a pair, track, and a goroutine for ServeConn.  *)
(***************************************************************************)
DialPair(d) ==
    /\ user[d].pc = "none"
    /\ user' = [user EXCEPT ![d].pc = "dialing"]
    /\ UNCHANGED <<clock, up, down, serverSide, closer>>

\* track, and the track that does not look at closed.
Track_Unchecked(d) == closer' = [closer EXCEPT !.conns = @ \cup {d}] /\ UNCHANGED <<up, down>>

Track(d) ==
    IF closer.pc = "open"
      THEN closer' = [closer EXCEPT !.conns = @ \cup {d}] /\ UNCHANGED <<up, down>>
      ELSE CloseConns({d}) /\ UNCHANGED closer

DialTrack(d) ==
    /\ user[d].pc = "dialing"
    /\ user' = [user EXCEPT ![d].pc = "idle"]
    /\ acceptor' = [acceptor EXCEPT ![d] = "accepting"]
    /\ Track(d)
    /\ UNCHANGED <<clock, handler, wrote>>

\* oneShotListener.Accept inside redcon's loop: the first call yields the
\* connection, the second parks until Close of the listener, which only redcon's
\* loop would call, when it has ended.
Accept(d) ==
    /\ acceptor[d] = "accepting"
    /\ acceptor' = [acceptor EXCEPT ![d] = "parked"]
    /\ handler' = [handler EXCEPT ![d].pc = "reading"]
    /\ UNCHANGED <<clock, up, down, user, wrote, closer>>

-----------------------------------------------------------------------------
(***************************************************************************)
(* go-redis: it may write several requests before it reads a reply.        *)
(***************************************************************************)
Send(d) ==
    /\ user[d].pc = "idle" /\ user[d].sent < MaxRequests
    /\ ~up[d].closed
    /\ up' = [up EXCEPT ![d] = pipeWrite(@, <<user[d].sent + 1>>)]
    /\ user' = [user EXCEPT ![d].sent = @ + 1]
    /\ UNCHANGED <<clock, down, serverSide, closer>>

\* From another goroutine too, while a Read is pending: the Read is woken.
SetReadDeadline(d) ==
    /\ user[d].pc \in {"idle", "reading"}
    /\ \E t \in {0, 1} : user' = [user EXCEPT ![d].readDead = t]
    /\ down' = [down EXCEPT ![d] = Broadcast(@)]
    /\ UNCHANGED <<clock, up, serverSide, closer>>

\* A Read that trusts the deadline it is woken by, with no timer of its own.
Read_NoTimer(d) ==
    /\ user[d].pc = "idle"
    /\ user' = [user EXCEPT ![d].pc = IF Passed(user[d].readDead) THEN "idle" ELSE "reading",
                            ![d].dl = user[d].readDead]
    /\ UNCHANGED <<clock, up, down, serverSide, closer>>

\* bufConn.Read: the deadline is read once, and a timer armed for it.
Read(d) ==
    LET dl == user[d].readDead
    IN  /\ user[d].pc = "idle"
        /\ user' = [user EXCEPT ![d].pc = IF Passed(dl) THEN "idle" ELSE "reading",
                                ![d].dl = dl, ![d].timer = dl > 0 /\ ~Passed(dl)]
        /\ UNCHANGED <<clock, up, down, serverSide, closer>>

\* The loop of pipeBuffer.read, for go-redis.
ReadReturns(d, pc, n) ==
    user' = [user EXCEPT ![d].pc = pc, ![d].timer = FALSE, ![d].dl = 0,
                         ![d].got = @ \o SubSeq(down[d].buf, 1, n)]
ReadLoop(d) ==
    LET p == down[d]
    IN  /\ user[d].pc = "reading" /\ ~p.waiting
        /\ IF p.buf # <<>> THEN \E n \in 1 .. Len(p.buf) :
                  ReadReturns(d, "idle", n) /\ down' = [down EXCEPT ![d].buf = SubSeq(@, n + 1, Len(@))]
           ELSE IF p.closed THEN ReadReturns(d, "eof", 0) /\ UNCHANGED down
           ELSE IF Passed(user[d].dl) THEN ReadReturns(d, "idle", 0) /\ UNCHANGED down
           ELSE down' = [down EXCEPT ![d].waiting = TRUE] /\ UNCHANGED user
        /\ UNCHANGED <<clock, up, serverSide, closer>>

\* A timer that ends the Read itself and leaves the waiter behind.
TimerFires_EndsRead(d) ==
    /\ user[d].timer /\ Passed(user[d].dl)
    /\ ReadReturns(d, "idle", 0)
    /\ UNCHANGED <<clock, up, down, serverSide, closer>>

\* The timer only wakes the reader, which finds its deadline passed.
TimerFires(d) ==
    /\ user[d].timer /\ Passed(user[d].dl)
    /\ user' = [user EXCEPT ![d].timer = FALSE]
    /\ down' = [down EXCEPT ![d] = Broadcast(@)]
    /\ UNCHANGED <<clock, up, serverSide, closer>>

\* The pool closes a connection it does not read from, and one that hit EOF.
UserClose(d) ==
    /\ user[d].pc \in {"idle", "eof"}
    /\ user' = [user EXCEPT ![d].pc = "closed"]
    /\ CloseConns({d})
    /\ UNCHANGED <<clock, serverSide, closer>>

-----------------------------------------------------------------------------
(***************************************************************************)
(* redcon's handler of one connection: it reads what is there, dispatches  *)
(* the commands one by one, and writes their replies in one Write.         *)
(***************************************************************************)
Handle(d, pc, batch) == handler' = [handler EXCEPT ![d] = [pc |-> pc, batch |-> batch]]
HandlerRead(d) ==
    LET p == up[d]
    IN  /\ handler[d].pc = "reading" /\ ~p.waiting
        /\ IF p.buf # <<>> THEN \E n \in 1 .. Len(p.buf) :
                  /\ Handle(d, "serving", SubSeq(p.buf, 1, n))
                  /\ up' = [up EXCEPT ![d].buf = SubSeq(@, n + 1, Len(@))]
           ELSE IF p.closed THEN Handle(d, "closing", <<>>) /\ UNCHANGED up
           ELSE up' = [up EXCEPT ![d].waiting = TRUE] /\ UNCHANGED handler
        /\ UNCHANGED <<clock, down, user, acceptor, wrote, closer>>

HandlerWrite(d) ==
    /\ handler[d].pc = "serving"
    /\ IF down[d].closed
         THEN Handle(d, "closing", <<>>) /\ UNCHANGED <<down, wrote>>
         ELSE /\ Handle(d, "reading", <<>>)
              /\ down' = [down EXCEPT ![d] = pipeWrite(@, handler[d].batch)]
              /\ wrote' = [wrote EXCEPT ![d] = @ \o handler[d].batch]
    /\ UNCHANGED <<clock, up, user, acceptor, closer>>

HandlerEnds(d) ==
    /\ handler[d].pc = "closing"
    /\ Handle(d, "ended", <<>>)
    /\ CloseConns({d})
    /\ UNCHANGED <<clock, user, acceptor, wrote, closer>>

-----------------------------------------------------------------------------
\* inProcessCloser.Close: no new connection is tracked, then each is closed.
CloserStarts ==
    /\ closer.pc = "open"
    /\ closer' = [closer EXCEPT !.pc = "closing"]
    /\ UNCHANGED <<clock, up, down, user, serverSide>>
CloserSevers ==
    /\ closer.pc = "closing"
    /\ IF closer.conns = {} THEN closer' = [closer EXCEPT !.pc = "closed"] /\ UNCHANGED <<up, down>>
       ELSE \E d \in closer.conns : closer' = [closer EXCEPT !.conns = @ \ {d}] /\ CloseConns({d})
    /\ UNCHANGED <<clock, user, serverSide>>

TimePasses ==
    /\ clock = 0
    /\ clock' = 1
    /\ UNCHANGED <<up, down, user, serverSide, closer>>

EmbeddedExited == closer.pc = "closed" /\ UNCHANGED embeddedVars

Talk(d) == Send(d) \/ Read(d) \/ ReadLoop(d) \/ TimerFires(d) \/ SetReadDeadline(d)
Serving(d) == Accept(d) \/ HandlerRead(d) \/ HandlerWrite(d) \/ HandlerEnds(d)
EmbeddedNext ==
    \/ \E d \in Dials : DialPair(d) \/ DialTrack(d) \/ UserClose(d) \/ Serving(d)
    \/ \E d \in Talkers : Talk(d)
    \/ CloserStarts \/ CloserSevers
    \/ TimePasses
    \/ EmbeddedExited

\* Goroutines that can run do, and time passes.  Nobody has to dial, send, read
\* or close, but a Close or a dial that has begun goes on.
EmbeddedFairness ==
    /\ \A d \in Dials : /\ WF_embeddedVars(DialTrack(d))
                        /\ WF_embeddedVars(ReadLoop(d)) /\ WF_embeddedVars(TimerFires(d))
                        /\ WF_embeddedVars(Serving(d))
    /\ WF_embeddedVars(CloserSevers)
    /\ WF_embeddedVars(TimePasses)

EmbeddedSpec == EmbeddedInit /\ [][EmbeddedNext]_embeddedVars /\ EmbeddedFairness

-----------------------------------------------------------------------------
PipeOK(p) == p.buf \in Seq(1 .. MaxRequests) /\ p.closed \in BOOLEAN /\ p.waiting \in BOOLEAN

\* Every variable has its type; only a reader in its loop sleeps on a pipe.
EmbeddedTypeOK ==
    /\ clock \in {0, 1}
    /\ \A d \in Dials :
         /\ PipeOK(up[d]) /\ PipeOK(down[d])
         /\ down[d].waiting => user[d].pc = "reading"
         /\ up[d].waiting => handler[d].pc = "reading"
         /\ user[d].pc \in {"none", "dialing", "idle", "reading", "eof", "closed"}
         /\ user[d].sent \in 0 .. MaxRequests
         /\ acceptor[d] \in {"none", "accepting", "parked"}
         /\ handler[d].pc \in {"none", "reading", "serving", "closing", "ended"}
    /\ closer.pc \in {"open", "closing", "closed"} /\ closer.conns \subseteq Dials

\* pipeBuffer.close: "Buffered-but-unread bytes remain readable".  Every reply whose
\* Write was accepted is read, in order, before the client sees EOF, whoever closed
\* the connection and whenever.
RepliesReadBeforeEOF ==
    \A d \in Dials : /\ user[d].got \o down[d].buf = wrote[d]
                     /\ user[d].pc = "eof" => user[d].got = wrote[d]

\* inProcessCloser.track and Close: once Close has returned every connection that was
\* dialed is closed, one that a dial tracked while Close was running included.
Severed ==
    closer.pc = "closed" =>
      \A d \in Dials : acceptor[d] # "none" => up[d].closed /\ down[d].closed

\* bufConn.Write: "a pipelined burst of writes with no concurrent reader cannot
\* deadlock".  What was sent is served, whether or not anyone reads the replies, or
\* the connection is closed.
PipelineIsServed ==
    \A d \in Dials, n \in 1 .. MaxRequests :
      user[d].sent = n /\ acceptor[d] # "none" ~> Len(wrote[d]) >= n \/ down[d].closed

\* pipeBuffer.read: a Read that began with a deadline returns, without any write or
\* close to wake it.
DeadlineEndsRead ==
    \A d \in Dials : user[d].pc = "reading" /\ user[d].dl > 0 ~> user[d].pc # "reading"

\* inProcessCloser.Close: the handler goroutine of every connection ends.
HandlersEnd ==
    closer.pc = "closed" ~> \A d \in Dials : handler[d].pc \in {"none", "ended"}

\* closer.go: "After Close no serving goroutine from this embedding remains"; ServeConn
\* "blocks until conn is closed (by either peer) and then returns".
ServeConnReturns ==
    \A d \in Dials : handler[d].pc = "ended" ~> acceptor[d] # "parked"
=============================================================================
