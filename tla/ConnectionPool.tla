--------------------------- MODULE ConnectionPool ---------------------------
(***************************************************************************)
(* The explicit connection pool of the Azure SQL repositories, class       *)
(* ConnectionPool of app/repositories/sql_repository.py, together with the *)
(* two ways the repositories use it: _CursorCtx (one cursor on one         *)
(* connection) and the transaction of ingest_order.                        *)
(*                                                                         *)
(* Threads are the API's worker threads.  None of them ever holds two      *)
(* connections: get_summary leaves its first cursor before _roles opens    *)
(* the second.  A connection is a model value; the pool counts them in     *)
(* _created and never knows which ones are out.                            *)
(*                                                                         *)
(* Abstracted: what runs on a connection, the checkout statistics, and the *)
(* length of the 30 s timeout (a waiter may time out at any moment at      *)
(* which the queue is empty, as queue.Queue.get does).                     *)
(***************************************************************************)
EXTENDS Integers, Sequences, FiniteSets, Functions

CONSTANTS
  Threads,      \* the worker threads
  Conns,        \* identities of connections; an identity is reused once closed
  Size,         \* ConnectionPool.size
  NoThread,     \* self._lock is free
  NoConn        \* the thread holds no connection

ASSUME PoolAssumption ==
  /\ IsFiniteSet(Threads)
  /\ Size \in Nat \ {0}
  /\ NoThread \notin Threads
  /\ NoConn \notin Conns

VARIABLES
  idle,         \* self._pool, a LIFO queue: the head is the next one handed out
  created,      \* self._created
  lock,         \* the holder of self._lock across a blocking call, or NoThread
  pc,           \* where each thread is in acquire or release
  held,         \* the connection each thread holds, or NoConn
  lost,         \* how many slots of _created stand for no connection (history)
  phase         \* the repository is serving, inside close(), or past it

vars == <<idle, created, lock, pc, held, lost, phase>>

PCs == {"out",          \* not using the pool
        "locking",      \* get_nowait raised Empty; about to take the lock
        "connecting",   \* holds the lock, inside _new()
        "waiting",      \* inside self._pool.get(timeout)
        "using",        \* holds a connection
        "closing"}      \* gave the slot back, inside conn.close()

At(l) == {t \in Threads : pc[t] = l}

\* Connections that exist and have not been closed.
Open == Range(idle) \cup {held[t] : t \in {u \in Threads : held[u] # NoConn}}

Init ==
  /\ idle = <<>>
  /\ created = 0
  /\ lock = NoThread
  /\ pc = [t \in Threads |-> "out"]
  /\ held = [t \in Threads |-> NoConn]
  /\ lost = 0
  /\ phase = "serving"

----------------------------------------------------------------------------
(* acquire                                                                 *)

Goto(t, l) == pc' = [pc EXCEPT ![t] = l]

QueueAfterPeek == idle    \* mutant: the connection is read, not removed

QueueAfterGet == Tail(idle)

\* Take the top of the queue: get_nowait, or the get of a waiter it wakes.
Pop(t) ==
  /\ idle # <<>>
  /\ idle' = QueueAfterGet
  /\ held' = [held EXCEPT ![t] = Head(idle)]
  /\ Goto(t, "using")
  /\ UNCHANGED <<created, lock, lost, phase>>

AcquireIdle(t) ==
  /\ phase = "serving"
  /\ pc[t] = "out"
  /\ Pop(t)

AcquireEmpty(t) ==
  /\ phase = "serving"
  /\ pc[t] = "out"
  /\ idle = <<>>
  /\ Goto(t, "locking")
  /\ UNCHANGED <<idle, created, lock, held, lost, phase>>

OneSlotMore == created <= Size    \* mutant: the bound is off by one

SlotFree == created < Size

\* Under the lock, a free slot is counted first and _new() runs second, with
\* the lock still held.
Reserve(t) ==
  /\ pc[t] = "locking"
  /\ lock = NoThread
  /\ SlotFree
  /\ created' = created + 1
  /\ lock' = t
  /\ Goto(t, "connecting")
  /\ UNCHANGED <<idle, held, lost, phase>>

\* No free slot: the lock is dropped and the thread waits on the queue.
MustWait(t) ==
  /\ pc[t] = "locking"
  /\ lock = NoThread
  /\ ~SlotFree
  /\ Goto(t, "waiting")
  /\ UNCHANGED <<idle, created, lock, held, lost, phase>>

Connected(t) ==
  /\ pc[t] = "connecting"
  /\ \E c \in Conns \ Open : held' = [held EXCEPT ![t] = c]
  /\ lock' = NoThread
  /\ Goto(t, "using")
  /\ UNCHANGED <<idle, created, lost, phase>>

LockKeptOnError == lock    \* mutant: acquire/release without try/finally

LockOnError == NoThread

\* The token request or pyodbc.connect raises.  The lock is released by the
\* with statement; _created keeps the slot.
ConnectFails(t) ==
  /\ pc[t] = "connecting"
  /\ lock' = LockOnError
  /\ lost' = lost + 1
  /\ Goto(t, "out")
  /\ UNCHANGED <<idle, created, held, phase>>

WaiterServed(t) ==
  /\ pc[t] = "waiting"
  /\ Pop(t)

\* Queue.get raises Empty at its deadline, and only if the queue is empty.
WaitTimesOut(t) ==
  /\ pc[t] = "waiting"
  /\ idle = <<>>
  /\ Goto(t, "out")
  /\ UNCHANGED <<idle, created, lock, held, lost, phase>>

----------------------------------------------------------------------------
(* release                                                                 *)

\* release(conn): put_nowait; were the queue full, the connection would be
\* closed and its slot given back.
ReleaseGood(t) ==
  /\ pc[t] = "using"
  /\ IF Len(idle) < Size
       THEN /\ idle' = <<held[t]>> \o idle
            /\ UNCHANGED created
       ELSE /\ lock = NoThread
            /\ created' = created - 1
            /\ UNCHANGED idle
  /\ held' = [held EXCEPT ![t] = NoConn]
  /\ Goto(t, "out")
  /\ UNCHANGED <<lock, lost, phase>>

SlotsKeptOnBroken == created    \* mutant: the decrement is forgotten

SlotsAfterBroken == created - 1

\* release(conn, broken=True): the slot is given back before conn.close(), and
\* no waiter is told.
ReleaseBroken(t) ==
  /\ pc[t] = "using"
  /\ lock = NoThread
  /\ created' = SlotsAfterBroken
  /\ Goto(t, "closing")
  /\ UNCHANGED <<idle, lock, held, lost, phase>>

CloseBroken(t) ==
  /\ pc[t] = "closing"
  /\ held' = [held EXCEPT ![t] = NoConn]
  /\ Goto(t, "out")
  /\ UNCHANGED <<idle, created, lock, lost, phase>>

\* release is never reached: conn.cursor() raises inside __enter__, or
\* conn.autocommit = True raises in the finally of ingest_order.  The object
\* is collected, which closes the connection; the slot stays counted.
LeakSlot(t) ==
  /\ pc[t] = "using"
  /\ held' = [held EXCEPT ![t] = NoConn]
  /\ lost' = lost + 1
  /\ Goto(t, "out")
  /\ UNCHANGED <<idle, created, lock, phase>>

----------------------------------------------------------------------------
(* close, when the application stops serving                               *)

CloseBegins ==
  /\ phase = "serving"
  /\ At("out") = Threads
  /\ phase' = "closing"
  /\ UNCHANGED <<idle, created, lock, pc, held, lost>>

\* Each round of the loop takes one connection off the queue and closes it; its
\* slot stays counted.  The loop is left at the first exception: at the Empty
\* of get_nowait, or where close() of a connection raises (the object is then
\* collected), and then the connections still in the queue stay open.
CloseOne ==
  /\ phase = "closing"
  /\ idle # <<>>
  /\ idle' = Tail(idle)
  /\ lost' = lost + 1
  /\ UNCHANGED <<created, lock, pc, held>>

CloseNext ==
  /\ CloseOne
  /\ UNCHANGED phase

CloseRaises ==
  /\ CloseOne
  /\ phase' = "closed"

CloseEnds ==
  /\ phase = "closing"
  /\ idle = <<>>
  /\ phase' = "closed"
  /\ UNCHANGED <<idle, created, lock, pc, held, lost>>

----------------------------------------------------------------------------

\* What a thread does once it is inside acquire or release: the code and the
\* services it calls finish every one of these.
Progress(t) ==
  \/ Reserve(t)
  \/ MustWait(t)
  \/ Connected(t)
  \/ ConnectFails(t)
  \/ WaiterServed(t)
  \/ WaitTimesOut(t)
  \/ ReleaseGood(t)
  \/ ReleaseBroken(t)
  \/ CloseBroken(t)
  \/ LeakSlot(t)

Next ==
  \/ \E t \in Threads : AcquireIdle(t) \/ AcquireEmpty(t) \/ Progress(t)
  \/ CloseBegins
  \/ CloseNext
  \/ CloseRaises
  \/ CloseEnds

Spec == Init /\ [][Next]_vars

\* A thread's calls return.  The lock is a threading.Lock, which promises no
\* order, so a thread that wants it is served under strong fairness only.
FairSpec == Spec /\ \A t \in Threads : SF_vars(Progress(t))

----------------------------------------------------------------------------

TypeOK ==
  /\ idle \in Seq(Conns)
  /\ created \in 0..Size
  /\ lock \in Threads \cup {NoThread}
  /\ pc \in [Threads -> PCs]
  /\ held \in [Threads -> Conns \cup {NoConn}]
  /\ lost \in Nat
  /\ phase \in {"serving", "closing", "closed"}

\* No connection is in the hands of two threads, or of a thread and the queue,
\* or twice in the queue: acquire and release move a connection, they never
\* copy it, even when a connection is being closed as broken.
ExclusiveUse ==
  /\ \A t, u \in Threads : held[t] = held[u] /\ held[t] # NoConn => t = u
  /\ \A i, j \in 1..Len(idle) : idle[i] = idle[j] => i = j
  /\ \A t \in Threads, i \in 1..Len(idle) : held[t] # idle[i]

\* _created is exactly the idle, the used, the one being opened and the lost
\* slots, whatever failed in between: no slot is counted twice or given back
\* twice, so the pool's capacity is Size minus what failures have eaten.
SlotAccounting ==
  created = Len(idle) + Cardinality(At("using")) + Cardinality(At("connecting")) + lost

\* The bound release relies on: a thread that comes back with a connection
\* always finds room in the queue, so put_nowait never raises Full and the
\* except branch of release is dead code.
QueueHasRoom == At("using") # {} => Len(idle) < Size

\* The service sees at most Size connections, plus those a broken release is
\* still closing (their slots are given back before conn.close() returns),
\* while threads find the queue empty at the same moment, connects fail and
\* others come back.
OpenBound == Cardinality(Open) <= Size + Cardinality(At("closing"))

\* Once failures have eaten every slot the pool never serves again: nothing
\* gives a lost slot back, so acquire waits and times out for as long as the
\* process lives.  This is what a failure of _new costs.
DeadPoolStaysDead == [][lost = Size => \A t \in Threads : pc'[t] # "using"]_vars

\* acquire always comes back: a thread that found the queue empty ends up
\* with a connection or with an exception, under every failure, because the
\* lock is given back by every path through _new.
AcquireReturns ==
  \A t \in Threads : pc[t] \in {"locking", "connecting", "waiting"} ~> pc[t] \in {"out", "using"}

=============================================================================
