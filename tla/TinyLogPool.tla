----------------------------- MODULE TinyLogPool -----------------------------
(***************************************************************************)
(* The log pool of src/memdb/tinylog.go.  Three kinds of goroutine share  *)
(* two channels: writeLoop seals the current tiny log on every tick and   *)
(* sends it on writeQueue (capacity 1); each of the logCount dispatchers  *)
(* moves logs from writeQueue to logQueue (capacity poolCapacity) with a  *)
(* non-blocking send; commitLoop takes logs from logQueue and commits     *)
(* them to the WAL (tinyCommit).  close() closes the stop channel: the    *)
(* write loop sends the current log and closes writeQueue, a dispatcher   *)
(* that finds writeQueue closed closes logQueue, and commitLoop drains    *)
(* logQueue until it is closed.  A tiny log is its sequence number.       *)
(***************************************************************************)
EXTENDS Naturals, Sequences, FiniteSets

CONSTANTS
  Dispatchers,   \* the logCount dispatch goroutines
  PoolCapacity,  \* capacity of logQueue (poolCapacity)
  MaxLogs        \* bound on the tiny logs the write ticker seals

ASSUME PoolCapacity \in Nat \ {0} /\ MaxLogs \in Nat \ {0}

VARIABLES
  cur,           \* p.tinyLog: the log currently being filled
  wpc,           \* writeLoop: "loop", "send" (tick taken, sending), "stopSend", "exit"
  writeQueue, wqClosed,
  logQueue, lqClosed,
  dpc,           \* dispatcher: "recv", "hold" (has a log), "wait" (sleeping), "exit"
  held,          \* the log a dispatcher holds
  cpc,           \* commitLoop: "loop", "drain", "exit"
  stop,          \* the stop channel is closed
  committed,     \* logs passed to tinyCommit, in order
  dropped,       \* logs a dispatcher discarded because logQueue was full
  panicked       \* a goroutine closed or sent on a closed channel

vars == <<cur, wpc, writeQueue, wqClosed, logQueue, lqClosed, dpc, held, cpc,
          stop, committed, dropped, panicked>>

LogIds == 1 .. MaxLogs

Init ==
  /\ cur = 1
  /\ wpc = "loop"
  /\ writeQueue = <<>> /\ wqClosed = FALSE
  /\ logQueue = <<>> /\ lqClosed = FALSE
  /\ dpc = [d \in Dispatchers |-> "recv"]
  /\ held = [d \in Dispatchers |-> 0]
  /\ cpc = "loop"
  /\ stop = FALSE
  /\ committed = <<>>
  /\ dropped = {}
  /\ panicked = FALSE

(***************************************************************************)
(* writeLoop.  A tick (when the memory check lets it through) takes p.mu *)
(* and sends the current log; the send blocks while writeQueue is full;  *)
(* then newTinyLog starts the next log.  On stop it sends the current    *)
(* log and closes writeQueue.  Go's select picks either ready case.       *)
(***************************************************************************)
WriteTick ==
  /\ wpc = "loop" /\ cur < MaxLogs
  /\ wpc' = "send"
  /\ UNCHANGED <<cur, writeQueue, wqClosed, logQueue, lqClosed, dpc, held, cpc,
                 stop, committed, dropped, panicked>>

WriteSend ==
  /\ wpc = "send" /\ Len(writeQueue) < 1
  /\ writeQueue' = Append(writeQueue, cur)
  /\ cur' = cur + 1
  /\ wpc' = "loop"
  /\ UNCHANGED <<wqClosed, logQueue, lqClosed, dpc, held, cpc, stop, committed,
                 dropped, panicked>>

WriteStop ==
  /\ wpc = "loop" /\ stop
  /\ wpc' = "stopSend"
  /\ UNCHANGED <<cur, writeQueue, wqClosed, logQueue, lqClosed, dpc, held, cpc,
                 stop, committed, dropped, panicked>>

WriteStopNoFlush ==
  /\ wpc = "stopSend"
  /\ wqClosed' = TRUE
  /\ wpc' = "exit"
  /\ UNCHANGED <<cur, writeQueue, logQueue, lqClosed, dpc, held, cpc, stop,
                 committed, dropped, panicked>>

WriteStopSend ==
  /\ wpc = "stopSend" /\ Len(writeQueue) < 1
  /\ writeQueue' = Append(writeQueue, cur)
  /\ wqClosed' = TRUE
  /\ wpc' = "exit"
  /\ UNCHANGED <<cur, logQueue, lqClosed, dpc, held, cpc, stop, committed,
                 dropped, panicked>>

(***************************************************************************)
(* dispatch.  Receive from writeQueue; when it is closed and empty, close *)
(* logQueue and leave.  A received log goes to logQueue if there is room; *)
(* when logQueue is full the log is left to the GC and the dispatcher     *)
(* sleeps for the timeout.  Closing or sending on a closed channel panics.*)
(***************************************************************************)
DispatchRecv(d) ==
  /\ dpc[d] = "recv" /\ writeQueue # <<>>
  /\ held' = [held EXCEPT ![d] = Head(writeQueue)]
  /\ writeQueue' = Tail(writeQueue)
  /\ dpc' = [dpc EXCEPT ![d] = "hold"]
  /\ UNCHANGED <<cur, wpc, wqClosed, logQueue, lqClosed, cpc, stop, committed,
                 dropped, panicked>>

DispatchClose(d) ==
  /\ dpc[d] = "recv" /\ writeQueue = <<>> /\ wqClosed
  /\ IF lqClosed THEN panicked' = TRUE /\ UNCHANGED <<lqClosed, dpc>>
                 ELSE lqClosed' = TRUE /\ dpc' = [dpc EXCEPT ![d] = "exit"]
                                     /\ UNCHANGED panicked
  /\ UNCHANGED <<cur, wpc, writeQueue, wqClosed, logQueue, held, cpc, stop,
                 committed, dropped>>

DispatchForward(d) ==
  /\ dpc[d] = "hold" /\ ~lqClosed /\ Len(logQueue) < PoolCapacity
  /\ logQueue' = Append(logQueue, held[d])
  /\ held' = [held EXCEPT ![d] = 0]
  /\ dpc' = [dpc EXCEPT ![d] = "recv"]
  /\ UNCHANGED <<cur, wpc, writeQueue, wqClosed, lqClosed, cpc, stop, committed,
                 dropped, panicked>>

DispatchDrop(d) ==
  /\ dpc[d] = "hold" /\ ~lqClosed /\ Len(logQueue) = PoolCapacity
  /\ dropped' = dropped \cup {held[d]}
  /\ held' = [held EXCEPT ![d] = 0]
  /\ dpc' = [dpc EXCEPT ![d] = "wait"]
  /\ UNCHANGED <<cur, wpc, writeQueue, wqClosed, logQueue, lqClosed, cpc, stop,
                 committed, panicked>>

DispatchSendClosed(d) ==
  /\ dpc[d] = "hold" /\ lqClosed
  /\ panicked' = TRUE
  /\ UNCHANGED <<cur, wpc, writeQueue, wqClosed, logQueue, lqClosed, dpc, held,
                 cpc, stop, committed, dropped>>

DispatchWake(d) ==
  /\ dpc[d] = "wait"
  /\ dpc' = [dpc EXCEPT ![d] = "recv"]
  /\ UNCHANGED <<cur, wpc, writeQueue, wqClosed, logQueue, lqClosed, held, cpc,
                 stop, committed, dropped, panicked>>

(***************************************************************************)
(* commitLoop: commit logs from logQueue; after stop, drain logQueue      *)
(* until it is closed and empty, then leave (stopWg.Done).                *)
(***************************************************************************)
CommitRecv ==
  /\ cpc \in {"loop", "drain"} /\ logQueue # <<>>
  /\ committed' = Append(committed, Head(logQueue))
  /\ logQueue' = Tail(logQueue)
  /\ UNCHANGED <<cur, wpc, writeQueue, wqClosed, lqClosed, dpc, held, cpc, stop,
                 dropped, panicked>>

CommitStop ==
  /\ cpc = "loop" /\ stop
  /\ cpc' = "drain"
  /\ UNCHANGED <<cur, wpc, writeQueue, wqClosed, logQueue, lqClosed, dpc, held,
                 stop, committed, dropped, panicked>>

CommitExit ==
  /\ cpc = "drain" /\ logQueue = <<>> /\ lqClosed
  /\ cpc' = "exit"
  /\ UNCHANGED <<cur, wpc, writeQueue, wqClosed, logQueue, lqClosed, dpc, held,
                 stop, committed, dropped, panicked>>

\* close: stopOnce closes the stop channel.
Close ==
  /\ ~stop
  /\ stop' = TRUE
  /\ UNCHANGED <<cur, wpc, writeQueue, wqClosed, logQueue, lqClosed, dpc, held,
                 cpc, committed, dropped, panicked>>

WriteLoop == WriteTick \/ WriteSend \/ WriteStop \/ WriteStopSend
Dispatch(d) ==
  \/ DispatchRecv(d) \/ DispatchClose(d) \/ DispatchForward(d)
  \/ DispatchDrop(d) \/ DispatchSendClosed(d) \/ DispatchWake(d)
CommitLoop == CommitRecv \/ CommitStop \/ CommitExit

\* A panic ends the process: no goroutine takes another step.
Next ==
  /\ ~panicked
  /\ \/ WriteLoop
     \/ \E d \in Dispatchers : Dispatch(d)
     \/ CommitLoop
     \/ Close

\* Go runs every runnable goroutine eventually; the ticker and close() are
\* the environment and get no fairness.
Fairness ==
  /\ WF_vars(~panicked /\ (WriteSend \/ WriteStop \/ WriteStopSend))
  /\ \A d \in Dispatchers : WF_vars(~panicked /\ Dispatch(d))
  /\ WF_vars(~panicked /\ CommitLoop)

Spec == Init /\ [][Next]_vars /\ Fairness

------------------------------------------------------------------------------
AllExited == wpc = "exit" /\ cpc = "exit" /\ \A d \in Dispatchers : dpc[d] = "exit"

(***************************************************************************)
(* Once close() is called, every goroutine of the pool exits and every    *)
(* tiny log sealed so far, the last one included, has been committed to   *)
(* the WAL exactly once (writeLoop stop path, dispatch, commitLoop drain).*)
(***************************************************************************)
ShutdownCommitsAll ==
  stop ~> (AllExited /\ committed = [i \in 1 .. cur |-> i])

==============================================================================
