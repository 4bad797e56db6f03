---------------------------- MODULE TickTransaction ----------------------------
(***************************************************************************)
(* How jeve.world.engine.Engine.tick, jeve.db and the daemon's _prepare    *)
(* keep the promise of WorldLog: one transaction per tick, one writer per  *)
(* database, and sequences put back after a transaction that died, because *)
(* Postgres does not roll them back.                                       *)
(*                                                                         *)
(* A process may be killed, or lose its session, between any two steps: in *)
(* the database both are one thing, a session that ends, its transaction   *)
(* rolled back and its advisory lock released.                             *)
(***************************************************************************)
EXTENDS WorldLog, FiniteSets

CONSTANTS
  Procs,       \* processes that want to be the daemon
  None,        \* nobody
  MaxFaults    \* bound of the model: sessions lost and ticks that raise

ASSUME TickAssumption ==
  /\ None \notin Procs
  /\ MaxFaults \in Nat

VARIABLES
  pc,          \* where each process is
  holder,      \* the session that holds the writer lock
  nextseq,     \* the next value of the sequence of events.seq
  pending,     \* rows of the open transaction, seen by no other session
  stamped,     \* has this build been stamped on the world?
  faults

vars == <<time, log, pc, holder, nextseq, pending, stamped, faults>>

\* pc: "down"     no session
\*     "migrated" a session that does not hold the lock
\*     "writer"   it does, and no engine has been built on it
\*     "idle"     the run loop, between two ticks
\*     "tick"     inside the transaction of a tick
\*     "raised"   rolled back, and the sequences not yet put back
Writing == {"writer", "idle", "tick", "raised"}

\* mutant: resync_sequences puts the counter at max, not after it
HeadSeqOffByOne == IF log = <<>> THEN 1 ELSE log[Len(log)].seq

\* resync_sequences: max(seq) + 1 of the rows this session sees
HeadSeq == IF log = <<>> THEN 1 ELSE log[Len(log)].seq + 1

Init ==
  /\ WInit
  /\ pc = [p \in Procs |-> "down"]
  /\ holder = None
  /\ nextseq = 1
  /\ pending = <<>>
  /\ stamped = TRUE
  /\ faults = 0

\* db.connect and db.migrate
Connect(p) ==
  /\ pc[p] = "down"
  /\ pc' = [pc EXCEPT ![p] = "migrated"]
  /\ UNCHANGED <<time, log, holder, nextseq, pending, stamped, faults>>

\* take_writer_lock. Which build a process runs is known when it starts.
TakeLock(p) ==
  /\ pc[p] = "migrated"
  /\ holder = None
  /\ holder' = p
  /\ pc' = [pc EXCEPT ![p] = "writer"]
  /\ stamped' \in (IF MayDeploy THEN BOOLEAN ELSE {stamped})
  /\ UNCHANGED <<time, log, nextseq, pending, faults>>

\* take_writer_lock after ten seconds of asking: WriterBusyError
Refused(p) ==
  /\ pc[p] = "migrated"
  /\ holder # None
  /\ pc' = [pc EXCEPT ![p] = "down"]
  /\ UNCHANGED <<time, log, holder, nextseq, pending, stamped, faults>>

\* _stamp_engine: another build is an event, numbered by the sequence as it is
StampEngine(p) ==
  /\ pc[p] = "writer"
  /\ ~stamped
  /\ stamped' = TRUE
  /\ log' = Append(log, [seq |-> nextseq, at |-> time])
  /\ nextseq' = nextseq + 1
  /\ UNCHANGED <<time, pc, holder, pending, faults>>

\* mutant: an engine trusts the sequences it finds
NewEngineTrusting(p) ==
  /\ pc[p] = "writer"
  /\ stamped
  /\ pc' = [pc EXCEPT ![p] = "idle"]
  /\ UNCHANGED <<time, log, holder, nextseq, pending, stamped, faults>>

\* Engine.__init__: whatever ran before may have died inside a tick
NewEngine(p) ==
  /\ pc[p] = "writer"
  /\ stamped
  /\ nextseq' = HeadSeq
  /\ pc' = [pc EXCEPT ![p] = "idle"]
  /\ UNCHANGED <<time, log, holder, pending, stamped, faults>>

\* Engine.tick: end what is open, begin a transaction, read the clock in it
BeginTick(p) ==
  /\ pc[p] = "idle"
  /\ time < LastTime
  /\ time \notin Shut
  /\ pending = <<>>
  /\ pc' = [pc EXCEPT ![p] = "tick"]
  /\ UNCHANGED <<time, log, holder, nextseq, pending, stamped, faults>>

\* _emit: the row is invisible until the commit, the number is gone at once
Emit(p) ==
  /\ pc[p] = "tick"
  /\ Len(pending) < EventsAt[time]
  /\ pending' = Append(pending, [seq |-> nextseq, at |-> time])
  /\ nextseq' = nextseq + 1
  /\ UNCHANGED <<time, log, pc, holder, stamped, faults>>

\* the UPDATE of sim_meta that ends _advance, and COMMIT
Committed(p) ==
  /\ pc[p] = "tick"
  /\ Len(pending) = EventsAt[time]
  /\ log' = log \o pending
  /\ pending' = <<>>
  /\ time' = time + 1

Commit(p) ==
  /\ Committed(p)
  /\ pc' = [pc EXCEPT ![p] = "idle"]
  /\ UNCHANGED <<holder, nextseq, stamped, faults>>

\* the connection is lost on the answer to COMMIT: it happened all the same
CommitUnheard(p) ==
  /\ faults < MaxFaults
  /\ faults' = faults + 1
  /\ Committed(p)
  /\ pc' = [pc EXCEPT ![p] = "down"]
  /\ holder' = None
  /\ UNCHANGED <<nextseq, stamped>>

\* the model's weather, or anything else, raises inside the tick: ROLLBACK
Raised(p) ==
  /\ pc[p] = "tick"
  /\ faults < MaxFaults
  /\ faults' = faults + 1
  /\ pending' = <<>>
  /\ pc' = [pc EXCEPT ![p] = "raised"]
  /\ UNCHANGED <<time, log, holder, nextseq, stamped>>

\* the except clause of tick, on a connection that still answers
PutBack(p) ==
  /\ pc[p] = "raised"
  /\ nextseq' = HeadSeq
  /\ pc' = [pc EXCEPT ![p] = "idle"]
  /\ UNCHANGED <<time, log, holder, pending, stamped, faults>>

\* skip_to_next_open, a transaction of its own
Skip(p) ==
  /\ pc[p] = "idle"
  /\ time \in Shut
  /\ time' = NextOpen(time)
  /\ UNCHANGED <<log, pc, holder, nextseq, pending, stamped, faults>>

\* mutant: a lock kept in a table, which nobody gives back for a dead process
SessionEndsHolding(p) ==
  /\ pc[p] # "down"
  /\ faults < MaxFaults
  /\ faults' = faults + 1
  /\ pc' = [pc EXCEPT ![p] = "down"]
  /\ IF pc[p] \in Writing THEN pending' = <<>> ELSE UNCHANGED pending
  /\ UNCHANGED <<time, log, holder, nextseq, stamped>>

\* kill -9, a failover, a dropped session
SessionEnds(p) ==
  /\ pc[p] # "down"
  /\ faults < MaxFaults
  /\ faults' = faults + 1
  /\ pc' = [pc EXCEPT ![p] = "down"]
  /\ IF pc[p] \in Writing THEN holder' = None /\ pending' = <<>>
                          ELSE UNCHANGED <<holder, pending>>
  /\ UNCHANGED <<time, log, nextseq, stamped>>

\* what a process does when nothing goes wrong
Work(p) ==
  \/ Connect(p) \/ TakeLock(p) \/ StampEngine(p) \/ NewEngine(p)
  \/ BeginTick(p) \/ Emit(p) \/ Commit(p) \/ PutBack(p) \/ Skip(p)

Next == \E p \in Procs :
  Work(p) \/ Refused(p) \/ CommitUnheard(p) \/ Raised(p) \/ SessionEnds(p)

\* The daemon retries for ever (SIM-0002, SIM-0004) and a dead one is restarted.
\* Nothing is assumed of who wins the lock, nor of when a fault happens.
Spec == Init /\ [][Next]_vars
FairSpec == Spec /\ \A p \in Procs : WF_vars(Work(p))

-----------------------------------------------------------------------------
EventType == [seq : Nat, at : 0 .. LastTime]

\* Every variable has its type.
TypeOK ==
  /\ time \in 0 .. LastTime
  /\ log \in Seq(EventType)
  /\ pc \in [Procs -> {"down", "migrated"} \cup Writing]
  /\ holder \in Procs \cup {None}
  /\ nextseq \in Nat \ {0}
  /\ pending \in Seq(EventType)
  /\ stamped \in BOOLEAN
  /\ faults \in 0 .. MaxFaults

\* SIM-0001: one writer per database. Two processes never both get as far as
\* writing to the world, whatever dies while they wait for each other.
OneWriter == \A p, q \in Procs : pc[p] \in Writing /\ pc[q] \in Writing => p = q

\* tests/test_resume.py: seq is dense, so a cursor can never skip an event,
\* after a crash and not only on a good day.
DenseLog == \A i \in DOMAIN log : log[i].seq = i

\* A number that was drawn is never drawn again while its row can still be
\* committed: the sequence is ahead of every row there is or may be.
SequenceAhead ==
  \A r \in {log[i] : i \in DOMAIN log} \cup {pending[i] : i \in DOMAIN pending} :
    r.seq < nextseq

\* A reader that asks for what came after the last seq it saw misses nothing:
\* no row is ever committed behind, or on, the number of one already committed.
NothingBehindACursor == [][
  /\ SubSeq(log', 1, Len(log)) = log
  /\ \A i \in DOMAIN log, j \in Len(log) + 1 .. Len(log') :
        log[i].seq < log'[j].seq]_log

\* kill -9 and weather leave no trace: the world that results is the one of a
\* run in which nothing went wrong.
KeepsThePromise == WSpec

\* The world reaches its horizon once things stop going wrong.
ReachesTheHorizon == <>[](time = LastTime)
=============================================================================
