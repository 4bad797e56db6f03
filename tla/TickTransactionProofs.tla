------------------------ MODULE TickTransactionProofs ------------------------
(***************************************************************************)
(* Proofs about TickTransaction, for any number of would-be daemons, any   *)
(* horizon and any number of faults:                                       *)
(*   LockInv   who is past the lock is the one the database names;         *)
(*   RowsInv   the rows, open transaction included, rise below the         *)
(*             sequence: no deploy, crash or retry draws a number twice;   *)
(*   NumberInv the rows of a tick leave no gap after the last row, which   *)
(*             is what a whole tick of WorldLog asks of them;              *)
(*   DenseInv  without deploys no rows do.                                 *)
(***************************************************************************)
EXTENDS TickTransaction, SequenceTheorems, WellFoundedInduction, TLAPS

\* What a process believes about the lock is what the database says, only a
\* process inside a tick has rows that are not committed, and the clock it read
\* when the tick began is still the clock.
LockInv ==
  /\ \A p \in Procs : pc[p] \in Writing <=> holder = p
  /\ pending # <<>> => \E p \in Procs : pc[p] = "tick"
  /\ (\E p \in Procs : pc[p] = "tick") => time < LastTime /\ time \notin Shut

\* The rows there are and the rows there may be, in the order of their numbers.
Rows == log \o pending

RowsInv ==
  /\ \A i, j \in 1 .. Len(Rows) : i < j => Rows[i].seq < Rows[j].seq
  /\ \A i \in 1 .. Len(Rows) : Rows[i].seq < nextseq

\* The rows of the open transaction follow the last row there is, and so does the
\* next one, whenever a process is where it may write one; and only where builds
\* change is there one to be stamped.
NumberInv ==
  /\ ~stamped => MayDeploy
  /\ \A i \in 1 .. Len(pending) : pending[i] = [seq |-> LastSeq + i, at |-> time]
  /\ \A p \in Procs : pc[p] = "idle" => nextseq = LastSeq + 1
  /\ \A p \in Procs : pc[p] = "tick" => nextseq = LastSeq + Len(pending) + 1

\* Rows are numbered by their position.
DenseInv == stamped /\ \A i \in 1 .. Len(log) : log[i].seq = i

-----------------------------------------------------------------------------
\* However long the night is, something opens before the horizon or the horizon
\* comes: the jump over dead time lands inside the run.
LEMMA NightEnds ==
  ASSUME NEW t \in 0 .. LastTime
  PROVE  NextOpen(t) \in t .. LastTime
<1> USE WorldAssumption
<1> DEFINE Open == {u \in t .. LastTime : u \notin Shut}
<1>1. Open \subseteq Nat /\ LastTime \in Open
  OBVIOUS
<1>2. PICK u \in Open : \A w \in Open : <<w, u>> \notin OpToRel(<, Nat)
  BY <1>1, NatLessThanWellFounded, WFMin, Zenon
<1>3. \A w \in Open : ~(w < u)
  <2> TAKE w \in Open
  <2>1. <<w, u>> \in Nat \X Nat
    BY <1>1
  <2>2. w < u => <<w, u>> \in OpToRel(<, Nat)
    BY <2>1 DEF OpToRel
  <2> QED
    BY <1>2, <2>2
<1>4. u \in t .. LastTime /\ u \notin Shut /\ \A w \in t .. u - 1 : w \in Shut
  BY <1>1, <1>3
<1> QED
  BY <1>4 DEF NextOpen

\* Rows are numbered, and rows that are not none have a last one.
LEMMA RowNumbers ==
  ASSUME NEW rows \in Seq(EventType)
  PROVE  /\ \A i \in 1 .. Len(rows) : rows[i].seq \in Nat
         /\ Len(rows) \in Nat
         /\ rows # <<>> => Len(rows) \in 1 .. Len(rows)
<1>1. ASSUME NEW i \in 1 .. Len(rows) PROVE rows[i].seq \in Nat
  <2>1. rows[i] \in EventType
    BY ElementOfSeq
  <2> QED
    BY <2>1 DEF EventType
<1>2. Len(rows) \in Nat /\ (rows # <<>> => Len(rows) # 0)
  BY EmptySeq
<1> QED
  BY <1>1, <1>2

\* Every variable keeps its type, and the lock is where the processes think.
THEOREM Typing == Spec => [](TypeOK /\ LockInv)
<1> USE WorldAssumption, TickAssumption
<1>1. Init => TypeOK /\ LockInv
  BY DEF Init, WInit, TypeOK, LockInv, Writing
<1>2. TypeOK /\ LockInv /\ [Next]_vars => (TypeOK /\ LockInv)'
  <2> SUFFICES ASSUME TypeOK, LockInv, [Next]_vars PROVE TypeOK' /\ LockInv'
    OBVIOUS
  <2>0. HeadSeq \in Nat \ {0}
    BY RowNumbers DEF HeadSeq, TypeOK
  <2> USE DEF TypeOK, EventType, Writing, LockInv
  <2>1. ASSUME NEW p \in Procs, Connect(p) PROVE TypeOK' /\ LockInv'
    BY <2>1 DEF Connect
  <2>2. ASSUME NEW p \in Procs, TakeLock(p) PROVE TypeOK' /\ LockInv'
    BY <2>2 DEF TakeLock
  <2>3. ASSUME NEW p \in Procs, Refused(p) PROVE TypeOK' /\ LockInv'
    BY <2>3 DEF Refused
  <2>4. ASSUME NEW p \in Procs, StampEngine(p) PROVE TypeOK' /\ LockInv'
    BY <2>4 DEF StampEngine
  <2>5. ASSUME NEW p \in Procs, NewEngine(p) PROVE TypeOK' /\ LockInv'
    BY <2>0, <2>5 DEF NewEngine
  <2>6. ASSUME NEW p \in Procs, BeginTick(p) PROVE TypeOK' /\ LockInv'
    BY <2>6 DEF BeginTick
  <2>7. ASSUME NEW p \in Procs, Emit(p) PROVE TypeOK' /\ LockInv'
    <3>1. [seq |-> nextseq, at |-> time] \in EventType
      OBVIOUS
    <3> QED
      BY <2>7, <3>1 DEF Emit
  <2>8. ASSUME NEW p \in Procs, Committed(p)
        PROVE  /\ log' \in Seq(EventType) /\ pending' = <<>>
               /\ time' \in 0 .. LastTime
    BY <2>8, ConcatProperties DEF Committed
  <2>9. ASSUME NEW p \in Procs, Commit(p) PROVE TypeOK' /\ LockInv'
    BY <2>8, <2>9 DEF Commit, Committed
  <2>10. ASSUME NEW p \in Procs, CommitUnheard(p) PROVE TypeOK' /\ LockInv'
    BY <2>8, <2>10 DEF CommitUnheard, Committed
  <2>11. ASSUME NEW p \in Procs, Raised(p) PROVE TypeOK' /\ LockInv'
    BY <2>11 DEF Raised
  <2>12. ASSUME NEW p \in Procs, PutBack(p) PROVE TypeOK' /\ LockInv'
    BY <2>0, <2>12 DEF PutBack
  <2>13. ASSUME NEW p \in Procs, Skip(p) PROVE TypeOK' /\ LockInv'
    <3>1. NextOpen(time) \in 0 .. LastTime
      BY NightEnds
    <3> QED
      BY <2>13, <3>1 DEF Skip
  <2>14. ASSUME NEW p \in Procs, SessionEnds(p) PROVE TypeOK' /\ LockInv'
    <3>1. CASE holder = p
      <4>1. /\ holder' = None /\ pending' = <<>> /\ pc' = [pc EXCEPT ![p] = "down"]
            /\ faults' = faults + 1 /\ faults < MaxFaults
            /\ UNCHANGED <<time, log, nextseq, stamped>>
        BY <2>14, <3>1 DEF SessionEnds
      <4> QED
        BY <3>1, <4>1
    <3>2. CASE holder # p
      BY <2>14, <3>2 DEF SessionEnds
    <3> QED
      BY <3>1, <3>2
  <2>15. CASE UNCHANGED vars
    BY <2>15 DEF vars
  <2> QED
    BY <2>1, <2>2, <2>3, <2>4, <2>5, <2>6, <2>7, <2>9, <2>10, <2>11, <2>12,
       <2>13, <2>14, <2>15 DEF Next, Work
<1> QED
  BY <1>1, <1>2, PTL DEF Spec

\* SIM-0001: one writer per database, however many processes ask and die.
THEOREM OneWriterHolds == Spec => []OneWriter
<1>1. LockInv => OneWriter
  BY DEF LockInv, OneWriter
<1> QED
  BY <1>1, Typing, PTL

-----------------------------------------------------------------------------
\* A row numbered by the sequence goes on top of rows that rise below it.
LEMMA OneMoreRow ==
  ASSUME TypeOK, RowsInv, NEW at \in 0 .. LastTime,
         Rows' = Append(Rows, [seq |-> nextseq, at |-> at]),
         nextseq' = nextseq + 1
  PROVE  RowsInv'
<1> DEFINE row == [seq |-> nextseq, at |-> at]
<1>1. Rows \in Seq(EventType) /\ row \in EventType
  BY ConcatProperties DEF TypeOK, Rows, EventType
<1>2. /\ Len(Rows') = Len(Rows) + 1
      /\ Len(Rows) \in Nat
      /\ \A i \in 1 .. Len(Rows) : Rows'[i] = Rows[i]
      /\ Rows'[Len(Rows) + 1] = row
  BY <1>1
<1>3. \A i \in 1 .. Len(Rows) : Rows[i].seq \in Nat /\ Rows[i].seq < nextseq
  BY <1>1, RowNumbers DEF RowsInv
<1>4. ASSUME NEW i \in 1 .. Len(Rows'), NEW j \in 1 .. Len(Rows'), i < j
      PROVE  Rows'[i].seq < Rows'[j].seq
  <2>1. i \in 1 .. Len(Rows)
    BY <1>2, <1>4
  <2>2. CASE j = Len(Rows) + 1
    BY <1>2, <1>3, <2>1, <2>2
  <2>3. CASE j \in 1 .. Len(Rows)
    BY <1>2, <1>4, <2>1, <2>3 DEF RowsInv
  <2> QED
    BY <1>2, <2>2, <2>3
<1>5. ASSUME NEW i \in 1 .. Len(Rows') PROVE Rows'[i].seq < nextseq'
  BY <1>2, <1>3, <1>5 DEF TypeOK
<1> QED
  BY <1>4, <1>5 DEF RowsInv

\* What HeadSeq returns is above every committed row.
LEMMA HeadIsAhead ==
  ASSUME TypeOK, RowsInv, pending = <<>>
  PROVE  /\ Rows = log
         /\ \A i \in 1 .. Len(log) : log[i].seq < HeadSeq
<1>1. Rows = log
  BY ConcatEmptySeq DEF Rows, TypeOK
<1>2. ASSUME NEW i \in 1 .. Len(log) PROVE log[i].seq < HeadSeq
  <2>1. /\ Len(log) \in 1 .. Len(log)
        /\ log # <<>>
        /\ log[i].seq \in Nat /\ log[Len(log)].seq \in Nat
    BY RowNumbers DEF TypeOK
  <2>2. i = Len(log) \/ log[i].seq < log[Len(log)].seq
    BY <1>1, <2>1 DEF RowsInv
  <2> QED
    BY <2>1, <2>2 DEF HeadSeq
<1> QED
  BY <1>1, <1>2

\* Taking back the open transaction leaves rows that still rise.
LEMMA RolledBack ==
  ASSUME TypeOK, RowsInv, pending' = <<>>, UNCHANGED <<log, nextseq>>
  PROVE  RowsInv'
<1>1. Rows' = log
  BY ConcatEmptySeq DEF Rows, TypeOK
<1>2. /\ Len(Rows) >= Len(log) /\ Len(Rows) \in Nat /\ Len(log) \in Nat
      /\ \A i \in 1 .. Len(log) : Rows[i] = log[i]
  BY ConcatProperties DEF Rows, TypeOK
<1> QED
  BY <1>1, <1>2 DEF RowsInv

\* The rows rise below the sequence in every reachable state.
THEOREM RowsRise == Spec => []RowsInv
<1> USE WorldAssumption, TickAssumption
<1>1. Init => RowsInv
  BY DEF Init, WInit, RowsInv, Rows
<1>2. TypeOK /\ LockInv /\ RowsInv /\ [Next]_vars => RowsInv'
  <2> SUFFICES ASSUME TypeOK, LockInv, RowsInv, [Next]_vars PROVE RowsInv'
    OBVIOUS
  <2>1. ASSUME UNCHANGED <<log, pending, nextseq>> PROVE RowsInv'
    BY <2>1 DEF RowsInv, Rows
  <2>2. ASSUME UNCHANGED log, pending = <<>>, pending' = <<>>, nextseq' = HeadSeq
        PROVE RowsInv'
    <3>1. Rows' = Rows /\ Rows = log
      BY <2>2, HeadIsAhead DEF Rows
    <3> QED
      BY <2>2, <3>1, HeadIsAhead DEF RowsInv
  <2>3. ASSUME NEW p \in Procs, StampEngine(p) PROVE RowsInv'
    <3>1. pending = <<>>
      BY <2>3 DEF StampEngine, LockInv, Writing
    <3>2. Rows' = Append(Rows, [seq |-> nextseq, at |-> time])
      BY <2>3, <3>1, ConcatEmptySeq DEF StampEngine, Rows, TypeOK, EventType
    <3> QED
      BY <2>3, <3>2, OneMoreRow DEF StampEngine, TypeOK
  <2>4. ASSUME NEW p \in Procs, NewEngine(p) PROVE RowsInv'
    BY <2>2, <2>4 DEF NewEngine, LockInv, Writing
  <2>5. ASSUME NEW p \in Procs, PutBack(p) PROVE RowsInv'
    BY <2>2, <2>5 DEF PutBack, LockInv, Writing
  <2>6. ASSUME NEW p \in Procs, Emit(p) PROVE RowsInv'
    <3> DEFINE row == [seq |-> nextseq, at |-> time]
    <3>1. row \in EventType
      BY DEF TypeOK, EventType
    <3>2. Rows' = Append(Rows, row)
      <4>1. /\ log \in Seq(EventType) /\ pending \in Seq(EventType)
            /\ log' = log /\ pending' = Append(pending, row)
        BY <2>6 DEF Emit, TypeOK
      <4>2. log \o Append(pending, row) = Append(log \o pending, row)
        BY <3>1, <4>1
      <4> QED
        BY <4>1, <4>2 DEF Rows
    <3> QED
      BY <2>6, <3>2, OneMoreRow DEF Emit, TypeOK
  <2>7. ASSUME NEW p \in Procs, Committed(p), nextseq' = nextseq PROVE RowsInv'
    <3>1. Rows' = Rows
      BY <2>7, ConcatProperties, ConcatEmptySeq DEF Committed, Rows, TypeOK
    <3> QED
      BY <2>7, <3>1 DEF RowsInv
  <2>8. ASSUME NEW p \in Procs, SessionEnds(p) PROVE RowsInv'
    BY <2>1, <2>8, RolledBack DEF SessionEnds
  <2> QED
    BY <2>1, <2>3, <2>4, <2>5, <2>6, <2>7, <2>8, RolledBack
    DEF Next, Work, Connect, TakeLock, Refused, BeginTick, Commit, CommitUnheard,
        Raised, Skip, vars
<1> QED
  BY <1>1, <1>2, Typing, PTL DEF Spec

\* A number that was drawn is never drawn again while its row can be committed.
THEOREM SequenceStaysAhead == Spec => []SequenceAhead
<1>1. TypeOK /\ RowsInv => SequenceAhead
  <2> SUFFICES ASSUME TypeOK, RowsInv PROVE SequenceAhead
    OBVIOUS
  <2>1. /\ Len(Rows) = Len(log) + Len(pending)
        /\ \A i \in 1 .. Len(log) : Rows[i] = log[i]
        /\ \A i \in 1 .. Len(pending) : Rows[Len(log) + i] = pending[i]
        /\ Len(log) \in Nat /\ Len(pending) \in Nat
        /\ DOMAIN log = 1 .. Len(log) /\ DOMAIN pending = 1 .. Len(pending)
    BY ConcatProperties DEF Rows, TypeOK
  <2>2. \A i \in DOMAIN log : log[i].seq < nextseq
    BY <2>1 DEF RowsInv
  <2>3. \A i \in DOMAIN pending : pending[i].seq < nextseq
    <3> TAKE i \in DOMAIN pending
    <3>1. Len(log) + i \in 1 .. Len(Rows)
      BY <2>1
    <3> QED
      BY <2>1, <3>1 DEF RowsInv
  <2> QED
    BY <2>2, <2>3 DEF SequenceAhead
<1> QED
  BY <1>1, Typing, RowsRise, PTL

\* A step that puts rows after the log, each above all of them, hides nothing
\* from a reader that has read the log.
LEMMA NothingHidden ==
  ASSUME NEW old \in Seq(EventType), NEW more \in Seq(EventType),
         \A i \in 1 .. Len(old), j \in 1 .. Len(more) : old[i].seq < more[j].seq
  PROVE  /\ SubSeq(old \o more, 1, Len(old)) = old
         /\ \A i \in DOMAIN old, j \in Len(old) + 1 .. Len(old \o more) :
              old[i].seq < (old \o more)[j].seq
<1> DEFINE new == old \o more
<1>1. /\ new \in Seq(EventType) /\ Len(new) = Len(old) + Len(more)
      /\ Len(old) \in Nat /\ Len(more) \in Nat
      /\ DOMAIN old = 1 .. Len(old)
      /\ \A i \in 1 .. Len(old) : new[i] = old[i]
      /\ \A j \in Len(old) + 1 .. Len(new) : new[j] = more[j - Len(old)]
  BY ConcatProperties
<1>2. \A i \in 1 .. Len(old) : new[i] \in EventType
  BY <1>1, ElementOfSeq
<1>3. /\ SubSeq(new, 1, Len(old)) \in Seq(EventType)
      /\ Len(SubSeq(new, 1, Len(old))) = Len(old)
      /\ \A i \in 1 .. Len(old) : SubSeq(new, 1, Len(old))[i] = new[i]
  BY <1>1, <1>2, SubSeqProperties
<1>4. SubSeq(new, 1, Len(old)) = old
  BY <1>1, <1>3, SeqEqual
<1>5. ASSUME NEW i \in DOMAIN old, NEW j \in Len(old) + 1 .. Len(new)
      PROVE  old[i].seq < new[j].seq
  BY <1>1, <1>5
<1> QED
  BY <1>4, <1>5

\* Whoever polls the log by the last seq it saw is told of every row.
THEOREM CursorsAreSafe == Spec => NothingBehindACursor
<1> DEFINE Step ==
      /\ SubSeq(log', 1, Len(log)) = log
      /\ \A i \in DOMAIN log, j \in Len(log) + 1 .. Len(log') :
           log[i].seq < log'[j].seq
<1>1. TypeOK /\ LockInv /\ RowsInv /\ [Next]_vars => [Step]_log
  <2> SUFFICES ASSUME TypeOK, LockInv, RowsInv, [Next]_vars, log' # log PROVE Step
    OBVIOUS
  <2>1. /\ Len(Rows) = Len(log) + Len(pending)
        /\ \A i \in 1 .. Len(log) : Rows[i] = log[i]
        /\ \A i \in 1 .. Len(pending) : Rows[Len(log) + i] = pending[i]
        /\ Len(log) \in Nat /\ Len(pending) \in Nat
    BY ConcatProperties DEF Rows, TypeOK
  <2>2. ASSUME NEW p \in Procs, Committed(p) PROVE Step
    <3>1. ASSUME NEW i \in 1 .. Len(log), NEW j \in 1 .. Len(pending)
          PROVE  log[i].seq < pending[j].seq
      <4>1. /\ i \in 1 .. Len(Rows) /\ Len(log) + j \in 1 .. Len(Rows)
            /\ i < Len(log) + j
        BY <2>1
      <4> QED
        BY <2>1, <4>1 DEF RowsInv
    <3> QED
      BY <2>2, <3>1, NothingHidden DEF Committed, TypeOK
  <2>3. ASSUME NEW p \in Procs, StampEngine(p) PROVE Step
    <3> DEFINE row == [seq |-> nextseq, at |-> time]
    <3>1. <<row>> \in Seq(EventType) /\ Len(<<row>>) = 1 /\ <<row>>[1] = row
      BY DEF TypeOK, EventType
    <3>2. log' = log \o <<row>>
      BY <2>3, <3>1 DEF StampEngine, TypeOK
    <3>3. \A i \in 1 .. Len(log) : log[i].seq < nextseq
      BY <2>1 DEF RowsInv
    <3> QED
      BY <3>1, <3>2, <3>3, NothingHidden DEF TypeOK
  <2> QED
    BY <2>2, <2>3
    DEF Next, Work, Connect, TakeLock, Refused, NewEngine, BeginTick, Emit, Commit,
        CommitUnheard, Raised, PutBack, Skip, SessionEnds, vars
<1> QED
  BY <1>1, Typing, RowsRise, PTL DEF Spec, NothingBehindACursor

-----------------------------------------------------------------------------
\* Numbers are numbers, and a rolled-back sequence is put back after the last one.
LEMMA LastNumber ==
  ASSUME TypeOK
  PROVE  LastSeq \in Nat /\ HeadSeq = LastSeq + 1
<1>1. log \in Seq(EventType)
  BY DEF TypeOK
<1>2. log # <<>> => log[Len(log)].seq \in Nat
  BY <1>1, RowNumbers
<1> QED
  BY <1>2 DEF LastSeq, HeadSeq

\* The last row after a commit is the last one of the transaction, or is still there.
LEMMA LastOfTransaction ==
  ASSUME TypeOK, NumberInv, log' = log \o pending
  PROVE  LastSeq' = LastSeq + Len(pending)
<1>0. /\ log \in Seq(EventType) /\ pending \in Seq(EventType)
      /\ Len(log) \in Nat /\ Len(pending) \in Nat /\ LastSeq \in Nat
  BY LastNumber DEF TypeOK
<1>1. CASE pending = <<>>
  <2>1. log' = log /\ Len(pending) = 0
    BY <1>0, <1>1, ConcatEmptySeq
  <2>2. LastSeq' = LastSeq
    BY <2>1 DEF LastSeq
  <2> QED
    BY <1>0, <2>1, <2>2
<1>2. CASE pending # <<>>
  <2>1. Len(pending) \in 1 .. Len(pending)
    BY <1>0, <1>2, RowNumbers
  <2>2. /\ Len(log') = Len(log) + Len(pending)
        /\ \A i \in 1 .. Len(log) + Len(pending) :
             log'[i] = IF i <= Len(log) THEN log[i] ELSE pending[i - Len(log)]
    BY <1>0, ConcatProperties
  <2>3. Len(log') \in 1 .. Len(log) + Len(pending) /\ ~(Len(log') <= Len(log))
        /\ Len(log') - Len(log) = Len(pending)
    BY <1>0, <2>1, <2>2
  <2>4. log'[Len(log')] = pending[Len(pending)]
    BY <2>2, <2>3
  <2>5. pending[Len(pending)].seq = LastSeq + Len(pending)
    <3> DEFINE k == Len(pending)
    <3>1. \A i \in 1 .. k : pending[i] = [seq |-> LastSeq + i, at |-> time]
      BY DEF NumberInv
    <3>2. pending[k] = [seq |-> LastSeq + k, at |-> time]
      BY <2>1, <3>1
    <3> QED
      BY <3>2
  <2>6. log' # <<>>
    BY <2>3
  <2> QED
    BY <2>4, <2>5, <2>6 DEF LastSeq
<1> QED
  BY <1>1, <1>2

\* The rows of a tick follow the last one without a gap, whatever died before and
\* whichever build took over.
THEOREM Numbering == Spec => []NumberInv
<1> USE WorldAssumption, TickAssumption
<1>1. Init => NumberInv
  BY DEF Init, WInit, NumberInv
<1>2. TypeOK /\ LockInv /\ NumberInv /\ [Next]_vars => NumberInv'
  <2> SUFFICES ASSUME TypeOK, LockInv, NumberInv, [Next]_vars PROVE NumberInv'
    OBVIOUS
  <2> DEFINE row == [seq |-> nextseq, at |-> time]
  <2>0. /\ Len(log) \in Nat /\ Len(pending) \in Nat /\ row \in EventType
        /\ (pending = <<>> => Len(pending) = 0)
        /\ log \in Seq(EventType) /\ pending \in Seq(EventType)
    BY DEF TypeOK, EventType
  <2>1. LastSeq \in Nat /\ HeadSeq = LastSeq + 1
    BY LastNumber
  <2>2. ASSUME UNCHANGED <<time, log, nextseq, pending, stamped>>,
               \A p \in Procs : pc'[p] \in {"idle", "tick"} => pc[p] = pc'[p]
        PROVE  NumberInv'
    BY <2>2 DEF NumberInv, LastSeq
  <2>3. ASSUME NEW p \in Procs, Connect(p) PROVE NumberInv'
    BY <2>2, <2>3 DEF Connect, TypeOK
  <2>4. ASSUME NEW p \in Procs, TakeLock(p) PROVE NumberInv'
    <3>1. /\ UNCHANGED <<time, log, nextseq, pending>> /\ (~stamped' => MayDeploy)
          /\ \A q \in Procs : pc'[q] \in {"idle", "tick"} => pc[q] = pc'[q]
      BY <2>4 DEF TakeLock, TypeOK, NumberInv
    <3> QED
      BY <3>1 DEF NumberInv, LastSeq
  <2>5. ASSUME NEW p \in Procs, Refused(p) PROVE NumberInv'
    BY <2>2, <2>5 DEF Refused, TypeOK
  <2>6. ASSUME NEW p \in Procs, StampEngine(p) PROVE NumberInv'
    <3>1. /\ pending = <<>> /\ UNCHANGED <<pending, pc>> /\ stamped'
          /\ \A q \in Procs : pc[q] \notin {"idle", "tick"}
      BY <2>6 DEF StampEngine, LockInv, Writing
    <3> QED
      BY <2>0, <3>1 DEF NumberInv
  <2>7. ASSUME NEW p \in Procs, NewEngine(p) \/ PutBack(p) PROVE NumberInv'
    <3>1. /\ pending = <<>> /\ nextseq' = LastSeq + 1
          /\ UNCHANGED <<time, log, stamped, pending>>
          /\ pc' = [pc EXCEPT ![p] = "idle"]
          /\ \A q \in Procs : pc'[q] # "tick"
      BY <2>1, <2>7 DEF NewEngine, PutBack, LockInv, Writing, TypeOK
    <3>2. LastSeq' = LastSeq
      BY <3>1 DEF LastSeq
    <3> QED
      BY <2>0, <3>1, <3>2 DEF NumberInv
  <2>8. ASSUME NEW p \in Procs, BeginTick(p) PROVE NumberInv'
    <3>1. /\ pending = <<>> /\ nextseq = LastSeq + 1
          /\ UNCHANGED <<time, log, stamped, pending, nextseq>>
          /\ \A q \in Procs : pc'[q] # "idle" \/ pc'[q] = pc[q]
      BY <2>8 DEF BeginTick, NumberInv, TypeOK
    <3>2. LastSeq' = LastSeq
      BY <3>1 DEF LastSeq
    <3> QED
      BY <2>0, <2>1, <3>1, <3>2 DEF NumberInv
  <2>9. ASSUME NEW p \in Procs, Emit(p) PROVE NumberInv'
    <3>1. /\ pending' = Append(pending, row) /\ nextseq' = nextseq + 1
          /\ UNCHANGED <<time, log, pc, stamped>>
          /\ nextseq = LastSeq + Len(pending) + 1
          /\ pc[p] = "tick"
      BY <2>9 DEF Emit, NumberInv
    <3>2. /\ Len(pending') = Len(pending) + 1
          /\ \A i \in 1 .. Len(pending) : pending'[i] = pending[i]
          /\ pending'[Len(pending) + 1] = row
      BY <2>0, <3>1
    <3>3. \A i \in 1 .. Len(pending') :
            pending'[i] = [seq |-> LastSeq + i, at |-> time]
      <4> TAKE i \in 1 .. Len(pending')
      <4>1. CASE i = Len(pending) + 1
        <5>1. LastSeq + i = nextseq
          BY <2>0, <2>1, <3>1, <4>1
        <5> QED
          BY <3>2, <4>1, <5>1
      <4>2. CASE i \in 1 .. Len(pending)
        BY <3>2, <4>2 DEF NumberInv
      <4> QED
        BY <2>0, <3>2, <4>1, <4>2
    <3>4. \A q \in Procs : pc[q] # "idle"
      BY <3>1 DEF LockInv, Writing
    <3>5. LastSeq' = LastSeq
      BY <3>1 DEF LastSeq
    <3> QED
      BY <2>0, <2>1, <3>1, <3>2, <3>3, <3>4, <3>5 DEF NumberInv
  <2>10. ASSUME NEW p \in Procs, Committed(p), UNCHANGED <<nextseq, stamped>>,
                pc' = [pc EXCEPT ![p] = "idle"] \/ pc' = [pc EXCEPT ![p] = "down"]
         PROVE  NumberInv'
    <3>1. /\ nextseq = LastSeq + Len(pending) + 1
          /\ \A q \in Procs : pc'[q] \notin {"tick"}
      BY <2>10 DEF Committed, NumberInv, LockInv, Writing, TypeOK
    <3>2. log' = log \o pending /\ pending' = <<>>
      BY <2>10 DEF Committed
    <3>3. LastSeq' = LastSeq + Len(pending)
      BY <3>2, LastOfTransaction
    <3>4. Len(pending') = 0
      BY <3>2
    <3> QED
      BY <2>10, <3>1, <3>3, <3>4 DEF NumberInv
  <2>11. ASSUME NEW p \in Procs, pending' = <<>>, UNCHANGED <<log, nextseq, stamped>>,
                \A q \in Procs : pc'[q] \notin {"idle", "tick"}
         PROVE  NumberInv'
    BY <2>11 DEF NumberInv
  <2>12. ASSUME NEW p \in Procs, Raised(p) PROVE NumberInv'
    BY <2>11, <2>12 DEF Raised, LockInv, Writing, TypeOK
  <2>13. ASSUME NEW p \in Procs, Skip(p) PROVE NumberInv'
    <3>1. pending = <<>> /\ \A q \in Procs : pc[q] # "tick"
      BY <2>13 DEF Skip, LockInv, Writing
    <3>2. LastSeq' = LastSeq
      BY <2>13 DEF Skip, LastSeq
    <3> QED
      BY <2>0, <2>13, <3>1, <3>2 DEF Skip, NumberInv
  <2>14. ASSUME NEW p \in Procs, SessionEnds(p) PROVE NumberInv'
    <3>1. CASE pc[p] \in Writing
      <4>1. \A q \in Procs : pc'[q] \notin {"idle", "tick"}
        BY <2>14, <3>1 DEF SessionEnds, LockInv, Writing, TypeOK
      <4> QED
        BY <2>11, <2>14, <3>1, <4>1 DEF SessionEnds
    <3>2. CASE pc[p] \notin Writing
      BY <2>2, <2>14, <3>2 DEF SessionEnds, TypeOK
    <3> QED
      BY <3>1, <3>2
  <2>15. CASE UNCHANGED vars
    BY <2>2, <2>15 DEF vars
  <2> QED
    BY <2>3, <2>4, <2>5, <2>6, <2>7, <2>8, <2>9, <2>10, <2>12, <2>13, <2>14, <2>15
    DEF Next, Work, Commit, CommitUnheard
<1> QED
  BY <1>1, <1>2, Typing, PTL DEF Spec

\* CORE-0007: without deploys seq is dense, whatever crashed on the way.
THEOREM LogIsDense == ASSUME ~MayDeploy PROVE Spec => []DenseLog
<1> USE WorldAssumption, TickAssumption
<1>1. Init => DenseInv
  BY DEF Init, WInit, DenseInv
<1>2. TypeOK /\ NumberInv /\ DenseInv /\ [Next]_vars => DenseInv'
  <2> SUFFICES ASSUME TypeOK, NumberInv, DenseInv, [Next]_vars PROVE DenseInv'
    OBVIOUS
  <2>0. /\ log \in Seq(EventType) /\ pending \in Seq(EventType)
        /\ Len(log) \in Nat /\ Len(pending) \in Nat
    BY DEF TypeOK
  <2>1. CASE UNCHANGED <<log, stamped>>
    BY <2>1 DEF DenseInv
  <2>2. ASSUME NEW p \in Procs, Committed(p), UNCHANGED stamped
        PROVE  DenseInv'
    <3>1. LastSeq = Len(log)
      BY <2>0, RowNumbers DEF LastSeq, DenseInv
    <3>2. /\ Len(log') = Len(log) + Len(pending)
          /\ \A i \in 1 .. Len(log) + Len(pending) :
               log'[i] = IF i <= Len(log) THEN log[i] ELSE pending[i - Len(log)]
      BY <2>0, <2>2, ConcatProperties DEF Committed
    <3>3. ASSUME NEW i \in 1 .. Len(log') PROVE log'[i].seq = i
      <4>1. CASE i <= Len(log)
        BY <2>0, <3>2, <4>1 DEF DenseInv
      <4>2. CASE ~(i <= Len(log))
        <5>1. i - Len(log) \in 1 .. Len(pending) /\ Len(log) + (i - Len(log)) = i
          BY <2>0, <3>2, <4>2
        <5>2. pending[i - Len(log)] = [seq |-> Len(log) + (i - Len(log)), at |-> time]
          BY <3>1, <5>1 DEF NumberInv
        <5> QED
          BY <3>2, <4>2, <5>1, <5>2
      <4> QED
        BY <4>1, <4>2
    <3> QED
      BY <2>2, <3>3 DEF DenseInv
  <2>3. ASSUME NEW p \in Procs, TakeLock(p) PROVE UNCHANGED <<log, stamped>>
    BY <2>3 DEF TakeLock
  <2>4. ASSUME NEW p \in Procs, StampEngine(p) PROVE FALSE
    BY <2>4 DEF StampEngine, DenseInv
  <2> QED
    BY <2>1, <2>2, <2>3, <2>4
    DEF Next, Work, Connect, Refused, NewEngine, BeginTick, Emit, Commit,
        CommitUnheard, Raised, PutBack, Skip, SessionEnds, vars
<1>3. TypeOK /\ DenseInv => DenseLog
  BY DEF TypeOK, DenseInv, DenseLog
<1> QED
  BY <1>1, <1>2, <1>3, Numbering, Typing, PTL DEF Spec

\* TickTransaction implements WorldLog: every step is a whole tick, a night
\* skipped, a new build, or nothing that a reader of the world could see.
THEOREM Implements == Spec => KeepsThePromise
<1> USE WorldAssumption, TickAssumption
<1>1. Init => WInit
  BY DEF Init
<1>2. TypeOK /\ LockInv /\ RowsInv /\ NumberInv /\ [Next]_vars => [WNext]_worldVars
  <2> SUFFICES ASSUME TypeOK, LockInv, RowsInv, NumberInv, [Next]_vars
               PROVE  [WNext]_worldVars
    OBVIOUS
  <2>0. pending \in Seq(EventType) /\ log \in Seq(EventType) /\ Len(log) \in Nat
    BY DEF TypeOK
  <2>1. ASSUME NEW p \in Procs, Committed(p) PROVE WholeTick
    <3>1. /\ pc[p] = "tick" /\ Len(pending) = EventsAt[time]
          /\ log' = log \o pending /\ time' = time + 1
      BY <2>1 DEF Committed
    <3>2. pending = [i \in 1 .. Len(pending) |-> pending[i]]
      BY <2>0
    <3>3. pending = Numbered(LastSeq, EventsAt[time], time)
      BY <2>0, <3>1, <3>2 DEF NumberInv, Numbered
    <3>4. time < LastTime /\ time \notin Shut
      BY <3>1 DEF LockInv
    <3> QED
      BY <3>1, <3>3, <3>4 DEF WholeTick
  <2>2. ASSUME NEW p \in Procs, Skip(p) PROVE SkipNight
    BY <2>2 DEF Skip, SkipNight
  <2>3. ASSUME NEW p \in Procs, StampEngine(p) PROVE NewBuild
    <3> DEFINE row == [seq |-> nextseq, at |-> time]
    <3>1. /\ ~stamped /\ log' = Append(log, row) /\ UNCHANGED time /\ pc[p] = "writer"
      BY <2>3 DEF StampEngine
    <3>2. MayDeploy
      BY <3>1 DEF NumberInv
    <3>3. row \in EventType /\ <<row>> \in Seq(EventType) /\ Len(<<row>>) = 1
      BY DEF TypeOK, EventType
    <3>4. /\ Len(log') = Len(log) + 1
          /\ log'[Len(log) + 1] = row
          /\ SubSeq(log', 1, Len(log)) = log
      <4>1. log' = log \o <<row>>
        BY <2>0, <3>1, <3>3, AppendIsConcat
      <4>2. \A i \in 1 .. Len(log) : log[i].seq < nextseq
        <5>1. pending = <<>> /\ Rows = log
          BY <2>0, <3>1, ConcatEmptySeq DEF LockInv, Writing, Rows
        <5> QED
          BY <2>0, <5>1 DEF RowsInv
      <4>3. \A i \in 1 .. Len(log), j \in 1 .. Len(<<row>>) :
              log[i].seq < <<row>>[j].seq
        BY <3>3, <4>2
      <4>4. SubSeq(log \o <<row>>, 1, Len(log)) = log
        BY <2>0, <3>3, <4>3, NothingHidden
      <4> QED
        BY <2>0, <3>1, <3>3, <4>1, <4>4
    <3>5. nextseq > LastSeq
      <4>1. pending = <<>> /\ Rows = log
        BY <2>0, <3>1, ConcatEmptySeq DEF LockInv, Writing, Rows
      <4>2. log # <<>> => log[Len(log)].seq < nextseq
        BY <2>0, <4>1, RowNumbers DEF RowsInv
      <4>3. nextseq \in Nat \ {0} /\ LastSeq \in Nat
        BY LastNumber DEF TypeOK
      <4> QED
        BY <4>2, <4>3 DEF LastSeq
    <3> QED
      BY <3>1, <3>2, <3>4, <3>5 DEF NewBuild
  <2> QED
    BY <2>1, <2>2, <2>3
    DEF Next, Work, Connect, TakeLock, Refused, NewEngine, BeginTick, Emit, Commit,
        CommitUnheard, Raised, PutBack, SessionEnds, vars, worldVars, WNext
<1> QED
  BY <1>1, <1>2, Typing, RowsRise, Numbering, PTL DEF Spec, KeepsThePromise, WSpec
=============================================================================
