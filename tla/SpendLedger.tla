----------------------------- MODULE SpendLedger -----------------------------
(***************************************************************************)
(* The spend ledger of jeve.llm.ledger: the append-only table              *)
(* spend_entries and the one-row running total spend_totals (LLM-0010),    *)
(* used by every process on one database.                                  *)
(*                                                                         *)
(* Every method of SpendLedger that writes runs its whole body under       *)
(* locked(), a transaction-level advisory lock, so each is one action. The *)
(* unlocked read in BudgetGuard.apply_remote is an action of its own: what *)
(* it read may be stale when the write that follows it runs.               *)
(*                                                                         *)
(* A handle is one SpendLedger object of the current code. LedgerNext to them a  *)
(* process of the previous version may still append rows without moving    *)
(* the total, which is what the reconciliation on open is for.             *)
(***************************************************************************)
EXTENDS Integers, Sequences, FiniteSets, FiniteSetsExt

CONSTANTS
  Handles,    \* SpendLedger objects of the current version
  Calls,      \* call ids; one id is one attempt (_post renames each retry)
  Amounts,    \* positive costs, in the smallest unit a run tells apart
  Null,       \* SQL NULL
  Overlap,    \* may a current handle open while the old version still writes?
  MaxRows     \* bound of the model on the rows of spend_entries

ASSUME LedgerAssumption ==
  /\ Amounts \subseteq Nat \ {0}
  /\ Null \notin Nat
  /\ Overlap \in BOOLEAN
  /\ MaxRows \in Nat

VARIABLES
  rows,       \* spend_entries, in seq order
  total,      \* the row of spend_totals
  opened,     \* handles whose connection is open and reconciled
  seen,       \* what each handle's last unlocked read said of the baseline
  legacyUp    \* the previous version is still writing

ledgerVars == <<rows, total, opened, seen, legacyUp>>

Row(kind, call, usd, estimated) ==
  [kind |-> kind, call |-> call, usd |-> usd, estimated |-> estimated]

-----------------------------------------------------------------------------
(* The fold: what the table says, row by row.                              *)

Of(rs, kind) == {i \in DOMAIN rs : rs[i].kind = kind}

ClosedIn(rs, call) == \E i \in DOMAIN rs :
  rs[i].call = call /\ rs[i].kind \in {"settle", "release"}

SumOf(rs, S) == MapThenSumSet(LAMBDA i : rs[i].usd, S)

\* _OPEN_RESERVE_SQL: the reservation of a call, if nothing closed it yet
OpenReserve(rs, call) ==
  IF ClosedIn(rs, call) THEN 0
  ELSE SumOf(rs, {i \in Of(rs, "reserve") : rs[i].call = call})

\* _FOLD_SQL: the definition of what the total must say
Fold(rs) ==
  [as_of     |-> Len(rs),
   settled   |-> SumOf(rs, Of(rs, "settle")),
   calls     |-> Cardinality(Of(rs, "settle")),
   estimated |-> Cardinality({i \in Of(rs, "settle") : rs[i].estimated}),
   reserved  |-> SumOf(rs, {i \in Of(rs, "reserve") : ~ClosedIn(rs, rs[i].call)}),
   baseline  |-> IF Of(rs, "baseline") = {} THEN Null
                 ELSE rs[Min(Of(rs, "baseline"))].usd,
   remote    |-> IF Of(rs, "remote") = {} THEN Null
                 ELSE rs[Max(Of(rs, "remote"))].usd]

\* _append with _MOVE_TOTAL_SQL: move the total by what one more row changes.
\* The reservation a row closes is looked up before the row is inserted.
Move(t, rs, r) ==
  LET closing == IF r.kind \in {"settle", "release"}
                 THEN OpenReserve(rs, r.call) ELSE 0
      settles == r.kind = "settle"
  IN [as_of     |-> Len(rs) + 1,
      settled   |-> t.settled + (IF settles THEN r.usd ELSE 0),
      calls     |-> t.calls + (IF settles THEN 1 ELSE 0),
      estimated |-> t.estimated + (IF settles /\ r.estimated THEN 1 ELSE 0),
      reserved  |-> t.reserved + (IF r.kind = "reserve" THEN r.usd ELSE 0) - closing,
      baseline  |-> IF r.kind = "baseline" /\ t.baseline = Null THEN r.usd
                    ELSE t.baseline,
      remote    |-> IF r.kind = "remote" THEN r.usd ELSE t.remote]

-----------------------------------------------------------------------------
(* The methods of a current handle.                                        *)

\* the only writer of both tables: one row in, the total moved with it
Put(r) ==
  /\ Len(rows) < MaxRows
  /\ rows' = Append(rows, r)
  /\ total' = Move(total, rows, r)

LedgerInit ==
  /\ rows = <<>>
  /\ total = Fold(<<>>)          \* the migration seeds the row with the fold
  /\ opened = {}
  /\ seen = [h \in Handles |-> "nothing"]
  /\ legacyUp \in BOOLEAN

\* mutant: a ledger opens without looking whether the total is behind
OpenWithoutLooking(h) ==
  /\ h \notin opened
  /\ Overlap \/ ~legacyUp
  /\ opened' = opened \cup {h}
  /\ UNCHANGED <<rows, total, seen, legacyUp>>

\* _c on the first use: connect, then _reconcile once
Open(h) ==
  /\ h \notin opened
  /\ Overlap \/ ~legacyUp
  /\ opened' = opened \cup {h}
  /\ total' = IF total.as_of # Len(rows) THEN Fold(rows) ELSE total
  /\ UNCHANGED <<rows, seen, legacyUp>>

\* close(), or the process died between two transactions
Close(h) ==
  /\ h \in opened
  /\ opened' = opened \ {h}
  /\ seen' = [seen EXCEPT ![h] = "nothing"]
  /\ UNCHANGED <<rows, total, legacyUp>>

Known(c) == \E i \in DOMAIN rows : rows[i].call = c

Standing(c) == Known(c) /\ ~ClosedIn(rows, c)

Reserve(h, c, usd) ==
  /\ h \in opened
  /\ ~Known(c)
  /\ Put(Row("reserve", c, usd, FALSE))
  /\ UNCHANGED <<opened, seen, legacyUp>>

Settle(h, c, usd, estimated) ==
  /\ h \in opened
  /\ Standing(c)
  /\ Put(Row("settle", c, usd, estimated))
  /\ UNCHANGED <<opened, seen, legacyUp>>

Release(h, c) ==
  /\ h \in opened
  /\ Standing(c)
  /\ Put(Row("release", c, 0, FALSE))
  /\ UNCHANGED <<opened, seen, legacyUp>>

\* apply_remote reads the total outside the lock to choose its write
ReadForRemote(h) ==
  /\ h \in opened
  /\ seen[h] = "nothing"
  /\ seen' = [seen EXCEPT ![h] = IF total.baseline = Null THEN "missing" ELSE "present"]
  /\ UNCHANGED <<rows, total, opened, legacyUp>>

\* record_baseline: looks again under the lock, and appends only the first
RecordBaseline(h, usd) ==
  /\ h \in opened
  /\ seen[h] = "missing"
  /\ seen' = [seen EXCEPT ![h] = "nothing"]
  /\ IF total.baseline = Null
     THEN Put(Row("baseline", Null, usd, FALSE))
     ELSE UNCHANGED <<rows, total>>
  /\ UNCHANGED <<opened, legacyUp>>

RecordRemote(h, usd) ==
  /\ h \in opened
  /\ seen[h] = "present"
  /\ seen' = [seen EXCEPT ![h] = "nothing"]
  /\ Put(Row("remote", Null, usd, FALSE))
  /\ UNCHANGED <<opened, legacyUp>>

-----------------------------------------------------------------------------
(* The previous version of the code: it folds on every read, so it appends *)
(* under the same rules and knows nothing of the total.                    *)

LegacyAppend ==
  LET put(r) == rows' = Append(rows, r) IN
  /\ legacyUp
  /\ Len(rows) < MaxRows
  /\ \/ \E c \in Calls, usd \in Amounts : ~Known(c) /\ put(Row("reserve", c, usd, FALSE))
     \/ \E c \in Calls, usd \in Amounts, e \in BOOLEAN :
          Standing(c) /\ put(Row("settle", c, usd, e))
     \/ \E c \in Calls : Standing(c) /\ put(Row("release", c, 0, FALSE))
     \/ \E usd \in Amounts :
          put(Row(IF Of(rows, "baseline") = {} THEN "baseline" ELSE "remote", Null, usd, FALSE))
  /\ UNCHANGED <<total, opened, seen, legacyUp>>

LegacyStop ==
  /\ legacyUp
  /\ legacyUp' = FALSE
  /\ UNCHANGED <<rows, total, opened, seen>>

LedgerNext ==
  \/ \E h \in Handles :
       \/ Open(h)
       \/ Close(h)
       \/ ReadForRemote(h)
       \/ \E c \in Calls : Release(h, c)
       \/ \E usd \in Amounts : RecordBaseline(h, usd) \/ RecordRemote(h, usd)
       \/ \E c \in Calls, usd \in Amounts : Reserve(h, c, usd)
       \/ \E c \in Calls, usd \in Amounts, e \in BOOLEAN : Settle(h, c, usd, e)
  \/ LegacyAppend
  \/ LegacyStop

LedgerSpec == LedgerInit /\ [][LedgerNext]_ledgerVars

-----------------------------------------------------------------------------

\* What a spend check reads through an open ledger is the fold of the table:
\* the ceiling is enforced against everything ever spent.
OpenLedgerIsExact == opened # {} => total = Fold(rows)
=============================================================================
