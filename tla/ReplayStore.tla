---------------------------- MODULE ReplayStore ----------------------------
(***************************************************************************)
(* The durable replay store (executor.ReplayStore): one SQLite table that  *)
(* executor processes share, with the receipt id as its primary key and    *)
(* the intent key unique.                                                  *)
(*                                                                         *)
(* reserve() is one transaction of a connection of its own:                *)
(*                                                                         *)
(*     open -> BEGIN IMMEDIATE -> clock check -> INSERT -> COMMIT          *)
(*                                                                         *)
(* Every arrow is a point where another process may run, where SQLite may  *)
(* fail and where the process may die.  BEGIN IMMEDIATE takes SQLite's     *)
(* single write lock, and the end of the transaction, however it comes     *)
(* about, gives it back.                                                   *)
(***************************************************************************)
EXTENDS Errors, Integers, Sequences, Functions

CONSTANTS
    Process,      \* the processes that call reserve()
    Row,          \* the rows they may ask to insert
    NoProcess,    \* nobody holds the write lock
    NoRow,        \* no call of reserve() yet
    MaxTime       \* bound: the clock stops there

ASSUME StoreAssumption ==
    /\ NoProcess \notin Process
    /\ NoRow \notin Row
    /\ MaxTime \in Nat
    /\ \A r \in Row : r.expires_at \in Nat

VARIABLES
    now,            \* time.time(), in whole seconds
    reservations,   \* the committed rows, in the order of their commits
    writer,         \* the connection that holds the write lock
    stage,          \* stage[p]: how far p's call of reserve() has come
    row             \* row[p]: the arguments of that call

storeVars == <<now, reservations, writer, stage, row>>

(* In a transaction a connection holds the write lock.                     *)
Transaction == {"locked", "checked", "inserted"}
InProgress  == {"opening"} \cup Transaction

(* How reserve() ends: by returning, or by raising a code.                 *)
Replies == {"RESERVED", "REPLAY", "RECEIPT_EXPIRED", "REPLAY_STORE_ERROR"}

StoreTypeOK ==
    /\ now \in 0 .. MaxTime
    /\ reservations \in Seq(Row)
    /\ writer \in Process \cup {NoProcess}
    /\ stage \in [Process -> {"idle"} \cup InProgress \cup Replies]
    /\ row \in [Process -> Row \cup {NoRow}]

StoreInit ==
    /\ now = 0
    /\ reservations = <<>>
    /\ writer = NoProcess
    /\ stage = [p \in Process |-> "idle"]
    /\ row = [p \in Process |-> NoRow]

(* Mutant: intent_key is declared without UNIQUE.                          *)
conflicts_receipt_only(r, s) == r.receipt_id = s.receipt_id

(* What the PRIMARY KEY and UNIQUE constraints forbid to stand together.   *)
conflicts(r, s) ==
    r.receipt_id = s.receipt_id \/ r.intent_key = s.intent_key

conflicting(r) == {s \in Range(reservations) : conflicts(r, s)}

-----------------------------------------------------------------------------
(* A process calls reserve(receipt_id, intent_key, expires_at).            *)
Reserve(p, r) ==
    /\ stage[p] = "idle"
    /\ stage' = [stage EXCEPT ![p] = "opening"]
    /\ row' = [row EXCEPT ![p] = r]
    /\ UNCHANGED <<now, reservations, writer>>

(* connect, PRAGMA, CREATE TABLE IF NOT EXISTS, BEGIN IMMEDIATE.           *)
BeginImmediate(p) ==
    /\ stage[p] = "opening"
    /\ writer = NoProcess
    /\ writer' = p
    /\ stage' = [stage EXCEPT ![p] = "locked"]
    /\ UNCHANGED <<now, reservations, row>>

(* Mutant: no busy timeout, the connection waits for the lock.             *)
WaitForLock(p) == FALSE /\ UNCHANGED storeVars /\ p \in Process

(* Mutant: a busy database is reported as a replay.                        *)
BusyIsReplay(p) ==
    /\ stage[p] = "opening"
    /\ writer # NoProcess
    /\ stage' = [stage EXCEPT ![p] = "REPLAY"]
    /\ UNCHANGED <<now, reservations, writer, row>>

(* The busy handler gives up five seconds after another connection began   *)
(* to hold the lock: sqlite3.OperationalError.                             *)
BusyTimeout(p) ==
    /\ stage[p] = "opening"
    /\ writer # NoProcess
    /\ stage' = [stage EXCEPT ![p] = "REPLAY_STORE_ERROR"]
    /\ UNCHANGED <<now, reservations, writer, row>>

(* Mutant: the connection is not closed, and with it the lock not dropped. *)
RollbackLeaksLock(p, code) ==
    /\ stage' = [stage EXCEPT ![p] = code]
    /\ UNCHANGED <<now, reservations, writer, row>>

(* The transaction of p ends without a trace: the context managers roll    *)
(* back and close the connection, and the call raises the code.            *)
Rollback(p, code) ==
    /\ writer' = NoProcess
    /\ stage' = [stage EXCEPT ![p] = code]
    /\ UNCHANGED <<now, reservations, row>>

(* Mutant: the clock is not read again under the lock.                     *)
CheckSkipped(p) ==
    /\ stage[p] = "locked"
    /\ stage' = [stage EXCEPT ![p] = "checked"]
    /\ UNCHANGED <<now, reservations, writer, row>>

(* require(int(time.time()) < expires_at, "RECEIPT_EXPIRED"), read under   *)
(* the lock.                                                               *)
CheckClock(p) ==
    /\ stage[p] = "locked"
    /\ now < row[p].expires_at
    /\ stage' = [stage EXCEPT ![p] = "checked"]
    /\ UNCHANGED <<now, reservations, writer, row>>

RejectExpired(p) ==
    /\ stage[p] = "locked"
    /\ row[p].expires_at <= now
    /\ Rollback(p, "RECEIPT_EXPIRED")

(* Mutant: INSERT OR REPLACE.                                              *)
InsertOrReplace(p) ==
    /\ stage[p] = "checked"
    /\ reservations' = SelectSeq(reservations,
                                 LAMBDA s : ~ conflicts(row[p], s))
    /\ stage' = [stage EXCEPT ![p] = "inserted"]
    /\ UNCHANGED <<now, writer, row>>

Insert(p) ==
    /\ stage[p] = "checked"
    /\ conflicting(row[p]) = {}
    /\ stage' = [stage EXCEPT ![p] = "inserted"]
    /\ UNCHANGED <<now, reservations, writer, row>>

(* sqlite3.IntegrityError                                                  *)
RejectReplay(p) ==
    /\ stage[p] = "checked"
    /\ conflicting(row[p]) # {}
    /\ Rollback(p, "REPLAY")

(* Mutant: the connection is closed without a commit.                      *)
CommitForgotten(p) ==
    /\ stage[p] = "inserted"
    /\ writer' = NoProcess
    /\ stage' = [stage EXCEPT ![p] = "RESERVED"]
    /\ UNCHANGED <<now, reservations, row>>

(* The connection's context manager commits and the call returns.          *)
Commit(p) ==
    /\ stage[p] = "inserted"
    /\ reservations' = Append(reservations, row[p])
    /\ writer' = NoProcess
    /\ stage' = [stage EXCEPT ![p] = "RESERVED"]
    /\ UNCHANGED <<now, row>>

(* Mutant: the call stays behind in a stage of its own.                    *)
ReturnKeepsRow(p) ==
    /\ stage[p] \in Replies
    /\ stage' = [stage EXCEPT ![p] = "returned"]
    /\ UNCHANGED <<now, reservations, writer, row>>

(* The caller takes the reply.                                             *)
Return(p) ==
    /\ stage[p] \in Replies
    /\ stage' = [stage EXCEPT ![p] = "idle"]
    /\ row' = [row EXCEPT ![p] = NoRow]
    /\ UNCHANGED <<now, reservations, writer>>

(* The commit reaches the disk, but SQLite reports an error: a failure in  *)
(* its clean-up, or of close().  The row is there, the caller told it is   *)
(* not.                                                                    *)
CommitUnacknowledged(p) ==
    /\ stage[p] = "inserted"
    /\ reservations' = Append(reservations, row[p])
    /\ writer' = NoProcess
    /\ stage' = [stage EXCEPT ![p] = "REPLAY_STORE_ERROR"]
    /\ UNCHANGED <<now, row>>

(* Any other sqlite3.Error, at any point before the commit is durable.     *)
StoreFails(p) ==
    \/ /\ stage[p] = "opening"
       /\ stage' = [stage EXCEPT ![p] = "REPLAY_STORE_ERROR"]
       /\ UNCHANGED <<now, reservations, writer, row>>
    \/ /\ stage[p] \in Transaction
       /\ Rollback(p, "REPLAY_STORE_ERROR")

(* The process of p dies.  The operating system drops its lock and SQLite  *)
(* rolls a half-written transaction back from the journal; what was        *)
(* committed stays.                                                        *)
ProcessDies(p) ==
    /\ writer' = IF writer = p THEN NoProcess ELSE writer
    /\ stage' = [stage EXCEPT ![p] = "idle"]
    /\ row' = [row EXCEPT ![p] = NoRow]
    /\ UNCHANGED <<now, reservations>>

Tick ==
    /\ now < MaxTime
    /\ now' = now + 1
    /\ UNCHANGED <<reservations, writer, stage, row>>

-----------------------------------------------------------------------------
(* What reserve() itself does next: the steps its process keeps taking as  *)
(* long as it runs.                                                        *)
ReserveStep(p) ==
    \/ BeginImmediate(p) \/ BusyTimeout(p)
    \/ CheckClock(p) \/ RejectExpired(p)
    \/ Insert(p) \/ RejectReplay(p)
    \/ Commit(p)

StoreNext ==
    \/ \E p \in Process :
          \/ \E r \in Row : Reserve(p, r)
          \/ ReserveStep(p)
          \/ StoreFails(p) \/ CommitUnacknowledged(p)
          \/ Return(p)
          \/ ProcessDies(p)
    \/ Tick

StoreSpec == StoreInit /\ [][StoreNext]_storeVars

(* A running process is scheduled until its call of reserve() ends.        *)
FairStoreSpec == StoreSpec /\ \A p \in Process : WF_storeVars(ReserveStep(p))

-----------------------------------------------------------------------------
(* The write lock is held exactly while some call is inside its            *)
(* transaction, and by that call: no path out of reserve() - return,       *)
(* expiry, replay, SQLite failure or the death of the process - leaks it.  *)
(* (A leak would make every later reservation fail as busy.)               *)
LockMatchesTransaction ==
    \A p \in Process : stage[p] \in Transaction <=> writer = p

(* No two committed rows share a receipt id or an intent key, whatever     *)
(* the interleaving of the calls that inserted them: the two constraints   *)
(* are what at-most-once execution rests on.                               *)
UniqueReservations ==
    \A i, j \in DOMAIN reservations :
        i # j => /\ reservations[i].receipt_id # reservations[j].receipt_id
                 /\ reservations[i].intent_key # reservations[j].intent_key

(* reserve() tells the truth.  A call that returned owns a durable row; a  *)
(* call that raised REPLAY lost against a row that really is in the table  *)
(* (not against a transaction that later rolled back).                     *)
ReplyTruthful ==
    \A p \in Process :
        /\ stage[p] = "RESERVED" => row[p] \in Range(reservations)
        /\ stage[p] = "REPLAY" => conflicting(row[p]) # {}

(* A row arrives at the end of a transaction that got past all its checks. *)
Arrival ==
    \E p \in Process : /\ writer = p /\ stage[p] = "inserted"
                       /\ conflicting(row[p]) = {}
                       /\ reservations' = Append(reservations, row[p])

(* The receipt of a row has expired before any call had it past the check  *)
(* of the clock; calls may be waiting for the lock with it.                *)
Lapsed(r) ==
    /\ r.expires_at <= now
    /\ r \notin Range(reservations)
    /\ \A p \in Process : row[p] = r => stage[p] \notin {"checked", "inserted"}

(* Only a commit touches the table: rows are never changed or removed, a   *)
(* call that fails or times out before its commit leaves none behind, and  *)
(* a row arrives only while its receipt is unspent and its call holds the  *)
(* write lock.  A receipt that expires while its calls queue for the lock  *)
(* is never spent by any of them.                                          *)
ReservationsDurable ==
    [][/\ reservations' = reservations \/ Arrival
       /\ \A r \in Row : Lapsed(r) => Lapsed(r)']_storeVars

(* Every call of reserve() ends, even if other processes keep the write    *)
(* lock busy for ever: the busy timeout turns starvation into an error.    *)
ReserveReturns ==
    \A p \in Process : stage[p] \in InProgress ~> stage[p] \notin InProgress

=============================================================================
