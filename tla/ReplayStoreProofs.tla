------------------------- MODULE ReplayStoreProofs -------------------------
(***************************************************************************)
(* What the replay store guarantees for every set of processes and rows.   *)
(*                                                                         *)
(* UniqueReservations is not inductive: a commit appends a row that was    *)
(* compared with the table some steps earlier, at the INSERT.  What makes  *)
(* it hold is that the table cannot change in between, because the call    *)
(* has held the only write lock since it compared.  StoreInv says so.      *)
(***************************************************************************)
EXTENDS ReplayStore, TLAPS

(* A call under way knows its arguments.                                   *)
ArgumentsKnown ==
    \A p \in Process : stage[p] # "idle" => row[p] \in Row

(* The row of an uncommitted INSERT still fits the table.                  *)
InsertedFits ==
    \A p \in Process : stage[p] = "inserted" => conflicting(row[p]) = {}

StoreInv ==
    /\ StoreTypeOK
    /\ ArgumentsKnown
    /\ LockMatchesTransaction
    /\ InsertedFits
    /\ UniqueReservations
    /\ ReplyTruthful

-----------------------------------------------------------------------------
(* Appending a row adds that row to the committed ones and no other.       *)
LEMMA RangeOfAppend ==
    ASSUME NEW S, NEW s \in Seq(S), NEW e \in S
    PROVE  /\ Append(s, e) \in Seq(S)
           /\ DOMAIN Append(s, e) = 1 .. Len(s) + 1
           /\ DOMAIN s = 1 .. Len(s)
           /\ \A i \in DOMAIN s : Append(s, e)[i] = s[i]
           /\ Append(s, e)[Len(s) + 1] = e
           /\ Range(Append(s, e)) = Range(s) \cup {e}
<1>1. /\ Append(s, e) \in Seq(S)
      /\ Len(s) \in Nat
      /\ Len(Append(s, e)) = Len(s) + 1
      /\ DOMAIN Append(s, e) = 1 .. Len(s) + 1
      /\ DOMAIN s = 1 .. Len(s)
      /\ \A i \in DOMAIN s : Append(s, e)[i] = s[i]
      /\ Append(s, e)[Len(s) + 1] = e
  OBVIOUS
<1>2. Range(Append(s, e)) = Range(s) \cup {e}
  <2>1. ASSUME NEW x \in Range(Append(s, e))
        PROVE  x \in Range(s) \cup {e}
    <3>1. PICK i \in 1 .. Len(s) + 1 : x = Append(s, e)[i]
      BY <1>1, <2>1 DEF Range
    <3>2. i \in DOMAIN s \/ i = Len(s) + 1
      BY <1>1
    <3> QED BY <1>1, <3>1, <3>2 DEF Range
  <2>2. ASSUME NEW x \in Range(s) \cup {e}
        PROVE  x \in Range(Append(s, e))
    <3>1. CASE x = e
      BY <1>1, <3>1 DEF Range
    <3>2. CASE x \in Range(s)
      <4>1. PICK i \in DOMAIN s : x = s[i]
        BY <3>2 DEF Range
      <4>2. i \in DOMAIN Append(s, e) /\ Append(s, e)[i] = x
        BY <1>1, <4>1
      <4> QED BY <4>2 DEF Range
    <3> QED BY <2>2, <3>1, <3>2
  <2> QED BY <2>1, <2>2
<1> QED BY <1>1, <1>2

-----------------------------------------------------------------------------
(* Rows in the table conflict with what they conflict with for good: the   *)
(* set of conflicting rows only depends on the table.                      *)
LEMMA SameTable ==
    ASSUME reservations' = reservations, NEW r
    PROVE  conflicting(r)' = conflicting(r)
BY DEF conflicting, conflicts

LEMMA StoreInitial == StoreInit => StoreInv
<1> SUFFICES ASSUME StoreInit PROVE StoreInv
  OBVIOUS
<1> USE StoreAssumption DEF StoreInit
<1>1. StoreTypeOK
  BY DEF StoreTypeOK, InProgress, Transaction, Replies
<1>2. ArgumentsKnown /\ InsertedFits /\ ReplyTruthful
  BY DEF ArgumentsKnown, InsertedFits, ReplyTruthful
<1>3. LockMatchesTransaction
  BY DEF LockMatchesTransaction, Transaction
<1>4. UniqueReservations
  BY DEF UniqueReservations
<1> QED BY <1>1, <1>2, <1>3, <1>4 DEF StoreInv

(* The step of the proof that matters: a commit keeps the table free of    *)
(* duplicates because the row still fits it.                               *)
LEMMA CommitKeepsInv ==
    ASSUME StoreInv, NEW p \in Process, Commit(p) \/ CommitUnacknowledged(p)
    PROVE  StoreInv'
<1> USE DEF Transaction, InProgress, Replies
<1>1. /\ stage[p] = "inserted"
      /\ row[p] \in Row
      /\ reservations \in Seq(Row)
      /\ reservations' = Append(reservations, row[p])
      /\ writer = p
      /\ writer' = NoProcess
      /\ \E s \in {"RESERVED", "REPLAY_STORE_ERROR"} :
            stage' = [stage EXCEPT ![p] = s]
      /\ row' = row
      /\ now' = now
  BY DEF Commit, CommitUnacknowledged, StoreInv, StoreTypeOK, ArgumentsKnown, LockMatchesTransaction
<1>2. /\ reservations' \in Seq(Row)
      /\ DOMAIN reservations' = 1 .. Len(reservations) + 1
      /\ DOMAIN reservations = 1 .. Len(reservations)
      /\ \A i \in DOMAIN reservations : reservations'[i] = reservations[i]
      /\ reservations'[Len(reservations) + 1] = row[p]
      /\ Range(reservations') = Range(reservations) \cup {row[p]}
  BY <1>1, RangeOfAppend
<1>3. StoreTypeOK'
  BY <1>1, <1>2 DEF StoreInv, StoreTypeOK
<1>4. ArgumentsKnown'
  BY <1>1 DEF StoreInv, StoreTypeOK, ArgumentsKnown
<1>5. LockMatchesTransaction'
  BY <1>1, StoreAssumption DEF StoreInv, StoreTypeOK, LockMatchesTransaction
<1>6. InsertedFits'
  BY <1>1 DEF StoreInv, StoreTypeOK, InsertedFits, LockMatchesTransaction
<1>7. UniqueReservations'
  <2>1. conflicting(row[p]) = {}
    BY <1>1 DEF StoreInv, InsertedFits
  <2>2. \A i \in DOMAIN reservations :
           /\ reservations[i].receipt_id # row[p].receipt_id
           /\ reservations[i].intent_key # row[p].intent_key
    BY <2>1 DEF conflicting, conflicts, Range
  <2> QED BY <1>2, <2>2 DEF StoreInv, UniqueReservations
<1>8. ReplyTruthful'
  <2>1. \A q \in Process : stage'[q] = "RESERVED" => row'[q] \in Range(reservations')
    BY <1>1, <1>2 DEF StoreInv, StoreTypeOK, ReplyTruthful
  <2>2. \A r : conflicting(r) \subseteq conflicting(r)'
    BY <1>2 DEF conflicting
  <2>3. \A q \in Process : stage'[q] = "REPLAY" => conflicting(row[q])' # {}
    BY <1>1, <2>2 DEF StoreInv, StoreTypeOK, ReplyTruthful
  <2> QED BY <1>1, <2>1, <2>3 DEF ReplyTruthful, conflicting
<1> QED BY <1>3, <1>4, <1>5, <1>6, <1>7, <1>8 DEF StoreInv

(* Every other step of a process leaves the table alone.                   *)
LEMMA OtherStepsKeepInv ==
    ASSUME StoreInv, NEW p \in Process,
           \/ \E r \in Row : Reserve(p, r)
           \/ BeginImmediate(p) \/ BusyTimeout(p)
           \/ CheckClock(p) \/ RejectExpired(p)
           \/ Insert(p) \/ RejectReplay(p)
           \/ StoreFails(p) \/ Return(p) \/ ProcessDies(p)
    PROVE  StoreInv'
<1> USE StoreAssumption DEF Transaction, InProgress, Replies, StoreInv,
        StoreTypeOK, ArgumentsKnown, LockMatchesTransaction, InsertedFits,
        UniqueReservations, ReplyTruthful, conflicting
<1>1. CASE \E r \in Row : Reserve(p, r)
  BY <1>1 DEF Reserve
<1>2. CASE BeginImmediate(p)
  BY <1>2 DEF BeginImmediate
<1>3. CASE BusyTimeout(p)
  BY <1>3 DEF BusyTimeout
<1>4. CASE CheckClock(p)
  BY <1>4 DEF CheckClock
<1>5. CASE RejectExpired(p)
  BY <1>5 DEF RejectExpired, Rollback
<1>6. CASE Insert(p)
  BY <1>6 DEF Insert
<1>7. CASE RejectReplay(p)
  BY <1>7 DEF RejectReplay, Rollback
<1>8. CASE StoreFails(p)
  BY <1>8 DEF StoreFails, Rollback
<1>9. CASE Return(p)
  BY <1>9 DEF Return
<1>10. CASE ProcessDies(p)
  BY <1>10 DEF ProcessDies
<1> QED BY <1>1, <1>2, <1>3, <1>4, <1>5, <1>6, <1>7, <1>8, <1>9, <1>10

LEMMA StoreStep == StoreInv /\ [StoreNext]_storeVars => StoreInv'
<1> SUFFICES ASSUME StoreInv, [StoreNext]_storeVars PROVE StoreInv'
  OBVIOUS
<1>1. ASSUME NEW p \in Process, Commit(p) \/ CommitUnacknowledged(p)
      PROVE  StoreInv'
  BY <1>1, CommitKeepsInv
<1>2. CASE Tick
  BY <1>2, StoreAssumption
     DEF Tick, StoreInv, StoreTypeOK, ArgumentsKnown, LockMatchesTransaction,
         InsertedFits, UniqueReservations, ReplyTruthful, conflicting
<1>3. CASE UNCHANGED storeVars
  BY <1>3 DEF storeVars, StoreInv, StoreTypeOK, ArgumentsKnown,
              LockMatchesTransaction, InsertedFits, UniqueReservations,
              ReplyTruthful, conflicting
<1> QED BY <1>1, <1>2, <1>3, OtherStepsKeepInv DEF StoreNext, ReserveStep

THEOREM StoreInvariant == StoreSpec => []StoreInv
BY StoreInitial, StoreStep, PTL DEF StoreSpec

-----------------------------------------------------------------------------
(* The types of the store's variables, for every set of processes.         *)
THEOREM StoreTypes == StoreSpec => []StoreTypeOK
BY StoreInvariant, PTL DEF StoreInv

(* No receipt and no intent is ever reserved twice, however many processes *)
(* call reserve() at the same time, fail in it or die in it.               *)
THEOREM ReservationsUnique == StoreSpec => []UniqueReservations
BY StoreInvariant, PTL DEF StoreInv

(* reserve() never leaks the write lock, on any of its ways out.           *)
THEOREM LockNotLeaked == StoreSpec => []LockMatchesTransaction
BY StoreInvariant, PTL DEF StoreInv

(* reserve() never claims a row that is not durable, nor a replay that is  *)
(* none.                                                                   *)
THEOREM RepliesTruthful == StoreSpec => []ReplyTruthful
BY StoreInvariant, PTL DEF StoreInv

(* A row that has lapsed stays out: no step spends it or takes a call that *)
(* waits with it past the check of the clock.                              *)
LEMMA LapsedForGood ==
    ASSUME StoreInv, StoreNext, NEW r \in Row, Lapsed(r),
           reservations' = reservations \/ Arrival
    PROVE  Lapsed(r)'
<1>1. r.expires_at \in Nat /\ now \in Nat /\ now <= now' /\ now' \in Nat
  BY StoreAssumption
     DEF StoreNext, ReserveStep, StoreInv, StoreTypeOK, Tick, Reserve,
         BeginImmediate, BusyTimeout, CheckClock, RejectExpired, Insert,
         RejectReplay, Commit, CommitUnacknowledged, Rollback, StoreFails,
         Return, ProcessDies
<1>2. r \notin Range(reservations')
  <2>1. CASE Arrival
    <3>1. PICK p \in Process : /\ stage[p] = "inserted"
                              /\ reservations' = Append(reservations, row[p])
      BY <2>1 DEF Arrival
    <3>2. row[p] # r /\ row[p] \in Row
      BY <3>1 DEF Lapsed, StoreInv, ArgumentsKnown
    <3>3. Range(reservations') = Range(reservations) \cup {row[p]}
      BY <3>1, <3>2, RangeOfAppend DEF StoreInv, StoreTypeOK
    <3> QED BY <3>2, <3>3 DEF Lapsed
  <2> QED BY <2>1 DEF Lapsed
<1>3. ASSUME NEW p \in Process, row'[p] = r
      PROVE  stage'[p] \notin {"checked", "inserted"}
  <2>1. CASE Tick
    BY <1>3, <2>1 DEF Tick, Lapsed
  <2>2. ASSUME NEW q \in Process,
               \/ \E s \in Row : Reserve(q, s)
               \/ ReserveStep(q) \/ StoreFails(q)
               \/ CommitUnacknowledged(q) \/ Return(q) \/ ProcessDies(q)
        PROVE  stage'[p] \notin {"checked", "inserted"}
    <3>1. CASE CheckClock(q)
      BY <1>1, <1>3, <3>1 DEF CheckClock, Lapsed, StoreInv, StoreTypeOK
    <3>2. CASE Insert(q)
      BY <1>3, <3>2 DEF Insert, Lapsed, StoreInv, StoreTypeOK
    <3>3. CASE ~ CheckClock(q) /\ ~ Insert(q)
      BY <1>3, <2>2, <3>3, StoreAssumption
         DEF ReserveStep, Lapsed, StoreInv, StoreTypeOK, Reserve,
             BeginImmediate, BusyTimeout, RejectExpired, RejectReplay, Commit,
             CommitUnacknowledged, Rollback, StoreFails, Return, ProcessDies
    <3> QED BY <3>1, <3>2, <3>3
  <2> QED BY <2>1, <2>2 DEF StoreNext
<1> QED BY <1>1, <1>2, <1>3 DEF Lapsed

(* The table only grows, and only by the commit of a row that fits it,     *)
(* whose call holds the write lock and whose receipt had not expired when  *)
(* a call got past the check of the clock.                                 *)
THEOREM TableDurable == StoreSpec => ReservationsDurable
<1>1. StoreInv /\ [StoreNext]_storeVars
         => [/\ reservations' = reservations \/ Arrival
             /\ \A r \in Row : Lapsed(r) => Lapsed(r)']_storeVars
  <2> SUFFICES ASSUME StoreInv, StoreNext
               PROVE  /\ reservations' = reservations \/ Arrival
                      /\ \A r \in Row : Lapsed(r) => Lapsed(r)'
    OBVIOUS
  <2>1. ASSUME NEW p \in Process, Commit(p) \/ CommitUnacknowledged(p)
        PROVE  Arrival
    BY <2>1 DEF Commit, CommitUnacknowledged, Arrival, StoreInv, InsertedFits,
                LockMatchesTransaction, Transaction
  <2>2. reservations' = reservations \/ Arrival
    BY <2>1 DEF StoreNext, ReserveStep, Reserve, BeginImmediate, BusyTimeout,
                CheckClock, RejectExpired, Insert, RejectReplay, Rollback,
                StoreFails, Return, ProcessDies, Tick
  <2> QED BY <2>2, LapsedForGood
<1> QED BY <1>1, StoreInvariant, PTL DEF StoreSpec, ReservationsDurable

=============================================================================
