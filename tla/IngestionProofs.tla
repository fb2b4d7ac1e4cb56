--------------------------- MODULE IngestionProofs ---------------------------
(* Proofs about Ingestion, for every set of workers, every retention and   *)
(* every bound.  The accounting theorems assume that the session holding   *)
(* the advisory lock lives as long as its process (~SessionMayDrop) and    *)
(* that the router's counters restart together (~PartialResets); the runs  *)
(* MCIngestionTwoWorkers and MCIngestionWanReset show what happens without.*)
EXTENDS Ingestion, TLAPS

-----------------------------------------------------------------------------
(* CalculateDelta never goes below zero, whatever two readings it is given. *)
LEMMA DeltaType ==
    ASSUME NEW p \in Reading, NEW c \in Reading
    PROVE  CalculateDelta(p, c) \in Bytes
  <1>1. CASE IsReset(p, c)
    BY <1>1 DEF CalculateDelta, Reading
  <1>2. CASE ~IsReset(p, c)
    <2>1. \A d \in Direction : p.bytes[d] \in Nat /\ c.bytes[d] \in Nat
      BY DEF Reading, Bytes
    <2>2. \A d \in Direction : c.bytes[d] - p.bytes[d] \in Nat
      BY <1>2, <2>1 DEF IsReset
    <2> QED BY <1>2, <2>2 DEF CalculateDelta, Bytes
  <1> QED BY <1>1, <1>2

LEMMA IntervalType ==
    ASSUME NEW p \in Reading, NEW c \in Reading
    PROVE  UsageInterval(p, c) \in Interval
  <1>1. CalculateDelta(p, c) \in Bytes
    BY DeltaType
  <1>2. [d \in Direction |-> c.truth[d] - p.truth[d]] \in [Direction -> Int]
    BY DEF Reading, Bytes
  <1> QED BY <1>1, <1>2, ClockAssumption DEF UsageInterval, Interval, Reading

LEMMA CountersType == TypeOK => ConnectionCounters \in Reading
  <1> SUFFICES ASSUME TypeOK PROVE ConnectionCounters \in Reading
    OBVIOUS
  <1>1. Wall \in Nat /\ Uptime \in Nat
    BY ClockAssumption DEF TypeOK, Wall, Uptime
  <1> QED BY <1>1 DEF TypeOK, ConnectionCounters, Reading

(* The latest reading is a reading of the table. *)
LEMMA LatestIn ==
    ASSUME LatestInv
    PROVE  IF readings = {} THEN Latest = NoReading
                            ELSE Latest \in readings /\ IsLatest(Latest)
  BY DEF LatestInv, Latest, IsLatest

(* Every reachable state has the types of the schema, and router_readings  *)
(* has one row per instant (Record's "on conflict do nothing").  A worker  *)
(* has a sample exactly when it is inside collect, and a table that is not *)
(* empty has a latest row: with both the type invariant is inductive.      *)
LEMMA TypeInit == Init => TypeOK /\ SampleInv
  BY ClockAssumption, WorkersAssumption DEF Init, TypeOK, SampleInv, Zero, Bytes, InTransaction

LEMMA RecordType ==
    ASSUME TypeOK, SampleInv, NEW w \in Workers, Record(w)
    PROVE  TypeOK' /\ SampleInv'
  <1> DEFINE s == sample[w]
             p == previous[w]
  <1>1. s \in Reading
    BY DEF Record, InsertReading, Advances, SampleInv, InTransaction, TypeOK
  <1>2. readings' \in SUBSET Reading /\ \A q, r \in readings' : q.at = r.at => q = r
    BY <1>1 DEF Record, InsertReading, Advances, TypeOK
  <1>3. intervals' \in Seq(Interval) /\ billed' \in Bytes /\ resetEvents' \in SUBSET Int
    <2>1. CASE p # NoReading /\ s.at > p.at
      <3>1. p \in Reading
        BY <2>1 DEF TypeOK
      <3>2. UsageInterval(p, s) \in Interval
        BY <1>1, <3>1, IntervalType
      <3>3. UsageInterval(p, s).bytes \in Bytes /\ s.at \in Int
        BY <1>1, <3>2 DEF Interval, Reading
      <3>4. billed' = [d \in Direction |-> billed[d] + UsageInterval(p, s).bytes[d]]
        BY <2>1 DEF Record, InsertReading, Advances
      <3>5. billed' \in Bytes
        BY <3>3, <3>4 DEF TypeOK, Bytes
      <3>6. intervals' = Append(intervals, UsageInterval(p, s))
        BY <2>1 DEF Record, InsertReading, Advances
      <3>7. resetEvents' \in SUBSET Int
        BY <2>1, <3>3 DEF Record, InsertReading, Advances, TypeOK
      <3> QED BY <3>2, <3>5, <3>6, <3>7 DEF TypeOK
    <2>2. CASE ~(p # NoReading /\ s.at > p.at)
      BY <2>2 DEF Record, InsertReading, Advances, TypeOK
    <2> QED BY <2>1, <2>2
  <1>4. pc' = [pc EXCEPT ![w] = "idle"] /\ sample' = [sample EXCEPT ![w] = NoReading]
        /\ previous' = [previous EXCEPT ![w] = NoReading]
    BY DEF Record, InsertReading, Advances
  <1>5. TypeOK'
    BY <1>2, <1>3, <1>4 DEF Record, InsertReading, Advances, TypeOK, router, clock
  <1>6. SampleInv'
    BY <1>4 DEF SampleInv, InTransaction, TypeOK
  <1> QED BY <1>5, <1>6

(* What the WAN records do is seen in the counters only, which are at most *)
(* smaller when they went down.                                            *)
LEMMA WanFrame ==
    WanRecords => /\ PartialResets
                  /\ UNCHANGED <<bootedAt, skew, lock, pc, sample, previous, tables>>
                  /\ now' = now \/ (now < MaxNow /\ now' = now + 1)
  <1> SUFFICES ASSUME WanRecords
               PROVE  /\ PartialResets
                      /\ UNCHANGED <<bootedAt, skew, lock, pc, sample, previous, tables>>
                      /\ now' = now \/ (now < MaxNow /\ now' = now + 1)
    OBVIOUS
  <1>1. CASE WanReconnect
    BY <1>1 DEF WanRecords, WanReconnect
  <1>2. CASE SkipRecord \/ ReadRecordAgain
    BY <1>2 DEF WanRecords, SkipRecord, ReadRecordAgain, clock
  <1>3. ASSUME NEW d \in Direction, OmittedTraffic(d)
        PROVE  UNCHANGED <<bootedAt, clock, lock, pc, sample, previous, tables>>
    BY <1>3 DEF OmittedTraffic
  <1> QED BY <1>1, <1>2, <1>3 DEF WanRecords, clock

LEMMA Shares ==
    ASSUME NEW counters \in Bytes, NEW share \in SharesOf(counters)
    PROVE  share \in Bytes /\ \A d \in Direction : share[d] <= counters[d]
  BY BoundAssumption DEF SharesOf, Bytes

LEMMA WanCounters ==
    ASSUME TypeOK, WanRecords
    PROVE  /\ total' \in Bytes /\ omitted' \in Bytes /\ carried' \in Bytes
           /\ \A d \in Direction : carried[d] <= carried'[d]
           /\ \/ restarts' = restarts + 1
              \/ restarts' = restarts /\ \A d \in Direction : total[d] <= total'[d]
  <1>0. total \in Bytes /\ omitted \in Bytes /\ carried \in Bytes
    BY DEF TypeOK
  <1>1. \A d \in Direction : total[d] \in Nat /\ omitted[d] \in Nat /\ carried[d] \in Nat
    BY <1>0 DEF Bytes
  <1>2. UNCHANGED carried => \A d \in Direction : carried[d] <= carried'[d]
    BY <1>1
  <1>3. CASE WanReconnect
    <2>1. total' \in Bytes /\ omitted' \in Bytes /\ UNCHANGED carried
      BY <1>0, <1>3, Shares DEF WanReconnect
    <2>2. restarts' = restarts + 1 \/ (restarts' = restarts /\ total' = total)
      BY <1>3 DEF WanReconnect
    <2> QED BY <1>0, <1>1, <1>2, <2>1, <2>2
  <1>4. CASE SkipRecord
    <2>1. total' \in Bytes /\ \A d \in Direction : total'[d] \in Nat /\ total'[d] <= total[d]
      BY <1>0, <1>4, Shares DEF SkipRecord, Bytes
    <2>2. omitted' = [d \in Direction |-> omitted[d] + (total[d] - total'[d])]
      BY <1>4 DEF SkipRecord
    <2>3. \A d \in Direction : omitted[d] + (total[d] - total'[d]) \in Nat
      BY <1>1, <2>1
    <2>4. omitted' \in Bytes
      BY <2>2, <2>3 DEF Bytes
    <2>5. UNCHANGED carried /\ restarts' = restarts + 1
      BY <1>4 DEF SkipRecord
    <2> QED BY <1>0, <1>2, <2>1, <2>4, <2>5
  <1>5. CASE ReadRecordAgain
    <2>1. /\ omitted' \in Bytes
          /\ \A d \in Direction : omitted'[d] \in Nat /\ omitted'[d] <= omitted[d]
      BY <1>0, <1>5, Shares DEF ReadRecordAgain, Bytes
    <2>2. total' = [d \in Direction |-> total[d] + (omitted[d] - omitted'[d])]
      BY <1>5 DEF ReadRecordAgain
    <2>3. \A d \in Direction : /\ total[d] + (omitted[d] - omitted'[d]) \in Nat
                              /\ total[d] <= total[d] + (omitted[d] - omitted'[d])
      BY <1>1, <2>1
    <2>4. total' \in Bytes /\ \A d \in Direction : total[d] <= total'[d]
      BY <2>2, <2>3 DEF Bytes
    <2>5. UNCHANGED <<carried, restarts>>
      BY <1>5 DEF ReadRecordAgain
    <2> QED BY <1>0, <1>2, <2>1, <2>4, <2>5
  <1>6. ASSUME NEW d \in Direction, OmittedTraffic(d)
        PROVE  /\ total' \in Bytes /\ omitted' \in Bytes /\ carried' \in Bytes
               /\ restarts' = restarts
               /\ \A e \in Direction : carried[e] <= carried'[e] /\ total[e] <= total'[e]
    BY <1>0, <1>1, <1>6 DEF OmittedTraffic, Bytes
  <1> QED BY <1>3, <1>4, <1>5, <1>6 DEF WanRecords

LEMMA BaseStep == BaseInv /\ [Next]_vars => BaseInv'
  <1> SUFFICES ASSUME BaseInv, [Next]_vars PROVE BaseInv'
    OBVIOUS
  <1> USE ClockAssumption DEF InTransaction, BaseInv, LatestInv, IsLatest
  <1>1. ASSUME NEW d \in Direction, Traffic(d) PROVE BaseInv'
    BY <1>1 DEF TypeOK, SampleInv, Traffic, Bytes, clock, tables
  <1>2. CASE RouterRestart
    BY <1>2 DEF TypeOK, SampleInv, RouterRestart, Bytes, Zero, tables
  <1>3. CASE WanRecords
    <2>1. /\ total' \in Bytes /\ omitted' \in Bytes /\ carried' \in Bytes
          /\ restarts' \in Nat /\ now' \in Nat /\ now <= now'
      BY <1>3, WanCounters, WanFrame DEF TypeOK
    <2>2. /\ UNCHANGED <<bootedAt, skew, lock, pc, sample, previous>>
          /\ UNCHANGED <<readings, intervals, resetEvents, billed>>
      BY <1>3, WanFrame DEF tables
    <2>3. bootedAt' \in 0..now'
      BY <2>1, <2>2 DEF TypeOK
    <2>4. TypeOK'
      BY <2>1, <2>2, <2>3 DEF TypeOK
    <2>5. SampleInv'
      BY <2>2 DEF SampleInv
    <2>6. LatestInv'
      BY <2>2
    <2> QED BY <2>4, <2>5, <2>6
  <1>4. CASE Tick
    BY <1>4 DEF TypeOK, SampleInv, Tick, router, tables
  <1>5. CASE AdjustClock
    BY <1>5 DEF TypeOK, SampleInv, AdjustClock, router, tables
  <1>6. ASSUME NEW w \in Workers, Start(w) PROVE BaseInv'
    BY <1>6 DEF TypeOK, SampleInv, Start, TryAdvisoryLock, router, clock, tables
  <1>7. ASSUME NEW w \in Workers, Stop(w) PROVE BaseInv'
    BY <1>7 DEF TypeOK, SampleInv, Stop, router, clock, tables
  <1>8. ASSUME NEW w \in Workers, LoseSession(w) PROVE BaseInv'
    BY <1>8 DEF TypeOK, SampleInv, LoseSession, router, clock, tables
  <1>9. ASSUME NEW w \in Workers, PruneRawData(w) PROVE BaseInv'
    <2>1. LatestInv'
      <3> SUFFICES ASSUME readings' # {}
                   PROVE  \E r \in readings' : \A q \in readings' : q.at <= r.at
        OBVIOUS
      <3>1. PICK r \in readings : \A q \in readings : q.at <= r.at
        BY <1>9 DEF PruneRawData, Expired
      <3>2. \A q \in readings : q.at \in Int /\ Wall \in Int
        BY DEF TypeOK, Reading, Wall
      <3>3. r \in readings' /\ readings' \subseteq readings
        BY <1>9, <3>1, <3>2 DEF PruneRawData, Expired
      <3> QED BY <3>1, <3>3
    <2> QED BY <1>9, <2>1 DEF TypeOK, SampleInv, PruneRawData, Expired, router, clock
  <1>10. ASSUME NEW w \in Workers, Sample(w) PROVE BaseInv'
    <2>1. ConnectionCounters \in Reading /\ ConnectionCounters # NoReading
      BY CountersType, NoReadingAssumption
    <2> QED BY <1>10, <2>1 DEF TypeOK, SampleInv, Sample, router, clock, tables
  <1>11. ASSUME NEW w \in Workers, SelectPrevious(w) PROVE BaseInv'
    <2>1. Latest \in Reading \union {NoReading}
      BY LatestIn DEF TypeOK
    <2> QED BY <1>11, <2>1 DEF TypeOK, SampleInv, SelectPrevious, router, clock, tables
  <1>12. ASSUME NEW w \in Workers, LockPrevious(w) PROVE BaseInv'
    BY <1>12 DEF TypeOK, SampleInv, LockPrevious, router, clock, tables
  <1>13. ASSUME NEW w \in Workers, Record(w) PROVE BaseInv'
    <2>1. LatestInv'
      <3>1. sample[w] \in Reading
        BY <1>13 DEF Record, InsertReading, Advances, SampleInv, TypeOK
      <3>2. \A q \in readings : q.at \in Int
        BY DEF TypeOK, Reading
      <3>3. sample[w].at \in Int
        BY <3>1 DEF Reading
      <3>4. readings' = readings \/ readings' = readings \union {sample[w]}
        BY <1>13 DEF Record, InsertReading, Advances
      <3> QED BY <3>2, <3>3, <3>4
    <2> QED BY <1>13, <2>1, RecordType
  <1>14. ASSUME NEW w \in Workers, Rollback(w) PROVE BaseInv'
    BY <1>14 DEF TypeOK, SampleInv, Rollback, router, clock, tables
  <1>15. CASE UNCHANGED vars
    BY <1>15 DEF TypeOK, SampleInv, vars, router, clock, tables
  <1> QED
    BY <1>1, <1>2, <1>3, <1>4, <1>5, <1>6, <1>7, <1>8, <1>9, <1>10, <1>11,
       <1>12, <1>13, <1>14, <1>15 DEF Next, Environment, Worker

THEOREM TypeCorrect == Spec => []TypeOK
  <1>1. Init => BaseInv
    BY TypeInit DEF BaseInv, LatestInv, Init
  <1>2. BaseInv => TypeOK
    BY DEF BaseInv
  <1> QED BY <1>1, <1>2, BaseStep, PTL DEF Spec

-----------------------------------------------------------------------------
(* The advisory lock.                                                      *)
LEMMA LockStep ==
    ~SessionMayDrop /\ BaseInv /\ LockInv /\ [Next]_vars => LockInv'
  <1> SUFFICES ASSUME ~SessionMayDrop, BaseInv, LockInv, [Next]_vars
               PROVE  LockInv'
    OBVIOUS
  <1> USE WorkersAssumption DEF LockInv, BaseInv, TypeOK
  <1>1. CASE Environment
    BY <1>1, WanFrame DEF Environment, Traffic, RouterRestart, Tick, AdjustClock
  <1>2. ASSUME NEW w \in Workers, Start(w) PROVE LockInv'
    BY <1>2 DEF Start, TryAdvisoryLock
  <1>3. ASSUME NEW w \in Workers, Stop(w) PROVE LockInv'
    BY <1>3 DEF Stop
  <1>4. ASSUME NEW w \in Workers,
               \/ PruneRawData(w) \/ Sample(w) \/ SelectPrevious(w)
               \/ LockPrevious(w) \/ Record(w) \/ Rollback(w)
        PROVE  LockInv'
    BY <1>4
       DEF PruneRawData, Expired, Sample, SelectPrevious, LockPrevious, Record, InsertReading,
           Advances, Rollback
  <1>5. CASE UNCHANGED vars
    BY <1>5 DEF vars
  <1> QED BY <1>1, <1>2, <1>3, <1>4, <1>5 DEF Next, Worker, LoseSession

(* While no session is lost, a second worker never gets past the lock.     *)
THEOREM OneWorker == ~SessionMayDrop => (Spec => []SingleActiveWorker)
  <1> SUFFICES ASSUME ~SessionMayDrop PROVE Spec => []SingleActiveWorker
    OBVIOUS
  <1>1. Init => BaseInv /\ LockInv
    BY TypeInit DEF BaseInv, LatestInv, LockInv, Init
  <1>2. BaseInv /\ LockInv /\ [Next]_vars => (BaseInv /\ LockInv)'
    BY BaseStep, LockStep
  <1>3. LockInv => SingleActiveWorker
    BY DEF LockInv, SingleActiveWorker
  <1> QED BY <1>1, <1>2, <1>3, PTL DEF Spec

(* Whoever acts past the lock is alone.                                    *)
LEMMA Alone ==
    ASSUME BaseInv, LockInv, NEW w \in Workers, pc[w] # "down"
    PROVE  \A v \in Workers \ {w} : pc[v] = "down" /\ sample[v] = NoReading
  BY DEF BaseInv, LockInv, SampleInv, InTransaction

-----------------------------------------------------------------------------
(* CalculateDelta on two readings of one router.                           *)
LEMMA DeltaBound ==
    ASSUME NEW p \in Reading, NEW c \in Reading, Precedes(p, c)
    PROVE  /\ \A d \in Direction : CalculateDelta(p, c)[d] <= c.truth[d] - p.truth[d]
           /\ p.epoch = c.epoch =>
                 /\ ~IsReset(p, c)
                 /\ CalculateDelta(p, c) = [d \in Direction |-> c.truth[d] - p.truth[d]]
  <1>1. /\ \A d \in Direction : /\ p.bytes[d] \in Nat /\ c.bytes[d] \in Nat
                                /\ p.truth[d] \in Nat /\ c.truth[d] \in Nat
        /\ p.uptime \in Nat /\ c.uptime \in Nat
    BY DEF Reading, Bytes
  <1>2. ASSUME p.epoch = c.epoch
        PROVE  /\ ~IsReset(p, c)
               /\ CalculateDelta(p, c) = [d \in Direction |-> c.truth[d] - p.truth[d]]
    BY <1>1, <1>2 DEF Precedes, IsReset, CalculateDelta
  <1>3. ASSUME p.epoch # c.epoch, NEW d \in Direction
        PROVE  CalculateDelta(p, c)[d] <= c.truth[d] - p.truth[d]
    BY <1>1, <1>3 DEF Precedes, CalculateDelta
  <1> QED BY <1>1, <1>2, <1>3

-----------------------------------------------------------------------------
(* The selected row is still the latest when the transaction commits.      *)
LEMMA PreviousStep ==
    BaseInv /\ LockInv /\ PreviousInv /\ [Next]_vars => PreviousInv'
  <1> SUFFICES ASSUME BaseInv, LockInv, PreviousInv, [Next]_vars PROVE PreviousInv'
    OBVIOUS
  <1> USE DEF BaseInv, TypeOK, PreviousInv, IsLatest
  <1>1. CASE Environment
    BY <1>1, WanFrame DEF Environment, Traffic, RouterRestart, Tick, AdjustClock, tables
  <1>2. ASSUME NEW w \in Workers,
               Start(w) \/ Stop(w) \/ LoseSession(w) \/ Sample(w) \/ Rollback(w)
        PROVE  PreviousInv'
    BY <1>2 DEF Start, TryAdvisoryLock, Stop, LoseSession, Sample, Rollback, tables
  <1>3. ASSUME NEW w \in Workers, PruneRawData(w) PROVE PreviousInv'
    <2>1. \A v \in Workers \ {w} : pc[v] = "down"
      BY <1>3, Alone DEF PruneRawData, Expired
    <2> QED BY <1>3, <2>1 DEF PruneRawData, Expired
  <1>4. ASSUME NEW w \in Workers, SelectPrevious(w) PROVE PreviousInv'
    BY <1>4, LatestIn DEF SelectPrevious, tables
  <1>5. ASSUME NEW w \in Workers, LockPrevious(w) PROVE PreviousInv'
    BY <1>5 DEF LockPrevious, tables
  <1>6. ASSUME NEW w \in Workers, Record(w) PROVE PreviousInv'
    <2>1. \A v \in Workers \ {w} : pc[v] = "down"
      BY <1>6, Alone DEF Record, InsertReading, Advances
    <2> QED BY <1>6, <2>1 DEF Record, InsertReading, Advances
  <1>7. CASE UNCHANGED vars
    BY <1>7 DEF vars, tables
  <1> QED BY <1>1, <1>2, <1>3, <1>4, <1>5, <1>6, <1>7 DEF Next, Worker

(* What the counters say of every reading taken before.                    *)
LEMMA ReadingStep ==
    ~PartialResets /\ BaseInv /\ LockInv /\ ReadingInv /\ [Next]_vars => ReadingInv'
  <1> SUFFICES ASSUME ~PartialResets, BaseInv, LockInv, ReadingInv, [Next]_vars
               PROVE  ReadingInv'
    OBVIOUS
  <1> USE DEF BaseInv
  <1>0. /\ \A r \in readings : r \in Reading
        /\ \A w \in Workers : sample[w] # NoReading => sample[w] \in Reading
    BY DEF TypeOK
  <1>1. ASSUME NEW d \in Direction, Traffic(d), NEW r \in Reading,
               Precedes(r, ConnectionCounters)
        PROVE  Precedes(r, ConnectionCounters)'
    <2>1. \A x \in Direction :
             /\ carried[x] \in Nat /\ total[x] \in Nat
             /\ r.truth[x] \in Nat /\ r.bytes[x] \in Nat
             /\ carried'[x] = carried[x] + (IF x = d THEN 1 ELSE 0)
             /\ total'[x] = total[x] + (IF x = d THEN 1 ELSE 0)
      BY <1>1 DEF Traffic, TypeOK, Reading, Bytes
    <2>2. UNCHANGED <<restarts, Uptime>>
      BY <1>1 DEF Traffic, clock, Uptime
    <2>3. /\ ConnectionCounters.epoch = restarts /\ ConnectionCounters.uptime = Uptime
          /\ ConnectionCounters.bytes = total /\ ConnectionCounters.truth = carried
          /\ (ConnectionCounters.epoch = restarts)' /\ (ConnectionCounters.uptime = Uptime)'
          /\ (ConnectionCounters.bytes = total)' /\ (ConnectionCounters.truth = carried)'
      BY DEF ConnectionCounters
    <2>4. /\ r.epoch <= restarts
          /\ \A x \in Direction : r.truth[x] <= carried'[x]
          /\ r.epoch = restarts =>
                /\ r.uptime <= Uptime
                /\ \A x \in Direction : total'[x] - r.bytes[x] = carried'[x] - r.truth[x]
          /\ r.epoch # restarts =>
                \A x \in Direction : total'[x] <= carried'[x] - r.truth[x]
      BY <1>1, <2>1, <2>3 DEF Precedes
    <2> QED BY <2>2, <2>3, <2>4 DEF Precedes
  <1>2. ASSUME RouterRestart, NEW r \in Reading, Precedes(r, ConnectionCounters)
        PROVE  Precedes(r, ConnectionCounters)'
    BY <1>2 DEF RouterRestart, Zero, Precedes, ConnectionCounters, Reading, Bytes, TypeOK
  <1>3. ASSUME Tick, NEW r \in Reading, Precedes(r, ConnectionCounters)
        PROVE  Precedes(r, ConnectionCounters)'
    BY <1>3, SwitchAssumption
       DEF Tick, Precedes, ConnectionCounters, Reading, Bytes, TypeOK, Uptime, router
  <1>4. ASSUME UNCHANGED <<router, now>>, NEW r \in Reading, Precedes(r, ConnectionCounters)
        PROVE  Precedes(r, ConnectionCounters)'
    BY <1>4 DEF Precedes, ConnectionCounters, Uptime, router
  <1>5. CASE Environment
    <2>1. ASSUME NEW r \in Reading, Precedes(r, ConnectionCounters)
          PROVE  Precedes(r, ConnectionCounters)'
      BY <1>1, <1>2, <1>3, <1>4, <1>5, <2>1, WanFrame DEF Environment, AdjustClock
    <2>2. UNCHANGED <<readings, sample>>
      BY <1>5, WanFrame DEF Environment, Traffic, RouterRestart, Tick, AdjustClock, tables
    <2> QED BY <1>0, <2>1, <2>2 DEF ReadingInv
  <1>6. ASSUME NEW w \in Workers,
               Start(w) \/ LoseSession(w) \/ SelectPrevious(w) \/ LockPrevious(w)
               \/ Stop(w) \/ Rollback(w) \/ PruneRawData(w)
        PROVE  ReadingInv'
    <2>1. /\ UNCHANGED <<router, now>>
          /\ readings' \subseteq readings
          /\ \A v \in Workers : sample'[v] # NoReading => sample'[v] = sample[v]
      BY <1>6 DEF Start, TryAdvisoryLock, LoseSession, SelectPrevious, LockPrevious, Stop, Rollback,
                  PruneRawData, Expired, router, clock, tables, TypeOK
    <2> QED BY <1>0, <1>4, <2>1 DEF ReadingInv
  <1>7. ASSUME NEW w \in Workers, Sample(w) PROVE ReadingInv'
    <2>1. UNCHANGED <<router, now, readings>>
          /\ \A v \in Workers : sample'[v] = IF v = w THEN ConnectionCounters ELSE sample[v]
      BY <1>7 DEF Sample, router, clock, tables, TypeOK
    <2>2. ConnectionCounters \in Reading
      BY CountersType
    <2>3. Precedes(ConnectionCounters, ConnectionCounters)
      BY <2>2 DEF Precedes, Reading, Bytes
    <2> QED BY <1>0, <1>4, <2>1, <2>2, <2>3 DEF ReadingInv
  <1>8. ASSUME NEW w \in Workers, Record(w) PROVE ReadingInv'
    <2>1. sample[w] # NoReading /\ \A v \in Workers : sample'[v] = NoReading
      BY <1>8, Alone DEF Record, InsertReading, Advances, SampleInv, InTransaction, TypeOK
    <2>2. readings' \subseteq readings \union {sample[w]} /\ UNCHANGED <<router, now>>
      BY <1>8 DEF Record, InsertReading, Advances, clock
    <2> QED BY <1>0, <1>4, <2>1, <2>2 DEF ReadingInv
  <1>9. CASE UNCHANGED vars
    BY <1>0, <1>4, <1>9 DEF vars, ReadingInv, router, clock, tables
  <1> QED BY <1>5, <1>6, <1>7, <1>8, <1>9 DEF Next, Worker

-----------------------------------------------------------------------------
(* What a commit does to the table: the new reading becomes the latest one *)
(* and an interval is appended, or the history stays as it is.             *)
LEMMA RecordCases ==
    ASSUME BaseInv, LockInv, PreviousInv, NEW w \in Workers, Record(w)
    PROVE  LET s == sample[w]
               p == previous[w]
           IN  /\ s \in Reading
               /\ \/ /\ p \in readings /\ IsLatest(p) /\ s.at > p.at
                     /\ readings' = readings \union {s}
                     /\ \A r \in readings' : IsLatest(r)' => r = s
                     /\ intervals' = Append(intervals, UsageInterval(p, s))
                     /\ billed' = [d \in Direction |-> billed[d] + CalculateDelta(p, s)[d]]
                     /\ resetEvents' = IF IsReset(p, s) THEN resetEvents \union {s.at}
                                                        ELSE resetEvents
                  \/ /\ UNCHANGED <<intervals, billed, resetEvents>>
                     /\ readings = {} /\ readings' = {s}
                  \/ /\ UNCHANGED <<intervals, billed, resetEvents>>
                     /\ readings # {} /\ readings' # {}
                     /\ \A r \in readings' : IsLatest(r)' => IsLatest(r)
  <1> DEFINE s == sample[w]
             p == previous[w]
  <1> USE DEF BaseInv
  <1>1. s \in Reading /\ s.at \in Int
    BY DEF Record, InsertReading, Advances, SampleInv, InTransaction, TypeOK, Reading
  <1>2. \A q \in readings : q \in Reading /\ q.at \in Int
    BY DEF TypeOK, Reading
  <1>3. IF readings = {} THEN p = NoReading ELSE IsLatest(p)
    BY DEF Record, InsertReading, Advances, PreviousInv
  <1>4. readings' = IF \E r \in readings : r.at = s.at THEN readings ELSE readings \union {s}
    BY DEF Record, InsertReading, Advances
  <1>5. CASE readings = {}
    <2>1. readings' = {s} /\ UNCHANGED <<intervals, billed, resetEvents>>
      BY <1>3, <1>4, <1>5 DEF Record, InsertReading, Advances
    <2> QED BY <1>1, <1>5, <2>1
  <1>6. CASE readings # {} /\ s.at > p.at
    <2>1. p \in readings /\ IsLatest(p) /\ p # NoReading
      BY <1>2, <1>3, <1>6, NoReadingAssumption DEF IsLatest
    <2>2. readings' = readings \union {s}
      BY <1>1, <1>2, <1>4, <1>6, <2>1 DEF IsLatest
    <2>3. \A r \in readings' : IsLatest(r)' => r = s
      BY <1>1, <1>2, <1>6, <2>1, <2>2 DEF IsLatest
    <2>4. UsageInterval(p, s).bytes = CalculateDelta(p, s)
      BY DEF UsageInterval
    <2>5. /\ intervals' = Append(intervals, UsageInterval(p, s))
          /\ billed' = [d \in Direction |-> billed[d] + CalculateDelta(p, s)[d]]
          /\ resetEvents' = IF IsReset(p, s) THEN resetEvents \union {s.at}
                                             ELSE resetEvents
      BY <1>6, <2>1, <2>4 DEF Record, InsertReading, Advances
    <2> QED BY <1>1, <1>6, <2>1, <2>2, <2>3, <2>5
  <1>7. CASE readings # {} /\ ~(s.at > p.at)
    <2>1. UNCHANGED <<intervals, billed, resetEvents>>
      BY <1>7 DEF Record, InsertReading, Advances
    <2>2. \A r \in readings' : IsLatest(r)' => IsLatest(r)
      BY <1>1, <1>2, <1>3, <1>4, <1>7 DEF IsLatest
    <2> QED BY <1>1, <1>4, <1>7, <2>1, <2>2
  <1> QED BY <1>5, <1>6, <1>7

(* What pruning does to the table: the latest row goes last.               *)
LEMMA PruneCases ==
    ASSUME BaseInv, NEW w \in Workers, PruneRawData(w)
    PROVE  /\ readings' \subseteq readings
           /\ \A r \in readings' : IsLatest(r)' => IsLatest(r)
           /\ readings' = {} => \A r \in readings : r.at < Wall - Retention
  <1>1. \A q \in readings : q.at \in Int
    BY DEF BaseInv, TypeOK, Reading
  <1>2. Wall - Retention \in Int
    BY ClockAssumption DEF BaseInv, TypeOK, Wall
  <1> QED BY <1>1, <1>2 DEF PruneRawData, Expired, IsLatest

-----------------------------------------------------------------------------
(* Nothing is charged that was not carried before the latest reading.      *)
LEMMA BilledStep ==
    BaseInv /\ LockInv /\ PreviousInv /\ ReadingInv /\ BilledInv /\ [Next]_vars
      => BilledInv'
  <1> SUFFICES ASSUME BaseInv, LockInv, PreviousInv, ReadingInv, BilledInv, [Next]_vars
               PROVE  BilledInv'
    OBVIOUS
  <1>0. /\ \A d \in Direction : billed[d] \in Nat /\ carried[d] \in Nat
        /\ \A r \in Reading : \A d \in Direction : r.truth[d] \in Nat
        /\ \A r \in readings : r \in Reading
        /\ \A w \in Workers : sample[w] # NoReading => sample[w] \in Reading
    BY DEF BaseInv, TypeOK, Reading, Bytes
  <1>1. ASSUME UNCHANGED <<billed, readings, sample>>,
               \A d \in Direction : carried'[d] \in Nat /\ carried[d] <= carried'[d]
        PROVE  BilledInv'
    BY <1>0, <1>1 DEF BilledInv, NeverOvercounts, IsLatest
  <1>2. CASE Environment
    <2>1. UNCHANGED <<billed, readings, sample>>
      BY <1>2, WanFrame DEF Environment, Traffic, RouterRestart, Tick, AdjustClock, tables
    <2>2. \A d \in Direction : carried'[d] \in Nat /\ carried[d] <= carried'[d]
      <3>1. ASSUME NEW x \in Direction, Traffic(x)
            PROVE  \A d \in Direction : carried'[d] \in Nat /\ carried[d] <= carried'[d]
        BY <1>0, <3>1 DEF Traffic, BaseInv, TypeOK, Bytes
      <3>2. CASE UNCHANGED carried
        BY <1>0, <3>2
      <3>3. CASE WanRecords
        BY <3>3, WanCounters DEF BaseInv, TypeOK, Bytes
      <3> QED BY <1>2, <3>1, <3>2, <3>3
              DEF Environment, RouterRestart, Tick, AdjustClock, router
    <2> QED BY <1>1, <2>1, <2>2
  <1>3. ASSUME NEW w \in Workers,
               Start(w) \/ LoseSession(w) \/ SelectPrevious(w) \/ LockPrevious(w)
        PROVE  BilledInv'
    BY <1>0, <1>1, <1>3
       DEF Start, TryAdvisoryLock, LoseSession, SelectPrevious, LockPrevious, router, tables
  <1>4. ASSUME NEW w \in Workers, Stop(w) \/ Rollback(w) PROVE BilledInv'
    <2>1. /\ UNCHANGED <<billed, readings, carried>>
          /\ \A v \in Workers : sample'[v] # NoReading => sample'[v] = sample[v]
      BY <1>4 DEF Stop, Rollback, router, tables, BaseInv, TypeOK
    <2> QED BY <2>1 DEF BilledInv, NeverOvercounts, IsLatest
  <1>5. ASSUME NEW w \in Workers, PruneRawData(w) PROVE BilledInv'
    <2>1. UNCHANGED <<billed, sample, carried>>
      BY <1>5 DEF PruneRawData, Expired, router
    <2> QED BY <1>5, <2>1, PruneCases DEF BilledInv, NeverOvercounts
  <1>6. ASSUME NEW w \in Workers, Sample(w) PROVE BilledInv'
    <2>1. /\ UNCHANGED <<billed, readings, carried>>
          /\ \A v \in Workers : sample'[v] = IF v = w THEN ConnectionCounters ELSE sample[v]
      BY <1>6 DEF Sample, router, tables, BaseInv, TypeOK
    <2>2. ConnectionCounters.truth = carried
      BY DEF ConnectionCounters
    <2> QED BY <2>1, <2>2 DEF BilledInv, NeverOvercounts, IsLatest
  <1>7. ASSUME NEW w \in Workers, Record(w) PROVE BilledInv'
    <2> DEFINE s == sample[w]
               p == previous[w]
    <2>1. s # NoReading /\ \A v \in Workers : sample'[v] = NoReading
      BY <1>7, Alone DEF Record, InsertReading, Advances, BaseInv, SampleInv, InTransaction, TypeOK
    <2>2. UNCHANGED carried
      BY <1>7 DEF Record, InsertReading, Advances, router
    <2>3. \A d \in Direction : s.truth[d] <= carried[d] /\ billed[d] <= s.truth[d]
      BY <2>1 DEF ReadingInv, Precedes, ConnectionCounters, BilledInv
    <2>4. CASE /\ p \in readings /\ IsLatest(p)
               /\ \A r \in readings' : IsLatest(r)' => r = s
               /\ billed' = [d \in Direction |-> billed[d] + CalculateDelta(p, s)[d]]
      <3>1. Precedes(p, s) /\ s \in Reading /\ p \in Reading
        BY <1>0, <2>1, <2>4 DEF ReadingInv
      <3>2. \A d \in Direction : CalculateDelta(p, s)[d] <= s.truth[d] - p.truth[d]
        BY <3>1, DeltaBound
      <3>3. \A d \in Direction : CalculateDelta(p, s)[d] \in Nat
        BY <3>1, DeltaType DEF Bytes
      <3>4. \A d \in Direction : billed[d] <= p.truth[d]
        BY <2>4 DEF BilledInv
      <3>5. \A d \in Direction : billed'[d] <= s.truth[d]
        BY <1>0, <2>4, <3>1, <3>2, <3>3, <3>4
      <3>6. \A d \in Direction : billed'[d] <= carried'[d]
        <4>1. \A d \in Direction : billed'[d] \in Nat
          BY <1>0, <2>4, <3>3
        <4> QED BY <1>0, <2>2, <2>3, <3>1, <3>5, <4>1
      <3> QED BY <2>1, <2>4, <3>5, <3>6 DEF BilledInv, NeverOvercounts
    <2>5. CASE UNCHANGED billed /\ readings = {} /\ readings' = {s}
      BY <2>1, <2>2, <2>3, <2>5 DEF BilledInv, NeverOvercounts
    <2>6. CASE UNCHANGED billed /\ \A r \in readings' : IsLatest(r)' => IsLatest(r)
      BY <2>1, <2>2, <2>6 DEF BilledInv, NeverOvercounts, IsLatest
    <2> QED BY <1>7, <2>4, <2>5, <2>6, RecordCases
  <1>8. CASE UNCHANGED vars
    BY <1>0, <1>1, <1>8 DEF vars, router, tables
  <1> QED BY <1>2, <1>3, <1>4, <1>5, <1>6, <1>7, <1>8 DEF Next, Worker

-----------------------------------------------------------------------------
(* Appending one interval that starts where the history may go on.         *)
LEMMA AppendInOrder ==
    ASSUME intervals \in Seq(Interval), OrderInv,
           NEW v \in Interval, v.started < v.ended,
           intervals # <<>> => Joins(v.started),
           intervals' = Append(intervals, v)
    PROVE  /\ NoOverlap' /\ GapsOnlyFromRetention'
           /\ \A i \in 1..Len(intervals') : intervals'[i].started < intervals'[i].ended
           /\ LastSpan' = [from |-> v.started, to |-> v.ended]
           /\ intervals' # <<>>
  <1> DEFINE n == Len(intervals)
  <1>1. /\ n \in Nat /\ Len(intervals') = n + 1
        /\ \A i \in 1..n : intervals'[i] = intervals[i]
        /\ intervals'[n+1] = v
        /\ intervals' # <<>>
    OBVIOUS
  <1>2. \A i \in 1..n : /\ intervals[i] \in Interval
                        /\ intervals[i].started \in Int /\ intervals[i].ended \in Int
    <2>1. \A i \in 1..n : intervals[i] \in Interval
      OBVIOUS
    <2> QED BY <2>1 DEF Interval
  <1>3. v.started \in Int /\ v.ended \in Int
    BY DEF Interval
  <1>4. \A i \in 1..n : intervals[i].started < intervals[i].ended
    BY DEF OrderInv
  <1>5. n # 0 => /\ LastSpan.to = intervals[n].ended
                 /\ LastSpan.to <= v.started
                 /\ \/ v.started - intervals[n].ended = 0
                    \/ v.started - intervals[n].ended > Retention - MaxSkew
    <2>1. n # 0 => intervals # <<>> /\ n \in 1..n
      BY <1>1
    <2>2. n # 0 => LastSpan.to = intervals[n].ended
      BY <2>1 DEF LastSpan
    <2> QED BY <1>2, <1>3, <2>1, <2>2, ClockAssumption DEF Joins
  <1>6. \A i \in 1..n : intervals[i].ended <= v.started
    <2> SUFFICES ASSUME NEW i \in 1..n PROVE intervals[i].ended <= v.started
      OBVIOUS
    <2>1. CASE i = n
      BY <1>5, <2>1
    <2>2. CASE i # n
      <3>1. i < n /\ n \in 1..n
        BY <1>1, <2>2
      <3>2. intervals[i].ended <= intervals[n].started
        BY <3>1 DEF OrderInv, NoOverlap
      <3> QED BY <1>1, <1>2, <1>3, <1>4, <1>5, <3>1, <3>2
    <2> QED BY <2>1, <2>2
  <1>7. NoOverlap'
    <2> SUFFICES ASSUME NEW i \in 1..(n+1), NEW j \in 1..(n+1), i < j
                 PROVE  intervals'[i].ended <= intervals'[j].started
      BY <1>1 DEF NoOverlap
    <2>1. CASE j = n + 1
      BY <1>1, <1>6, <2>1
    <2>2. CASE j # n + 1
      <3>1. i \in 1..n /\ j \in 1..n
        BY <1>1, <2>2
      <3>2. intervals[i].ended <= intervals[j].started
        BY <3>1 DEF OrderInv, NoOverlap
      <3> QED BY <1>1, <3>1, <3>2
    <2> QED BY <2>1, <2>2
  <1>8. GapsOnlyFromRetention'
    <2> SUFFICES ASSUME NEW i \in 1..n
                 PROVE  LET gap == intervals'[i+1].started - intervals'[i].ended
                        IN  gap = 0 \/ gap > Retention - MaxSkew
      BY <1>1 DEF GapsOnlyFromRetention
    <2>1. CASE i = n
      BY <1>1, <1>5, <2>1
    <2>2. CASE i # n
      <3>1. i \in 1..(n-1) /\ i+1 \in 1..n
        BY <1>1, <2>2
      <3>2. LET gap == intervals[i+1].started - intervals[i].ended
            IN  gap = 0 \/ gap > Retention - MaxSkew
        BY <3>1 DEF OrderInv, GapsOnlyFromRetention
      <3> QED BY <1>1, <3>1, <3>2
    <2> QED BY <2>1, <2>2
  <1>9. \A i \in 1..Len(intervals') : intervals'[i].started < intervals'[i].ended
    BY <1>1, <1>4
  <1>10. LastSpan' = [from |-> v.started, to |-> v.ended]
    BY <1>1 DEF LastSpan
  <1> QED BY <1>1, <1>7, <1>8, <1>9, <1>10

(* The history is a chain of intervals that only pruning can break.        *)
LEMMA OrderStep ==
    BaseInv /\ LockInv /\ PreviousInv /\ OrderInv /\ [Next]_vars => OrderInv'
  <1> SUFFICES ASSUME BaseInv, LockInv, PreviousInv, OrderInv, [Next]_vars
               PROVE  OrderInv'
    OBVIOUS
  <1> USE ClockAssumption
  <1>0. /\ now \in Nat /\ skew \in 0..MaxSkew /\ Wall \in Nat /\ now <= Wall
        /\ \A r \in readings : r \in Reading /\ r.at \in Nat
        /\ intervals \in Seq(Interval)
        /\ intervals # <<>> => LastSpan.to \in Int
    <2>1. intervals \in Seq(Interval) /\ intervals # <<>> => intervals[Len(intervals)] \in Interval
      OBVIOUS
    <2> QED BY <2>1 DEF BaseInv, TypeOK, Wall, Reading, LastSpan, Interval
  <1>1. ASSUME UNCHANGED <<readings, intervals>>, now' \in Nat, now <= now',
               \A w \in Workers : sample'[w] # NoReading =>
                   sample'[w] = sample[w] \/ sample'[w] = ConnectionCounters
        PROVE  OrderInv'
    <2>1. UNCHANGED LastSpan
      BY <1>1 DEF LastSpan
    <2>2. NoOverlap' /\ GapsOnlyFromRetention'
          /\ \A i \in 1..Len(intervals') : intervals'[i].started < intervals'[i].ended
      BY <1>1 DEF OrderInv, NoOverlap, GapsOnlyFromRetention
    <2>3. ConnectionCounters.at = Wall
      BY DEF ConnectionCounters
    <2>4. ASSUME intervals # <<>>, readings = {}
          PROVE  /\ Beyond(now)'
                 /\ \A w \in Workers : sample'[w] # NoReading => Beyond(sample[w].at)'
      <3>1. Beyond(now) /\ Beyond(now') /\ Beyond(Wall)
        BY <1>0, <1>1, <2>4 DEF OrderInv, Beyond
      <3>2. \A w \in Workers : sample[w] # NoReading => Beyond(sample[w].at)
        BY <2>4 DEF OrderInv
      <3> QED BY <1>1, <2>1, <2>3, <3>1, <3>2 DEF Beyond
    <2>5. ASSUME intervals # <<>>, NEW r \in readings, IsLatest(r) PROVE Joins(r.at)'
      BY <2>1, <2>5 DEF OrderInv, Joins
    <2> QED BY <1>1, <2>2, <2>4, <2>5 DEF OrderInv, IsLatest
  <1>2. CASE Environment
    <2>1. UNCHANGED <<readings, intervals, sample>>
      BY <1>2, WanFrame DEF Environment, Traffic, RouterRestart, Tick, AdjustClock, tables
    <2>2. now' \in Nat /\ now <= now'
      BY <1>0, <1>2, WanFrame DEF Environment, Traffic, RouterRestart, Tick, AdjustClock, clock
    <2> QED BY <1>1, <2>1, <2>2
  <1>3. ASSUME NEW w \in Workers,
               \/ Start(w) \/ LoseSession(w) \/ SelectPrevious(w) \/ LockPrevious(w)
               \/ Stop(w) \/ Rollback(w) \/ Sample(w)
        PROVE  OrderInv'
    <2>1. UNCHANGED <<readings, intervals, now>>
      BY <1>3
         DEF Start, TryAdvisoryLock, LoseSession, SelectPrevious, LockPrevious, Stop,
             Rollback, Sample, clock, tables
    <2>2. \A v \in Workers : sample'[v] # NoReading =>
             sample'[v] = sample[v] \/ sample'[v] = ConnectionCounters
      BY <1>3
         DEF Start, TryAdvisoryLock, LoseSession, SelectPrevious, LockPrevious, Stop,
             Rollback, Sample, BaseInv, TypeOK
    <2> QED BY <1>0, <1>1, <2>1, <2>2
  <1>4. ASSUME NEW w \in Workers, PruneRawData(w) PROVE OrderInv'
    <2>1. UNCHANGED <<intervals, now, skew, sample, LastSpan>>
      BY <1>4 DEF PruneRawData, Expired, clock, LastSpan
    <2>2. NoOverlap' /\ GapsOnlyFromRetention'
          /\ \A i \in 1..Len(intervals') : intervals'[i].started < intervals'[i].ended
      BY <2>1 DEF OrderInv, NoOverlap, GapsOnlyFromRetention
    <2>3. ASSUME intervals # <<>>, NEW r \in readings', IsLatest(r)' PROVE Joins(r.at)'
      BY <1>4, <2>1, <2>3, PruneCases DEF OrderInv, Joins
    <2>4. ASSUME intervals # <<>>, readings' = {} PROVE Beyond(now)'
      <3>1. CASE readings = {}
        BY <2>1, <2>4, <3>1 DEF OrderInv, Beyond
      <3>2. CASE readings # {}
        <4>1. PICK r \in readings : IsLatest(r)
          BY <3>2 DEF BaseInv, LatestInv
        <4>2. r.at >= LastSpan.to
          BY <1>0, <2>4, <4>1 DEF OrderInv, Joins
        <4>3. r.at < now + skew - Retention
          <5>1. \A q \in readings : q.at < Wall - Retention
            BY <1>4, <2>4, PruneCases
          <5> QED BY <1>0, <4>1, <5>1 DEF Wall
        <4>4. LastSpan.to \in Int /\ r.at \in Nat
          BY <1>0, <2>4, <4>1
        <4>5. now > LastSpan.to + (Retention - MaxSkew)
          BY <1>0, <4>2, <4>3, <4>4
        <4> QED BY <2>1, <4>5 DEF Beyond
      <3> QED BY <3>1, <3>2
    <2>5. \A v \in Workers : sample'[v] = NoReading
      BY <1>4, <2>1, Alone DEF PruneRawData, Expired, BaseInv, SampleInv, InTransaction
    <2> QED BY <2>1, <2>2, <2>3, <2>4, <2>5 DEF OrderInv
  <1>5. ASSUME NEW w \in Workers, Record(w) PROVE OrderInv'
    <2> DEFINE s == sample[w]
               p == previous[w]
    <2>1. s # NoReading /\ \A v \in Workers : sample'[v] = NoReading
      BY <1>5, Alone DEF Record, InsertReading, Advances, BaseInv, SampleInv, InTransaction, TypeOK
    <2>2. CASE /\ p \in readings /\ IsLatest(p) /\ s.at > p.at
               /\ readings' = readings \union {s}
               /\ \A r \in readings' : IsLatest(r)' => r = s
               /\ intervals' = Append(intervals, UsageInterval(p, s))
      <3>1. s \in Reading /\ p \in Reading
        BY <1>0, <1>5, <2>2, RecordCases
      <3>2. UsageInterval(p, s) \in Interval
        BY <3>1, IntervalType
      <3>3. UsageInterval(p, s).started = p.at /\ UsageInterval(p, s).ended = s.at
        BY DEF UsageInterval
      <3>4. intervals # <<>> => Joins(p.at)
        BY <2>2 DEF OrderInv
      <3>5. /\ NoOverlap' /\ GapsOnlyFromRetention'
            /\ \A i \in 1..Len(intervals') : intervals'[i].started < intervals'[i].ended
            /\ LastSpan' = [from |-> p.at, to |-> s.at]
        BY <1>0, <2>2, <3>2, <3>3, <3>4, AppendInOrder
      <3>6. s.at = LastSpan'.to
        BY <3>5
      <3>7. readings' # {}
        BY <2>2
      <3>8. \A r \in readings' : IsLatest(r)' => Joins(r.at)'
        BY <2>2, <3>6 DEF Joins
      <3> QED BY <3>5, <3>7, <3>8 DEF OrderInv
    <2>3. CASE UNCHANGED intervals /\ readings = {} /\ readings' = {s}
      <3>1. UNCHANGED LastSpan
        BY <2>3 DEF LastSpan
      <3>2. intervals # <<>> => Joins(s.at)
        BY <2>1, <2>3 DEF OrderInv, Beyond, Joins
      <3> QED BY <2>1, <2>3, <3>1, <3>2 DEF OrderInv, NoOverlap, GapsOnlyFromRetention, Joins
    <2>4. CASE /\ UNCHANGED intervals /\ readings # {} /\ readings' # {}
               /\ \A r \in readings' : IsLatest(r)' => IsLatest(r)
      <3>1. UNCHANGED LastSpan
        BY <2>4 DEF LastSpan
      <3>2. \A r \in readings' : IsLatest(r)' => r \in readings
        BY <2>4 DEF IsLatest
      <3> QED BY <2>1, <2>4, <3>1, <3>2 DEF OrderInv, NoOverlap, GapsOnlyFromRetention, Joins
    <2> QED BY <1>5, <2>2, <2>3, <2>4, RecordCases
  <1>6. CASE UNCHANGED vars
    BY <1>0, <1>1, <1>6 DEF vars, clock, tables
  <1> QED BY <1>2, <1>3, <1>4, <1>5, <1>6 DEF Next, Worker

(* One more interval, of which what is to be shown is known.               *)
LEMMA AppendReset ==
    ASSUME NEW p \in Reading, NEW s \in Reading,
           intervals \in Seq(Interval), NoFalseRestart,
           p.epoch = s.epoch => ~IsReset(p, s),
           intervals' = Append(intervals, UsageInterval(p, s)),
           resetEvents' = IF IsReset(p, s) THEN resetEvents \union {s.at} ELSE resetEvents
    PROVE  NoFalseRestart'
  <1> DEFINE v == UsageInterval(p, s)
             n == Len(intervals)
  <1>0. v.crossed = (s.epoch # p.epoch) /\ v.ended = s.at
    BY DEF UsageInterval
  <1>1. v.ended = s.at /\ (IsReset(p, s) => v.crossed)
    BY <1>0, Zenon
  <1>2. /\ n \in Nat /\ Len(intervals') = n + 1 /\ intervals'[n+1] = v
        /\ \A i \in 1..n : intervals'[i] = intervals[i]
    BY IntervalType
  <1>3. ASSUME NEW t \in resetEvents'
        PROVE  \E i \in 1..Len(intervals') : intervals'[i].ended = t /\ intervals'[i].crossed
    <2>1. CASE t \in resetEvents
      <3>1. PICK i \in 1..n : intervals[i].ended = t /\ intervals[i].crossed
        BY <2>1 DEF NoFalseRestart
      <3> QED BY <1>2, <3>1
    <2>2. CASE t \notin resetEvents
      <3>1. t = s.at /\ IsReset(p, s)
        BY <1>3, <2>2
      <3> QED BY <1>1, <1>2, <3>1
    <2> QED BY <2>1, <2>2
  <1> QED BY <1>3 DEF NoFalseRestart

LEMMA AppendExact ==
    ASSUME NEW p \in Reading, NEW s \in Reading,
           intervals \in Seq(Interval), ExactBetweenRestarts,
           p.epoch = s.epoch =>
              /\ ~IsReset(p, s)
              /\ CalculateDelta(p, s) = [d \in Direction |-> s.truth[d] - p.truth[d]],
           intervals' = Append(intervals, UsageInterval(p, s)),
           resetEvents' = IF IsReset(p, s) THEN resetEvents \union {s.at} ELSE resetEvents
    PROVE  ExactBetweenRestarts'
  <1> DEFINE v == UsageInterval(p, s)
             n == Len(intervals)
  <1>1. /\ v.bytes = CalculateDelta(p, s) /\ v.crossed = (s.epoch # p.epoch)
        /\ v.truth = [d \in Direction |-> s.truth[d] - p.truth[d]]
    BY DEF UsageInterval
  <1>2. ~v.crossed => v.bytes = v.truth
    BY <1>1
  <1>3. /\ n \in Nat /\ Len(intervals') = n + 1 /\ intervals'[n+1] = v
        /\ \A i \in 1..n : intervals'[i] = intervals[i]
    BY IntervalType
  <1>4. \A i \in 1..Len(intervals') :
           ~intervals'[i].crossed => intervals'[i].bytes = intervals'[i].truth
    BY <1>2, <1>3 DEF ExactBetweenRestarts
  <1>5. NoFalseRestart'
    BY AppendReset DEF ExactBetweenRestarts
  <1> QED BY <1>4, <1>5 DEF ExactBetweenRestarts

(* Intervals without a restart are exact.                                  *)
LEMMA ExactStep ==
    /\ BaseInv /\ LockInv /\ PreviousInv /\ ReadingInv /\ ExactBetweenRestarts
    /\ [Next]_vars
    => ExactBetweenRestarts'
  <1> SUFFICES ASSUME BaseInv, LockInv, PreviousInv, ReadingInv, ExactBetweenRestarts,
                      [Next]_vars
               PROVE  ExactBetweenRestarts'
    OBVIOUS
  <1>1. CASE UNCHANGED <<intervals, resetEvents>>
    BY <1>1 DEF ExactBetweenRestarts, NoFalseRestart
  <1>2. ASSUME NEW w \in Workers, Record(w) PROVE ExactBetweenRestarts'
    <2> DEFINE s == sample[w]
               p == previous[w]
               v == UsageInterval(p, s)
    <2>1. CASE /\ p \in readings
               /\ intervals' = Append(intervals, v)
               /\ resetEvents' = IF IsReset(p, s) THEN resetEvents \union {s.at}
                                                  ELSE resetEvents
      <3>1. s \in Reading /\ p \in Reading /\ Precedes(p, s)
        BY <1>2, <2>1, RecordCases, NoReadingAssumption DEF BaseInv, TypeOK, ReadingInv
      <3>2. p.epoch = s.epoch =>
              /\ ~IsReset(p, s)
              /\ CalculateDelta(p, s) = [d \in Direction |-> s.truth[d] - p.truth[d]]
        BY <3>1, DeltaBound
      <3> QED BY <2>1, <3>1, <3>2, AppendExact DEF BaseInv, TypeOK
    <2> QED BY <1>1, <1>2, <2>1, RecordCases
  <1>3. CASE Environment
    BY <1>1, <1>3, WanFrame DEF Environment, Traffic, RouterRestart, Tick, AdjustClock, tables
  <1>4. ASSUME NEW w \in Workers,
               \/ Start(w) \/ Stop(w) \/ LoseSession(w) \/ PruneRawData(w) \/ Sample(w)
               \/ SelectPrevious(w) \/ LockPrevious(w) \/ Rollback(w)
        PROVE  ExactBetweenRestarts'
    BY <1>1, <1>4
       DEF Start, TryAdvisoryLock, Stop, LoseSession, PruneRawData, Expired, Sample,
           SelectPrevious, LockPrevious, Rollback, tables
  <1>5. CASE UNCHANGED vars
    BY <1>1, <1>5 DEF vars, tables
  <1> QED BY <1>2, <1>3, <1>4, <1>5 DEF Next, Worker

-----------------------------------------------------------------------------
(* The pieces together: IInv is inductive.                                 *)
LEMMA InvInit == Init => IInv
  <1> SUFFICES ASSUME Init PROVE IInv
    OBVIOUS
  <1>1. BaseInv
    BY TypeInit DEF BaseInv, LatestInv, Init
  <1>2. Len(intervals) = 0 /\ readings = {} /\ resetEvents = {}
    BY DEF Init
  <1>3. \A w \in Workers : pc[w] = "down" /\ sample[w] = NoReading
    BY DEF Init
  <1>4. LockInv /\ PreviousInv /\ ReadingInv
    BY <1>2, <1>3 DEF LockInv, PreviousInv, ReadingInv
  <1>5. BilledInv
    BY <1>2, <1>3 DEF Init, BilledInv, NeverOvercounts, Zero
  <1>6. OrderInv /\ ExactBetweenRestarts
    BY <1>2, <1>3 DEF Init, OrderInv, NoOverlap, GapsOnlyFromRetention,
                         ExactBetweenRestarts, NoFalseRestart
  <1> QED BY <1>1, <1>4, <1>5, <1>6 DEF IInv

LEMMA InvStep == ~SessionMayDrop /\ ~PartialResets /\ IInv /\ [Next]_vars => IInv'
  BY BaseStep, LockStep, PreviousStep, ReadingStep, BilledStep, OrderStep, ExactStep DEF IInv

(* The invariant that the accounting rests on: while the lock's session    *)
(* lives and counters restart together, the actor is alone, its previous   *)
(* reading is the latest, and nothing is charged beyond it                 *)
(* (RecordConnectionReading).                                              *)
THEOREM Invariance == ~SessionMayDrop /\ ~PartialResets => (Spec => []IInv)
  <1> SUFFICES ASSUME ~SessionMayDrop, ~PartialResets PROVE Spec => []IInv
    OBVIOUS
  <1>1. IInv /\ [Next]_vars => IInv'
    BY InvStep
  <1> QED BY InvInit, <1>1, PTL DEF Spec

(* No byte is counted twice.                                               *)
THEOREM NoOvercounting ==
    ~SessionMayDrop /\ ~PartialResets => (Spec => []NeverOvercounts)
  <1>1. IInv => NeverOvercounts
    BY DEF IInv, BilledInv
  <1> QED BY <1>1, Invariance, PTL

(* No instant is counted twice.                                            *)
THEOREM OrderedHistory ==
    ~SessionMayDrop /\ ~PartialResets => (Spec => []NoOverlap)
  <1>1. IInv => NoOverlap
    BY DEF IInv, OrderInv
  <1> QED BY <1>1, Invariance, PTL

(* Only pruning leaves one uncounted: a failed collection, a crash or a    *)
(* step of the clock alone never opens a gap (PruneRawData).               *)
THEOREM OnlyPruningLeavesGaps ==
    ~SessionMayDrop /\ ~PartialResets => (Spec => []GapsOnlyFromRetention)
  <1>1. IInv => GapsOnlyFromRetention
    BY DEF IInv, OrderInv
  <1> QED BY <1>1, Invariance, PTL

(* Between two restarts the history is exact, and no restart is invented.  *)
THEOREM ExactHistory ==
    ~SessionMayDrop /\ ~PartialResets => (Spec => []ExactBetweenRestarts)
  <1>1. IInv => ExactBetweenRestarts
    BY DEF IInv
  <1> QED BY <1>1, Invariance, PTL

-----------------------------------------------------------------------------
(* Less is needed for part of it.  With any number of processes at work,   *)
(* as long as the clock is not stepped, readings are stamped in the order  *)
(* in which they were taken; those of one epoch then rise, and, of a       *)
(* router whose counters restart together, agree on the traffic between    *)
(* them.                                                                   *)
Seen == {r \in Reading : \/ r \in readings
                         \/ \E w \in Workers : r = sample[w] \/ r = previous[w]}

Agree(r, s) ==
    r.epoch = s.epoch =>
        /\ r.at < s.at => /\ r.uptime <= s.uptime
                         /\ \A d \in Direction : r.bytes[d] <= s.bytes[d]
        /\ ~PartialResets =>
              \A d \in Direction : s.bytes[d] - r.bytes[d] = s.truth[d] - r.truth[d]

UpToNow(r) ==
    /\ r.at <= now /\ r.epoch <= restarts
    /\ r.epoch = restarts =>
          /\ r.uptime <= Uptime
          /\ \A d \in Direction : r.bytes[d] <= total[d]
          /\ ~PartialResets =>
                \A d \in Direction : total[d] - r.bytes[d] = carried[d] - r.truth[d]

SeenInv == \A r \in Seen : UpToNow(r) /\ \A s \in Seen : Agree(r, s)

(* Two readings of an epoch, in the order of their stamps.                 *)
LEMMA DeltaExact ==
    ASSUME NEW p \in Reading, NEW c \in Reading, Agree(p, c), p.at < c.at, p.epoch = c.epoch
    PROVE  /\ ~IsReset(p, c)
           /\ ~PartialResets =>
                 CalculateDelta(p, c) = [d \in Direction |-> c.truth[d] - p.truth[d]]
  <1>1. \A d \in Direction : /\ p.bytes[d] \in Nat /\ c.bytes[d] \in Nat
                            /\ p.truth[d] \in Nat /\ c.truth[d] \in Nat
    BY DEF Reading, Bytes
  <1>2. p.uptime \in Nat /\ c.uptime \in Nat
    BY DEF Reading
  <1>3. ~IsReset(p, c)
    BY <1>1, <1>2 DEF Agree, IsReset
  <1> QED BY <1>1, <1>3 DEF Agree, CalculateDelta

(* Nothing new is seen, or what the router says now.                       *)
LEMMA SeenFrame ==
    ASSUME BaseInv, SeenInv, UNCHANGED <<router, clock>>, Seen' \subseteq Seen
    PROVE  SeenInv'
  BY DEF SeenInv, UpToNow, router, clock, Uptime

LEMMA SeenSample ==
    ASSUME MaxSkew = 0, BaseInv, SeenInv, UNCHANGED <<router, clock>>,
           Seen' \subseteq Seen \union {ConnectionCounters}
    PROVE  SeenInv'
  <1> DEFINE c == ConnectionCounters
  <1>1. c \in Reading /\ Wall = now /\ now \in Nat /\ restarts \in Nat /\ Uptime \in Nat
    BY CountersType, ClockAssumption DEF BaseInv, TypeOK, Wall, Uptime
  <1>2. /\ c.at = now /\ c.epoch = restarts /\ c.uptime = Uptime
        /\ c.bytes = total /\ c.truth = carried
    BY <1>1 DEF ConnectionCounters
  <1>3. \A d \in Direction : total[d] \in Nat /\ carried[d] \in Nat
    BY DEF BaseInv, TypeOK, Bytes
  <1> HIDE DEF c
  <1>4. UpToNow(c) /\ Agree(c, c)
    BY <1>1, <1>2, <1>3 DEF UpToNow, Agree
  <1>5. ASSUME NEW r \in Seen PROVE UpToNow(r) /\ Agree(r, c) /\ Agree(c, r)
    <2>1. UpToNow(r) /\ r \in Reading
      BY DEF SeenInv, Seen
    <2>2. r.at \in Nat /\ \A d \in Direction : r.bytes[d] \in Nat /\ r.truth[d] \in Nat
      BY <2>1 DEF Reading, Bytes
    <2> QED BY <1>1, <1>2, <1>3, <2>1, <2>2 DEF UpToNow, Agree
  <1>6. \A r \in Seen' : UpToNow(r) /\ \A s \in Seen' : Agree(r, s)
    <2>1. Seen' \subseteq Seen \union {c}
      BY DEF c
    <2> QED BY <1>4, <1>5, <2>1 DEF SeenInv
  <1> QED BY <1>6 DEF SeenInv, UpToNow, Agree, router, clock, Uptime

LEMMA SeenStep == MaxSkew = 0 /\ BaseInv /\ SeenInv /\ [Next]_vars => SeenInv'
  <1> SUFFICES ASSUME MaxSkew = 0, BaseInv, SeenInv, [Next]_vars PROVE SeenInv'
    OBVIOUS
  <1>0. /\ now \in Nat /\ restarts \in Nat /\ bootedAt \in 0..now
        /\ \A d \in Direction : total[d] \in Nat /\ carried[d] \in Nat
        /\ \A r \in Seen : /\ r.at \in Nat /\ r.epoch \in Nat /\ r.uptime \in Nat
                           /\ \A d \in Direction : r.bytes[d] \in Nat /\ r.truth[d] \in Nat
    BY DEF BaseInv, TypeOK, Bytes, Reading, Seen
  <1>1. ASSUME UNCHANGED <<sample, previous, tables>>,
               \A r \in Seen : UpToNow(r)'
        PROVE  SeenInv'
    <2>1. Seen' = Seen
      BY <1>1 DEF Seen, tables
    <2> QED BY <1>1, <2>1 DEF SeenInv, UpToNow, Agree, Uptime
  <1>2. CASE Environment
    <2>1. ASSUME NEW d \in Direction, Traffic(d) PROVE SeenInv'
      <3>1. /\ total \in Bytes /\ carried \in Bytes
            /\ total' = [total EXCEPT ![d] = total[d] + 1]
            /\ carried' = [carried EXCEPT ![d] = carried[d] + 1]
            /\ UNCHANGED <<bootedAt, restarts, now, sample, previous, tables>>
        BY <2>1 DEF BaseInv, TypeOK, Traffic, clock
      <3>2. \A e \in Direction :
               \/ total'[e] = total[e] + 1 /\ carried'[e] = carried[e] + 1
               \/ total'[e] = total[e] /\ carried'[e] = carried[e]
        BY <3>1 DEF Bytes
      <3>3. \A r \in Seen : UpToNow(r)'
        BY <1>0, <3>1, <3>2 DEF SeenInv, UpToNow, Uptime
      <3> QED BY <1>1, <3>1, <3>3
    <2>2. CASE RouterRestart
      <3>1. restarts' = restarts + 1 /\ now' = now + 1 /\ UNCHANGED <<sample, previous, tables>>
        BY <2>2 DEF RouterRestart
      <3>2. \A r \in Seen : UpToNow(r)'
        BY <1>0, <3>1 DEF SeenInv, UpToNow
      <3> QED BY <1>1, <3>1, <3>2
    <2>4. CASE WanRecords
      <3>1. /\ PartialResets /\ UNCHANGED <<bootedAt, sample, previous, tables>>
            /\ now' = now \/ now' = now + 1
        BY <2>4, WanFrame
      <3>2. /\ \A d \in Direction : total'[d] \in Nat
            /\ \/ restarts' = restarts + 1
               \/ restarts' = restarts /\ \A d \in Direction : total[d] <= total'[d]
        BY <2>4, WanCounters DEF BaseInv, Bytes
      <3>3. Uptime' \in Nat /\ Uptime \in Nat /\ Uptime <= Uptime'
        BY <1>0, <3>1 DEF Uptime
      <3>4. \A r \in Seen : UpToNow(r)'
        BY <1>0, <3>1, <3>2, <3>3 DEF SeenInv, UpToNow
      <3> QED BY <1>1, <3>1, <3>4
    <2>3. CASE Tick \/ AdjustClock
      <3>1. /\ now' = now \/ now' = now + 1
            /\ UNCHANGED <<router, sample, previous, tables>>
        BY <2>3 DEF Tick, AdjustClock
      <3>2. Uptime' \in Nat /\ Uptime \in Nat /\ Uptime <= Uptime'
        BY <1>0, <3>1 DEF Uptime, router
      <3>3. \A r \in Seen : UpToNow(r)'
        BY <1>0, <3>1, <3>2 DEF SeenInv, UpToNow, router
      <3> QED BY <1>1, <3>1, <3>3
    <2> QED BY <1>2, <2>1, <2>2, <2>3, <2>4 DEF Environment
  <1>3. ASSUME NEW w \in Workers, Worker(w) PROVE SeenInv'
    <2> USE DEF BaseInv, TypeOK, Seen, tables
    <2>1. CASE Start(w) \/ LoseSession(w)
      BY <2>1, SeenFrame DEF Start, LoseSession
    <2>2. CASE Stop(w) \/ Rollback(w)
      <3>1. Seen' \subseteq Seen
        BY <2>2, NoReadingAssumption DEF Stop, Rollback
      <3> QED BY <2>2, <3>1, SeenFrame DEF Stop, Rollback
    <2>3. CASE PruneRawData(w)
      BY <2>3, SeenFrame DEF PruneRawData
    <2>4. CASE Sample(w)
      <3>1. Seen' \subseteq Seen \union {ConnectionCounters}
        BY <2>4 DEF Sample
      <3> QED BY <2>4, <3>1, SeenSample DEF Sample
    <2>5. CASE SelectPrevious(w)
      <3>1. Latest \in readings \union {NoReading}
        BY LatestIn
      <3>2. Seen' \subseteq Seen
        BY <2>5, <3>1, NoReadingAssumption DEF SelectPrevious
      <3> QED BY <2>5, <3>2, SeenFrame DEF SelectPrevious
    <2>6. CASE LockPrevious(w)
      <3>1. Seen' \subseteq Seen
        BY <2>6, NoReadingAssumption DEF LockPrevious
      <3> QED BY <2>6, <3>1, SeenFrame DEF LockPrevious
    <2>7. CASE Record(w)
      <3>1. readings' \subseteq readings \union {sample[w]}
        BY <2>7 DEF Record, InsertReading
      <3>2. Seen' \subseteq Seen
        BY <2>7, <3>1, NoReadingAssumption DEF Record
      <3> QED BY <2>7, <3>2, SeenFrame DEF Record
    <2> QED BY <1>3, <2>1, <2>2, <2>3, <2>4, <2>5, <2>6, <2>7 DEF Worker
  <1>4. CASE UNCHANGED vars
    BY <1>4, SeenFrame DEF vars, Seen, tables
  <1> QED BY <1>2, <1>3, <1>4 DEF Next

LEMMA SeenInit == Init => BaseInv /\ SeenInv
  <1>1. Init => BaseInv
    BY TypeInit DEF BaseInv, LatestInv, Init
  <1>2. Init => Seen = {}
    BY NoReadingAssumption DEF Init, Seen
  <1> QED BY <1>1, <1>2 DEF SeenInv

(* Whoever records an interval goes from one reading seen to a later one,  *)
(* and every other step leaves intervals and events alone.                 *)
LEMMA SeenRecords ==
    ASSUME BaseInv, SeenInv, [Next]_vars
    PROVE  \/ UNCHANGED <<intervals, resetEvents>>
           \/ \E p, s \in Reading :
                 /\ Agree(p, s) /\ p.at < s.at
                 /\ intervals' = Append(intervals, UsageInterval(p, s))
                 /\ resetEvents' = IF IsReset(p, s) THEN resetEvents \union {s.at}
                                                    ELSE resetEvents
  <1>1. ASSUME NEW w \in Workers, Record(w), Advances(previous[w], sample[w])
        PROVE  \E p, s \in Reading :
                  /\ Agree(p, s) /\ p.at < s.at
                  /\ intervals' = Append(intervals, UsageInterval(p, s))
                  /\ resetEvents' = IF IsReset(p, s) THEN resetEvents \union {s.at}
                                                     ELSE resetEvents
    <2>1. sample[w] \in Seen /\ previous[w] \in Seen /\ previous[w].at < sample[w].at
      BY <1>1, NoReadingAssumption
         DEF BaseInv, TypeOK, SampleInv, InTransaction, Record, Advances, Seen, Reading
    <2>2. Agree(previous[w], sample[w]) /\ previous[w] \in Reading /\ sample[w] \in Reading
      BY <2>1 DEF SeenInv, Seen
    <2> QED BY <1>1, <2>1, <2>2 DEF Record
  <1>2. ASSUME NEW w \in Workers, Record(w), ~Advances(previous[w], sample[w])
        PROVE  UNCHANGED <<intervals, resetEvents>>
    BY <1>2 DEF Record
  <1>3. CASE Environment
    BY <1>3, WanFrame DEF Environment, Traffic, RouterRestart, Tick, AdjustClock, tables
  <1>4. ASSUME NEW w \in Workers,
               \/ Start(w) \/ Stop(w) \/ LoseSession(w) \/ PruneRawData(w) \/ Sample(w)
               \/ SelectPrevious(w) \/ LockPrevious(w) \/ Rollback(w)
        PROVE  UNCHANGED <<intervals, resetEvents>>
    BY <1>4
       DEF Start, Stop, LoseSession, PruneRawData, Sample, SelectPrevious, LockPrevious,
           Rollback, tables
  <1>5. CASE UNCHANGED vars
    BY <1>5 DEF vars, tables
  <1> QED BY <1>1, <1>2, <1>3, <1>4, <1>5 DEF Next, Worker

(* No restart is invented by any number of workers, with lost locks and    *)
(* with WAN records that restart, leave the sum and come back, as long as  *)
(* the host's clock is not stepped (the tables of UsageReports are such).  *)
THEOREM NoRestartInvented == MaxSkew = 0 => (Spec => []NoFalseRestart)
  <1> SUFFICES ASSUME MaxSkew = 0 PROVE Spec => []NoFalseRestart
    OBVIOUS
  <1>1. Init => BaseInv /\ SeenInv /\ NoFalseRestart
    BY SeenInit DEF Init, NoFalseRestart
  <1>2. ASSUME BaseInv, SeenInv, NoFalseRestart, [Next]_vars PROVE NoFalseRestart'
    <2>1. CASE UNCHANGED <<intervals, resetEvents>>
      BY <1>2, <2>1 DEF NoFalseRestart
    <2>2. ASSUME NEW p \in Reading, NEW s \in Reading, Agree(p, s), p.at < s.at,
                 intervals' = Append(intervals, UsageInterval(p, s)),
                 resetEvents' = IF IsReset(p, s) THEN resetEvents \union {s.at} ELSE resetEvents
          PROVE  NoFalseRestart'
      <3>1. p.epoch = s.epoch => ~IsReset(p, s)
        BY <2>2, DeltaExact
      <3> QED BY <1>2, <2>2, <3>1, AppendReset DEF BaseInv, TypeOK
    <2> QED BY <1>2, <2>1, <2>2, SeenRecords
  <1>3. BaseInv /\ SeenInv /\ [Next]_vars => (BaseInv /\ SeenInv)'
    BY BaseStep, SeenStep
  <1> QED BY <1>1, <1>2, <1>3, PTL DEF Spec

(* If moreover the counters restart together, so that no record is left    *)
(* out and comes back, an interval without a restart is exact, with any    *)
(* number of workers and with lost locks (CalculateDelta).                 *)
THEOREM ExactUnlessStepped ==
    MaxSkew = 0 /\ ~PartialResets => (Spec => []ExactBetweenRestarts)
  <1> SUFFICES ASSUME MaxSkew = 0, ~PartialResets PROVE Spec => []ExactBetweenRestarts
    OBVIOUS
  <1>1. Init => BaseInv /\ SeenInv /\ ExactBetweenRestarts
    BY SeenInit DEF Init, ExactBetweenRestarts, NoFalseRestart
  <1>2. ASSUME BaseInv, SeenInv, ExactBetweenRestarts, [Next]_vars PROVE ExactBetweenRestarts'
    <2>1. CASE UNCHANGED <<intervals, resetEvents>>
      BY <1>2, <2>1 DEF ExactBetweenRestarts, NoFalseRestart
    <2>2. ASSUME NEW p \in Reading, NEW s \in Reading, Agree(p, s), p.at < s.at,
                 intervals' = Append(intervals, UsageInterval(p, s)),
                 resetEvents' = IF IsReset(p, s) THEN resetEvents \union {s.at} ELSE resetEvents
          PROVE  ExactBetweenRestarts'
      <3>1. p.epoch = s.epoch =>
              /\ ~IsReset(p, s)
              /\ CalculateDelta(p, s) = [d \in Direction |-> s.truth[d] - p.truth[d]]
        BY <2>2, DeltaExact
      <3> QED BY <1>2, <2>2, <3>1, AppendExact DEF BaseInv, TypeOK
    <2> QED BY <1>2, <2>1, <2>2, SeenRecords
  <1>3. BaseInv /\ SeenInv /\ [Next]_vars => (BaseInv /\ SeenInv)'
    BY BaseStep, SeenStep
  <1> QED BY <1>1, <1>2, <1>3, PTL DEF Spec

-----------------------------------------------------------------------------
(* A commit that appends an interval is a Charge of the ledger.            *)
LEMMA RecordCharges ==
    ASSUME IInv, IInv', NEW w \in Workers, Record(w)
    PROVE  Ledger!Charge \/ UNCHANGED <<carried, billed, LastSpan>>
  <1> DEFINE s == sample[w]
             p == previous[w]
             v == UsageInterval(p, s)
  <1>1. UNCHANGED carried
    BY DEF Record, InsertReading, Advances, router
  <1>2. CASE UNCHANGED <<intervals, billed>>
    BY <1>1, <1>2 DEF LastSpan
  <1>3. CASE /\ p \in readings /\ IsLatest(p) /\ s.at > p.at
             /\ intervals' = Append(intervals, v)
             /\ billed' = [d \in Direction |-> billed[d] + CalculateDelta(p, s)[d]]
    <2>1. s \in Reading /\ p \in Reading /\ s.at \in Nat /\ p.at \in Nat
      BY <1>3, RecordCases DEF IInv, BaseInv, TypeOK, Reading
    <2>2. v \in Interval /\ v.started = p.at /\ v.ended = s.at
      BY <2>1, IntervalType DEF UsageInterval
    <2>3. intervals \in Seq(Interval) /\ OrderInv /\ (intervals # <<>> => Joins(p.at))
      BY <1>3 DEF IInv, BaseInv, TypeOK, OrderInv
    <2>4. LastSpan' = [from |-> p.at, to |-> s.at]
      BY <1>3, <2>2, <2>3, AppendInOrder
    <2>5. LastSpan.to <= p.at
      <3>1. CASE intervals = <<>>
        BY <2>1, <3>1 DEF LastSpan
      <3>2. CASE intervals # <<>>
        <4>1. intervals[Len(intervals)] \in Interval
          BY <2>3, <3>2
        <4>2. LastSpan.to \in Int
          BY <3>2, <4>1 DEF LastSpan, Interval
        <4> QED BY <2>1, <2>3, <3>2, <4>2, ClockAssumption DEF Joins
      <3> QED BY <3>1, <3>2
    <2>6. \A d \in Direction : CalculateDelta(p, s)[d] \in Nat /\ billed[d] \in Nat
      BY <2>1, DeltaType DEF IInv, BaseInv, TypeOK, Bytes
    <2>7. billed' \in [Direction -> Nat] /\ \A d \in Direction : billed[d] <= billed'[d]
      BY <1>3, <2>6
    <2>8. \A d \in Direction : billed'[d] <= carried[d]
      BY <1>1 DEF IInv, BilledInv, NeverOvercounts
    <2> QED BY <1>1, <1>3, <2>1, <2>4, <2>5, <2>7, <2>8 DEF Ledger!Charge
  <1> QED BY <1>2, <1>3, RecordCases DEF IInv

(* The pipeline implements the ledger: each commit is one Charge, traffic  *)
(* is Carry, and nothing else can be seen.                                 *)
THEOREM Refinement ==
    ~SessionMayDrop /\ ~PartialResets => (Spec => ImplementsLedger)
  <1> SUFFICES ASSUME ~SessionMayDrop, ~PartialResets PROVE Spec => ImplementsLedger
    OBVIOUS
  <1>1. Init => Ledger!Init
    BY DEF Init, Ledger!Init, Zero, LastSpan
  <1>2. IInv /\ IInv' /\ [Next]_vars => [Ledger!Next]_(Ledger!ledger)
    <2> SUFFICES ASSUME IInv, IInv', [Next]_vars
                 PROVE  Ledger!Next \/ UNCHANGED <<carried, billed, LastSpan>>
      BY DEF Ledger!ledger
    <2>1. CASE UNCHANGED <<carried, intervals, billed>>
      BY <2>1 DEF LastSpan
    <2>2. ASSUME NEW d \in Direction, Traffic(d) PROVE Ledger!Next
      BY <2>2 DEF Traffic, tables, LastSpan, Ledger!Next, Ledger!Carry
    <2>3. ASSUME NEW w \in Workers, Record(w)
          PROVE  Ledger!Next \/ UNCHANGED <<carried, billed, LastSpan>>
      BY <2>3, RecordCharges DEF Ledger!Next
    <2>4. CASE RouterRestart \/ WanRecords \/ Tick \/ AdjustClock
      BY <2>1, <2>4, WanFrame DEF RouterRestart, Tick, AdjustClock, router, tables
    <2>5. ASSUME NEW w \in Workers,
                 \/ Start(w) \/ Stop(w) \/ LoseSession(w) \/ PruneRawData(w) \/ Sample(w)
                 \/ SelectPrevious(w) \/ LockPrevious(w) \/ Rollback(w)
          PROVE  UNCHANGED <<carried, intervals, billed>>
      BY <2>5
         DEF Start, TryAdvisoryLock, Stop, LoseSession, PruneRawData, Expired, Sample,
             SelectPrevious, LockPrevious, Rollback, router, tables
    <2>6. CASE UNCHANGED vars
      BY <2>1, <2>6 DEF vars, router, tables
    <2> QED BY <2>1, <2>2, <2>3, <2>4, <2>5, <2>6 DEF Next, Environment, Worker
  <1> QED BY <1>1, <1>2, Invariance, PTL DEF Spec, ImplementsLedger, Ledger!Spec
=============================================================================
