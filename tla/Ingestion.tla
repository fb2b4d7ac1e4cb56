------------------------------ MODULE Ingestion ------------------------------
(***************************************************************************)
(* The ingestion pipeline: a router that reports cumulative WAN counters,  *)
(* one or more worker processes that sample them, and the two PostgreSQL   *)
(* tables they write (router_readings, usage_intervals), with the          *)
(* "counter_reset" rows of collector_events.                               *)
(*                                                                         *)
(* A worker takes a session-level advisory lock, prunes old readings, and  *)
(* then samples and records for ever (cmd/worker/main.go, store/           *)
(* ingestion.go, router/router.go).  RecordConnectionReading runs at READ  *)
(* COMMITTED, so it is split where another session can get in between: the *)
(* snapshot of the latest reading, the row lock, and the commit.           *)
(*                                                                         *)
(* The clock of the worker's host is now + skew: skew falls when the clock *)
(* is stepped back.  carried, restarts, billed and the fields truth, epoch *)
(* and crossed are history variables: the code has no access to them.      *)
(***************************************************************************)
EXTENDS Integers, Sequences

CONSTANTS
    Workers,        \* worker processes an operator or a supervisor may start
    NoWorker,       \* the advisory lock is free
    NoReading,      \* the query for the previous reading returned no row
    Direction,      \* "download" and "upload"
    Retention,      \* RAW_RETENTION_DAYS, in ticks
    EstimateAfter,  \* the two minutes after which an interval is an estimate
    ReportsUptime,  \* the adapter fills UptimeSeconds (simulated: yes, Huawei: no)
    SessionMayDrop, \* PostgreSQL may end the session that holds the lock
    PartialResets,  \* single WAN records restart, leave the sum and come back
    MaxSkew,        \* bound: how far the host's clock is ever stepped back
    MaxNow,         \* bound: the last tick
    MaxTraffic,     \* bound: traffic carried in each direction
    MaxRestarts     \* bound: how often the counters go down

ASSUME WorkersAssumption == NoWorker \notin Workers
ASSUME ClockAssumption ==
    /\ Retention \in Nat /\ MaxSkew \in Nat /\ MaxSkew < Retention
    /\ EstimateAfter \in Nat /\ MaxNow \in Nat
ASSUME BoundAssumption == MaxTraffic \in Nat /\ MaxRestarts \in Nat
ASSUME SwitchAssumption ==
    /\ ReportsUptime \in BOOLEAN
    /\ SessionMayDrop \in BOOLEAN
    /\ PartialResets \in BOOLEAN

VARIABLES
    total,       \* cumulative counter the router reports, per direction
    omitted,     \* counters of the WAN records that are left out of it
    bootedAt,    \* tick of the router's last restart
    carried,     \* history: traffic that really went through, per direction
    restarts,    \* history: number of times the counters went down
    now, skew,   \* real time, and how far the host's clock is ahead of it
    lock,        \* holder of the advisory lock, or NoWorker
    pc,          \* where each worker process is
    sample,      \* the reading a worker is about to record
    previous,    \* the reading its transaction selected
    readings,    \* router_readings with collection_status = 'ok'
    intervals,   \* usage_intervals, in commit order
    resetEvents, \* recordedAt of the counter_reset events
    billed       \* history: sum of the intervals, per direction

router   == <<total, omitted, bootedAt, carried, restarts>>
clock    == <<now, skew>>
tables   == <<readings, intervals, resetEvents, billed>>
vars     == <<router, clock, lock, pc, sample, previous, tables>>

Bytes == [Direction -> Nat]

(* One router_readings row; truth and epoch are what carried and restarts  *)
(* were when the router was asked.                                         *)
Reading == [at : Nat, bytes : Bytes, uptime : Nat, truth : Bytes, epoch : Nat]

(* One usage_intervals row of the connection (device_id is null).          *)
Interval == [started : Int, ended : Int, bytes : Bytes, estimated : BOOLEAN,
             truth : [Direction -> Int], crossed : BOOLEAN]

ASSUME NoReadingAssumption == NoReading \notin Reading

-----------------------------------------------------------------------------
Wall == now + skew

Uptime == IF ReportsUptime THEN now - bootedAt ELSE 0

Zero == [d \in Direction |-> 0]

(* The connection counters, stamped with the host's clock once the answer  *)
(* has arrived.                                                            *)
ConnectionCounters ==
    [at |-> Wall, bytes |-> total, uptime |-> Uptime,
     truth |-> carried, epoch |-> restarts]

(* mutant: without "desc".                                                 *)
IsOldest(r) == r \in readings /\ \A q \in readings : q.at >= r.at

IsLatest(r) == r \in readings /\ \A q \in readings : q.at <= r.at

(* The row "order by recorded_at desc limit 1" returns.                    *)
Latest == IF readings = {} THEN NoReading ELSE CHOOSE r \in readings : IsLatest(r)

(* mutant: counters that stand still count as a restart.                   *)
IsResetOrIdle(p, c) ==
    \/ c.uptime < p.uptime
    \/ \E d \in Direction : c.bytes[d] <= p.bytes[d]

IsReset(p, c) ==
    \/ c.uptime < p.uptime
    \/ \E d \in Direction : c.bytes[d] < p.bytes[d]

(* mutant: a restart is not looked for.                                    *)
Difference(p, c) == [d \in Direction |-> c.bytes[d] - p.bytes[d]]

CalculateDelta(p, c) ==
    IF IsReset(p, c) THEN c.bytes
                     ELSE [d \in Direction |-> c.bytes[d] - p.bytes[d]]

(* mutant: any previous reading opens an interval.                         *)
HasPrevious(p, s) == p # NoReading

(* "!previous.RecordedAt.IsZero() && reading.RecordedAt.After(previous)".  *)
Advances(p, s) == p # NoReading /\ s.at > p.at

(* mutant: without the "on conflict" clause, and without the constraint.   *)
AddReading(s) == readings \union {s}

(* "on conflict (recorded_at) do nothing".                                 *)
InsertReading(s) ==
    IF \E r \in readings : r.at = s.at THEN readings ELSE readings \union {s}

(* mutant: one tick too soon.                                              *)
ExpiredOrDue == {r \in readings : r.at <= Wall - Retention}

Expired == {r \in readings : r.at < Wall - Retention}

UsageInterval(p, c) ==
    [started |-> p.at, ended |-> c.at, bytes |-> CalculateDelta(p, c),
     estimated |-> c.at - p.at > EstimateAfter,
     truth |-> [d \in Direction |-> c.truth[d] - p.truth[d]],
     crossed |-> c.epoch # p.epoch]

-----------------------------------------------------------------------------
Init ==
    /\ total = Zero /\ omitted = Zero /\ bootedAt = 0 /\ carried = Zero /\ restarts = 0
    /\ now = 0 /\ skew \in 0..MaxSkew
    /\ lock = NoWorker
    /\ pc = [w \in Workers |-> "down"]
    /\ sample = [w \in Workers |-> NoReading]
    /\ previous = [w \in Workers |-> NoReading]
    /\ readings = {} /\ intervals = <<>> /\ resetEvents = {} /\ billed = Zero

(* The router and the clocks. *)

Traffic(d) ==
    /\ carried[d] < MaxTraffic
    /\ carried' = [carried EXCEPT ![d] = @ + 1]
    /\ total' = [total EXCEPT ![d] = @ + 1]
    /\ UNCHANGED <<omitted, bootedAt, restarts, clock, lock, pc, sample, previous, tables>>

(* A restart takes at least a tick. *)
RouterRestart ==
    /\ restarts < MaxRestarts /\ now < MaxNow
    /\ restarts' = restarts + 1
    /\ now' = now + 1
    /\ total' = Zero /\ omitted' = Zero
    /\ bootedAt' = now'
    /\ UNCHANGED <<carried, skew, lock, pc, sample, previous, tables>>

(* The reported total is a sum over the WAN records of the router's page;  *)
(* a record that is missing or does not parse is left out of it            *)
(* (parseHuaweiWANStats).                                                  *)
SharesOf(counters) ==
    {share \in [Direction -> 0..MaxTraffic] : \A d \in Direction : share[d] <= counters[d]}

(* One record starts again from zero: what is reported, or what is left    *)
(* out, falls to the share of the others.                                  *)
WanReconnect ==
    /\ restarts < MaxRestarts /\ now < MaxNow
    /\ now' = now + 1
    /\ total' \in SharesOf(total) /\ omitted' \in SharesOf(omitted)
    /\ restarts' = IF total' = total THEN restarts ELSE restarts + 1
    /\ UNCHANGED <<bootedAt, carried, skew, lock, pc, sample, previous, tables>>

(* One record is no longer read: the sum falls by all it has counted.      *)
SkipRecord ==
    /\ restarts < MaxRestarts
    /\ total' \in SharesOf(total) \ {total}
    /\ omitted' = [d \in Direction |-> omitted[d] + (total[d] - total'[d])]
    /\ restarts' = restarts + 1
    /\ UNCHANGED <<bootedAt, carried, clock, lock, pc, sample, previous, tables>>

(* It carries traffic all the same, and when it is read again the sum      *)
(* rises by all it has counted.                                            *)
OmittedTraffic(d) ==
    /\ carried[d] < MaxTraffic
    /\ carried' = [carried EXCEPT ![d] = @ + 1]
    /\ omitted' = [omitted EXCEPT ![d] = @ + 1]
    /\ UNCHANGED <<total, bootedAt, restarts, clock, lock, pc, sample, previous, tables>>

ReadRecordAgain ==
    /\ omitted' \in SharesOf(omitted) \ {omitted}
    /\ total' = [d \in Direction |-> total[d] + (omitted[d] - omitted'[d])]
    /\ UNCHANGED <<bootedAt, carried, restarts, clock, lock, pc, sample, previous, tables>>

WanRecords ==
    /\ PartialResets
    /\ \/ WanReconnect \/ SkipRecord \/ ReadRecordAgain
       \/ \E d \in Direction : OmittedTraffic(d)

Tick ==
    /\ now < MaxNow
    /\ now' = now + 1
    /\ UNCHANGED <<router, skew, lock, pc, sample, previous, tables>>

AdjustClock ==
    /\ skew' \in 0..MaxSkew
    /\ UNCHANGED <<router, now, lock, pc, sample, previous, tables>>

(* A worker process. *)

(* mutant: the answer of pg_try_advisory_lock is ignored.                  *)
TakeLock(w) == lock' = w

TryAdvisoryLock(w) == lock = NoWorker /\ lock' = w

(* A process that does not get the lock exits.                             *)
Start(w) ==
    /\ pc[w] = "down"
    /\ TryAdvisoryLock(w)
    /\ pc' = [pc EXCEPT ![w] = "starting"]
    /\ UNCHANGED <<router, clock, sample, previous, tables>>

(* Whatever ends the process ends its sessions: PostgreSQL frees the lock  *)
(* and rolls back a transaction that had not committed.                    *)
Stop(w) ==
    /\ pc[w] # "down"
    /\ pc' = [pc EXCEPT ![w] = "down"]
    /\ lock' = IF lock = w THEN NoWorker ELSE lock
    /\ sample' = [sample EXCEPT ![w] = NoReading]
    /\ previous' = [previous EXCEPT ![w] = NoReading]
    /\ UNCHANGED <<router, clock, tables>>

(* The session that holds the lock ends while the process goes on with the *)
(* other connections of its pool; nothing reads the lock again.            *)
LoseSession(w) ==
    /\ SessionMayDrop
    /\ pc[w] # "down"
    /\ lock = w
    /\ lock' = NoWorker
    /\ UNCHANGED <<router, clock, pc, sample, previous, tables>>

(* The delete waits for a row another transaction holds FOR UPDATE.        *)
PruneRawData(w) ==
    /\ pc[w] = "starting"
    /\ \A v \in Workers : pc[v] = "recording" => previous[v] \notin Expired
    /\ readings' = readings \ Expired
    /\ pc' = [pc EXCEPT ![w] = "idle"]
    /\ UNCHANGED <<router, clock, lock, sample, previous, intervals, resetEvents, billed>>

(* collect asks the adapter; a sample that fails changes nothing.          *)
Sample(w) ==
    /\ pc[w] = "idle"
    /\ sample' = [sample EXCEPT ![w] = ConnectionCounters]
    /\ pc' = [pc EXCEPT ![w] = "sampled"]
    /\ UNCHANGED <<router, clock, lock, previous, tables>>

SelectPrevious(w) ==
    /\ pc[w] = "sampled"
    /\ previous' = [previous EXCEPT ![w] = Latest]
    /\ pc' = [pc EXCEPT ![w] = "selecting"]
    /\ UNCHANGED <<router, clock, lock, sample, tables>>

(* FOR UPDATE waits until no transaction holds the row and then returns the *)
(* row of the snapshot, even if a later one has been committed meanwhile.   *)
(* A row pruned in between, with every older one, leaves no row.           *)
LockPrevious(w) ==
    /\ pc[w] = "selecting"
    /\ \A v \in Workers \ {w} :
          pc[v] = "recording" => previous[v] = NoReading \/ previous[v] # previous[w]
    /\ previous' = [previous EXCEPT ![w] = IF @ \in readings THEN @ ELSE NoReading]
    /\ pc' = [pc EXCEPT ![w] = "recording"]
    /\ UNCHANGED <<router, clock, lock, sample, tables>>

(* The three inserts and the commit.                                       *)
Record(w) ==
    LET s == sample[w]
        p == previous[w]
    IN  /\ pc[w] = "recording"
        /\ readings' = InsertReading(s)
        /\ IF Advances(p, s)
           THEN /\ intervals' = Append(intervals, UsageInterval(p, s))
                /\ billed' = [d \in Direction |-> billed[d] + UsageInterval(p, s).bytes[d]]
                /\ resetEvents' = IF IsReset(p, s) THEN resetEvents \union {s.at}
                                                   ELSE resetEvents
           ELSE UNCHANGED <<intervals, billed, resetEvents>>
        /\ pc' = [pc EXCEPT ![w] = "idle"]
        /\ sample' = [sample EXCEPT ![w] = NoReading]
        /\ previous' = [previous EXCEPT ![w] = NoReading]
        /\ UNCHANGED <<router, clock, lock>>

(* Any statement of the transaction may fail: it is rolled back, the       *)
(* collection reports the error and the worker goes on.                    *)
Rollback(w) ==
    /\ pc[w] \in {"sampled", "selecting", "recording"}
    /\ pc' = [pc EXCEPT ![w] = "idle"]
    /\ sample' = [sample EXCEPT ![w] = NoReading]
    /\ previous' = [previous EXCEPT ![w] = NoReading]
    /\ UNCHANGED <<router, clock, lock, tables>>

Environment ==
    \/ \E d \in Direction : Traffic(d)
    \/ RouterRestart \/ WanRecords \/ Tick \/ AdjustClock

Worker(w) ==
    \/ Start(w) \/ Stop(w) \/ LoseSession(w) \/ PruneRawData(w)
    \/ Sample(w) \/ SelectPrevious(w) \/ LockPrevious(w) \/ Record(w) \/ Rollback(w)

Next == Environment \/ \E w \in Workers : Worker(w)

Spec == Init /\ [][Next]_vars

-----------------------------------------------------------------------------
(* Every variable has its type; router_readings has one row per instant    *)
(* (its UNIQUE constraint).                                                *)
TypeOK ==
    /\ total \in Bytes /\ omitted \in Bytes /\ carried \in Bytes /\ billed \in Bytes
    /\ bootedAt \in 0..now /\ restarts \in Nat
    /\ now \in Nat /\ skew \in 0..MaxSkew
    /\ lock \in Workers \union {NoWorker}
    /\ pc \in [Workers -> {"down", "starting", "idle", "sampled", "selecting", "recording"}]
    /\ sample \in [Workers -> Reading \union {NoReading}]
    /\ previous \in [Workers -> Reading \union {NoReading}]
    /\ readings \in SUBSET Reading
    /\ \A q, r \in readings : q.at = r.at => q = r
    /\ intervals \in Seq(Interval)
    /\ resetEvents \in SUBSET Int

(* What the dashboard charges is never more than what the router carried:  *)
(* across failed transactions, worker restarts, router restarts, pruning   *)
(* and steps of the clock no byte is counted twice (RecordConnectionReading *)
(* and CalculateDelta).                                                    *)
NeverOvercounts == \A d \in Direction : billed[d] <= carried[d]

(* The usage intervals are disjoint and in order, so summing those whose   *)
(* end lies in a window (SummarizeUsage) counts no instant twice.          *)
NoOverlap ==
    \A i, j \in 1..Len(intervals) :
        i < j => intervals[i].ended <= intervals[j].started

(* Consecutive intervals join without a hole unless the worker was away    *)
(* so long that pruning deleted its baseline: a failed collection, a crash *)
(* or a clock step alone never opens a gap in the history.                 *)
GapsOnlyFromRetention ==
    \A i \in 1..(Len(intervals) - 1) :
        LET gap == intervals[i+1].started - intervals[i].ended
        IN  gap = 0 \/ gap > Retention - MaxSkew

(* A counter_reset event is recorded only at the end of an interval during *)
(* which the reported counters really went down: neither a second worker   *)
(* whose reading comes late, nor a WAN record that is read again, makes    *)
(* CalculateDelta see a restart that did not happen.                       *)
NoFalseRestart ==
    \A t \in resetEvents : \E i \in 1..Len(intervals) :
        intervals[i].ended = t /\ intervals[i].crossed

(* Of a router whose counters restart together: an interval during which   *)
(* they did not go down holds exactly the traffic carried between its two  *)
(* readings, and no restart is seen that did not happen, whatever fails    *)
(* and however the clock is stepped (CalculateDelta).                      *)
ExactBetweenRestarts ==
    /\ \A i \in 1..Len(intervals) :
          ~intervals[i].crossed => intervals[i].bytes = intervals[i].truth
    /\ NoFalseRestart

(* At most one process is past the advisory lock (main.go: "another        *)
(* ingestion worker is already running").                                  *)
SingleActiveWorker ==
    \A v, w \in Workers : pc[v] # "down" /\ pc[w] # "down" => v = w

(* The promise of the whole pipeline, stated apart from it in UsageLedger: *)
(* every behaviour of RecordConnectionReading, PruneRawData and the worker *)
(* lock is a behaviour of a ledger that charges each byte and each instant *)
(* at most once.                                                           *)
LastSpan ==
    IF intervals = <<>> THEN [from |-> 0, to |-> 0]
    ELSE [from |-> intervals[Len(intervals)].started,
          to   |-> intervals[Len(intervals)].ended]

Ledger == INSTANCE UsageLedger WITH span <- LastSpan

ImplementsLedger == Ledger!Spec

-----------------------------------------------------------------------------
(* The inductive invariant behind the properties above, for a worker that  *)
(* keeps its session and a router whose counters restart together.         *)

(* What is known of two readings r and s, s taken later.                   *)
Precedes(r, s) ==
    /\ r.epoch <= s.epoch
    /\ \A d \in Direction : r.truth[d] <= s.truth[d]
    /\ r.epoch = s.epoch =>
          /\ r.uptime <= s.uptime
          /\ \A d \in Direction : s.bytes[d] - r.bytes[d] = s.truth[d] - r.truth[d]
    /\ r.epoch # s.epoch =>
          \A d \in Direction : s.bytes[d] <= s.truth[d] - r.truth[d]

InTransaction == {"sampled", "selecting", "recording"}

LockInv == \A w \in Workers : pc[w] # "down" => lock = w

SampleInv == \A w \in Workers : pc[w] \in InTransaction <=> sample[w] # NoReading

LatestInv == readings # {} => \E r \in readings : IsLatest(r)

BaseInv == TypeOK /\ SampleInv /\ LatestInv

PreviousInv ==
    \A w \in Workers :
        pc[w] \in {"selecting", "recording"} =>
              IF readings = {} THEN previous[w] = NoReading ELSE IsLatest(previous[w])

ReadingInv ==
    /\ \A r \in readings : Precedes(r, ConnectionCounters)
    /\ \A w \in Workers : sample[w] # NoReading =>
          /\ Precedes(sample[w], ConnectionCounters)
          /\ \A r \in readings : Precedes(r, sample[w])

BilledInv ==
    /\ NeverOvercounts
    /\ \A r \in readings : IsLatest(r) => \A d \in Direction : billed[d] <= r.truth[d]
    /\ \A w \in Workers : sample[w] # NoReading =>
          \A d \in Direction : billed[d] <= sample[w].truth[d]

(* t is where the history may go on after its last interval.               *)
Joins(t) == \/ t = LastSpan.to
            \/ t > LastSpan.to + (Retention - MaxSkew)

(* t is later than the history by more than pruning spares.                *)
Beyond(t) == t > LastSpan.to + (Retention - MaxSkew)

OrderInv ==
    /\ NoOverlap /\ GapsOnlyFromRetention
    /\ \A i \in 1..Len(intervals) : intervals[i].started < intervals[i].ended
    /\ intervals # <<>> =>
          /\ \A r \in readings : IsLatest(r) => Joins(r.at)
          /\ readings = {} => Beyond(now)
          /\ readings = {} => \A w \in Workers : sample[w] # NoReading => Beyond(sample[w].at)

IInv ==
    BaseInv /\ LockInv /\ PreviousInv /\ ReadingInv /\ BilledInv /\ OrderInv /\ ExactBetweenRestarts
=============================================================================
