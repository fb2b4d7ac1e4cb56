------------------------------ MODULE Collector ------------------------------
(***************************************************************************)
(* The worker's loop (collector/collector.go): one goroutine that collects *)
(* on a timer with backoff, polls for device blocks and manual collections *)
(* and writes a heartbeat; the tables it shares with the API               *)
(* (worker_status, collection_requests, store/worker.go); and the state    *)
(* the dashboard derives from them (httpapi/system_handlers.go).           *)
(*                                                                         *)
(* A tick is five seconds, the first delay after a failure.  Reaching the  *)
(* router takes time (ticks pass); statements against the database do not, *)
(* but each may fail.  What a collection stores is in Ingestion, what      *)
(* blocking does in DeviceControl.  events, covered and earned are history *)
(* variables.                                                              *)
(***************************************************************************)
EXTENDS Naturals, FiniteSets

CONSTANTS
    Requests,       \* manual collections users may ask for
    Scheduled,      \* what a collection of the timer serves instead
    Once,           \* what the collection of a process run with -once serves
    Interval,       \* COLLECTION_INTERVAL
    HeartbeatEvery, \* ten seconds
    TwoMinutes,     \* the least age at which a worker is shown as offline
    MaxDuration,    \* the longest the router keeps one call waiting
    MaxFailures,    \* bound: where consecutive_failures saturates
    MaxBlocks,      \* bound: device blocks that are ever claimed
    MaxLost,        \* bound: statements of the worker that fail
    MaxCrashes      \* bound: worker processes that stop

ASSUME ServedAssumption == Scheduled \notin Requests /\ Once \notin Requests /\ Once # Scheduled
ASSUME IntervalAssumption ==
    /\ Interval \in Nat \ {0} /\ HeartbeatEvery \in Nat \ {0}
    /\ TwoMinutes \in Nat /\ MaxDuration \in Nat
ASSUME CollectorBounds ==
    /\ MaxFailures \in Nat \ {0} /\ MaxBlocks \in Nat
    /\ MaxLost \in Nat /\ MaxCrashes \in Nat

VARIABLES
    pc,        \* where the loop is
    serving,   \* the request the collection under way answers, Scheduled or Once
    err,       \* the collection under way has failed
    duration,  \* ticks the call to the router has taken
    next,      \* ticks until the timer fires
    beat,      \* ticks until the heartbeat fires
    attempted, \* c.status.LastAttemptAt is set
    failures,  \* c.status.ConsecutiveFailures
    row,       \* worker_status: failures, age of heartbeat_at, and whether
               \* instance_id is that of the process that runs
    reading,   \* age of the latest router reading
    answer,    \* collection_requests: "none", "pending", "ok" or "error"
    blocks,    \* device blocks still to come
    lost,      \* statements that failed so far
    crashes,   \* processes that stopped so far
    events,    \* history: collection_failed events since a success or a start
    covered,   \* history: requests queued before this collection began
    earned     \* history: requests queued before a collection that succeeded

loop     == <<pc, serving, err, duration>>
timers   == <<next, beat>>
status   == <<attempted, failures>>
tables   == <<row, reading, answer>>
bounds   == <<blocks, lost, crashes>>
history  == <<events, covered, earned>>
vars     == <<loop, timers, status, tables, bounds, history>>

OfflineAfter == IF 2 * Interval > TwoMinutes THEN 2 * Interval ELSE TwoMinutes

(* mutant: a reading is stale after one interval.                          *)
OneInterval == Interval

StaleAfter == 2 * Interval

(* Ages count up to the first tick at which no threshold can tell them.    *)
Old == OfflineAfter + 1

Older(age) == IF age < Old THEN age + 1 ELSE Old

Sooner(t) == IF t > 0 THEN t - 1 ELSE 0

Smaller(m, n) == IF m < n THEN m ELSE n

(* mutant: the delay is not capped by the interval.                        *)
DelayUncapped(e, n) == IF e THEN 2 ^ Smaller(n - 1, 6) ELSE Interval

(* What runCollection returns after its n-th consecutive failure, if any.  *)
Delay(e, n) == IF e THEN Smaller(2 ^ Smaller(n - 1, 6), Interval) ELSE Interval

Pending == {r \in Requests : answer[r] = "pending"}

(* httpapi status, for a configured adapter that has stored a reading.     *)
CollectorState ==
    CASE row.age > OfflineAfter -> "worker-offline"
      [] row.age <= OfflineAfter /\ row.failures > 0 -> "error"
      [] row.age <= OfflineAfter /\ row.failures = 0 ->
            IF reading <= StaleAfter THEN "running" ELSE "stale"

-----------------------------------------------------------------------------
(* A worker that has not run for long, or never (no row and no reading).   *)
Init ==
    /\ pc = "down" /\ serving = Scheduled /\ err = FALSE /\ duration = 0
    /\ next = 0 /\ beat = 0
    /\ attempted = FALSE /\ failures = 0
    /\ row = [failures |-> 0, age |-> Old, own |-> FALSE] /\ reading = Old
    /\ answer = [r \in Requests |-> "none"]
    /\ blocks = MaxBlocks /\ lost = 0 /\ crashes = 0
    /\ events = 0 /\ covered = {} /\ earned = {}

(* The API.  A request that has been answered may be made anew.            *)

QueueCollection(r) ==
    /\ answer[r] # "pending"
    /\ answer' = [answer EXCEPT ![r] = "pending"]
    /\ earned' = earned \ {r}
    /\ UNCHANGED <<loop, timers, status, row, reading, bounds, events, covered>>

(* The worker.  Locals are cleared when the call that has them returns.    *)

BeginCollection(s) ==
    /\ pc' = "counters" /\ serving' = s /\ err' = FALSE /\ duration' = 0
    /\ covered' = Pending

Return(to) ==
    pc' = to /\ serving' = Scheduled /\ err' = FALSE /\ duration' = 0 /\ covered' = {}

Exit ==
    /\ Return("down")
    /\ next' = 0 /\ beat' = 0 /\ attempted' = FALSE /\ failures' = 0
    /\ crashes' = crashes + 1

(* New, and the first statement of Run.                                    *)
Start ==
    /\ pc = "down"
    /\ BeginCollection(Scheduled)
    /\ next' = Interval /\ beat' = HeartbeatEvery
    /\ events' = 0
    /\ UNCHANGED <<status, tables, bounds, earned>>

(* RunOnce, run by cron or a systemd timer while no worker runs: a device  *)
(* block first, then a collection, and the process ends with recordResult. *)
RunOnce ==
    /\ pc = "down" /\ crashes < MaxCrashes
    /\ \/ BeginCollection(Once) /\ UNCHANGED blocks
       \/ /\ blocks > 0 /\ blocks' = blocks - 1
          /\ pc' = "control" /\ serving' = Once
          /\ UNCHANGED <<err, duration, covered>>
    /\ events' = 0
    /\ UNCHANGED <<timers, status, tables, lost, crashes, earned>>

(* A crash, or a signal: it cancels the call and the statements after it.  *)
Stop ==
    /\ pc # "down" /\ crashes < MaxCrashes
    /\ Exit
    /\ row' = [row EXCEPT !.own = FALSE]
    /\ UNCHANGED <<reading, answer, blocks, lost, events, earned>>

(* The two halves of collect: the counters, whose reading is stored        *)
(* although the devices fail, and the devices.                             *)
CollectCounters ==
    /\ pc = "counters"
    /\ \/ pc' = "devices" /\ reading' = 0 /\ UNCHANGED err
       \/ pc' = "result" /\ err' = TRUE /\ UNCHANGED reading
    /\ UNCHANGED <<serving, duration, timers, status, row, answer, bounds, history>>

CollectDevices ==
    /\ pc = "devices"
    /\ err' \in BOOLEAN /\ pc' = "result"
    /\ UNCHANGED <<serving, duration, timers, status, tables, bounds, history>>

(* mutant: the upsert does not update consecutive_failures.                *)
StoreAge(n) == row' = [row EXCEPT !.age = 0, !.own = TRUE]

StoreStatus(n) == row' = [failures |-> n, age |-> 0, own |-> TRUE]

(* UpdateWorkerStatus; a statement that fails is only logged.              *)
UpdateWorkerStatus(n) ==
    \/ StoreStatus(n) /\ UNCHANGED lost
    \/ lost < MaxLost /\ lost' = lost + 1 /\ UNCHANGED row

(* mutant: every failure is recorded.                                      *)
IsFailure(n) == n > 0

StartsStreak(n) == n = 1

(* What recordResult leaves behind, in the process or only in the tables.  *)
NoteResult ==
    /\ events' = IF ~err THEN 0 ELSE IF StartsStreak(failures + 1) THEN events + 1 ELSE events
    /\ earned' = IF err THEN earned ELSE earned \union covered

(* recordResult, and what follows it in Run: the timer and the heartbeat   *)
(* are created after the first collection, whose delay is dropped, and a   *)
(* later one of the timer resets the timer to its delay.                   *)
RecordResult ==
    LET n == IF err THEN Smaller(failures + 1, MaxFailures) ELSE 0
        first == ~attempted
    IN  /\ pc = "result" /\ serving # Once
        /\ attempted' = TRUE /\ failures' = n
        /\ NoteResult /\ UpdateWorkerStatus(n)
        /\ IF serving = Scheduled
           THEN Return("idle") /\ next' = IF first THEN Interval ELSE Delay(err, n)
           ELSE /\ pc' = "complete"
                /\ UNCHANGED <<serving, err, duration, next, covered>>
        /\ beat' = IF first THEN HeartbeatEvery ELSE beat
        /\ UNCHANGED <<reading, answer, blocks, crashes>>

(* recordResult at the end of RunOnce: the process exits.                  *)
RecordOnly ==
    LET n == IF err THEN 1 ELSE 0
    IN  /\ pc = "result" /\ serving = Once
        /\ NoteResult
        /\ \/ row' = [failures |-> n, age |-> 0, own |-> FALSE] /\ UNCHANGED lost
           \/ lost < MaxLost /\ lost' = lost + 1 /\ row' = [row EXCEPT !.own = FALSE]
        /\ Exit
        /\ UNCHANGED <<reading, answer, blocks>>

(* mutants: the error is not looked at; a failure leaves the request to    *)
(* the next poll.                                                          *)
AnswerDone(r) == answer' = [answer EXCEPT ![r] = "ok"]

AnswerSuccess(r) == answer' = IF err THEN answer ELSE [answer EXCEPT ![r] = "ok"]

Answer(r) == answer' = [answer EXCEPT ![r] = IF err THEN "error" ELSE "ok"]

CompleteCollectionRequest ==
    /\ pc = "complete"
    /\ \/ Answer(serving) /\ UNCHANGED lost
       \/ lost < MaxLost /\ lost' = lost + 1 /\ UNCHANGED answer
    /\ Return("idle")
    /\ UNCHANGED <<timers, status, row, reading, blocks, crashes, events, earned>>

(* The select: whichever channel is ready. *)

TimerFires ==
    /\ pc = "idle" /\ next = 0
    /\ BeginCollection(Scheduled)
    /\ UNCHANGED <<timers, status, tables, bounds, events, earned>>

(* The two-second ticker: runDeviceControl first, then the request polled. *)
PollDeviceControl ==
    /\ pc = "idle"
    /\ IF blocks > 0
       THEN pc' = "control" /\ duration' = 0 /\ blocks' = blocks - 1
       ELSE pc' = "poll" /\ UNCHANGED <<duration, blocks>>
    /\ UNCHANGED <<serving, err, timers, status, tables, lost, crashes, history>>

FinishDeviceControl ==
    /\ pc = "control"
    /\ IF serving = Once THEN BeginCollection(Once) ELSE Return("poll")
    /\ UNCHANGED <<timers, status, tables, bounds, events, earned>>

(* PendingCollectionRequest: the oldest, here any, of the pending ones     *)
(* (of which a run that asks for progress has one).                        *)
PollCollectionRequest ==
    /\ pc = "poll"
    /\ \/ /\ \E r \in Pending : BeginCollection(r)
          /\ UNCHANGED lost
       \/ /\ Pending = {}
          /\ pc' = "idle" /\ UNCHANGED <<serving, err, duration, covered, lost>>
       \/ /\ lost < MaxLost /\ lost' = lost + 1
          /\ pc' = "idle" /\ UNCHANGED <<serving, err, duration, covered>>
    /\ UNCHANGED <<timers, status, tables, blocks, crashes, events, earned>>

Heartbeat ==
    /\ pc = "idle" /\ beat = 0
    /\ beat' = HeartbeatEvery
    /\ UpdateWorkerStatus(failures)
    /\ UNCHANGED <<loop, next, status, reading, answer, blocks, crashes, history>>

(* Time. *)

Age ==
    /\ next' = Sooner(next) /\ beat' = Sooner(beat)
    /\ row' = [row EXCEPT !.age = Older(@)]
    /\ reading' = Older(reading)

(* A call to the router is under way. *)
Wait ==
    /\ pc \in {"counters", "devices", "control"} /\ duration < MaxDuration
    /\ duration' = duration + 1
    /\ Age
    /\ UNCHANGED <<pc, serving, err, status, answer, bounds, history>>

(* The loop has nothing that is due, or nothing runs.                      *)
Tick ==
    /\ pc = "down" \/ (pc = "idle" /\ next > 0 /\ beat > 0)
    /\ Age
    /\ UNCHANGED <<loop, status, answer, bounds, history>>

Loop ==
    \/ CollectCounters \/ CollectDevices \/ RecordResult \/ RecordOnly
    \/ CompleteCollectionRequest
    \/ TimerFires \/ PollDeviceControl \/ FinishDeviceControl
    \/ PollCollectionRequest \/ Heartbeat

Next ==
    \/ \E r \in Requests : QueueCollection(r)
    \/ Start \/ RunOnce \/ Stop \/ Loop \/ Wait \/ Tick

Spec == Init /\ [][Next]_vars

(* The supervisor restarts the worker; a call returns (the client has a    *)
(* timeout); and the select is random, so a ready channel is taken in the  *)
(* end.                                                                    *)
Fairness ==
    /\ WF_vars(Start)
    /\ WF_vars(CollectCounters) /\ WF_vars(CollectDevices) /\ WF_vars(RecordResult)
    /\ WF_vars(RecordOnly) /\ WF_vars(CompleteCollectionRequest) /\ WF_vars(FinishDeviceControl)
    /\ WF_vars(PollCollectionRequest) /\ SF_vars(Tick)
    /\ SF_vars(TimerFires) /\ SF_vars(PollDeviceControl) /\ SF_vars(Heartbeat)

LiveSpec == Spec /\ Fairness

-----------------------------------------------------------------------------
(* Types; a loop that is back in its select has attempted a collection,    *)
(* and its timer is set to fire within the interval, however often         *)
(* collections failed (the delay runCollection returns).                   *)
TypeOK ==
    /\ pc \in {"down", "idle", "counters", "devices", "result", "complete", "control", "poll"}
    /\ serving \in Requests \union {Scheduled, Once} /\ err \in BOOLEAN
    /\ duration \in 0..MaxDuration
    /\ next \in 0..Interval /\ beat \in 0..HeartbeatEvery
    /\ attempted \in BOOLEAN /\ failures \in 0..MaxFailures
    /\ row \in [failures : 0..MaxFailures, age : 0..Old, own : BOOLEAN] /\ reading \in 0..Old
    /\ answer \in [Requests -> {"none", "pending", "ok", "error"}]
    /\ blocks \in 0..MaxBlocks /\ lost \in 0..MaxLost /\ crashes \in 0..MaxCrashes
    /\ events \in Nat /\ covered \subseteq Requests /\ earned \subseteq Requests
    /\ pc \in {"idle", "poll"} => attempted

(* A live worker whose last collection succeeded, and of which the API has *)
(* heard, is shown as running (or as failing, if it has heard of that), not *)
(* as stale or offline: the thresholds of the status handler leave room    *)
(* for the interval, for slow calls to the router, for a device block      *)
(* between two collections and for a lost heartbeat.                       *)
NoFalseAlarm ==
    row.own /\ failures = 0 =>
        CollectorState \notin {"worker-offline", "stale"}

(* A manual collection is reported as done only after a collection that    *)
(* began after it was asked for and succeeded, so the user never gets data *)
(* older than the request (PendingCollectionRequest and                    *)
(* CompleteCollectionRequest across crashes and retries).                  *)
AnsweredAfterCollected == \A r \in Requests : answer[r] = "ok" => r \in earned

(* A router that stays down does not fill collector_events: between two    *)
(* successes a process records one failure, whether its collections are    *)
(* scheduled or manual.                                                    *)
OneEventPerStreak == events <= 1

(* Every manual collection is answered, also when the router is down for   *)
(* good, the completion is lost or the worker crashes in between.          *)
RequestsServed == \A r \in Requests : answer[r] = "pending" ~> answer[r] \in {"ok", "error"}

(* A status write that is lost is made up for: while collections fail the  *)
(* dashboard comes to know.                                                *)
FailuresShown ==
    (pc = "idle" /\ failures > 0) ~> (row.failures > 0 \/ failures = 0 \/ pc = "down")
=============================================================================
