--------------------------- MODULE CollectorProofs ---------------------------
(* Proofs about Collector, for every set of manual collections, every      *)
(* interval and threshold, and any number of device blocks, lost           *)
(* statements and crashes.                                                 *)
EXTENDS Collector, Integers, TLAPS

Collecting == pc \in {"counters", "devices", "result"}

(* Where the loop is and whom it serves: only the collections of Run are   *)
(* followed by an answer, and only an attempt puts this process in the     *)
(* worker_status row.  A RunOnce may end only if it was allowed to begin.  *)
LoopInv ==
    /\ pc \in {"down", "idle", "poll"} => serving = Scheduled
    /\ pc = "control" => serving = Once \/ (serving = Scheduled /\ attempted)
    /\ pc = "complete" => attempted /\ serving \in Requests
    /\ Collecting /\ serving \in Requests => attempted
    /\ pc = "down" => ~attempted /\ failures = 0 /\ ~row.own
    /\ row.own => attempted
    /\ serving = Once => crashes < MaxCrashes

(* The collection under way covers the request it serves, which nobody     *)
(* has answered or asked for anew since it began.                          *)
Served ==
    /\ Collecting /\ serving \in Requests =>
          serving \in covered /\ answer[serving] = "pending"
    /\ pc = "complete" =>
          answer[serving] = "pending" /\ (~err => serving \in earned)

(* One failure is recorded until failures is reset.                        *)
Streak == events <= 1 /\ (pc # "down" /\ failures = 0 => events = 0)

(* Ticks that the loop may have spent on the device blocks claimed so far, *)
(* those it has spent on calls of them and the one under way, and those    *)
(* that lost statements have cost: the wait for the next heartbeat, and a  *)
(* call in between.                                                        *)
BlockTime == (MaxBlocks - blocks) * MaxDuration

CallTime ==
    CASE pc = "control" -> BlockTime - MaxDuration + duration
      [] Collecting     -> BlockTime + duration
      [] OTHER          -> BlockTime

LostTime == lost * (HeartbeatEvery + MaxDuration)

(* A heartbeat is due HeartbeatEvery after the row was written, and only a *)
(* lost statement or a call puts that off.  A successful collection stores *)
(* its reading while its own call lasts, and the timer that it sets        *)
(* measures the age of that reading from then on.                          *)
HeartbeatDue == row.own => row.age + beat <= HeartbeatEvery + LostTime + CallTime

ReadingDue ==
    /\ pc = "devices" \/ (pc = "result" /\ ~err) => reading <= duration
    /\ attempted /\ failures = 0 => reading + next <= Interval + MaxDuration + CallTime

Timing == HeartbeatDue /\ ReadingDue

IInv == TypeOK /\ LoopInv /\ Served /\ AnsweredAfterCollected /\ Streak /\ Timing

(* The interval leaves room for the calls that come between two readings,  *)
(* and the offline threshold for heartbeats that are lost or late.         *)
Unhurried ==
    /\ (MaxBlocks + 2) * MaxDuration <= Interval
    /\ (MaxLost + 1) * (HeartbeatEvery + MaxDuration) + MaxBlocks * MaxDuration <= OfflineAfter

-----------------------------------------------------------------------------
(* What the model's operators return, and keep.                            *)

LEMMA Constants ==
    /\ Interval \in Nat /\ Interval > 0 /\ HeartbeatEvery \in Nat
    /\ TwoMinutes \in Nat /\ MaxDuration \in Nat /\ MaxFailures \in Nat /\ MaxFailures > 0
    /\ MaxBlocks \in Nat /\ MaxLost \in Nat /\ MaxCrashes \in Nat
    /\ OfflineAfter \in Nat /\ Old \in Nat /\ StaleAfter \in Nat
    /\ Old = OfflineAfter + 1 /\ StaleAfter = 2 * Interval /\ OfflineAfter >= 2 * Interval
  BY IntervalAssumption, CollectorBounds DEF OfflineAfter, Old, StaleAfter

LEMMA OlderType ==
    ASSUME NEW age \in 0..Old
    PROVE  Older(age) \in 0..Old /\ Older(age) <= age + 1
  BY Constants DEF Older

LEMMA SoonerType ==
    ASSUME NEW t \in Nat
    PROVE  /\ Sooner(t) \in 0..t
           /\ t > 0 => Sooner(t) = t - 1
           /\ t = 0 => Sooner(t) = 0
  BY DEF Sooner

LEMMA PowerOfTwo ==
    ASSUME NEW k \in 0..6
    PROVE  2 ^ k \in Nat
  <1>1. k = 0 \/ k = 1 \/ k = 2 \/ k = 3 \/ k = 4 \/ k = 5 \/ k = 6
    OBVIOUS
  <1>2. /\ 2 ^ 0 \in Nat /\ 2 ^ 1 \in Nat /\ 2 ^ 2 \in Nat /\ 2 ^ 3 \in Nat
        /\ 2 ^ 4 \in Nat /\ 2 ^ 5 \in Nat /\ 2 ^ 6 \in Nat
    OBVIOUS
  <1> QED BY ONLY <1>1, <1>2, Zenon

(* However many collections have failed, the delay is within the interval. *)
LEMMA DelayType ==
    ASSUME NEW e \in BOOLEAN, NEW n \in Nat, e => n > 0
    PROVE  Delay(e, n) \in 0..Interval /\ (~e => Delay(e, n) = Interval)
  <1>1. CASE ~e
    BY <1>1, Constants DEF Delay
  <1>2. CASE e
    <2> DEFINE k == Smaller(n - 1, 6)
    <2>1. k \in 0..6
      BY <1>2 DEF Smaller
    <2>2. 2 ^ k \in Nat
      BY <2>1, PowerOfTwo
    <2> DEFINE p == 2 ^ k
    <2>3. p \in Nat /\ Delay(e, n) = Smaller(p, Interval)
      BY <1>2, <2>2 DEF Delay
    <2> HIDE DEF p
    <2>4. Delay(e, n) \in 0..Interval
      BY <2>3, Constants DEF Smaller
    <2> QED BY <1>2, <2>4, Zenon
  <1> QED BY <1>1, <1>2

(* Time passes: ages grow by one at most, timers shrink by one until they  *)
(* are due, and the row keeps its worker.                                  *)
LEMMA AgeStep ==
    ASSUME TypeOK, Age
    PROVE  /\ next' \in 0..Interval /\ (next > 0 => next' = next - 1) /\ (next = 0 => next' = 0)
           /\ beat' \in 0..HeartbeatEvery /\ (beat > 0 => beat' = beat - 1) /\ (beat = 0 => beat' = 0)
           /\ row' \in [failures : 0..MaxFailures, age : 0..Old, own : BOOLEAN]
           /\ row'.failures = row.failures /\ row'.age <= row.age + 1 /\ row'.own = row.own
           /\ reading' \in 0..Old /\ reading' <= reading + 1
  BY Constants, SoonerType, OlderType DEF TypeOK, Age

LEMMA ReturnStep ==
    ASSUME NEW to, Return(to)
    PROVE  /\ pc' = to /\ serving' = Scheduled /\ duration' = 0 /\ covered' = {}
           /\ ~err' /\ err' \in BOOLEAN
  <1>1. ~err' /\ err' \in BOOLEAN
    BY Zenon DEF Return
  <1> QED BY <1>1 DEF Return

LEMMA BeginStep ==
    ASSUME NEW s, BeginCollection(s)
    PROVE  /\ pc' = "counters" /\ serving' = s /\ duration' = 0
           /\ covered' = Pending /\ covered' \subseteq Requests
           /\ ~err' /\ err' \in BOOLEAN
  <1>1. ~err' /\ err' \in BOOLEAN
    BY Zenon DEF BeginCollection
  <1> QED BY <1>1 DEF BeginCollection, Pending

LEMMA ExitStep ==
    ASSUME Exit
    PROVE  /\ pc' = "down" /\ serving' = Scheduled /\ duration' = 0 /\ covered' = {}
           /\ ~err' /\ err' \in BOOLEAN /\ ~attempted' /\ attempted' \in BOOLEAN
           /\ next' = 0 /\ beat' = 0 /\ failures' = 0 /\ crashes' = crashes + 1
  <1>1. ~attempted' /\ attempted' \in BOOLEAN
    BY Zenon DEF Exit
  <1>2. Return("down")
    BY DEF Exit
  <1> QED BY <1>1, <1>2, ReturnStep DEF Exit

(* The row after a statement: written by this process or as it was.        *)
LEMMA StatusStep ==
    ASSUME TypeOK, NEW n \in 0..MaxFailures, UpdateWorkerStatus(n)
    PROVE  /\ row' \in [failures : 0..MaxFailures, age : 0..Old, own : BOOLEAN]
           /\ lost' \in 0..MaxLost
           /\ \/ row'.own /\ row'.age = 0 /\ row'.failures = n /\ lost' = lost
              \/ row' = row /\ lost' = lost + 1
  <1>1. CASE StoreStatus(n) /\ UNCHANGED lost
    <2> DEFINE new == [failures |-> n, age |-> 0, own |-> TRUE]
    <2>1. new \in [failures : 0..MaxFailures, age : 0..Old, own : BOOLEAN]
      BY Constants
    <2>2. row' = new
      BY <1>1 DEF StoreStatus
    <2>3. row'.own
      BY <2>2, Zenon
    <2>4. row'.age = 0 /\ row'.failures = n
      BY <2>2
    <2>5. row' \in [failures : 0..MaxFailures, age : 0..Old, own : BOOLEAN]
      BY <2>1, <2>2, Zenon
    <2> QED BY <1>1, <2>3, <2>4, <2>5 DEF TypeOK
  <1>2. CASE lost < MaxLost /\ lost' = lost + 1 /\ UNCHANGED row
    BY <1>2, Constants DEF TypeOK
  <1> QED BY <1>1, <1>2 DEF UpdateWorkerStatus

LEMMA NoteStep ==
    ASSUME TypeOK, NoteResult
    PROVE  /\ events' \in Nat
           /\ ~err => events' = 0
           /\ err /\ failures = 0 => events' = events + 1
           /\ err /\ failures > 0 => events' = events
           /\ earned' \subseteq Requests /\ earned \subseteq earned'
           /\ ~err => earned' = earned \union covered
  <1>1. CASE err
    BY <1>1 DEF TypeOK, NoteResult, StartsStreak
  <1>2. CASE ~err
    BY <1>2 DEF TypeOK, NoteResult
  <1> QED BY <1>1, <1>2

LEMMA RecordResultStep ==
    ASSUME TypeOK, RecordResult
    PROVE  /\ attempted' /\ attempted' \in BOOLEAN
           /\ failures' \in 0..MaxFailures /\ (~err => failures' = 0) /\ (err => failures' > 0)
           /\ UpdateWorkerStatus(failures')
           /\ \/ /\ serving = Scheduled /\ Return("idle")
                 /\ next' \in 0..Interval /\ (~err => next' = Interval)
              \/ /\ serving \in Requests /\ pc' = "complete"
                 /\ UNCHANGED <<serving, err, duration, next, covered>>
           /\ beat' \in 0..HeartbeatEvery /\ (attempted => beat' = beat)
  <1> DEFINE n == IF err THEN Smaller(failures + 1, MaxFailures) ELSE 0
  <1>1. n \in 0..MaxFailures /\ (~err => n = 0) /\ (err => n > 0)
    <2>1. CASE err
      BY <2>1, Constants DEF TypeOK, Smaller
    <2>2. CASE ~err
      BY <2>2, Constants
    <2> QED BY <2>1, <2>2
  <1>2. failures' = n
    BY DEF RecordResult
  <1>3. attempted' /\ attempted' \in BOOLEAN
    BY Zenon DEF RecordResult
  <1>4. UpdateWorkerStatus(failures')
    BY <1>2 DEF RecordResult
  <1>5. beat' \in 0..HeartbeatEvery /\ (attempted => beat' = beat)
    BY Constants DEF RecordResult, TypeOK
  <1> HIDE DEF n
  <1>6. CASE serving = Scheduled
    <2>1. Return("idle") /\ next' = IF ~attempted THEN Interval ELSE Delay(err, n)
      BY <1>6 DEF RecordResult, n
    <2>2. Delay(err, n) \in 0..Interval /\ (~err => Delay(err, n) = Interval)
      BY <1>1, DelayType DEF TypeOK
    <2>3. next' \in 0..Interval /\ (~err => next' = Interval)
      BY <2>1, <2>2, Constants DEF TypeOK
    <2> QED BY <1>1, <1>2, <1>3, <1>4, <1>5, <1>6, <2>1, <2>3
  <1>7. CASE serving # Scheduled
    <2>1. /\ serving \in Requests /\ pc' = "complete"
          /\ UNCHANGED <<serving, err, duration, next, covered>>
      BY <1>7 DEF RecordResult, TypeOK
    <2> QED BY <1>1, <1>2, <1>3, <1>4, <1>5, <2>1
  <1> QED BY <1>6, <1>7

LEMMA RecordOnlyStep ==
    ASSUME TypeOK, RecordOnly
    PROVE  /\ row' \in [failures : 0..MaxFailures, age : 0..Old, own : BOOLEAN] /\ ~row'.own
           /\ lost' \in 0..MaxLost /\ Exit /\ NoteResult
  <1> DEFINE n == IF err THEN 1 ELSE 0
             new == [failures |-> n, age |-> 0, own |-> FALSE]
             same == [row EXCEPT !.own = FALSE]
  <1>1. new \in [failures : 0..MaxFailures, age : 0..Old, own : BOOLEAN] /\ ~new.own
    <2>1. n \in 0..MaxFailures
      BY Constants
    <2>2. ~new.own
      BY Zenon
    <2> QED BY <2>1, <2>2, Constants
  <1>2. same \in [failures : 0..MaxFailures, age : 0..Old, own : BOOLEAN] /\ ~same.own
    <2>1. row \in [failures : 0..MaxFailures, age : 0..Old, own : BOOLEAN]
      BY DEF TypeOK
    <2>2. ~same.own
      BY <2>1, Zenon
    <2> QED BY <2>1, <2>2
  <1>3. \/ row' = new /\ lost' = lost
        \/ lost < MaxLost /\ lost' = lost + 1 /\ row' = same
    BY DEF RecordOnly
  <1>4. lost' \in 0..MaxLost
    BY <1>3, Constants DEF TypeOK
  <1> HIDE DEF new, same
  <1>5. row' \in [failures : 0..MaxFailures, age : 0..Old, own : BOOLEAN] /\ ~row'.own
    BY <1>1, <1>2, <1>3
  <1> QED BY <1>4, <1>5 DEF RecordOnly

-----------------------------------------------------------------------------
LEMMA InitInv == Init => IInv
  <1> SUFFICES ASSUME Init PROVE IInv
    OBVIOUS
  <1>1. /\ ~err /\ err \in BOOLEAN /\ ~attempted /\ attempted \in BOOLEAN
    BY Zenon DEF Init
  <1>2. row \in [failures : 0..MaxFailures, age : 0..Old, own : BOOLEAN]
    BY Constants DEF Init
  <1>3. ~row.own
    <2> DEFINE r == [failures |-> 0, age |-> Old, own |-> FALSE]
    <2>1. row = r
      BY DEF Init
    <2> QED BY <2>1, Zenon
  <1>4. TypeOK
    BY <1>1, <1>2, Constants DEF Init, TypeOK
  <1>5. LoopInv /\ Served /\ Streak
    BY <1>1, <1>3, ServedAssumption DEF Init, LoopInv, Served, Streak, Collecting
  <1>6. Timing
    BY <1>1, <1>3, Zenon DEF Init, Timing, HeartbeatDue, ReadingDue
  <1>7. AnsweredAfterCollected
    BY DEF Init, AnsweredAfterCollected
  <1> QED BY <1>4, <1>5, <1>6, <1>7 DEF IInv

(* Types, and where the loop is.                                           *)
LEMMA LoopStep ==
    ASSUME TypeOK, LoopInv, [Next]_vars
    PROVE  TypeOK' /\ LoopInv'
  <1> USE Constants, ServedAssumption
          DEF TypeOK, LoopInv, Collecting, loop, timers, status, tables, bounds, history
  <1>1. ASSUME NEW r \in Requests, QueueCollection(r) PROVE TypeOK' /\ LoopInv'
    BY <1>1 DEF QueueCollection
  <1>2. CASE Start
    BY <1>2, BeginStep DEF Start
  <1>3. CASE RunOnce
    <2>1. CASE BeginCollection(Once) /\ UNCHANGED blocks
      BY <1>3, <2>1, BeginStep DEF RunOnce
    <2>2. CASE blocks > 0 /\ blocks' = blocks - 1
      BY <1>3, <2>2 DEF RunOnce, BeginCollection
    <2> QED BY <1>3, <2>1, <2>2 DEF RunOnce
  <1>4. CASE Stop
    <2>1. /\ row' \in [failures : 0..MaxFailures, age : 0..Old, own : BOOLEAN]
      BY <1>4 DEF Stop
    <2>2. ~row'.own
      <3>1. row' = [row EXCEPT !.own = FALSE] /\ row \in [failures : 0..MaxFailures, age : 0..Old, own : BOOLEAN]
        BY <1>4 DEF Stop
      <3> QED BY ONLY <3>1, Zenon
    <2> QED BY <1>4, <2>1, <2>2, ExitStep DEF Stop
  <1>5. CASE CollectCounters
    <2>1. err' \in BOOLEAN
      BY <1>5, Zenon DEF CollectCounters
    <2> QED BY <1>5, <2>1 DEF CollectCounters
  <1>6. CASE CollectDevices
    BY <1>6 DEF CollectDevices
  <1>7. CASE RecordResult
    <2>1. /\ row' \in [failures : 0..MaxFailures, age : 0..Old, own : BOOLEAN]
          /\ lost' \in 0..MaxLost
      BY <1>7, RecordResultStep, StatusStep
    <2>2. events' \in Nat /\ earned' \subseteq Requests
      BY <1>7, NoteStep DEF RecordResult
    <2>3. CASE serving = Scheduled
      BY <1>7, <2>1, <2>2, <2>3, RecordResultStep, ReturnStep DEF RecordResult
    <2>4. CASE serving \in Requests
      BY <1>7, <2>1, <2>2, <2>4, RecordResultStep DEF RecordResult
    <2> QED BY <1>7, <2>3, <2>4, RecordResultStep
  <1>8. CASE RecordOnly
    <2>1. events' \in Nat /\ earned' \subseteq Requests
      BY <1>8, NoteStep, RecordOnlyStep
    <2> QED BY <1>8, <2>1, RecordOnlyStep, ExitStep DEF RecordOnly
  <1>9. CASE CompleteCollectionRequest
    <2>1. answer' \in [Requests -> {"none", "pending", "ok", "error"}]
      BY <1>9 DEF CompleteCollectionRequest, Answer
    <2> QED BY <1>9, <2>1, ReturnStep DEF CompleteCollectionRequest
  <1>10. CASE TimerFires
    BY <1>10, BeginStep DEF TimerFires
  <1>11. CASE PollDeviceControl
    BY <1>11 DEF PollDeviceControl
  <1>12. CASE FinishDeviceControl
    BY <1>12, BeginStep, ReturnStep DEF FinishDeviceControl
  <1>13. CASE PollCollectionRequest
    <2>1. ASSUME NEW r \in Pending, BeginCollection(r), UNCHANGED lost PROVE TypeOK' /\ LoopInv'
      BY <1>13, <2>1, BeginStep DEF PollCollectionRequest, Pending
    <2> QED BY <1>13, <2>1 DEF PollCollectionRequest
  <1>14. CASE Heartbeat
    BY <1>14, StatusStep DEF Heartbeat
  <1>15. CASE Wait
    BY <1>15, AgeStep DEF Wait
  <1>16. CASE Tick
    BY <1>16, AgeStep DEF Tick
  <1>17. CASE UNCHANGED vars
    BY <1>17 DEF vars
  <1> QED
    BY <1>1, <1>2, <1>3, <1>4, <1>5, <1>6, <1>7, <1>8, <1>9, <1>10, <1>11, <1>12, <1>13, <1>14,
       <1>15, <1>16, <1>17 DEF Next, Loop

(* The answers, and what they are given for.                               *)
LEMMA ServedStep ==
    ASSUME TypeOK, LoopInv, Served, AnsweredAfterCollected, [Next]_vars
    PROVE  Served' /\ AnsweredAfterCollected'
  <1> USE ServedAssumption
          DEF TypeOK, LoopInv, Served, AnsweredAfterCollected, Collecting,
              loop, timers, status, tables, bounds, history
  <1>1. ASSUME NEW r \in Requests, QueueCollection(r) PROVE Served' /\ AnsweredAfterCollected'
    BY <1>1 DEF QueueCollection
  <1>2. CASE Start
    BY <1>2, BeginStep DEF Start
  <1>3. CASE RunOnce
    BY <1>3, BeginStep DEF RunOnce
  <1>4. CASE Stop
    BY <1>4, ExitStep DEF Stop
  <1>5. CASE CollectCounters
    BY <1>5 DEF CollectCounters
  <1>6. CASE CollectDevices
    BY <1>6 DEF CollectDevices
  <1>7. CASE RecordResult
    <2>1. /\ earned' \subseteq Requests /\ earned \subseteq earned'
          /\ ~err => earned' = earned \union covered
          /\ answer' = answer
      BY <1>7, NoteStep DEF RecordResult
    <2>2. CASE serving = Scheduled
      BY <1>7, <2>1, <2>2, RecordResultStep, ReturnStep
    <2>3. CASE serving \in Requests /\ pc' = "complete" /\ UNCHANGED <<serving, err>>
      BY <1>7, <2>1, <2>3 DEF RecordResult
    <2> QED BY <1>7, <2>2, <2>3, RecordResultStep
  <1>8. CASE RecordOnly
    BY <1>8, NoteStep, RecordOnlyStep, ExitStep DEF RecordOnly
  <1>9. CASE CompleteCollectionRequest
    <2>1. AnsweredAfterCollected'
      BY <1>9 DEF CompleteCollectionRequest, Answer
    <2> QED BY <1>9, <2>1, ReturnStep DEF CompleteCollectionRequest
  <1>10. CASE TimerFires
    BY <1>10, BeginStep DEF TimerFires
  <1>11. CASE PollDeviceControl
    BY <1>11 DEF PollDeviceControl
  <1>12. CASE FinishDeviceControl
    BY <1>12, BeginStep, ReturnStep DEF FinishDeviceControl
  <1>13. CASE PollCollectionRequest
    <2>1. ASSUME NEW r \in Pending, BeginCollection(r)
          PROVE  Served' /\ AnsweredAfterCollected'
      BY <1>13, <2>1, BeginStep DEF PollCollectionRequest, Pending
    <2> QED BY <1>13, <2>1 DEF PollCollectionRequest
  <1>14. CASE Heartbeat
    BY <1>14 DEF Heartbeat
  <1>15. CASE Wait
    BY <1>15 DEF Wait
  <1>16. CASE Tick
    BY <1>16 DEF Tick
  <1>17. CASE UNCHANGED vars
    BY <1>17 DEF vars
  <1> QED
    BY <1>1, <1>2, <1>3, <1>4, <1>5, <1>6, <1>7, <1>8, <1>9, <1>10, <1>11, <1>12, <1>13, <1>14,
       <1>15, <1>16, <1>17 DEF Next, Loop

(* Failures are counted from a success, or a start, and the first one      *)
(* alone is recorded.                                                      *)
LEMMA StreakStep ==
    ASSUME TypeOK, LoopInv, Streak, [Next]_vars
    PROVE  Streak'
  <1> USE DEF TypeOK, LoopInv, Streak, loop, timers, status, tables, bounds, history
  <1>1. CASE Start \/ RunOnce
    BY <1>1 DEF Start, RunOnce
  <1>2. CASE Stop
    BY <1>2, ExitStep DEF Stop
  <1>3. CASE RecordResult
    BY <1>3, NoteStep, RecordResultStep DEF RecordResult
  <1>4. CASE RecordOnly
    BY <1>4, NoteStep, RecordOnlyStep, ExitStep DEF RecordOnly
  <1>5. ASSUME events' = events, failures' = failures, pc # "down" PROVE Streak'
    BY <1>5
  <1>6. ASSUME events' = events, failures' = failures, pc' = pc PROVE Streak'
    BY <1>6
  <1>7. CASE (\E r \in Requests : QueueCollection(r)) \/ Tick \/ UNCHANGED vars
    BY <1>6, <1>7 DEF QueueCollection, Tick, vars
  <1>8. CASE CollectCounters \/ CollectDevices \/ CompleteCollectionRequest \/ TimerFires
    BY <1>5, <1>8 DEF CollectCounters, CollectDevices, CompleteCollectionRequest, TimerFires
  <1>9. CASE PollDeviceControl \/ FinishDeviceControl \/ PollCollectionRequest \/ Heartbeat \/ Wait
    BY <1>5, <1>9 DEF PollDeviceControl, FinishDeviceControl, PollCollectionRequest, Heartbeat, Wait
  <1> QED BY <1>1, <1>2, <1>3, <1>4, <1>7, <1>8, <1>9 DEF Next, Loop

LEMMA Multiples ==
    ASSUME NEW a \in Nat, NEW b \in Nat
    PROVE  a * b \in Nat /\ (a + 1) * b = a * b + b
  OBVIOUS

LEMMA MultiplesGrow ==
    ASSUME NEW a \in Nat, NEW b \in Nat, NEW c \in Nat, a <= c
    PROVE  a * b <= c * b
  <1>1. (c - a) * b \in Nat /\ c - a \in Nat
    BY Multiples
  <1>2. c * b = a * b + (c - a) * b
    BY <1>1
  <1> QED BY <1>1, <1>2, Multiples

(* The terms of the bounds, and how they change.                           *)
LEMMA SpentTime ==
    ASSUME TypeOK, TypeOK'
    PROVE  /\ BlockTime \in Nat /\ LostTime \in Nat /\ BlockTime' \in Nat /\ LostTime' \in Nat
           /\ blocks' = blocks => BlockTime' = BlockTime
           /\ blocks' = blocks - 1 => BlockTime' = BlockTime + MaxDuration
           /\ lost' = lost => LostTime' = LostTime
           /\ lost' = lost + 1 => LostTime' = LostTime + HeartbeatEvery + MaxDuration
  <1> DEFINE used == MaxBlocks - blocks
             left == MaxBlocks - blocks'
             every == HeartbeatEvery + MaxDuration
  <1>1. used \in Nat /\ left \in Nat /\ lost \in Nat /\ lost' \in Nat /\ every \in Nat
    <2>1. /\ blocks \in 0..MaxBlocks /\ blocks' \in 0..MaxBlocks
          /\ lost \in 0..MaxLost /\ lost' \in 0..MaxLost
      BY DEF TypeOK
    <2>5. ASSUME NEW b \in 0..MaxBlocks PROVE MaxBlocks - b \in Nat
      BY Constants
    <2>2. used \in Nat
      BY ONLY <2>1, <2>5
    <2>3. left \in Nat
      BY ONLY <2>1, <2>5
    <2>4. lost \in Nat /\ lost' \in Nat /\ every \in Nat
      BY <2>1, Constants
    <2> QED BY ONLY <2>2, <2>3, <2>4
  <1>2. BlockTime = used * MaxDuration /\ BlockTime' = left * MaxDuration
        /\ LostTime = lost * every /\ LostTime' = lost' * every
    BY Zenon DEF BlockTime, LostTime
  <1>3. blocks' = blocks - 1 => left = used + 1
    BY Constants DEF TypeOK
  <1>4. blocks' = blocks => left = used
    OBVIOUS
  <1>5. HeartbeatEvery + MaxDuration = every
    OBVIOUS
  <1> HIDE DEF used, left, every
  <1>6. BlockTime \in Nat /\ LostTime \in Nat /\ BlockTime' \in Nat /\ LostTime' \in Nat
    BY <1>1, <1>2, Constants, Multiples
  <1>7. ASSUME blocks' = blocks - 1 PROVE BlockTime' = BlockTime + MaxDuration
    BY <1>1, <1>2, <1>3, <1>7, Constants, Multiples
  <1>8. ASSUME lost' = lost + 1 PROVE LostTime' = LostTime + every
    BY <1>1, <1>2, <1>8, Multiples
  <1>9. ASSUME lost' = lost + 1 PROVE LostTime' = LostTime + HeartbeatEvery + MaxDuration
    BY <1>5, <1>6, <1>8, <1>9, Constants
  <1> QED BY <1>2, <1>4, <1>6, <1>7, <1>9

LEMMA TimingStep ==
    ASSUME TypeOK, TypeOK', LoopInv, Timing, [Next]_vars
    PROVE  Timing'
  <1> USE Constants, SpentTime
          DEF TypeOK, LoopInv, Timing, HeartbeatDue, ReadingDue, CallTime, Collecting,
              loop, timers, status, tables, bounds, history
  <1>1. ASSUME NEW r \in Requests, QueueCollection(r) PROVE Timing'
    BY <1>1 DEF QueueCollection
  <1>2. CASE Start
    BY <1>2 DEF Start, BeginCollection
  <1>3. CASE RunOnce
    BY <1>3, BeginStep DEF RunOnce
  <1>4. CASE Stop
    <2>1. ~row'.own
      <3>1. row' = [row EXCEPT !.own = FALSE] /\ row \in [failures : 0..MaxFailures, age : 0..Old, own : BOOLEAN]
        BY <1>4 DEF Stop
      <3> QED BY ONLY <3>1, Zenon
    <2> QED BY <1>4, <2>1, ExitStep DEF Stop
  <1>5. CASE CollectCounters
    <2>1. CASE pc' = "devices" /\ reading' = 0
      BY <1>5, <2>1 DEF CollectCounters
    <2>2. CASE pc' = "result" /\ err' = TRUE /\ UNCHANGED reading
      <3>1. err'
        BY <2>2, Zenon
      <3> QED BY <1>5, <2>2, <3>1 DEF CollectCounters
    <2> QED BY <1>5, <2>1, <2>2 DEF CollectCounters
  <1>6. CASE CollectDevices
    BY <1>6 DEF CollectDevices
  <1>7. CASE RecordResult
    <2> DEFINE R == \/ row'.own /\ row'.age = 0 /\ row'.failures = failures' /\ lost' = lost
                    \/ row' = row /\ lost' = lost + 1
    <2>1. R
      BY <1>7, RecordResultStep, StatusStep
    <2>2. UNCHANGED <<reading, answer, blocks>> /\ pc = "result"
      BY <1>7 DEF RecordResult
    <2>3. HeartbeatDue'
      BY <1>7, <2>1, <2>2, RecordResultStep, ReturnStep
    <2>4. ReadingDue'
      BY <1>7, <2>2, RecordResultStep, ReturnStep
    <2> QED BY <2>3, <2>4
  <1>8. CASE RecordOnly
    BY <1>8, RecordOnlyStep, ExitStep
  <1>9. CASE CompleteCollectionRequest
    BY <1>9, ReturnStep DEF CompleteCollectionRequest
  <1>10. CASE TimerFires
    BY <1>10, BeginStep DEF TimerFires
  <1>11. CASE PollDeviceControl
    BY <1>11 DEF PollDeviceControl
  <1>12. CASE FinishDeviceControl
    BY <1>12, BeginStep, ReturnStep DEF FinishDeviceControl
  <1>13. CASE PollCollectionRequest
    <2>1. ASSUME NEW r \in Pending, BeginCollection(r), UNCHANGED lost PROVE Timing'
      BY <1>13, <2>1, BeginStep DEF PollCollectionRequest
    <2> QED BY <1>13, <2>1 DEF PollCollectionRequest
  <1>14. CASE Heartbeat
    BY <1>14, StatusStep DEF Heartbeat
  <1>15. CASE Wait
    BY <1>15, AgeStep DEF Wait
  <1>16. CASE Tick
    BY <1>16, AgeStep DEF Tick
  <1>17. CASE UNCHANGED vars
    BY <1>17 DEF vars, BlockTime, LostTime
  <1> QED
    BY <1>1, <1>2, <1>3, <1>4, <1>5, <1>6, <1>7, <1>8, <1>9, <1>10, <1>11, <1>12, <1>13, <1>14,
       <1>15, <1>16, <1>17 DEF Next, Loop

LEMMA Step == IInv /\ [Next]_vars => IInv'
  <1> SUFFICES ASSUME IInv, [Next]_vars PROVE IInv'
    OBVIOUS
  <1>1. TypeOK' /\ LoopInv'
    BY LoopStep DEF IInv
  <1>2. Served' /\ AnsweredAfterCollected'
    BY ServedStep DEF IInv
  <1>3. Streak'
    BY StreakStep DEF IInv
  <1>4. Timing'
    BY <1>1, TimingStep DEF IInv
  <1> QED BY <1>1, <1>2, <1>3, <1>4 DEF IInv

LEMMA Inductive == Spec => []IInv
  BY InitInv, Step, PTL DEF Spec

-----------------------------------------------------------------------------
(* Every delay that runCollection returns is within the interval, after    *)
(* any number of failures, and the loop is in its select only after an     *)
(* attempt.                                                                *)
THEOREM TypeCorrect == Spec => []TypeOK
  <1>1. IInv => TypeOK
    BY DEF IInv
  <1> QED BY <1>1, Inductive, PTL

(* A manual collection is reported as done only after a collection that    *)
(* began later than the request and succeeded, with any number of          *)
(* requests, lost completions and crashes.                                 *)
THEOREM FreshAnswers == Spec => []AnsweredAfterCollected
  <1>1. IInv => AnsweredAfterCollected
    BY DEF IInv
  <1> QED BY <1>1, Inductive, PTL

(* However long the router stays down, one failure is recorded between two *)
(* successes of a process.                                                 *)
THEOREM OneFailureRecorded == Spec => []OneEventPerStreak
  <1>1. IInv => OneEventPerStreak
    BY DEF IInv, Streak, OneEventPerStreak
  <1> QED BY <1>1, Inductive, PTL

(* What the thresholds of the status handler take for granted: with an     *)
(* interval that leaves room for the calls between two readings, and an    *)
(* offline threshold that leaves room for late and lost heartbeats, a      *)
(* worker that succeeds is never shown as stale or offline.                *)
THEOREM HealthyIsShown ==
    ASSUME Unhurried
    PROVE  Spec => []NoFalseAlarm
  <1>1. IInv => NoFalseAlarm
    <2> SUFFICES ASSUME IInv, row.own, failures = 0
                 PROVE  CollectorState \notin {"worker-offline", "stale"}
      BY DEF NoFalseAlarm
    <2> USE Constants DEF IInv, TypeOK
    <2> DEFINE most == MaxBlocks * MaxDuration
               each == HeartbeatEvery + MaxDuration
               waits == MaxLost * each
    <2>1. most \in Nat /\ waits \in Nat /\ each \in Nat
      BY Multiples
    <2>2. BlockTime <= most
      <3>1. MaxBlocks - blocks \in Nat /\ MaxBlocks - blocks <= MaxBlocks
        OBVIOUS
      <3> QED BY ONLY <3>1, Constants, MultiplesGrow DEF BlockTime
    <2>3. LostTime <= waits
      <3>1. lost \in Nat /\ lost <= MaxLost
        OBVIOUS
      <3> QED BY ONLY <3>1, <2>1, Constants, MultiplesGrow DEF LostTime
    <2>4. BlockTime \in Nat /\ LostTime \in Nat
      <3>1. MaxBlocks - blocks \in Nat /\ lost \in Nat
        OBVIOUS
      <3> QED BY ONLY <3>1, <2>1, Constants, Multiples DEF BlockTime, LostTime
    <2>5. most + 2 * MaxDuration <= Interval
      BY DEF Unhurried
    <2>6. waits + each + most <= OfflineAfter
      <3>1. (MaxLost + 1) * each + most <= OfflineAfter
        BY DEF Unhurried
      <3>2. (MaxLost + 1) * each = waits + each
        BY ONLY <2>1, Constants, Multiples
      <3> QED BY ONLY <3>1, <3>2
    <2>7. CallTime <= most + MaxDuration /\ CallTime \in Int
      BY ONLY <2>1, <2>2, <2>4, Constants, IInv DEF IInv, TypeOK, CallTime, Collecting
    <2>8. row.age <= OfflineAfter
      <3>1. row.age + beat <= HeartbeatEvery + LostTime + CallTime
        BY DEF Timing, HeartbeatDue
      <3>2. each = HeartbeatEvery + MaxDuration
        OBVIOUS
      <3>3. row.age \in Nat /\ beat \in Nat
        OBVIOUS
      <3> HIDE DEF most, each, waits
      <3> QED BY ONLY <3>1, <3>2, <3>3, <2>1, <2>3, <2>4, <2>6, <2>7, Constants
    <2>9. reading <= StaleAfter
      <3>1. reading + next <= Interval + MaxDuration + CallTime
        BY DEF LoopInv, Timing, ReadingDue
      <3>2. reading \in Nat /\ next \in Nat
        OBVIOUS
      <3> HIDE DEF most, each, waits
      <3> QED BY ONLY <3>1, <3>2, <2>1, <2>5, <2>7, Constants
    <2>10. CollectorState = IF row.failures > 0 THEN "error" ELSE "running"
      BY <2>8, <2>9 DEF CollectorState
    <2> QED BY <2>10
  <1> QED BY <1>1, Inductive, PTL
=============================================================================
