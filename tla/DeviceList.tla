----------------------------- MODULE DeviceList -----------------------------
(***************************************************************************)
(* Who is on the network, and who is new.  The worker reads the router's   *)
(* page of devices (router/huawei_adapter.go, parseHuaweiUserDevices) and  *)
(* stores a snapshot of it (store/devices.go, RecordDevices); the API      *)
(* answers with the list of devices (ListDevices); the dashboard polls it  *)
(* without waiting for earlier polls, lets its user hide, restore and      *)
(* delete devices, and announces those this browser has not seen before    *)
(* (web/src/App.tsx).                                                      *)
(*                                                                         *)
(* RecordDevices is one transaction.  It holds the rows it has touched, so *)
(* a user's statement takes effect before or after it; if a device is      *)
(* deleted under its first statement the foreign key aborts it, which      *)
(* changes nothing.  The browser may show notifications.  snapshots,       *)
(* hidden, steady, repeated and overtaken are history variables.           *)
(***************************************************************************)
EXTENDS Integers, SequencesExt

CONSTANTS
    Mac,            \* devices, by MAC address
    NoMac,          \* a text that is not a MAC address
    LongMac,        \* a MAC address of more than 48 bits
    MaxRecords,     \* bound: records on the router's page
    NoRow,          \* the device has no row in the table devices
    NoSnapshot,     \* no snapshot carries this timestamp
    Retention,      \* RAW_RETENTION_DAYS, in ticks
    MaxRows,        \* bound: rows ever inserted into devices
    MaxWall,        \* bound: the host's clock
    MaxInFlight     \* bound: requests the browser has under way

ASSUME ListAssumption ==
    /\ IsFiniteSet(Mac)
    /\ NoMac \notin Mac /\ LongMac \notin Mac /\ NoMac # LongMac /\ MaxRecords \in Nat
    /\ MaxRows \in Nat /\ MaxWall \in Nat /\ Retention \in Nat
    /\ MaxInFlight \in Nat \ {0}
    /\ NoRow \notin [id : 1..MaxRows, archived : BOOLEAN]
    /\ NoSnapshot \notin [ids : SUBSET (1..MaxRows), online : SUBSET (1..MaxRows)]

Id   == 1..MaxRows
Time == 0..MaxWall

VARIABLES
    wall,      \* the clock of the worker's host
    rows,      \* the table devices
    nextId,    \* its id sequence
    readings,  \* the table device_readings
    snapshots, \* history: the last snapshot stored with each timestamp
    inFlight,  \* answers to GET /devices under way to the browser, in order
    shown,     \* the dashboard's list
    known,     \* fibrex-known-devices in the browser's local storage
    hidden,    \* history: devices that have ever been archived
    steady,    \* history: the others that have been known to this browser
    repeated,  \* history: one of those was announced
    overtaken  \* history: an answer has overtaken an earlier one, and hidden
               \* and steady are kept no longer

database == <<wall, rows, nextId, readings, snapshots>>
history  == <<hidden, steady, repeated, overtaken>>
browser  == <<inFlight, shown, known>>
vars     == <<database, browser, history>>

Row == [id : Id, archived : BOOLEAN]
Reading == [dev : Id, at : Time, online : BOOLEAN]
Snapshot == [ids : SUBSET Id, online : SUBSET Id]

HasId(m, d) == rows[m] # NoRow /\ rows[m].id = d

Ids == {d \in Id : \E m \in Mac : HasId(m, d)}

-----------------------------------------------------------------------------
(* The router's page, which may be blank: what of it matches one of two    *)
(* kinds of record, each with two places for a MAC address and a status.   *)

MacText == Mac \union {NoMac, LongMac}

Record == [kind : {"userDevInfo", "USERDevice"}, realMac : MacText, mac : MacText, online : BOOLEAN]

Pages == {p \in [blank : BOOLEAN, records : BoundedSeq(Record, MaxRecords)] :
             p.blank => p.records = <<>>}

Address(r) == IF r.realMac = NoMac THEN r.mac ELSE r.realMac

(* Where a page names a device in records of one kind.                     *)
Places(records, m, kind) ==
    {i \in 1..Len(records) : records[i].kind = kind /\ Address(records[i]) = m}

(* mutant: the last record of a device counts.                             *)
LastRecord(records, m) ==
    LET places == Places(records, m, "userDevInfo")
    IN  records[Max(IF places # {} THEN places ELSE Places(records, m, "USERDevice"))]

(* The records of the first kind come first, and the first record of each  *)
(* device counts.                                                          *)
FirstRecord(records, m) ==
    LET places == Places(records, m, "userDevInfo")
    IN  records[Min(IF places # {} THEN places ELSE Places(records, m, "USERDevice"))]

(* The devices of a page, each online or not, without the records that     *)
(* have no such address.                                                   *)
ParseUserDevices(records) ==
    [m \in {Address(r) : r \in ToSet(records)} \intersect Mac |-> FirstRecord(records, m).online]

(* An error, and nothing is stored, if there is text but no record, or     *)
(* records but no device.  A blank page lists no device.                   *)
Recognised(page) == page.blank \/ DOMAIN ParseUserDevices(page.records) # {}

(* The devices the page says are online, put without the parser: of the    *)
(* records that name the device, no other takes precedence.                *)
Precedes(records, i, j) ==
    IF records[i].kind = records[j].kind THEN i < j ELSE records[i].kind = "userDevInfo"

SaysOnline(records) ==
    {m \in Mac : \E i \in 1..Len(records) :
        /\ Address(records[i]) = m /\ records[i].online
        /\ \A j \in 1..Len(records) :
              Address(records[j]) = m /\ j # i => Precedes(records, i, j)}

(* All that matters of a page that is recognised.                          *)
Listing(page) ==
    LET devices == ParseUserDevices(page.records)
    IN  [listed |-> DOMAIN devices, online |-> {m \in DOMAIN devices : devices[m]},
         said |-> SaysOnline(page.records)]

Listings == {Listing(p) : p \in {q \in Pages : Recognised(q)}}

(* RecordDevices. *)

(* mutant: without the conflict clause, and without the constraint.        *)
InsertReadings(table, ids, at, online) ==
    table \union {[dev |-> d, at |-> at, online |-> online] : d \in ids}

(* A reading for each of these devices, in place of one that carries the   *)
(* same timestamp.                                                         *)
UpsertReadings(table, ids, at, online) ==
    {r \in table : r.dev \notin ids \/ r.at # at}
        \union {[dev |-> d, at |-> at, online |-> online] : d \in ids}

(* mutant: "on conflict do nothing".                                       *)
MarkUnlessRead(table, at) ==
    LET unread == {d \in Ids : \A r \in table : r.dev = d => r.at # at}
    IN  UpsertReadings(table, unread, at, FALSE)

(* The first statement: every device gets a reading, for now offline.      *)
MarkAbsent(table, at) == UpsertReadings(table, Ids, at, FALSE)

(* "on conflict (mac_address) do update ... archived_at=null".  A listed   *)
(* device is no longer archived, whether it is online or not.              *)
UpsertDevices(listed, newIds) ==
    [m \in Mac |->
        IF m \notin listed THEN rows[m]
        ELSE IF rows[m] = NoRow THEN [id |-> newIds[m], archived |-> FALSE]
             ELSE [rows[m] EXCEPT !.archived = FALSE]]

(* ListDevices and GET /devices. *)

LatestReading(r) == \A q \in readings : q.dev = r.dev => q.at <= r.at

Online(d) == \E r \in readings : r.dev = d /\ LatestReading(r) /\ r.online

ListDevices(includeArchived) ==
    {rows[m] : m \in {n \in Mac : rows[n] # NoRow /\ (includeArchived \/ ~rows[n].archived)}}

(* mutant: the dashboard asks without includeArchived.                     *)
GetActiveDevices == ListDevices(FALSE)

GetDevices == ListDevices(TRUE)

-----------------------------------------------------------------------------
Init ==
    /\ wall = 0
    /\ rows = [m \in Mac |-> NoRow] /\ nextId = 1
    /\ readings = {} /\ snapshots = [t \in Time |-> NoSnapshot]
    /\ inFlight = <<>> /\ shown = {} /\ known = {}
    /\ hidden = {} /\ steady = {} /\ repeated = FALSE /\ overtaken = FALSE

(* The host's clock goes on, or is stepped back.                           *)
SetClock ==
    /\ wall' \in Time /\ wall' # wall
    /\ UNCHANGED <<rows, nextId, readings, snapshots, browser, history>>

(* The transaction that stores what the router lists.                      *)
RecordDevices ==
    \E page \in Listings :
        LET listed == page.listed
            online == page.online
            new == {m \in listed : rows[m] = NoRow}
            absent == MarkAbsent(readings, wall)
        IN  \E newIds \in [new -> Id] :
              /\ \A m, n \in new : newIds[m] = newIds[n] => m = n
              /\ {newIds[m] : m \in new} = nextId..(nextId + Cardinality(new) - 1)
              /\ nextId' = nextId + Cardinality(new)
              /\ rows' = UpsertDevices(listed, newIds)
              /\ readings' =
                    UpsertReadings(
                        UpsertReadings(absent, {rows'[m].id : m \in online}, wall, TRUE),
                        {rows'[m].id : m \in listed \ online}, wall, FALSE)
              /\ snapshots' = [snapshots EXCEPT ![wall] =
                    [ids |-> {rows'[m].id : m \in {n \in Mac : rows'[n] # NoRow}},
                     online |-> {rows'[m].id : m \in page.said}]]
    /\ UNCHANGED <<wall, browser, history>>

(* A worker that starts deletes old readings.                              *)
PruneRawData ==
    /\ readings' = {r \in readings : r.at >= wall - Retention}
    /\ snapshots' = [t \in Time |-> IF t >= wall - Retention THEN snapshots[t] ELSE NoSnapshot]
    /\ UNCHANGED <<wall, rows, nextId, browser, history>>

(* The user acts on a device of the list as it is shown, which may be old. *)
(* The row may be gone, or may not be archived any more: the API answers   *)
(* 404 and nothing changes.  The list fetched afterwards is one more       *)
(* Answer.                                                                 *)
ArchiveDevice(m) ==
    /\ \E item \in shown : ~item.archived /\ HasId(m, item.id)
    /\ rows' = [rows EXCEPT ![m].archived = TRUE]
    /\ hidden' = IF overtaken THEN {} ELSE hidden \union {rows[m].id}
    /\ steady' = steady \ {rows[m].id}
    /\ UNCHANGED <<wall, nextId, readings, snapshots, browser, repeated, overtaken>>

RestoreDevice(m) ==
    /\ \E item \in shown : item.archived /\ HasId(m, item.id)
    /\ rows' = [rows EXCEPT ![m].archived = FALSE]
    /\ UNCHANGED <<wall, nextId, readings, snapshots, browser, history>>

(* Its readings go with it.                                                *)
DeleteDevice(m) ==
    /\ \E item \in shown : item.archived /\ HasId(m, item.id)
    /\ rows[m].archived
    /\ rows' = [rows EXCEPT ![m] = NoRow]
    /\ readings' = {r \in readings : r.dev # rows[m].id}
    /\ snapshots' = [t \in Time |-> IF snapshots[t] = NoSnapshot THEN NoSnapshot
                                    ELSE [ids |-> snapshots[t].ids \ {rows[m].id},
                                          online |-> snapshots[t].online \ {rows[m].id}]]
    /\ UNCHANGED <<wall, nextId, browser, history>>

(* A poll, or the fetch after an action, is answered.                      *)
Answer ==
    /\ Len(inFlight) < MaxInFlight
    /\ inFlight' = Append(inFlight, GetDevices)
    /\ UNCHANGED <<database, shown, known, history>>

(* mutant: only what was announced is remembered.                          *)
RememberNew(list) == {item.id : item \in {i \in list : ~i.archived /\ i.id \notin known}}

(* activeDevices.map((device) => device.id), which is stored.              *)
ActiveIds(list) == {item.id : item \in {i \in list : ~i.archived}}

(* An answer arrives and the effect on the list runs: it announces what it *)
(* does not know, unless it knows nothing, and remembers what it sees.  An *)
(* empty list is shown but leaves the memory alone.                        *)
Deliver(i) ==
    /\ i \in 1..Len(inFlight)
    /\ LET list == inFlight[i]
           newlySeen == ActiveIds(list) \ known
           late == overtaken \/ i > 1
       IN  /\ shown' = list
           /\ known' = IF list = {} THEN known ELSE ActiveIds(list)
           /\ steady' = IF late THEN {} ELSE IF list = {} THEN steady
                         ELSE steady \union (ActiveIds(list) \ hidden)
           /\ hidden' = IF late THEN {} ELSE hidden
           /\ repeated' = (\/ repeated
                           \/ ~late /\ known # {} /\ newlySeen \intersect steady # {})
           /\ overtaken' = late
    /\ inFlight' = RemoveAt(inFlight, i)
    /\ UNCHANGED database

(* The request fails: the poll catches the error and nothing is shown.     *)
LoseAnswer(i) ==
    /\ i \in 1..Len(inFlight)
    /\ inFlight' = RemoveAt(inFlight, i)
    /\ UNCHANGED <<database, shown, known, history>>

(* The dashboard is closed and opened again: local storage stays.          *)
Reload ==
    /\ inFlight' = <<>> /\ shown' = {}
    /\ UNCHANGED <<database, known, history>>

Server ==
    \/ SetClock \/ RecordDevices \/ PruneRawData
    \/ \E m \in Mac : ArchiveDevice(m) \/ RestoreDevice(m) \/ DeleteDevice(m)

Browser ==
    \/ Answer \/ Reload
    \/ \E i \in 1..MaxInFlight : Deliver(i) \/ LoseAnswer(i)

Next == Server \/ Browser

Spec == Init /\ [][Next]_vars

(* The timer fires every 30 seconds, whatever became of earlier polls, and *)
(* not every answer is lost.                                               *)
Fairness == WF_vars(Answer) /\ SF_vars(Deliver(1))

LiveSpec == Spec /\ Fairness

-----------------------------------------------------------------------------
(* Types, and the keys the schema enforces: one row per id, one reading    *)
(* per device and instant, none without its device.                        *)
TypeOK ==
    /\ wall \in Time
    /\ rows \in [Mac -> Row \union {NoRow}] /\ nextId \in 1..(MaxRows + 1)
    /\ readings \subseteq Reading
    /\ snapshots \in [Time -> Snapshot \union {NoSnapshot}]
    /\ inFlight \in Seq(SUBSET Row) /\ shown \subseteq Row
    /\ known \subseteq Id /\ steady \subseteq Id /\ hidden \subseteq Id
    /\ repeated \in BOOLEAN /\ overtaken \in BOOLEAN
    /\ \A m, n \in Mac : rows[m] # NoRow /\ rows[m] = rows[n] => m = n
    /\ \A q, r \in readings : q.dev = r.dev /\ q.at = r.at => q = r
    /\ \A r \in readings : r.dev \in Ids

(* A device is shown online exactly if the router's page said so that was  *)
(* stored with the latest timestamp among those that know it, and offline  *)
(* if those have been pruned: a device that is on the page twice, has      *)
(* left, was deleted and came back, or was stored twice at one instant is  *)
(* not shown by another record or an older reading                         *)
(* (parseHuaweiUserDevices, RecordDevices, ListDevices).                   *)
OnlineMeansSeen ==
    \A d \in Ids :
        LET times == {t \in Time : snapshots[t] # NoSnapshot /\ d \in snapshots[t].ids}
        IN  Online(d) <=> \E t \in times : /\ \A u \in times : u <= t
                                           /\ d \in snapshots[t].online

(* While answers arrive in order, a device that nobody has ever hidden is  *)
(* announced at most once: neither reopening the dashboard, lost answers   *)
(* nor devices that come and go repeat an alert (the effect on devices in  *)
(* App.tsx; README.md: "for the first time").                              *)
RepeatedOnlyIfHidden == ~repeated

(* Once the table stays as it is and the dashboard stays open, it comes to *)
(* show the table and to remember its devices, in whatever order old and   *)
(* new answers arrive (the poll in App.tsx).                               *)
Quiet == <>[][UNCHANGED rows /\ ~Reload]_vars

Converges ==
    Quiet => <>[](/\ shown = ListDevices(TRUE)
                  /\ shown # {} => known = {item.id : item \in {i \in shown : ~i.archived}})
=============================================================================
