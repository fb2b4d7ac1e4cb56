---------------------------- MODULE DeviceControl ----------------------------
(***************************************************************************)
(* Blocking a device.  The API inserts a row into device_control_requests  *)
(* (httpapi/device_handlers.go, QueueDeviceBlock); every two seconds the   *)
(* worker claims the oldest row under a 30 second lease, sends it to the   *)
(* router and completes it (runDeviceControl, PendingDeviceControl,        *)
(* BlockDevice, CompleteDeviceControl).  Meanwhile users archive, restore  *)
(* and delete devices, which cascades to the requests, and collections     *)
(* discover them again under a new id.                                     *)
(*                                                                         *)
(* A MAC filter belongs to one Wi-Fi network of the router.  The network   *)
(* is read from the device's row when the request is made, long before the *)
(* router hears of it, and the device may have moved by then.              *)
(*                                                                         *)
(* Time is abstract: a lease runs out at any moment after the claim.  The  *)
(* order of pending is the order of requested_at.  asked is a history      *)
(* variable.                                                               *)
(***************************************************************************)
EXTENDS Naturals, Sequences

CONSTANTS
    Mac,             \* devices, by MAC address
    NoRow,           \* the device has no row in the table devices
    Listed,          \* names of networks in the router's device list
    NoName,          \* the list names no network, as of a device on the cable
    Bands,           \* ROUTER_24GHZ_SSIDS and ROUTER_5GHZ_SSIDS
    RouterSSIDName,  \* ROUTER_SSID_NAME
    Callers,         \* concurrent API requests to block a device
    Workers,         \* worker processes
    ExclusiveWorker, \* the advisory lock keeps all but one of them out
    MaxRows,         \* bound: rows ever inserted into devices
    MaxRequests,     \* bound: rows ever inserted into device_control_requests
    MaxCrashes       \* bound: worker processes that stop half-way

(* Every name a filter request may carry.                                  *)
Network == (Listed \ {NoName}) \union {RouterSSIDName} \union
           UNION {{Bands[g][i] : i \in 1..Len(Bands[g])} : g \in 1..Len(Bands)}

ASSUME NetworkAssumption ==
    Bands \in Seq(Seq(Network)) /\ Len(Bands) = 2 /\ NoName \notin Network
ASSUME RowAssumption ==
    NoRow \notin [id : Nat, archived : BOOLEAN, blocked : BOOLEAN, ssid : Listed \union {NoName}]
ASSUME ExclusiveAssumption == ExclusiveWorker \in BOOLEAN
ASSUME ControlBounds == MaxRows \in Nat /\ MaxRequests \in Nat /\ MaxCrashes \in Nat

VARIABLES
    rows,     \* the table devices
    pending,  \* requests with completed_at null, oldest requested_at first
    answered, \* completed requests of devices that still have their row
    ids,      \* the two id sequences
    caller,   \* the row id a blockDevice call read, 0 for none, and its network
    worker,   \* what each worker process is doing
    crashes,  \* worker processes stopped so far
    filter,   \* the router's filters: MAC address and network
    asked     \* history: what users asked for: MAC address and network

table == <<rows, pending, answered, ids>>
vars  == <<table, caller, worker, crashes, filter, asked>>

Row      == [id : Nat, archived : BOOLEAN, blocked : BOOLEAN, ssid : Listed \union {NoName}]
Pending  == [req : Nat, dev : Nat, net : Network, leased : BOOLEAN]
Answered == [req : Nat, dev : Nat, ok : BOOLEAN]

(* pc, and the request a worker holds with what the router said of it.     *)
Process ==
    [pc : {"down", "idle"}] \union
    [pc : {"claimed"}, req : Nat, dev : Nat, mac : Mac, net : Network] \union
    [pc : {"sent"}, req : Nat, dev : Nat, mac : Mac, ok : BOOLEAN]

NoCall == [dev |-> 0]
Call == {NoCall} \union [dev : Nat, net : Network]

Down == [pc |-> "down"]
Idle == [pc |-> "idle"]

HasId(m, d) == rows[m] # NoRow /\ rows[m].id = d

Exists(d) == \E m \in Mac : HasId(m, d)

(* The pending requests but the i-th; but those, one at most, whose        *)
(* positions are in the set is.                                            *)
Without(i) == [j \in 1..Len(pending)-1 |-> pending[IF j < i THEN j ELSE j + 1]]

Remaining(is) == IF is = {} THEN pending ELSE Without(CHOOSE i \in is : TRUE)

(* mutant: the partial index leaves out the requests already claimed.      *)
IsUnclaimed(d) == \E i \in 1..Len(pending) : pending[i].dev = d /\ ~pending[i].leased

IsPending(d) == \E i \in 1..Len(pending) : pending[i].dev = d

Blocked(d) == \E m \in Mac : HasId(m, d) /\ rows[m].blocked

-----------------------------------------------------------------------------
Init ==
    /\ rows = [m \in Mac |-> NoRow]
    /\ pending = <<>> /\ answered = {}
    /\ ids = [row |-> 1, req |-> 1]
    /\ caller = [c \in Callers |-> NoCall]
    /\ worker = [w \in Workers |-> Down]
    /\ crashes = 0 /\ filter = {} /\ asked = {}

(* Users: the device handlers. *)

ArchiveDevice(m) ==
    /\ rows[m] # NoRow
    /\ rows' = [rows EXCEPT ![m].archived = TRUE]
    /\ UNCHANGED <<pending, answered, ids, caller, worker, crashes, filter, asked>>

RestoreDevice(m) ==
    /\ rows[m] # NoRow
    /\ rows' = [rows EXCEPT ![m].archived = FALSE]
    /\ UNCHANGED <<pending, answered, ids, caller, worker, crashes, filter, asked>>

(* Only an archived device; its requests go with it (ON DELETE CASCADE).   *)
(* The bound leaves a row id for a device that comes back.                 *)
DeleteDevice(m) ==
    /\ ids.row <= MaxRows
    /\ rows[m] # NoRow /\ rows[m].archived
    /\ pending' = Remaining({i \in 1..Len(pending) : pending[i].dev = rows[m].id})
    /\ answered' = {a \in answered : a.dev # rows[m].id}
    /\ rows' = [rows EXCEPT ![m] = NoRow]
    /\ UNCHANGED <<ids, caller, worker, crashes, filter, asked>>

(* The network whose filter is meant: the first alias of the band the name *)
(* is one of, the name itself, or the default (config.FilterSSIDName).     *)
FilterSSIDName(ssid) ==
    LET bands == {g \in 1..Len(Bands) : \E i \in 1..Len(Bands[g]) : Bands[g][i] = ssid}
    IN  IF bands # {} THEN Bands[CHOOSE g \in bands : \A h \in bands : g <= h][1]
        ELSE IF ssid # NoName THEN ssid ELSE RouterSSIDName

(* GetDevice, and the snapshot of QueueDeviceBlock's statement: "from      *)
(* devices where id=$1 and blocked_at is null".  For a blocked or missing  *)
(* device the handler answers 404.  One step: a row that is unblocked at   *)
(* the second was so at the first, and what follows may be any time later. *)
SelectUnblocked(c, m) ==
    /\ caller[c] = NoCall
    /\ rows[m] # NoRow /\ ~rows[m].blocked
    /\ caller' = [caller EXCEPT ![c] =
                     [dev |-> rows[m].id, net |-> FilterSSIDName(rows[m].ssid)]]
    /\ UNCHANGED <<table, worker, crashes, filter, asked>>

(* Its insert, against the table as it is by then: a request still pending *)
(* only gets a new requested_at and keeps its lease and its network.       *)
InsertRequest(c) ==
    LET d == caller[c].dev
    IN  /\ d # 0 /\ Exists(d)
        /\ IF IsPending(d)
           THEN /\ \E i \in 1..Len(pending) :
                      pending[i].dev = d /\ pending' = Append(Without(i), pending[i])
                /\ UNCHANGED ids
           ELSE /\ ids.req <= MaxRequests
                /\ pending' = Append(pending, [req |-> ids.req, dev |-> d,
                                               net |-> caller[c].net, leased |-> FALSE])
                /\ ids' = [ids EXCEPT !.req = @ + 1]
        /\ asked' = asked \union {<<m, caller[c].net>> : m \in {n \in Mac : HasId(n, d)}}
        /\ caller' = [caller EXCEPT ![c] = NoCall]
        /\ UNCHANGED <<rows, answered, worker, crashes, filter>>

(* The device was deleted in between: the foreign key refuses the row.     *)
RefuseRequest(c) ==
    /\ caller[c] # NoCall /\ ~Exists(caller[c].dev)
    /\ caller' = [caller EXCEPT ![c] = NoCall]
    /\ UNCHANGED <<table, worker, crashes, filter, asked>>

(* The worker. *)

Start(w) ==
    /\ worker[w] = Down
    /\ ExclusiveWorker => \A v \in Workers : worker[v] = Down
    /\ worker' = [worker EXCEPT ![w] = Idle]
    /\ UNCHANGED <<table, caller, crashes, filter, asked>>

(* A crash, or a shutdown: it cancels the context of the call in progress. *)
Stop(w) ==
    /\ worker[w] # Down
    /\ crashes < MaxCrashes
    /\ crashes' = crashes + 1
    /\ worker' = [worker EXCEPT ![w] = Down]
    /\ UNCHANGED <<table, caller, filter, asked>>

(* mutant: the upsert clears blocked_at as well.                           *)
SeenAfresh(row, ssid) == [row EXCEPT !.archived = FALSE, !.blocked = FALSE, !.ssid = ssid]

SeenAgain(row, ssid) ==
    [row EXCEPT !.archived = FALSE, !.ssid = IF ssid = NoName THEN @ ELSE ssid]

(* RecordDevices, in the same loop: a device the router lists has a row    *)
(* and is no longer archived; blocked_at stays as it is, and the network   *)
(* unless the list names one.                                              *)
RecordDevice(w, m, ssid) ==
    /\ worker[w] = Idle
    /\ IF rows[m] = NoRow
       THEN /\ ids.row <= MaxRows
            /\ rows' = [rows EXCEPT ![m] =
                           [id |-> ids.row, archived |-> FALSE, blocked |-> FALSE, ssid |-> ssid]]
            /\ ids' = [ids EXCEPT !.row = @ + 1]
       ELSE /\ rows' = [rows EXCEPT ![m] = SeenAgain(@, ssid)]
            /\ UNCHANGED ids
    /\ UNCHANGED <<pending, answered, caller, worker, crashes, filter, asked>>

IsOldestClaimable(i) ==
    /\ ~pending[i].leased
    /\ \A j \in 1..(i-1) : pending[j].leased

(* PendingDeviceControl: one update statement.  The worker may not see the *)
(* answer, and then nobody works on the request until its lease runs out.  *)
PendingDeviceControl(w) ==
    /\ worker[w] = Idle
    /\ \E i \in 1..Len(pending), m \in Mac :
          /\ IsOldestClaimable(i)
          /\ HasId(m, pending[i].dev)
          /\ pending' = [pending EXCEPT ![i].leased = TRUE]
          /\ \/ worker' = [worker EXCEPT ![w] =
                              [pc |-> "claimed", req |-> pending[i].req,
                               dev |-> pending[i].dev, mac |-> m, net |-> pending[i].net]]
             \/ UNCHANGED worker
    /\ UNCHANGED <<rows, answered, ids, caller, crashes, filter, asked>>

(* mutant: only a request that was never claimed can be claimed.           *)
LeaseStays(i) == FALSE

(* started_at < now() - 30 seconds.                                        *)
LeaseExpires(i) ==
    /\ i \in 1..Len(pending) /\ pending[i].leased
    /\ pending' = [pending EXCEPT ![i].leased = FALSE]
    /\ UNCHANGED <<rows, answered, ids, caller, worker, crashes, filter, asked>>

(* mutant: the filter of the network the device is on by now.              *)
CurrentNetwork(w) ==
    {<<m, FilterSSIDName(rows[m].ssid)>> : m \in {n \in Mac : HasId(n, worker[w].dev)}}

RequestedNetwork(w) == {<<worker[w].mac, worker[w].net>>}

(* The adapter call: done, done but reported as an error (the answer was   *)
(* lost), or not done.                                                     *)
BlockDevice(w) ==
    /\ worker[w].pc = "claimed"
    /\ \E done, ok \in BOOLEAN :
          /\ ok => done
          /\ filter' = IF done THEN filter \union RequestedNetwork(w) ELSE filter
          /\ worker' = [worker EXCEPT ![w] =
                           [pc |-> "sent", req |-> @.req, dev |-> @.dev, mac |-> @.mac, ok |-> ok]]
    /\ UNCHANGED <<table, caller, crashes, asked>>

(* mutant: the device is marked whatever the router answered.              *)
MarkAnyway(w) ==
    [m \in Mac |-> IF HasId(m, worker[w].dev) THEN [rows[m] EXCEPT !.blocked = TRUE] ELSE rows[m]]

(* "set blocked_at=now() where id=$1", when the adapter reported success.  *)
MarkBlocked(w) ==
    [m \in Mac |-> IF worker[w].ok /\ HasId(m, worker[w].dev)
                   THEN [rows[m] EXCEPT !.blocked = TRUE] ELSE rows[m]]

(* CompleteDeviceControl: one transaction.  Both updates match no row when *)
(* the device has been deleted meanwhile.                                  *)
CompleteDeviceControl(w) ==
    LET r == worker[w].req
        d == worker[w].dev
        known == \/ \E i \in 1..Len(pending) : pending[i].req = r
                 \/ \E a \in answered : a.req = r
    IN  /\ worker[w].pc = "sent"
        /\ rows' = MarkBlocked(w)
        /\ pending' = Remaining({i \in 1..Len(pending) : pending[i].req = r})
        /\ answered' = IF known
                       THEN {a \in answered : a.req # r} \union
                                {[req |-> r, dev |-> d, ok |-> worker[w].ok]}
                       ELSE answered
        /\ worker' = [worker EXCEPT ![w] = Idle]
        /\ UNCHANGED <<ids, caller, crashes, filter, asked>>

(* The completion is rolled back, and only logged.                         *)
CompletionFails(w) ==
    /\ worker[w].pc = "sent"
    /\ worker' = [worker EXCEPT ![w] = Idle]
    /\ UNCHANGED <<table, caller, crashes, filter, asked>>

Users ==
    \/ \E m \in Mac : ArchiveDevice(m) \/ RestoreDevice(m) \/ DeleteDevice(m)
    \/ \E c \in Callers, m \in Mac : SelectUnblocked(c, m)
    \/ \E c \in Callers : InsertRequest(c) \/ RefuseRequest(c)

WorkerLoop(w) ==
    \/ PendingDeviceControl(w) \/ BlockDevice(w)
    \/ CompleteDeviceControl(w) \/ CompletionFails(w)

Next ==
    \/ Users
    \/ \E w \in Workers :
          \/ Start(w) \/ Stop(w) \/ WorkerLoop(w)
          \/ \E m \in Mac, ssid \in Listed : RecordDevice(w, m, ssid)
    \/ \E i \in 1..MaxRequests : LeaseExpires(i)

Spec == Init /\ [][Next]_vars

(* A supervisor restarts the worker, its loop comes round every two        *)
(* seconds, leases run out, and neither the claim's answer nor the         *)
(* completion is lost for ever.                                            *)
Fairness ==
    /\ \A w \in Workers :
          /\ WF_vars(Start(w))
          /\ SF_vars(PendingDeviceControl(w) /\ worker'[w] # Idle)
          /\ WF_vars(BlockDevice(w))
          /\ SF_vars(CompleteDeviceControl(w))
    /\ \A i \in 1..MaxRequests : WF_vars(LeaseExpires(i))

LiveSpec == Spec /\ Fairness

-----------------------------------------------------------------------------
(* Types, and the two facts the schema enforces: at most one pending       *)
(* request per device (the partial unique index) and none without its row  *)
(* (the foreign key).                                                      *)
TypeOK ==
    /\ rows \in [Mac -> Row \union {NoRow}]
    /\ pending \in Seq(Pending) /\ answered \in SUBSET Answered
    /\ ids \in [row : Nat, req : Nat]
    /\ caller \in [Callers -> Call]
    /\ worker \in [Workers -> Process]
    /\ crashes \in Nat /\ filter \subseteq Mac \X Network /\ asked \subseteq Mac \X Network
    /\ \A i, j \in 1..Len(pending) : pending[i].dev = pending[j].dev => i = j
    /\ \A i \in 1..Len(pending) : Exists(pending[i].dev)

(* A request that is recorded as done has left its device marked blocked,  *)
(* whichever worker completed it and however often: the two updates of     *)
(* CompleteDeviceControl are one, and nothing undoes the mark.             *)
DoneMeansBlocked == \A a \in answered : a.ok => Blocked(a.dev)

(* The promise of the whole path (docs/HUAWEI.md: the mutation "only runs  *)
(* after a user explicitly requests blocking"): nothing is filtered, on no *)
(* network, that nobody asked for, and nothing is shown as blocked that    *)
(* was not filtered, across devices that move, deletions, rediscovery      *)
(* under a new id, crashes, leases that run out and answers that are lost. *)
Promise == INSTANCE BlockPromise
    WITH shown <- {m \in Mac : rows[m] # NoRow /\ rows[m].blocked}

KeepsPromise == Promise!Spec

(* Every accepted request is answered, or goes with its device: a crash of *)
(* the worker, a lost answer or users who ask again never strand it.       *)
RequestPending(r) == \E i \in 1..Len(pending) : pending[i].req = r

RequestsAnswered == \A r \in 1..MaxRequests : RequestPending(r) ~> ~RequestPending(r)
=============================================================================
