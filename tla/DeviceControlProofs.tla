------------------------- MODULE DeviceControlProofs -------------------------
(* Proofs about DeviceControl, for every set of devices, networks, callers *)
(* and workers, exclusive or not, and any number of rows, requests and     *)
(* crashes.                                                                *)
EXTENDS DeviceControl, SequenceTheorems, TLAPS

(* A row id belongs to one device for ever.                                *)
RowIds ==
    /\ \A m \in Mac : rows[m] # NoRow => rows[m].id < ids.row
    /\ \A m, n \in Mac : rows[m] # NoRow /\ rows[n] # NoRow /\ rows[m].id = rows[n].id => m = n

(* A worker that holds a request has the device it names, whatever became  *)
(* of the row, and the network it names is one somebody asked for; what it *)
(* reports as done the router has done.                                    *)
Busy(w) == worker[w].pc \in {"claimed", "sent"}

HeldBy(w) ==
    /\ Busy(w) => /\ worker[w].dev < ids.row
                  /\ \A m \in Mac : HasId(m, worker[w].dev) => m = worker[w].mac
    /\ worker[w].pc = "claimed" => <<worker[w].mac, worker[w].net>> \in asked
    /\ worker[w].pc = "sent" /\ worker[w].ok => \E n \in Network : <<worker[w].mac, n>> \in filter

HeldRequests == \A w \in Workers : HeldBy(w)

PendingAsked ==
    \A i \in 1..Len(pending), m \in Mac :
       HasId(m, pending[i].dev) => <<m, pending[i].net>> \in asked

(* Wherever a request is written down, its id comes with the same device.  *)
Known ==
    {<<pending[i].req, pending[i].dev>> : i \in 1..Len(pending)} \union
    {<<a.req, a.dev>> : a \in answered} \union
    {<<worker[w].req, worker[w].dev>> : w \in {v \in Workers : Busy(v)}}

RequestIds ==
    /\ \A x \in Known : x[1] < ids.req
    /\ \A x, y \in Known : x[1] = y[1] => x[2] = y[2]

(* A completed request is deleted with its device.                         *)
AnsweredExist == \A a \in answered : Exists(a.dev)

IInv ==
    /\ TypeOK /\ RowIds /\ HeldRequests /\ PendingAsked /\ RequestIds
    /\ AnsweredExist /\ DoneMeansBlocked

(* A step that may reorder the pending requests, claim or release them, or *)
(* drop some, and one that leaves the devices their rows.  OnePending and  *)
(* PendingExist are the two facts of TypeOK that the schema enforces.      *)
DrawnFrom(from) ==
    /\ \A j \in 1..Len(pending') :
          /\ pending'[j].req = pending[from[j]].req
          /\ pending'[j].dev = pending[from[j]].dev
          /\ pending'[j].net = pending[from[j]].net
    /\ \A j, k \in 1..Len(pending') : from[j] = from[k] => j = k

Reordered ==
    /\ pending' \in Seq(Pending)
    /\ \E from \in [1..Len(pending') -> 1..Len(pending)] : DrawnFrom(from)

OnePending == \A i, j \in 1..Len(pending) : pending[i].dev = pending[j].dev => i = j

PendingExist ==
    \A i \in 1..Len(pending) : \E m \in Mac : rows[m] # NoRow /\ rows[m].id = pending[i].dev

SameIds ==
    /\ rows' \in [Mac -> Row \union {NoRow}]
    /\ \A m \in Mac : /\ rows'[m] = NoRow <=> rows[m] = NoRow
                      /\ rows[m] # NoRow => rows'[m].id = rows[m].id

-----------------------------------------------------------------------------
(* The table of pending requests.                                          *)

LEMMA WithoutElements ==
    ASSUME pending \in Seq(Pending), NEW i \in 1..Len(pending)
    PROVE  /\ Without(i) \in Seq(Pending) /\ Len(Without(i)) = Len(pending) - 1
           /\ \A j \in 1..Len(pending)-1 :
                 Without(i)[j] = pending[IF j < i THEN j ELSE j + 1]
  <1> DEFINE n == Len(pending) - 1
             at(j) == IF j < i THEN j ELSE j + 1
  <1>1. n \in Nat
    OBVIOUS
  <1>2. \A j \in 1..n : at(j) \in 1..Len(pending) /\ pending[at(j)] \in Pending
    OBVIOUS
  <1>3. Without(i) = [j \in 1..n |-> pending[at(j)]]
    BY DEF Without
  <1>4. Without(i) \in [1..n -> Pending]
    BY <1>2, <1>3
  <1>5. Without(i) \in Seq(Pending)
    BY <1>1, <1>4
  <1>6. Len(Without(i)) = n
    BY <1>1, <1>4
  <1> QED BY <1>3, <1>5, <1>6

(* Deleting at most one of them.                                           *)
LEMMA RemainingStep ==
    ASSUME pending \in Seq(Pending), NEW is \in SUBSET (1..Len(pending)),
           \A i, k \in is : i = k,
           pending' = Remaining(is)
    PROVE  /\ Reordered
           /\ \A j \in 1..Len(pending') : \E k \in (1..Len(pending)) \ is : pending'[j] = pending[k]
  <1>1. CASE is = {}
    <2>1. pending' = pending
      BY <1>1 DEF Remaining
    <2> DEFINE same == [j \in 1..Len(pending) |-> j]
    <2>2. same \in [1..Len(pending') -> 1..Len(pending)]
      BY <2>1
    <2>3. \A j \in 1..Len(pending') : same[j] = j
      BY <2>1
    <2> HIDE DEF same
    <2>4. Reordered
      BY <2>1, <2>2, <2>3 DEF Reordered, DrawnFrom
    <2> QED BY <1>1, <2>1, <2>4
  <1>2. CASE is # {}
    <2> DEFINE i == CHOOSE i \in is : TRUE
    <2>1. i \in is /\ i \in 1..Len(pending) /\ is = {i} /\ pending' = Without(i)
      BY <1>2 DEF Remaining
    <2> HIDE DEF i
    <2> DEFINE n == Len(pending) - 1
               from == [j \in 1..n |-> IF j < i THEN j ELSE j + 1]
    <2>2. /\ pending' \in Seq(Pending) /\ Len(pending') = n
          /\ \A j \in 1..n : pending'[j] = pending[IF j < i THEN j ELSE j + 1]
      BY <2>1, WithoutElements
    <2>3. \A j \in 1..n : from[j] = IF j < i THEN j ELSE j + 1
      OBVIOUS
    <2>4. from \in [1..n -> 1..Len(pending)]
      BY <2>1
    <2> HIDE DEF from
    <2>5. \A j \in 1..n : from[j] \in 1..Len(pending) /\ from[j] # i
      BY <2>1, <2>3
    <2>6. \A j \in 1..n : pending'[j] = pending[from[j]]
      BY <2>2, <2>3
    <2>7. \A j, k \in 1..n : from[j] = from[k] => j = k
      BY <2>1, <2>3
    <2>8. DrawnFrom(from)
      BY <2>2, <2>6, <2>7 DEF DrawnFrom
    <2>9. Reordered
      BY <2>2, <2>4, <2>8 DEF Reordered
    <2> QED BY <2>1, <2>2, <2>5, <2>6, <2>9
  <1> QED BY <1>1, <1>2

(* Asking again moves a request to the end.                                *)
LEMMA MovedToEnd ==
    ASSUME pending \in Seq(Pending), NEW i \in 1..Len(pending),
           pending' = Append(Without(i), pending[i])
    PROVE  Reordered
  <1> DEFINE n == Len(pending)
             from == [j \in 1..n |-> IF j = n THEN i ELSE IF j < i THEN j ELSE j + 1]
  <1>1. n \in Nat /\ pending[i] \in Pending
    OBVIOUS
  <1>2. Without(i) \in Seq(Pending) /\ Len(Without(i)) = n - 1
    BY WithoutElements
  <1>3. pending' \in Seq(Pending) /\ Len(pending') = n
    BY <1>1, <1>2
  <1>4. \A j \in 1..n : from[j] = IF j = n THEN i ELSE IF j < i THEN j ELSE j + 1
    OBVIOUS
  <1>5. from \in [1..n -> 1..n]
    OBVIOUS
  <1> HIDE DEF from
  <1>6. \A j \in 1..n : pending'[j] = pending[from[j]]
    <2>1. \A j \in 1..n-1 : pending'[j] = Without(i)[j]
      BY <1>1, <1>2
    <2>2. pending'[n] = pending[i]
      BY <1>1, <1>2
    <2>3. \A j \in 1..n-1 : Without(i)[j] = pending[IF j < i THEN j ELSE j + 1]
      BY WithoutElements
    <2>4. \A j \in 1..n : j = n \/ j \in 1..n-1
      BY <1>1
    <2> QED BY <1>1, <1>4, <2>1, <2>2, <2>3, <2>4
  <1>7. \A j, k \in 1..n : from[j] = from[k] => j = k
    BY <1>1, <1>4
  <1>8. DrawnFrom(from)
    BY <1>3, <1>6, <1>7 DEF DrawnFrom
  <1> QED BY <1>3, <1>5, <1>8 DEF Reordered

(* A claim, or a lease that runs out.                                      *)
LEMMA LeaseStep ==
    ASSUME pending \in Seq(Pending), NEW i \in 1..Len(pending), NEW l \in BOOLEAN,
           pending' = [pending EXCEPT ![i].leased = l]
    PROVE  Reordered
  <1> DEFINE q == [pending[i] EXCEPT !.leased = l]
             same == [j \in 1..Len(pending) |-> j]
  <1>1. pending[i] \in Pending
    OBVIOUS
  <1>2. q \in Pending /\ q.req = pending[i].req /\ q.dev = pending[i].dev /\ q.net = pending[i].net
    BY <1>1 DEF Pending
  <1>3. pending' = [pending EXCEPT ![i] = q]
    OBVIOUS
  <1> HIDE DEF q
  <1>4. pending' \in Seq(Pending) /\ Len(pending') = Len(pending)
    BY <1>2, <1>3
  <1>5. \A j \in 1..Len(pending) : pending'[j] = IF j = i THEN q ELSE pending[j]
    BY <1>3
  <1>6. same \in [1..Len(pending') -> 1..Len(pending)] /\ \A j \in 1..Len(pending) : same[j] = j
    BY <1>4
  <1> HIDE DEF same
  <1>7. DrawnFrom(same)
    BY <1>2, <1>4, <1>5, <1>6 DEF DrawnFrom
  <1> QED BY <1>4, <1>6, <1>7 DEF Reordered

-----------------------------------------------------------------------------
(* The rows, and the values of the handlers.                               *)

LEMMA FilterType ==
    ASSUME NEW ssid \in Listed \union {NoName}
    PROVE  FilterSSIDName(ssid) \in Network
  <1> DEFINE bands == {g \in 1..Len(Bands) : \E i \in 1..Len(Bands[g]) : Bands[g][i] = ssid}
             first == CHOOSE g \in bands : \A h \in bands : g <= h
  <1>1. FilterSSIDName(ssid) = IF bands # {} THEN Bands[first][1]
                               ELSE IF ssid # NoName THEN ssid ELSE RouterSSIDName
    BY DEF FilterSSIDName
  <1>2. CASE bands # {}
    <2>1. bands \subseteq {1, 2}
      BY NetworkAssumption
    <2>2. \E g \in bands : \A h \in bands : g <= h
      BY <1>2, <2>1
    <2>3. first \in bands
      BY <2>2
    <2>4. first \in 1..Len(Bands) /\ \E i \in 1..Len(Bands[first]) : Bands[first][i] = ssid
      BY <2>3
    <2> HIDE DEF first
    <2>5. Bands[first] \in Seq(Network)
      <3>1. Bands \in Seq(Seq(Network))
        BY NetworkAssumption
      <3> HIDE DEF bands
      <3> QED BY ONLY <2>4, <3>1, ElementOfSeq
    <2>6. 1 \in 1..Len(Bands[first])
      BY <2>4, <2>5
    <2>7. Bands[first][1] \in Network
      BY <2>5, <2>6
    <2> QED BY <1>1, <1>2, <2>7
  <1>3. CASE bands = {}
    BY <1>1, <1>3 DEF Network
  <1> QED BY <1>2, <1>3

LEMMA RowFields ==
    ASSUME TypeOK, NEW m \in Mac, rows[m] # NoRow
    PROVE  /\ rows[m] \in Row /\ rows[m].id \in Nat /\ rows[m].blocked \in BOOLEAN
           /\ rows[m].ssid \in Listed \union {NoName}
  BY DEF TypeOK, Row

LEMMA RowUpdate ==
    ASSUME TypeOK, NEW m \in Mac, NEW r \in Row,
           rows[m] # NoRow, r.id = rows[m].id, rows' = [rows EXCEPT ![m] = r]
    PROVE  SameIds
  <1>1. r # NoRow
    BY RowAssumption DEF Row
  <1> QED BY <1>1 DEF TypeOK, SameIds

LEMMA ArchiveRestoreStep ==
    ASSUME TypeOK, NEW m \in Mac, ArchiveDevice(m) \/ RestoreDevice(m)
    PROVE  /\ SameIds /\ \A n \in Mac : rows[n] # NoRow => rows'[n].blocked = rows[n].blocked
  <1> PICK b \in BOOLEAN : rows' = [rows EXCEPT ![m].archived = b] /\ rows[m] # NoRow
    BY DEF ArchiveDevice, RestoreDevice
  <1> DEFINE r == [rows[m] EXCEPT !.archived = b]
  <1>1. r \in Row /\ r.id = rows[m].id /\ r.blocked = rows[m].blocked
    BY RowFields DEF Row
  <1>2. rows' = [rows EXCEPT ![m] = r]
    OBVIOUS
  <1> HIDE DEF r
  <1>3. SameIds
    BY <1>1, <1>2, RowUpdate
  <1> QED BY <1>1, <1>2, <1>3 DEF TypeOK

LEMMA SeenAgainStep ==
    ASSUME TypeOK, NEW m \in Mac, NEW ssid \in Listed, rows[m] # NoRow,
           rows' = [rows EXCEPT ![m] = SeenAgain(@, ssid)]
    PROVE  /\ SameIds /\ \A n \in Mac : rows[n] # NoRow => rows'[n].blocked = rows[n].blocked
  <1> DEFINE r == SeenAgain(rows[m], ssid)
  <1>1. r \in Row /\ r.id = rows[m].id /\ r.blocked = rows[m].blocked
    BY RowFields DEF Row, SeenAgain
  <1>2. rows' = [rows EXCEPT ![m] = r]
    OBVIOUS
  <1> HIDE DEF r
  <1>3. SameIds
    BY <1>1, <1>2, RowUpdate
  <1> QED BY <1>1, <1>2, <1>3 DEF TypeOK

(* The transaction of a completion marks the rows of one id, or none.      *)
LEMMA MarkStep ==
    ASSUME TypeOK, NEW w \in Workers, rows' = MarkBlocked(w)
    PROVE  /\ SameIds
           /\ \A n \in Mac : rows[n] # NoRow =>
                 IF worker[w].ok /\ rows[n].id = worker[w].dev
                 THEN rows'[n].blocked ELSE rows'[n].blocked = rows[n].blocked
  <1>1. ASSUME NEW n \in Mac
        PROVE  /\ rows'[n] \in Row \union {NoRow}
               /\ rows'[n] = NoRow <=> rows[n] = NoRow
               /\ rows[n] # NoRow => rows'[n].id = rows[n].id
               /\ rows[n] # NoRow =>
                    IF worker[w].ok /\ rows[n].id = worker[w].dev
                    THEN rows'[n].blocked ELSE rows'[n].blocked = rows[n].blocked
    <2> DEFINE r == [rows[n] EXCEPT !.blocked = TRUE]
               mark == worker[w].ok /\ HasId(n, worker[w].dev)
    <2>1. rows'[n] = IF mark THEN r ELSE rows[n]
      BY DEF MarkBlocked
    <2>2. mark => rows[n] # NoRow /\ rows[n].id = worker[w].dev /\ worker[w].ok
      BY DEF HasId
    <2>3. rows[n] # NoRow => (mark <=> worker[w].ok /\ rows[n].id = worker[w].dev)
      BY DEF HasId
    <2>4. CASE mark
      <3>1. rows[n] \in Row /\ rows'[n] = r
        BY <2>1, <2>2, <2>4, RowFields
      <3>2. r \in Row /\ r.id = rows[n].id
        BY <3>1 DEF Row
      <3>3. r.blocked
        <4>1. rows[n] \in [id : Nat, archived : BOOLEAN, blocked : BOOLEAN, ssid : Listed \union {NoName}]
          BY <3>1 DEF Row
        <4> QED BY ONLY <4>1, Zenon
      <3>4. r # NoRow
        BY <3>2, RowAssumption DEF Row
      <3> HIDE DEF r, mark
      <3>5. rows'[n].blocked
        BY <3>1, <3>3, Zenon
      <3> QED BY <2>2, <2>4, <3>1, <3>2, <3>4, <3>5
    <2>5. CASE ~mark
      <3>1. rows'[n] = rows[n]
        BY <2>1, <2>5
      <3> HIDE DEF mark
      <3> QED BY <2>3, <2>5, <3>1 DEF TypeOK
    <2> QED BY <2>4, <2>5
  <1>2. rows' = [n \in Mac |-> rows'[n]]
    BY DEF MarkBlocked
  <1> QED BY <1>1, <1>2 DEF SameIds

(* The two facts of the schema hold as long as requests only move and      *)
(* devices keep their ids.                                                 *)
LEMMA SchemaFacts == TypeOK => OnePending /\ PendingExist
  BY DEF TypeOK, OnePending, PendingExist, Exists, HasId

LEMMA KeptOne ==
    ASSUME TypeOK, Reordered
    PROVE  OnePending'
  <1> PICK from \in [1..Len(pending') -> 1..Len(pending)] : DrawnFrom(from)
    BY DEF Reordered
  <1> QED BY SchemaFacts DEF DrawnFrom, OnePending

LEMMA KeptExist ==
    ASSUME TypeOK, Reordered,
           \A m \in Mac : rows[m] # NoRow /\ (\E i \in 1..Len(pending') : pending'[i].dev = rows[m].id)
                         => rows'[m] # NoRow /\ rows'[m].id = rows[m].id
    PROVE  PendingExist'
  <1> PICK from \in [1..Len(pending') -> 1..Len(pending)] : DrawnFrom(from)
    BY DEF Reordered
  <1> SUFFICES ASSUME NEW i \in 1..Len(pending')
               PROVE  \E m \in Mac : rows'[m] # NoRow /\ rows'[m].id = pending'[i].dev
    BY DEF PendingExist
  <1>1. from[i] \in 1..Len(pending) /\ pending'[i].dev = pending[from[i]].dev
    BY DEF DrawnFrom
  <1>2. PICK m \in Mac : rows[m] # NoRow /\ rows[m].id = pending[from[i]].dev
    BY <1>1, SchemaFacts DEF PendingExist
  <1> QED BY <1>1, <1>2

LEMMA SameExists ==
    ASSUME TypeOK, SameIds, NEW d \in Nat
    PROVE  Exists(d)' <=> Exists(d)
  BY DEF SameIds, Exists, HasId

LEMMA Unmoved ==
    ASSUME TypeOK, pending' = pending
    PROVE  Reordered
  <1> DEFINE same == [j \in 1..Len(pending) |-> j]
  <1>1. same \in [1..Len(pending') -> 1..Len(pending)] /\ \A j \in 1..Len(pending) : same[j] = j
    OBVIOUS
  <1> HIDE DEF same
  <1>2. DrawnFrom(same)
    BY <1>1 DEF DrawnFrom
  <1> QED BY <1>1, <1>2 DEF Reordered, TypeOK

(* A deletion takes the row, and with it every request of its id.          *)
LEMMA DeleteStep ==
    ASSUME TypeOK, NEW m \in Mac, DeleteDevice(m)
    PROVE  /\ Reordered /\ rows[m] # NoRow
           /\ rows' \in [Mac -> Row \union {NoRow}]
           /\ rows'[m] = NoRow /\ \A n \in Mac : n # m => rows'[n] = rows[n]
           /\ \A j \in 1..Len(pending') : pending'[j].dev # rows[m].id
           /\ answered' = {a \in answered : a.dev # rows[m].id}
           /\ UNCHANGED <<ids, caller, worker, crashes, filter, asked>>
  <1> DEFINE is == {i \in 1..Len(pending) : pending[i].dev = rows[m].id}
  <1>1. pending \in Seq(Pending) /\ is \in SUBSET (1..Len(pending)) /\ \A i, k \in is : i = k
    BY DEF TypeOK
  <1>2. pending' = Remaining(is)
    BY DEF DeleteDevice
  <1>3. \A k \in (1..Len(pending)) \ is : pending[k].dev # rows[m].id
    OBVIOUS
  <1> HIDE DEF is
  <1>4. Reordered /\ \A j \in 1..Len(pending') : pending'[j].dev # rows[m].id
    BY <1>1, <1>2, <1>3, RemainingStep
  <1> QED BY <1>4 DEF DeleteDevice, TypeOK

LEMMA CompleteStep ==
    ASSUME TypeOK, RequestIds, NEW w \in Workers, CompleteDeviceControl(w)
    PROVE  /\ Reordered /\ \A j \in 1..Len(pending') : pending'[j].req # worker[w].req
           /\ rows' = MarkBlocked(w) /\ worker[w].pc = "sent"
  <1> DEFINE is == {i \in 1..Len(pending) : pending[i].req = worker[w].req}
  <1>1. pending \in Seq(Pending) /\ is \in SUBSET (1..Len(pending))
    BY DEF TypeOK
  <1>2. \A i, k \in is : i = k
    <2> TAKE i, k \in is
    <2>1. <<pending[i].req, pending[i].dev>> \in Known /\ <<pending[k].req, pending[k].dev>> \in Known
      BY DEF Known
    <2>2. pending[i].dev = pending[k].dev
      BY <2>1 DEF RequestIds
    <2> QED BY <2>2 DEF TypeOK
  <1>3. pending' = Remaining(is)
    BY DEF CompleteDeviceControl
  <1>4. \A k \in (1..Len(pending)) \ is : pending[k].req # worker[w].req
    OBVIOUS
  <1> HIDE DEF is
  <1>5. Reordered /\ \A j \in 1..Len(pending') : pending'[j].req # worker[w].req
    BY <1>1, <1>2, <1>3, <1>4, RemainingStep
  <1> QED BY <1>5 DEF CompleteDeviceControl

(* What a worker holds, by its pc.                                         *)
LEMMA ProcessFields ==
    ASSUME TypeOK, NEW w \in Workers
    PROVE  /\ worker[w].pc \in {"down", "idle", "claimed", "sent"}
           /\ Busy(w) => worker[w].req \in Nat /\ worker[w].dev \in Nat /\ worker[w].mac \in Mac
           /\ worker[w].pc = "claimed" => worker[w].net \in Network
           /\ worker[w].pc = "sent" => worker[w].ok \in BOOLEAN
  <1>1. worker[w] \in Process
    BY DEF TypeOK
  <1>2. CASE worker[w] \in [pc : {"down", "idle"}]
    BY <1>2 DEF Busy
  <1>3. CASE worker[w] \in [pc : {"claimed"}, req : Nat, dev : Nat, mac : Mac, net : Network]
    BY <1>3 DEF Busy
  <1>4. CASE worker[w] \in [pc : {"sent"}, req : Nat, dev : Nat, mac : Mac, ok : BOOLEAN]
    BY <1>4 DEF Busy
  <1> QED BY <1>1, <1>2, <1>3, <1>4 DEF Process

LEMMA CallFields ==
    ASSUME TypeOK, NEW c \in Callers, caller[c] # NoCall
    PROVE  caller[c].dev \in Nat /\ caller[c].net \in Network
  BY DEF TypeOK, Call

(* What PendingDeviceControl does to a worker that sees its answer.        *)
LEMMA ClaimStep ==
    ASSUME TypeOK, NEW w \in Workers, PendingDeviceControl(w)
    PROVE  /\ Reordered
           /\ worker[w] = Idle
           /\ UNCHANGED <<rows, answered, ids, caller, crashes, filter, asked>>
           /\ \/ worker' = worker
              \/ \E i \in 1..Len(pending), m \in Mac :
                    /\ HasId(m, pending[i].dev)
                    /\ worker' = [worker EXCEPT ![w] =
                                     [pc |-> "claimed", req |-> pending[i].req,
                                      dev |-> pending[i].dev, mac |-> m, net |-> pending[i].net]]
  <1> PICK i \in 1..Len(pending), m \in Mac :
          /\ HasId(m, pending[i].dev)
          /\ pending' = [pending EXCEPT ![i].leased = TRUE]
          /\ \/ worker' = [worker EXCEPT ![w] =
                              [pc |-> "claimed", req |-> pending[i].req,
                               dev |-> pending[i].dev, mac |-> m, net |-> pending[i].net]]
             \/ UNCHANGED worker
    BY DEF PendingDeviceControl
  <1>1. TRUE \in BOOLEAN /\ pending \in Seq(Pending)
    BY DEF TypeOK
  <1>2. Reordered
    BY <1>1, LeaseStep
  <1> QED BY <1>2 DEF PendingDeviceControl

LEMMA InsertStep ==
    ASSUME TypeOK, NEW c \in Callers, InsertRequest(c), ~IsPending(caller[c].dev)
    PROVE  LET new == [req |-> ids.req, dev |-> caller[c].dev, net |-> caller[c].net, leased |-> FALSE]
           IN  /\ new \in Pending /\ pending' \in Seq(Pending)
               /\ Len(pending') = Len(pending) + 1 /\ pending'[Len(pending) + 1] = new
               /\ pending'[Len(pending) + 1].req = ids.req
               /\ pending'[Len(pending) + 1].dev = caller[c].dev
               /\ pending'[Len(pending) + 1].net = caller[c].net
               /\ \A i \in 1..Len(pending) : pending'[i] = pending[i]
               /\ ids' = [ids EXCEPT !.req = @ + 1]
               /\ ids'.req = ids.req + 1 /\ ids'.row = ids.row
  <1> DEFINE new == [req |-> ids.req, dev |-> caller[c].dev, net |-> caller[c].net, leased |-> FALSE]
  <1>1. caller[c] # NoCall
    BY DEF InsertRequest, NoCall
  <1>2. new \in Pending
    BY <1>1, CallFields DEF TypeOK, Pending
  <1>3. pending' = Append(pending, new) /\ ids' = [ids EXCEPT !.req = @ + 1]
    BY DEF InsertRequest
  <1>4. pending \in Seq(Pending)
    BY DEF TypeOK
  <1>5. new.req = ids.req /\ new.dev = caller[c].dev /\ new.net = caller[c].net
    OBVIOUS
  <1>6. ids'.req = ids.req + 1 /\ ids'.row = ids.row
    BY <1>3 DEF TypeOK
  <1> HIDE DEF new
  <1>7. /\ pending' \in Seq(Pending) /\ Len(pending') = Len(pending) + 1
        /\ pending'[Len(pending) + 1] = new
        /\ \A i \in 1..Len(pending) : pending'[i] = pending[i]
    BY <1>2, <1>3, <1>4
  <1>8. /\ pending'[Len(pending) + 1].req = ids.req
        /\ pending'[Len(pending) + 1].dev = caller[c].dev
        /\ pending'[Len(pending) + 1].net = caller[c].net
    BY <1>5, <1>7
  <1> QED BY ONLY <1>2, <1>3, <1>6, <1>7, <1>8 DEF new

LEMMA AskAgainStep ==
    ASSUME TypeOK, NEW c \in Callers, InsertRequest(c), IsPending(caller[c].dev)
    PROVE  Reordered /\ ids' = ids
  <1> PICK i \in 1..Len(pending) : pending' = Append(Without(i), pending[i])
    BY DEF InsertRequest
  <1>1. pending \in Seq(Pending)
    BY DEF TypeOK
  <1> QED BY <1>1, MovedToEnd DEF InsertRequest

-----------------------------------------------------------------------------
(* Types.                                                                  *)

LEMMA SameIdsKeepRequests ==
    ASSUME TypeOK, SameIds, Reordered
    PROVE  OnePending' /\ PendingExist'
  <1>1. PendingExist'
    BY KeptExist DEF SameIds
  <1> QED BY <1>1, KeptOne

LEMMA UnchangedRows ==
    ASSUME TypeOK, rows' = rows
    PROVE  SameIds
  BY DEF TypeOK, SameIds

(* The types of the variables, apart from the facts of the schema.         *)
Types ==
    /\ rows \in [Mac -> Row \union {NoRow}]
    /\ pending \in Seq(Pending) /\ answered \in SUBSET Answered
    /\ ids \in [row : Nat, req : Nat]
    /\ caller \in [Callers -> Call]
    /\ worker \in [Workers -> Process]
    /\ crashes \in Nat /\ filter \subseteq Mac \X Network /\ asked \subseteq Mac \X Network

LEMMA TypeParts == TypeOK <=> Types /\ OnePending /\ PendingExist
  BY DEF TypeOK, Types, OnePending, PendingExist, Exists, HasId

LEMMA TypePartsNext == Types' /\ OnePending' /\ PendingExist' => TypeOK'
  BY DEF TypeOK, Types, OnePending, PendingExist, Exists, HasId

LEMMA UsersType ==
    ASSUME TypeOK, Users
    PROVE  Types' /\ OnePending' /\ PendingExist'
  <1> USE TypeParts
  <1>1. ASSUME NEW m \in Mac, ArchiveDevice(m) \/ RestoreDevice(m)
        PROVE  Types' /\ OnePending' /\ PendingExist'
    <2>1. SameIds /\ Reordered
      BY <1>1, ArchiveRestoreStep, Unmoved DEF ArchiveDevice, RestoreDevice
    <2> QED BY <1>1, <2>1, SameIdsKeepRequests DEF SameIds, Types, ArchiveDevice, RestoreDevice
  <1>2. ASSUME NEW m \in Mac, DeleteDevice(m)
        PROVE  Types' /\ OnePending' /\ PendingExist'
    <2>1. OnePending'
      BY <1>2, DeleteStep, KeptOne
    <2>2. PendingExist'
      <3>1. \A n \in Mac : rows[n] # NoRow /\ (\E i \in 1..Len(pending') : pending'[i].dev = rows[n].id)
                         => rows'[n] # NoRow /\ rows'[n].id = rows[n].id
        BY <1>2, DeleteStep
      <3> QED BY <1>2, <3>1, DeleteStep, KeptExist
    <2> QED BY <1>2, <2>1, <2>2, DeleteStep DEF Types, Reordered
  <1>3. ASSUME NEW c \in Callers, NEW m \in Mac, SelectUnblocked(c, m)
        PROVE  Types' /\ OnePending' /\ PendingExist'
    <2> DEFINE call == [dev |-> rows[m].id, net |-> FilterSSIDName(rows[m].ssid)]
    <2>1. call \in Call
      <3>1. rows[m].id \in Nat /\ FilterSSIDName(rows[m].ssid) \in Network
        BY <1>3, RowFields, FilterType DEF SelectUnblocked
      <3> QED BY <3>1 DEF Call
    <2>2. caller' = [caller EXCEPT ![c] = call] /\ UNCHANGED <<table, worker, crashes, filter, asked>>
      BY <1>3 DEF SelectUnblocked
    <2> HIDE DEF call
    <2> QED BY <2>1, <2>2 DEF Types, OnePending, PendingExist, table
  <1>4. ASSUME NEW c \in Callers, InsertRequest(c)
        PROVE  Types' /\ OnePending' /\ PendingExist'
    <2> DEFINE d == caller[c].dev
    <2>1. caller[c] # NoCall /\ d \in Nat /\ caller[c].net \in Network
      BY <1>4, CallFields DEF InsertRequest, NoCall
    <2>2. /\ caller' = [caller EXCEPT ![c] = NoCall]
          /\ asked' = asked \union {<<m, caller[c].net>> : m \in {n \in Mac : HasId(n, d)}}
          /\ UNCHANGED <<rows, answered, worker, crashes, filter>>
      BY <1>4 DEF InsertRequest
    <2>3. caller' \in [Callers -> Call] /\ asked' \subseteq Mac \X Network
      BY <2>1, <2>2 DEF Types, Call
    <2>4. CASE IsPending(d)
      BY <1>4, <2>2, <2>3, <2>4, AskAgainStep, UnchangedRows, SameIdsKeepRequests DEF Types, Reordered
    <2>5. CASE ~IsPending(d)
      <3> DEFINE new == [req |-> ids.req, dev |-> d, net |-> caller[c].net, leased |-> FALSE]
                 k == Len(pending) + 1
      <3>1. /\ new \in Pending /\ pending' \in Seq(Pending) /\ Len(pending') = k /\ pending'[k] = new
            /\ \A i \in 1..Len(pending) : pending'[i] = pending[i]
            /\ ids' = [ids EXCEPT !.req = @ + 1]
        BY <1>4, <2>5, InsertStep
      <3>2. ids' \in [row : Nat, req : Nat]
        BY <3>1 DEF Types
      <3>3. \A i \in 1..Len(pending) : pending[i].dev # d
        BY <2>5 DEF IsPending
      <3>4. new.dev = d /\ \A i \in 1..k : i = k \/ i \in 1..Len(pending)
        BY DEF Types
      <3>5. \E m \in Mac : rows[m] # NoRow /\ rows[m].id = d
        BY <1>4 DEF InsertRequest, Exists, HasId
      <3> HIDE DEF new, k, d
      <3>6. OnePending'
        BY <3>1, <3>3, <3>4 DEF OnePending
      <3>7. PendingExist'
        BY <2>2, <3>1, <3>4, <3>5 DEF PendingExist
      <3> QED BY <2>2, <2>3, <3>1, <3>2, <3>6, <3>7 DEF Types
    <2> QED BY <2>4, <2>5
  <1>5. ASSUME NEW c \in Callers, RefuseRequest(c)
        PROVE  Types' /\ OnePending' /\ PendingExist'
    BY <1>5 DEF RefuseRequest, Types, OnePending, PendingExist, table, Call
  <1> QED BY <1>1, <1>2, <1>3, <1>4, <1>5 DEF Users

(* RecordDevices inserts a row under a fresh id, or updates one.           *)
LEMMA RecordStep ==
    ASSUME TypeOK, NEW w \in Workers, NEW m \in Mac, NEW ssid \in Listed, RecordDevice(w, m, ssid)
    PROVE  /\ rows' \in [Mac -> Row \union {NoRow}] /\ ids' \in [row : Nat, req : Nat]
           /\ ids'.req = ids.req /\ ids'.row >= ids.row
           /\ UNCHANGED <<pending, answered, caller, worker, crashes, filter, asked>>
           /\ \A n \in Mac : rows[n] # NoRow =>
                 rows'[n] # NoRow /\ rows'[n].id = rows[n].id /\ rows'[n].blocked = rows[n].blocked
           /\ \A n \in Mac : rows[n] = NoRow /\ rows'[n] # NoRow =>
                 n = m /\ rows'[n].id = ids.row /\ ids'.row = ids.row + 1 /\ ~rows'[n].blocked
  <1>1. CASE rows[m] = NoRow
    <2> DEFINE r == [id |-> ids.row, archived |-> FALSE, blocked |-> FALSE, ssid |-> ssid]
    <2>1. r \in Row /\ r.id = ids.row
      BY DEF TypeOK, Row
    <2>2. r # NoRow
      BY <2>1, RowAssumption DEF Row
    <2>3. ~r.blocked
      BY Zenon
    <2>4. rows' = [rows EXCEPT ![m] = r] /\ ids' = [ids EXCEPT !.row = @ + 1]
      BY <1>1 DEF RecordDevice
    <2> HIDE DEF r
    <2>5. rows'[m] = r /\ \A n \in Mac : n # m => rows'[n] = rows[n]
      BY <2>4 DEF TypeOK
    <2>6. ~rows'[m].blocked
      BY <2>3, <2>5, Zenon
    <2>7. rows' \in [Mac -> Row \union {NoRow}]
      BY <2>1, <2>4 DEF TypeOK
    <2>8. ids' \in [row : Nat, req : Nat] /\ ids'.req = ids.req /\ ids'.row = ids.row + 1
          /\ ids.row \in Nat
      BY <2>4 DEF TypeOK
    <2> QED BY <1>1, <2>1, <2>2, <2>5, <2>6, <2>7, <2>8 DEF RecordDevice
  <1>2. CASE rows[m] # NoRow
    <2>1. rows' = [rows EXCEPT ![m] = SeenAgain(@, ssid)] /\ ids' = ids
      BY <1>2 DEF RecordDevice
    <2>2. SameIds /\ \A n \in Mac : rows[n] # NoRow => rows'[n].blocked = rows[n].blocked
      BY <1>2, <2>1, SeenAgainStep
    <2>3. ids \in [row : Nat, req : Nat] /\ ids'.req = ids.req /\ ids'.row >= ids.row
      BY <2>1 DEF TypeOK
    <2>4. UNCHANGED <<pending, answered, caller, worker, crashes, filter, asked>>
      BY DEF RecordDevice
    <2> QED BY <2>1, <2>2, <2>3, <2>4 DEF SameIds
  <1> QED BY <1>1, <1>2

LEMMA WorkersType ==
    ASSUME TypeOK, RequestIds, NEW w \in Workers,
           \/ Start(w) \/ Stop(w) \/ WorkerLoop(w)
           \/ \E m \in Mac, ssid \in Listed : RecordDevice(w, m, ssid)
    PROVE  Types' /\ OnePending' /\ PendingExist'
  <1> USE TypeParts
  <1>1. CASE Start(w) \/ Stop(w) \/ CompletionFails(w)
    <2>1. Idle \in Process /\ Down \in Process
      BY DEF Idle, Down, Process
    <2>2. worker' \in [Workers -> Process] /\ crashes' \in Nat
      BY <1>1, <2>1 DEF Start, Stop, CompletionFails, Types
    <2>3. UNCHANGED <<table, caller, filter, asked>>
      BY <1>1 DEF Start, Stop, CompletionFails
    <2> QED BY <2>2, <2>3 DEF Types, OnePending, PendingExist, table
  <1>2. CASE PendingDeviceControl(w)
    <2>1. worker' \in [Workers -> Process]
      <3>1. ASSUME NEW i \in 1..Len(pending), NEW m \in Mac
            PROVE  [pc |-> "claimed", req |-> pending[i].req, dev |-> pending[i].dev,
                    mac |-> m, net |-> pending[i].net] \in Process
        <4>1. pending[i] \in Pending
          BY DEF Types
        <4> QED BY <4>1 DEF Pending, Process
      <3> QED BY <1>2, <3>1, ClaimStep DEF Types
    <2>2. Reordered /\ SameIds
      BY <1>2, ClaimStep, UnchangedRows
    <2> QED BY <1>2, <2>1, <2>2, ClaimStep, SameIdsKeepRequests DEF Types, Reordered
  <1>3. CASE BlockDevice(w)
    <2>1. /\ worker[w].req \in Nat /\ worker[w].dev \in Nat /\ worker[w].mac \in Mac
          /\ worker[w].net \in Network
      BY <1>3, ProcessFields DEF BlockDevice, Busy
    <2>2. RequestedNetwork(w) \subseteq Mac \X Network
      BY <2>1 DEF RequestedNetwork
    <2>3. filter' \subseteq Mac \X Network
      BY <1>3, <2>2 DEF BlockDevice, Types
    <2>4. \A ok \in BOOLEAN : [pc |-> "sent", req |-> worker[w].req, dev |-> worker[w].dev,
                              mac |-> worker[w].mac, ok |-> ok] \in Process
      BY <2>1 DEF Process
    <2>5. worker' \in [Workers -> Process]
      BY <1>3, <2>4 DEF BlockDevice, Types
    <2> QED BY <1>3, <2>3, <2>5 DEF BlockDevice, Types, OnePending, PendingExist, table
  <1>4. CASE CompleteDeviceControl(w)
    <2>1. SameIds /\ Reordered
      BY <1>4, CompleteStep, MarkStep
    <2>2. OnePending' /\ PendingExist'
      BY <2>1, SameIdsKeepRequests
    <2>3. answered' \subseteq Answered
      <3>1. worker[w].req \in Nat /\ worker[w].dev \in Nat /\ worker[w].ok \in BOOLEAN
        BY <1>4, ProcessFields DEF CompleteDeviceControl, Busy
      <3>2. [req |-> worker[w].req, dev |-> worker[w].dev, ok |-> worker[w].ok] \in Answered
        BY <3>1 DEF Answered
      <3> QED BY <1>4, <3>2 DEF CompleteDeviceControl, Types
    <2>4. worker' \in [Workers -> Process]
      BY <1>4 DEF CompleteDeviceControl, Types, Idle, Process
    <2> QED BY <1>4, <2>1, <2>2, <2>3, <2>4 DEF CompleteDeviceControl, Types, SameIds, Reordered
  <1>5. ASSUME NEW m \in Mac, NEW ssid \in Listed, RecordDevice(w, m, ssid)
        PROVE  Types' /\ OnePending' /\ PendingExist'
    <2>1. Reordered
      BY <1>5, RecordStep, Unmoved
    <2>2. OnePending' /\ PendingExist'
      BY <1>5, <2>1, RecordStep, KeptOne, KeptExist
    <2> QED BY <1>5, <2>2, RecordStep DEF Types
  <1> QED BY <1>1, <1>2, <1>3, <1>4, <1>5 DEF WorkerLoop

LEMMA TypeStep ==
    ASSUME TypeOK, RequestIds, [Next]_vars
    PROVE  TypeOK'
  <1> SUFFICES Types' /\ OnePending' /\ PendingExist'
    BY TypePartsNext
  <1>1. CASE \E i \in 1..MaxRequests : LeaseExpires(i)
    <2> PICK i \in 1..Len(pending) :
            /\ pending' = [pending EXCEPT ![i].leased = FALSE]
            /\ UNCHANGED <<rows, answered, ids, caller, worker, crashes, filter, asked>>
      BY <1>1 DEF LeaseExpires
    <2>1. pending \in Seq(Pending) /\ FALSE \in BOOLEAN
      BY DEF TypeOK
    <2>2. SameIds /\ Reordered
      BY <2>1, LeaseStep, UnchangedRows
    <2> QED BY <2>2, TypeParts, SameIdsKeepRequests DEF Types, Reordered
  <1>2. CASE UNCHANGED vars
    BY <1>2, TypeParts DEF vars, table, Types, OnePending, PendingExist
  <1>3. CASE Users
    BY <1>3, UsersType
  <1>4. ASSUME NEW w \in Workers,
               \/ Start(w) \/ Stop(w) \/ WorkerLoop(w)
               \/ \E m \in Mac, ssid \in Listed : RecordDevice(w, m, ssid)
        PROVE  Types' /\ OnePending' /\ PendingExist'
    BY <1>4, WorkersType
  <1> QED BY <1>1, <1>2, <1>3, <1>4 DEF Next

-----------------------------------------------------------------------------
(* Ids.                                                                    *)

(* How a step may change the rows: a row keeps its id for as long as it    *)
(* exists, and a new one has an id that no row has had.                    *)
RowsEvolve ==
    /\ ids'.row >= ids.row
    /\ \A m \in Mac : rows[m] # NoRow /\ rows'[m] # NoRow => rows'[m].id = rows[m].id
    /\ \A m \in Mac : rows[m] = NoRow /\ rows'[m] # NoRow => rows'[m].id = ids.row
    /\ \A m, n \in Mac : rows[m] = NoRow /\ rows'[m] # NoRow =>
                           /\ ids'.row = ids.row + 1
                           /\ rows[n] = NoRow /\ rows'[n] # NoRow => m = n

LEMMA SameIdsEvolve ==
    ASSUME TypeOK, SameIds, ids'.row = ids.row
    PROVE  RowsEvolve
  BY DEF TypeOK, SameIds, RowsEvolve

LEMMA Evolution ==
    ASSUME TypeOK, RequestIds, [Next]_vars
    PROVE  RowsEvolve
  <1> USE SameIdsEvolve, UnchangedRows
  <1>1. ASSUME NEW m \in Mac, ArchiveDevice(m) \/ RestoreDevice(m) PROVE RowsEvolve
    BY <1>1, ArchiveRestoreStep DEF ArchiveDevice, RestoreDevice
  <1>2. ASSUME NEW m \in Mac, DeleteDevice(m) PROVE RowsEvolve
    BY <1>2, DeleteStep DEF TypeOK, RowsEvolve
  <1>3. ASSUME NEW c \in Callers, NEW m \in Mac, SelectUnblocked(c, m) PROVE RowsEvolve
    BY <1>3 DEF SelectUnblocked, table
  <1>4. ASSUME NEW c \in Callers, InsertRequest(c) PROVE RowsEvolve
    <2>1. rows' = rows /\ ids \in [row : Nat, req : Nat]
      BY <1>4 DEF InsertRequest, TypeOK
    <2>2. CASE IsPending(caller[c].dev)
      BY <1>4, <2>1, <2>2, AskAgainStep
    <2>3. CASE ~IsPending(caller[c].dev)
      BY <1>4, <2>1, <2>3, InsertStep
    <2> QED BY <2>2, <2>3
  <1>5. ASSUME NEW c \in Callers, RefuseRequest(c) PROVE RowsEvolve
    BY <1>5 DEF RefuseRequest, table
  <1>6. ASSUME NEW w \in Workers, Start(w) \/ Stop(w) \/ CompletionFails(w) \/ BlockDevice(w)
        PROVE  RowsEvolve
    BY <1>6 DEF Start, Stop, CompletionFails, BlockDevice, table
  <1>7. ASSUME NEW w \in Workers, PendingDeviceControl(w) PROVE RowsEvolve
    BY <1>7, ClaimStep
  <1>8. ASSUME NEW w \in Workers, CompleteDeviceControl(w) PROVE RowsEvolve
    BY <1>8, CompleteStep, MarkStep DEF CompleteDeviceControl
  <1>9. ASSUME NEW w \in Workers, NEW m \in Mac, NEW ssid \in Listed, RecordDevice(w, m, ssid)
        PROVE  RowsEvolve
    BY <1>9, RecordStep DEF TypeOK, RowsEvolve
  <1>10. ASSUME NEW i \in 1..MaxRequests, LeaseExpires(i) PROVE RowsEvolve
    BY <1>10 DEF LeaseExpires
  <1>11. CASE UNCHANGED vars
    BY <1>11 DEF vars, table
  <1> QED
    BY <1>1, <1>2, <1>3, <1>4, <1>5, <1>6, <1>7, <1>8, <1>9, <1>10, <1>11 DEF Next, Users, WorkerLoop

LEMMA RowIdsStep ==
    ASSUME TypeOK, TypeOK', RowIds, RowsEvolve
    PROVE  RowIds'
  <1>1. /\ \A m \in Mac : rows[m] # NoRow => rows[m].id \in Nat
        /\ ids.row \in Nat /\ ids'.row \in Nat
    BY RowFields DEF TypeOK
  <1> QED BY <1>1 DEF RowIds, RowsEvolve

(* The members of Known, by where they are written down.                   *)
LEMMA KnownMembers ==
    /\ \A i \in 1..Len(pending) : <<pending[i].req, pending[i].dev>> \in Known
    /\ \A a \in answered : <<a.req, a.dev>> \in Known
    /\ \A w \in Workers : Busy(w) => <<worker[w].req, worker[w].dev>> \in Known
  BY DEF Known

LEMMA KnownNumbers ==
    ASSUME TypeOK
    PROVE  \A x \in Known : x[1] \in Nat
  <1>1. \A i \in 1..Len(pending) : pending[i].req \in Nat
    <2>1. \A i \in 1..Len(pending) : pending[i] \in Pending
      BY DEF TypeOK
    <2> QED BY <2>1 DEF Pending
  <1>2. \A a \in answered : a.req \in Nat
    BY DEF TypeOK, Answered
  <1>3. \A w \in {v \in Workers : Busy(v)} : worker[w].req \in Nat
    BY ProcessFields
  <1> QED BY <1>1, <1>2, <1>3 DEF Known

(* No step gives a request id to another device.                           *)
LEMMA KnownSubset ==
    ASSUME TypeOK, TypeOK', RequestIds, Known' \subseteq Known, ids'.req >= ids.req
    PROVE  RequestIds'
  <1>1. \A x \in Known : x[1] \in Nat
    BY KnownNumbers
  <1>2. ids.req \in Nat /\ ids'.req \in Nat
    BY DEF TypeOK
  <1> QED BY <1>1, <1>2 DEF RequestIds

LEMMA KnownKept ==
    ASSUME Reordered,
           \A a \in answered' : <<a.req, a.dev>> \in Known,
           \A w \in Workers : Busy(w)' => <<worker'[w].req, worker'[w].dev>> \in Known
    PROVE  Known' \subseteq Known
  <1> PICK from \in [1..Len(pending') -> 1..Len(pending)] : DrawnFrom(from)
    BY DEF Reordered
  <1>1. \A i \in 1..Len(pending') : <<pending'[i].req, pending'[i].dev>> \in Known
    BY KnownMembers DEF DrawnFrom
  <1>2. Known' = {<<pending'[i].req, pending'[i].dev>> : i \in 1..Len(pending')} \union
                 {<<a.req, a.dev>> : a \in answered'} \union
                 {<<worker'[w].req, worker'[w].dev>> : w \in {v \in Workers : Busy(v)'}}
    BY DEF Known
  <1> QED BY <1>1, <1>2

LEMMA RequestIdsStep ==
    ASSUME TypeOK, TypeOK', RequestIds, [Next]_vars
    PROVE  RequestIds'
  <1> USE KnownMembers, KnownKept, KnownSubset, Unmoved
  <1>0. ids.req \in Nat
    BY DEF TypeOK
  <1>1. ASSUME UNCHANGED <<pending, answered, ids, worker>> PROVE RequestIds'
    <2>1. \A w \in Workers : Busy(w)' => Busy(w)
      BY <1>1 DEF Busy
    <2> QED BY <1>0, <1>1, <2>1
  <1>2. ASSUME NEW m \in Mac, DeleteDevice(m) PROVE RequestIds'
    <2>1. \A w \in Workers : Busy(w)' => Busy(w)
      BY <1>2, DeleteStep DEF Busy
    <2> QED BY <1>0, <1>2, <2>1, DeleteStep
  <1>3. ASSUME NEW c \in Callers, InsertRequest(c) PROVE RequestIds'
    <2>1. UNCHANGED <<rows, answered, worker, crashes, filter>>
      BY <1>3 DEF InsertRequest
    <2>2. \A w \in Workers : Busy(w)' => Busy(w)
      BY <2>1 DEF Busy
    <2>3. CASE IsPending(caller[c].dev)
      BY <1>0, <1>3, <2>1, <2>2, <2>3, AskAgainStep
    <2>4. CASE ~IsPending(caller[c].dev)
      <3> DEFINE pair == <<ids.req, caller[c].dev>>
                 k == Len(pending) + 1
      <3>1. /\ Len(pending') = k /\ pending'[k].req = ids.req /\ pending'[k].dev = caller[c].dev
            /\ \A i \in 1..Len(pending) : pending'[i] = pending[i]
            /\ ids'.req = ids.req + 1
        BY <1>3, <2>4, InsertStep
      <3>2. \A i \in 1..k : i = k \/ i \in 1..Len(pending)
        BY DEF TypeOK
      <3> HIDE DEF k
      <3>3. \A i \in 1..Len(pending') : <<pending'[i].req, pending'[i].dev>> \in Known \union {pair}
        BY <3>1, <3>2
      <3>4. Known' = {<<pending'[i].req, pending'[i].dev>> : i \in 1..Len(pending')} \union
                     {<<a.req, a.dev>> : a \in answered'} \union
                     {<<worker'[w].req, worker'[w].dev>> : w \in {v \in Workers : Busy(v)'}}
        BY DEF Known
      <3>5. Known' \subseteq Known \union {pair}
        BY <2>1, <2>2, <3>3, <3>4
      <3>6. \A x \in Known : x[1] < ids.req /\ x[1] \in Nat
        <4>1. \A x \in Known : x[1] \in Nat
          BY KnownNumbers
        <4> QED BY <4>1 DEF RequestIds
      <3>7. pair[1] = ids.req
        OBVIOUS
      <3> HIDE DEF pair
      <3>8. \A x \in Known' : x[1] < ids'.req
        BY <1>0, <3>1, <3>5, <3>6, <3>7
      <3>9. \A x, y \in Known' : x[1] = y[1] => x[2] = y[2]
        BY <1>0, <3>5, <3>6, <3>7 DEF RequestIds
      <3> QED BY <3>8, <3>9 DEF RequestIds
    <2> QED BY <2>3, <2>4
  <1>4. ASSUME NEW m \in Mac, ArchiveDevice(m) \/ RestoreDevice(m) PROVE RequestIds'
    BY <1>1, <1>4 DEF ArchiveDevice, RestoreDevice
  <1>5. ASSUME NEW c \in Callers, RefuseRequest(c) \/ \E m \in Mac : SelectUnblocked(c, m)
        PROVE  RequestIds'
    BY <1>1, <1>5 DEF SelectUnblocked, RefuseRequest, table
  <1>6. ASSUME NEW w \in Workers, Start(w) \/ Stop(w) \/ CompletionFails(w) \/ BlockDevice(w)
        PROVE  RequestIds'
    <2>1. UNCHANGED <<pending, answered, ids>>
      BY <1>6 DEF Start, Stop, CompletionFails, BlockDevice, table
    <2>2. \A v \in Workers : v # w => worker'[v] = worker[v]
      BY <1>6 DEF Start, Stop, CompletionFails, BlockDevice, TypeOK
    <2>3. CASE Start(w) \/ Stop(w) \/ CompletionFails(w)
      <3>1. worker'[w] = Idle \/ worker'[w] = Down
        BY <2>3 DEF Start, Stop, CompletionFails, TypeOK
      <3>2. worker'[w].pc = "idle" \/ worker'[w].pc = "down"
        BY <3>1 DEF Idle, Down
      <3>3. \A v \in Workers : Busy(v)' => Busy(v) /\ worker'[v] = worker[v]
        BY <2>2, <3>2 DEF Busy
      <3> QED BY <1>0, <2>1, <3>3
    <2>4. CASE BlockDevice(w)
      <3>1. \E ok \in BOOLEAN :
               worker'[w] = [pc |-> "sent", req |-> worker[w].req, dev |-> worker[w].dev,
                             mac |-> worker[w].mac, ok |-> ok]
        BY <2>4 DEF BlockDevice, TypeOK
      <3>2. worker'[w].req = worker[w].req /\ worker'[w].dev = worker[w].dev /\ Busy(w)
        BY <2>4, <3>1 DEF BlockDevice, Busy
      <3>3. \A v \in Workers : Busy(v)' =>
               Busy(v) /\ worker'[v].req = worker[v].req /\ worker'[v].dev = worker[v].dev
        BY <2>2, <3>2 DEF Busy
      <3> QED BY <1>0, <2>1, <3>3
    <2> QED BY <1>6, <2>3, <2>4
  <1>7. ASSUME NEW w \in Workers, PendingDeviceControl(w) PROVE RequestIds'
    <2>1. CASE worker' = worker
      <3>1. \A v \in Workers : Busy(v)' => Busy(v)
        BY <2>1 DEF Busy
      <3> QED BY <1>0, <1>7, <2>1, <3>1, ClaimStep
    <2>2. CASE worker' # worker
      <3> PICK i \in 1..Len(pending), m \in Mac :
              worker' = [worker EXCEPT ![w] =
                           [pc |-> "claimed", req |-> pending[i].req, dev |-> pending[i].dev,
                            mac |-> m, net |-> pending[i].net]]
        BY <1>7, <2>2, ClaimStep
      <3>1. worker'[w].req = pending[i].req /\ worker'[w].dev = pending[i].dev
        BY DEF TypeOK
      <3>2. \A v \in Workers : v # w => worker'[v] = worker[v]
        BY DEF TypeOK
      <3>3. \A v \in Workers : v # w /\ Busy(v)' => Busy(v) /\ worker'[v] = worker[v]
        BY <3>2 DEF Busy
      <3>4. \A v \in Workers : Busy(v)' => <<worker'[v].req, worker'[v].dev>> \in Known
        BY <3>1, <3>3
      <3> QED BY <1>0, <1>7, <3>4, ClaimStep
    <2> QED BY <2>1, <2>2
  <1>8. ASSUME NEW w \in Workers, CompleteDeviceControl(w) PROVE RequestIds'
    <2>1. worker' = [worker EXCEPT ![w] = Idle] /\ UNCHANGED ids /\ Busy(w)
      BY <1>8 DEF CompleteDeviceControl, Busy
    <2>2. \A v \in Workers : Busy(v)' => Busy(v) /\ worker'[v] = worker[v]
      BY <2>1 DEF Busy, Idle, TypeOK
    <2>3. \A a \in answered' : <<a.req, a.dev>> \in Known
      <3> DEFINE done == [req |-> worker[w].req, dev |-> worker[w].dev, ok |-> worker[w].ok]
      <3>1. answered' \subseteq answered \union {done}
        BY <1>8 DEF CompleteDeviceControl
      <3>2. done.req = worker[w].req /\ done.dev = worker[w].dev
        OBVIOUS
      <3> HIDE DEF done
      <3>3. <<done.req, done.dev>> \in Known
        BY <2>1, <3>2
      <3> QED BY <3>1, <3>3
    <2> QED BY <1>0, <1>8, <2>1, <2>2, <2>3, CompleteStep
  <1>9. ASSUME NEW w \in Workers, NEW m \in Mac, NEW ssid \in Listed, RecordDevice(w, m, ssid)
        PROVE  RequestIds'
    <2>1. \A v \in Workers : Busy(v)' => Busy(v)
      BY <1>9, RecordStep DEF Busy
    <2> QED BY <1>0, <1>9, <2>1, RecordStep
  <1>10. ASSUME NEW i \in 1..MaxRequests, LeaseExpires(i) PROVE RequestIds'
    <2>1. \A w \in Workers : Busy(w)' => Busy(w)
      BY <1>10 DEF LeaseExpires, Busy
    <2>2. pending \in Seq(Pending) /\ FALSE \in BOOLEAN
      BY DEF TypeOK
    <2>3. Reordered
      BY <1>10, <2>2, LeaseStep DEF LeaseExpires
    <2> QED BY <1>0, <1>10, <2>1, <2>3 DEF LeaseExpires
  <1>11. CASE UNCHANGED vars
    BY <1>1, <1>11 DEF vars, table
  <1> QED
    BY ONLY <1>2, <1>3, <1>4, <1>5, <1>6, <1>7, <1>8, <1>9, <1>10, <1>11, [Next]_vars
       DEF Next, Users, WorkerLoop

-----------------------------------------------------------------------------
(* What workers hold.                                                      *)

LEMMA HeldByKept ==
    ASSUME TypeOK, TypeOK', HeldRequests, RowsEvolve, NEW w \in Workers,
           asked \subseteq asked', filter \subseteq filter',
           Busy(w)' => worker'[w] = worker[w]
    PROVE  HeldBy(w)'
  <1>1. HeldBy(w)
    BY DEF HeldRequests
  <1>2. CASE ~Busy(w)'
    BY <1>2 DEF HeldBy, Busy
  <1>3. CASE Busy(w)'
    <2>1. worker'[w] = worker[w] /\ Busy(w)
      BY <1>3 DEF Busy
    <2>2. worker[w].dev \in Nat /\ worker[w].dev < ids.row
      BY <1>1, <2>1, ProcessFields DEF HeldBy
    <2>3. ids.row \in Nat /\ ids'.row >= ids.row
      BY DEF TypeOK, RowsEvolve
    <2>4. ASSUME NEW m \in Mac, rows'[m] # NoRow, rows'[m].id = worker[w].dev
          PROVE  m = worker[w].mac
      <3>1. rows[m] # NoRow /\ rows[m].id = worker[w].dev
        BY <2>2, <2>3, <2>4 DEF RowsEvolve
      <3> QED BY <1>1, <2>1, <3>1 DEF HeldBy, HasId
    <2>5. worker[w].dev < ids'.row
      <3>1. ids'.row \in Nat
        BY DEF TypeOK
      <3> QED BY ONLY <2>2, <2>3, <3>1
    <2> QED BY <1>1, <2>1, <2>4, <2>5 DEF HeldBy, HasId, Busy
  <1> QED BY <1>2, <1>3

LEMMA HeldStep ==
    ASSUME TypeOK, TypeOK', RowIds, PendingAsked, HeldRequests, RowsEvolve, [Next]_vars
    PROVE  HeldRequests'
  <1> USE HeldByKept DEF HeldRequests
  <1>1. ASSUME UNCHANGED <<worker, filter>>, asked \subseteq asked'
        PROVE  HeldRequests'
    BY <1>1
  <1>2. ASSUME NEW w \in Workers, PendingDeviceControl(w)
        PROVE  HeldRequests'
    <2>1. CASE worker' = worker
      BY <1>1, <1>2, <2>1, ClaimStep
    <2>2. CASE worker' # worker
      <3> PICK i \in 1..Len(pending), m \in Mac :
              /\ HasId(m, pending[i].dev)
              /\ worker' = [worker EXCEPT ![w] =
                              [pc |-> "claimed", req |-> pending[i].req, dev |-> pending[i].dev,
                               mac |-> m, net |-> pending[i].net]]
        BY <1>2, <2>2, ClaimStep
      <3>1. /\ worker'[w].pc = "claimed" /\ worker'[w].dev = pending[i].dev
            /\ worker'[w].mac = m /\ worker'[w].net = pending[i].net
        BY DEF TypeOK
      <3>2. \A v \in Workers : v # w => worker'[v] = worker[v]
        BY DEF TypeOK
      <3>3. UNCHANGED <<rows, ids, asked, filter>>
        BY <1>2, ClaimStep
      <3>4. pending[i].dev < ids.row /\ \A n \in Mac : HasId(n, pending[i].dev) => n = m
        BY DEF RowIds, HasId
      <3>5. <<m, pending[i].net>> \in asked
        BY DEF PendingAsked
      <3>6. HeldBy(w)'
        BY <3>1, <3>3, <3>4, <3>5 DEF HeldBy, HasId
      <3>7. \A v \in Workers : v # w => HeldBy(v)'
        BY <3>2, <3>3
      <3> QED BY <3>6, <3>7
    <2> QED BY <2>1, <2>2
  <1>3. ASSUME NEW w \in Workers, BlockDevice(w)
        PROVE  HeldRequests'
    <2> PICK done \in BOOLEAN, ok \in BOOLEAN :
            /\ ok => done
            /\ filter' = IF done THEN filter \union RequestedNetwork(w) ELSE filter
            /\ worker' = [worker EXCEPT ![w] =
                            [pc |-> "sent", req |-> @.req, dev |-> @.dev, mac |-> @.mac, ok |-> ok]]
      BY <1>3 DEF BlockDevice
    <2>1. UNCHANGED <<rows, ids, asked>> /\ filter \subseteq filter' /\ Busy(w)
      BY <1>3 DEF BlockDevice, table, Busy
    <2>2. /\ worker'[w].pc = "sent" /\ worker'[w].dev = worker[w].dev
          /\ worker'[w].mac = worker[w].mac /\ worker'[w].ok = ok
      BY DEF TypeOK
    <2>3. \A v \in Workers : v # w => worker'[v] = worker[v]
      BY DEF TypeOK
    <2>4. worker[w].net \in Network
      BY <1>3, ProcessFields DEF BlockDevice
    <2>5. ok => <<worker[w].mac, worker[w].net>> \in filter'
      BY DEF RequestedNetwork
    <2>6. HeldBy(w)
      OBVIOUS
    <2>7. HeldBy(w)'
      BY <2>1, <2>2, <2>4, <2>5, <2>6 DEF HeldBy, Busy, HasId
    <2>8. \A v \in Workers : v # w => HeldBy(v)'
      BY <2>1, <2>3
    <2> QED BY <2>7, <2>8
  <1>4. ASSUME NEW w \in Workers, Start(w) \/ Stop(w) \/ CompletionFails(w) \/ CompleteDeviceControl(w)
        PROVE  HeldRequests'
    <2>1. UNCHANGED <<asked, filter>>
      BY <1>4 DEF Start, Stop, CompletionFails, CompleteDeviceControl
    <2>2. \A v \in Workers : worker'[v] \in {worker[v], Idle, Down}
      BY <1>4 DEF Start, Stop, CompletionFails, CompleteDeviceControl, TypeOK
    <2>3. \A v \in Workers : Busy(v)' => worker'[v] = worker[v]
      BY <2>2 DEF Busy, Idle, Down
    <2> QED BY <2>1, <2>3
  <1>5. CASE Users
    <2>1. UNCHANGED <<worker, filter>> /\ asked \subseteq asked'
      BY <1>5 DEF Users, ArchiveDevice, RestoreDevice, DeleteDevice, SelectUnblocked, InsertRequest,
                  RefuseRequest
    <2> QED BY <1>1, <2>1
  <1>6. ASSUME NEW w \in Workers, NEW m \in Mac, NEW ssid \in Listed, RecordDevice(w, m, ssid)
        PROVE  HeldRequests'
    BY <1>1, <1>6 DEF RecordDevice
  <1>7. CASE (\E i \in 1..MaxRequests : LeaseExpires(i)) \/ UNCHANGED vars
    BY <1>1, <1>7 DEF LeaseExpires, vars
  <1> QED
    BY ONLY <1>2, <1>3, <1>4, <1>5, <1>6, <1>7, [Next]_vars DEF Next, WorkerLoop

LEMMA PendingAskedKept ==
    ASSUME TypeOK, RowIds, PendingAsked, RowsEvolve, Reordered, asked \subseteq asked'
    PROVE  PendingAsked'
  <1> PICK from \in [1..Len(pending') -> 1..Len(pending)] : DrawnFrom(from)
    BY DEF Reordered
  <1> SUFFICES ASSUME NEW i \in 1..Len(pending'), NEW m \in Mac,
                      rows'[m] # NoRow, rows'[m].id = pending'[i].dev
               PROVE  <<m, pending'[i].net>> \in asked'
    BY DEF PendingAsked, HasId
  <1>1. /\ from[i] \in 1..Len(pending) /\ pending'[i].dev = pending[from[i]].dev
        /\ pending'[i].net = pending[from[i]].net
    BY DEF DrawnFrom
  <1>2. PICK n \in Mac : rows[n] # NoRow /\ rows[n].id = pending[from[i]].dev
    BY <1>1, SchemaFacts DEF PendingExist
  <1>3. rows[n].id < ids.row /\ rows[n].id \in Nat /\ ids.row \in Nat
    BY <1>2, RowFields DEF RowIds, TypeOK
  <1>4. rows[m] # NoRow /\ rows[m].id = pending[from[i]].dev
    BY <1>1, <1>2, <1>3 DEF RowsEvolve
  <1> QED BY <1>1, <1>4 DEF PendingAsked, HasId

LEMMA PendingAskedStep ==
    ASSUME TypeOK, RequestIds, RowIds, PendingAsked, RowsEvolve, [Next]_vars
    PROVE  PendingAsked'
  <1> USE PendingAskedKept, Unmoved
  <1>1. ASSUME NEW c \in Callers, InsertRequest(c) PROVE PendingAsked'
    <2>1. /\ rows' = rows /\ asked \subseteq asked'
          /\ \A m \in Mac : HasId(m, caller[c].dev) => <<m, caller[c].net>> \in asked'
      BY <1>1 DEF InsertRequest
    <2>2. CASE IsPending(caller[c].dev)
      BY <1>1, <2>1, <2>2, AskAgainStep
    <2>3. CASE ~IsPending(caller[c].dev)
      <3> DEFINE k == Len(pending) + 1
      <3>1. /\ Len(pending') = k /\ pending'[k].net = caller[c].net /\ pending'[k].dev = caller[c].dev
            /\ \A i \in 1..Len(pending) : pending'[i] = pending[i]
        BY <1>1, <2>3, InsertStep
      <3>2. \A i \in 1..k : i = k \/ i \in 1..Len(pending)
        BY DEF TypeOK
      <3> HIDE DEF k
      <3> QED BY <2>1, <3>1, <3>2 DEF PendingAsked, HasId
    <2> QED BY <2>2, <2>3
  <1>2. ASSUME NEW m \in Mac, DeleteDevice(m) PROVE PendingAsked'
    BY <1>2, DeleteStep
  <1>3. ASSUME NEW m \in Mac, ArchiveDevice(m) \/ RestoreDevice(m) PROVE PendingAsked'
    BY <1>3 DEF ArchiveDevice, RestoreDevice
  <1>4. ASSUME NEW c \in Callers, RefuseRequest(c) \/ \E m \in Mac : SelectUnblocked(c, m)
        PROVE  PendingAsked'
    BY <1>4 DEF SelectUnblocked, RefuseRequest, table
  <1>5. ASSUME NEW w \in Workers, Start(w) \/ Stop(w) \/ CompletionFails(w) \/ BlockDevice(w)
        PROVE  PendingAsked'
    BY <1>5 DEF Start, Stop, CompletionFails, BlockDevice, table
  <1>6. ASSUME NEW w \in Workers, PendingDeviceControl(w) PROVE PendingAsked'
    BY <1>6, ClaimStep
  <1>7. ASSUME NEW w \in Workers, CompleteDeviceControl(w) PROVE PendingAsked'
    BY <1>7, CompleteStep DEF CompleteDeviceControl
  <1>8. ASSUME NEW w \in Workers, NEW m \in Mac, NEW ssid \in Listed, RecordDevice(w, m, ssid)
        PROVE  PendingAsked'
    BY <1>8, RecordStep
  <1>9. ASSUME NEW i \in 1..MaxRequests, LeaseExpires(i) PROVE PendingAsked'
    <2>1. pending \in Seq(Pending) /\ FALSE \in BOOLEAN
      BY DEF TypeOK
    <2>2. Reordered
      BY <1>9, <2>1, LeaseStep DEF LeaseExpires
    <2> QED BY <1>9, <2>2 DEF LeaseExpires
  <1>10. CASE UNCHANGED vars
    BY <1>10 DEF vars, table
  <1> QED
    BY ONLY <1>1, <1>2, <1>3, <1>4, <1>5, <1>6, <1>7, <1>8, <1>9, <1>10, [Next]_vars
       DEF Next, Users, WorkerLoop

-----------------------------------------------------------------------------
(* What is recorded as done.                                               *)

LEMMA AnsweredKept ==
    ASSUME TypeOK, AnsweredExist, DoneMeansBlocked, answered' \subseteq answered,
           \A m \in Mac : rows[m] # NoRow /\ (\E a \in answered' : a.dev = rows[m].id) =>
              /\ rows'[m] # NoRow /\ rows'[m].id = rows[m].id
              /\ rows[m].blocked => rows'[m].blocked
    PROVE  AnsweredExist' /\ DoneMeansBlocked'
  <1>1. ASSUME NEW a \in answered'
        PROVE  \E m \in Mac : rows'[m] # NoRow /\ rows'[m].id = a.dev
    <2> PICK m \in Mac : rows[m] # NoRow /\ rows[m].id = a.dev
      BY <1>1 DEF AnsweredExist, Exists, HasId
    <2> QED BY <1>1
  <1>2. ASSUME NEW a \in answered', a.ok
        PROVE  \E m \in Mac : rows'[m] # NoRow /\ rows'[m].id = a.dev /\ rows'[m].blocked
    <2> PICK m \in Mac : rows[m] # NoRow /\ rows[m].id = a.dev /\ rows[m].blocked
      BY <1>2 DEF DoneMeansBlocked, Blocked, HasId
    <2> QED BY <1>2
  <1> QED BY <1>1, <1>2 DEF AnsweredExist, DoneMeansBlocked, Exists, Blocked, HasId

LEMMA CompleteAnswered ==
    ASSUME TypeOK, RequestIds, AnsweredExist, DoneMeansBlocked, NEW w \in Workers, CompleteDeviceControl(w)
    PROVE  AnsweredExist' /\ DoneMeansBlocked'
  <1> DEFINE r == worker[w].req
             d == worker[w].dev
             done == [req |-> r, dev |-> d, ok |-> worker[w].ok]
             known == \/ \E i \in 1..Len(pending) : pending[i].req = r
                      \/ \E a \in answered : a.req = r
  <1>1. answered' = IF known THEN {a \in answered : a.req # r} \union {done} ELSE answered
    BY DEF CompleteDeviceControl
  <1>2. /\ SameIds
        /\ \A n \in Mac : rows[n] # NoRow =>
              IF worker[w].ok /\ rows[n].id = d
              THEN rows'[n].blocked ELSE rows'[n].blocked = rows[n].blocked
    BY CompleteStep, MarkStep
  <1>3. Busy(w)
    BY DEF CompleteDeviceControl, Busy
  <1>4. known => Exists(d)
    <2>1. ASSUME NEW i \in 1..Len(pending), pending[i].req = r PROVE Exists(d)
      <3>1. pending[i].dev = d
        BY <1>3, <2>1, KnownMembers DEF RequestIds
      <3> QED BY <3>1 DEF TypeOK
    <2>2. ASSUME NEW a \in answered, a.req = r PROVE Exists(d)
      <3>1. a.dev = d
        BY <1>3, <2>2, KnownMembers DEF RequestIds
      <3> QED BY <3>1 DEF AnsweredExist
    <2> QED BY <2>1, <2>2
  <1>5. done.dev = d /\ done.ok = worker[w].ok
    OBVIOUS
  <1> HIDE DEF done, known, r
  <1>6. \A a \in answered' : a \in answered \/ (a = done /\ known)
    BY <1>1
  <1>7. \A m \in Mac : rows[m] # NoRow =>
           /\ rows'[m] # NoRow /\ rows'[m].id = rows[m].id
           /\ rows[m].blocked => rows'[m].blocked
    BY <1>2 DEF SameIds
  <1>8. ASSUME NEW a \in answered'
        PROVE  \E m \in Mac : rows'[m] # NoRow /\ rows'[m].id = a.dev
    <2>1. \E m \in Mac : rows[m] # NoRow /\ rows[m].id = a.dev
      BY <1>4, <1>5, <1>6, <1>8 DEF AnsweredExist, Exists, HasId
    <2> QED BY <1>7, <2>1
  <1>9. ASSUME NEW a \in answered', a.ok
        PROVE  \E m \in Mac : rows'[m] # NoRow /\ rows'[m].id = a.dev /\ rows'[m].blocked
    <2>1. CASE a \in answered
      <3> PICK m \in Mac : rows[m] # NoRow /\ rows[m].id = a.dev /\ rows[m].blocked
        BY <1>9, <2>1 DEF DoneMeansBlocked, Blocked, HasId
      <3> QED BY <1>7
    <2>2. CASE a = done /\ known
      <3>1. worker[w].ok
        BY <1>5, <1>9, <2>2, Zenon
      <3> PICK m \in Mac : rows[m] # NoRow /\ rows[m].id = d
        BY <1>4, <2>2 DEF Exists, HasId
      <3>2. rows'[m].blocked
        BY <1>2, <3>1
      <3> QED BY <1>5, <1>7, <2>2, <3>2
    <2> QED BY <1>6, <1>9, <2>1, <2>2
  <1> QED BY <1>8, <1>9 DEF AnsweredExist, DoneMeansBlocked, Exists, Blocked, HasId

LEMMA AnsweredStep ==
    ASSUME TypeOK, RequestIds, AnsweredExist, DoneMeansBlocked, [Next]_vars
    PROVE  AnsweredExist' /\ DoneMeansBlocked'
  <1> USE AnsweredKept
  <1>1. ASSUME UNCHANGED <<rows, answered>> PROVE AnsweredExist' /\ DoneMeansBlocked'
    BY <1>1
  <1>2. ASSUME NEW m \in Mac, DeleteDevice(m) PROVE AnsweredExist' /\ DoneMeansBlocked'
    <2>1. answered' \subseteq answered /\ \A a \in answered' : a.dev # rows[m].id
      BY <1>2, DeleteStep
    <2>2. \A n \in Mac : n # m => rows'[n] = rows[n]
      BY <1>2, DeleteStep
    <2> QED BY <2>1, <2>2
  <1>3. ASSUME NEW m \in Mac, ArchiveDevice(m) \/ RestoreDevice(m)
        PROVE  AnsweredExist' /\ DoneMeansBlocked'
    <2>1. answered' = answered
      BY <1>3 DEF ArchiveDevice, RestoreDevice
    <2> QED BY <1>3, <2>1, ArchiveRestoreStep DEF SameIds
  <1>4. ASSUME NEW c \in Callers,
               InsertRequest(c) \/ RefuseRequest(c) \/ \E m \in Mac : SelectUnblocked(c, m)
        PROVE  AnsweredExist' /\ DoneMeansBlocked'
    BY <1>1, <1>4 DEF InsertRequest, SelectUnblocked, RefuseRequest, table
  <1>5. ASSUME NEW w \in Workers, Start(w) \/ Stop(w) \/ CompletionFails(w) \/ BlockDevice(w)
        PROVE  AnsweredExist' /\ DoneMeansBlocked'
    BY <1>1, <1>5 DEF Start, Stop, CompletionFails, BlockDevice, table
  <1>6. ASSUME NEW w \in Workers, PendingDeviceControl(w) PROVE AnsweredExist' /\ DoneMeansBlocked'
    BY <1>1, <1>6 DEF PendingDeviceControl
  <1>7. ASSUME NEW w \in Workers, CompleteDeviceControl(w) PROVE AnsweredExist' /\ DoneMeansBlocked'
    BY <1>7, CompleteAnswered
  <1>8. ASSUME NEW w \in Workers, NEW m \in Mac, NEW ssid \in Listed, RecordDevice(w, m, ssid)
        PROVE  AnsweredExist' /\ DoneMeansBlocked'
    <2>1. answered' = answered
      BY <1>8, RecordStep
    <2> QED BY <1>8, <2>1, RecordStep
  <1>9. CASE (\E i \in 1..MaxRequests : LeaseExpires(i)) \/ UNCHANGED vars
    BY <1>1, <1>9 DEF LeaseExpires, vars, table
  <1> QED
    BY ONLY <1>2, <1>3, <1>4, <1>5, <1>6, <1>7, <1>8, <1>9, [Next]_vars DEF Next, Users, WorkerLoop

-----------------------------------------------------------------------------
LEMMA InitInv == Init => IInv
  <1> SUFFICES ASSUME Init PROVE IInv
    OBVIOUS
  <1>1. TypeOK
    <2>1. rows \in [Mac -> Row \union {NoRow}] /\ ids \in [row : Nat, req : Nat] /\ crashes \in Nat
          /\ filter \subseteq Mac \X Network /\ asked \subseteq Mac \X Network
          /\ answered \in SUBSET Answered
      BY DEF Init
    <2>2. caller \in [Callers -> Call]
      BY DEF Init, Call
    <2>3. worker \in [Workers -> Process]
      BY DEF Init, Process, Down
    <2>4. pending \in Seq(Pending) /\ Len(pending) = 0
      BY DEF Init
    <2> QED BY <2>1, <2>2, <2>3, <2>4 DEF TypeOK
  <1>2. RowIds /\ AnsweredExist /\ DoneMeansBlocked
    BY DEF Init, RowIds, AnsweredExist, DoneMeansBlocked
  <1>3. \A w \in Workers : worker[w].pc = "down"
    BY DEF Init, Down
  <1>4. HeldRequests
    BY <1>3 DEF HeldRequests, HeldBy, Busy
  <1>5. Len(pending) = 0 /\ answered = {}
    BY DEF Init
  <1>6. PendingAsked
    BY <1>5 DEF PendingAsked
  <1>7. Known = {}
    BY <1>3, <1>5 DEF Known, Busy
  <1>8. RequestIds
    BY <1>7 DEF RequestIds
  <1> QED BY <1>1, <1>2, <1>4, <1>6, <1>8 DEF IInv

LEMMA Step == IInv /\ [Next]_vars => IInv'
  <1> SUFFICES ASSUME IInv, [Next]_vars PROVE IInv'
    OBVIOUS
  <1> USE DEF IInv
  <1>1. TypeOK'
    BY TypeStep
  <1>2. RowsEvolve
    BY Evolution
  <1>3. RowIds'
    BY <1>1, <1>2, RowIdsStep
  <1>4. RequestIds'
    BY <1>1, RequestIdsStep
  <1>5. HeldRequests'
    BY <1>1, <1>2, HeldStep
  <1>6. PendingAsked'
    BY <1>2, PendingAskedStep
  <1>7. AnsweredExist' /\ DoneMeansBlocked'
    BY AnsweredStep
  <1> QED BY <1>1, <1>3, <1>4, <1>5, <1>6, <1>7

LEMMA Inductive == Spec => []IInv
  BY InitInv, Step, PTL DEF Spec

(* At most one request per device is pending, and none without its row,    *)
(* under any interleaving of users, collections and workers.               *)
THEOREM TypeCorrect == Spec => []TypeOK
  <1>1. IInv => TypeOK
    BY DEF IInv
  <1> QED BY <1>1, Inductive, PTL

(* A request recorded as done has left its device marked blocked,          *)
(* whichever workers claimed it and completed it, and whatever became of   *)
(* the device meanwhile.                                                   *)
THEOREM DoneIsBlocked == Spec => []DoneMeansBlocked
  <1>1. IInv => DoneMeansBlocked
    BY DEF IInv
  <1> QED BY <1>1, Inductive, PTL

-----------------------------------------------------------------------------
(* The refinement of BlockPromise.                                         *)

Shown == {m \in Mac : rows[m] # NoRow /\ rows[m].blocked}

PromiseStep == Promise!Next \/ UNCHANGED <<asked, filter, Shown>>

LEMMA ShownKept ==
    ASSUME SameIds,
           \A n \in Mac : rows[n] # NoRow => rows'[n].blocked = rows[n].blocked
    PROVE  Shown' = Shown
  <1>1. \A n \in Mac : n \in Shown' <=> n \in Shown
    BY DEF SameIds, Shown
  <1> QED BY <1>1 DEF Shown

LEMMA AskPromise ==
    ASSUME IInv, NEW c \in Callers, InsertRequest(c)
    PROVE  PromiseStep
  <1> DEFINE net == caller[c].net
  <1> PICK m \in Mac : HasId(m, caller[c].dev)
    BY DEF InsertRequest, Exists
  <1>1. net \in Network
    BY CallFields DEF IInv, InsertRequest, NoCall
  <1>2. \A n \in Mac : HasId(n, caller[c].dev) => n = m
    BY DEF IInv, RowIds, HasId
  <1>3. asked' = asked \union {<<m, net>>}
    BY <1>2 DEF InsertRequest
  <1>4. UNCHANGED <<filter, Shown>>
    BY DEF InsertRequest, Shown
  <1>5. Promise!Ask(m, net)
    BY <1>3, <1>4 DEF Promise!Ask, Shown
  <1> QED BY <1>1, <1>5 DEF PromiseStep, Promise!Next

LEMMA ApplyPromise ==
    ASSUME IInv, NEW w \in Workers, BlockDevice(w)
    PROVE  PromiseStep
  <1>1. /\ worker[w].mac \in Mac /\ worker[w].net \in Network
        /\ <<worker[w].mac, worker[w].net>> \in asked
    BY ProcessFields DEF IInv, BlockDevice, Busy, HeldRequests, HeldBy
  <1>2. UNCHANGED <<asked, Shown>>
    BY DEF BlockDevice, table, Shown
  <1>3. CASE filter' = filter
    BY <1>2, <1>3 DEF PromiseStep
  <1>4. CASE filter' = filter \union {<<worker[w].mac, worker[w].net>>}
    <2>1. Promise!Apply(worker[w].mac, worker[w].net)
      BY <1>1, <1>2, <1>4 DEF Promise!Apply, Shown
    <2> QED BY <1>1, <2>1 DEF PromiseStep, Promise!Next
  <1> QED BY <1>3, <1>4 DEF BlockDevice, RequestedNetwork

LEMMA ShowPromise ==
    ASSUME IInv, NEW w \in Workers, CompleteDeviceControl(w)
    PROVE  PromiseStep
  <1> DEFINE d == worker[w].dev
             m == worker[w].mac
  <1>1. UNCHANGED <<asked, filter>> /\ Busy(w) /\ worker[w].pc = "sent"
    BY DEF CompleteDeviceControl, Busy
  <1>2. /\ SameIds
        /\ \A n \in Mac : rows[n] # NoRow =>
              IF worker[w].ok /\ rows[n].id = d
              THEN rows'[n].blocked ELSE rows'[n].blocked = rows[n].blocked
    BY CompleteStep, MarkStep DEF IInv
  <1>3. m \in Mac /\ \A n \in Mac : HasId(n, d) => n = m
    BY <1>1, ProcessFields DEF IInv, HeldRequests, HeldBy
  <1>4. CASE worker[w].ok /\ HasId(m, d)
    <2>1. \A n \in Mac : n \in Shown' <=> n \in Shown \/ n = m
      BY <1>2, <1>3, <1>4 DEF SameIds, Shown, HasId
    <2>2. Shown' = Shown \union {m}
      BY <1>3, <2>1 DEF Shown
    <2>3. PICK n \in Network : <<m, n>> \in filter
      BY <1>1, <1>4 DEF IInv, HeldRequests, HeldBy
    <2>4. Promise!Show(m, n)
      BY <1>1, <2>2, <2>3 DEF Promise!Show, Shown
    <2> QED BY <1>3, <2>4 DEF PromiseStep, Promise!Next
  <1>5. CASE ~(worker[w].ok /\ HasId(m, d))
    <2>1. \A n \in Mac : rows[n] # NoRow => ~(worker[w].ok /\ rows[n].id = d)
      BY <1>3, <1>5 DEF HasId
    <2>2. \A n \in Mac : rows[n] # NoRow => rows'[n].blocked = rows[n].blocked
      BY <1>2, <2>1
    <2>3. Shown' = Shown
      BY <1>2, <2>2, ShownKept
    <2> QED BY <1>1, <2>3 DEF PromiseStep
  <1> QED BY <1>4, <1>5

LEMMA ForgetPromise ==
    ASSUME IInv, NEW m \in Mac, DeleteDevice(m)
    PROVE  PromiseStep
  <1>1. /\ rows'[m] = NoRow /\ \A n \in Mac : n # m => rows'[n] = rows[n]
        /\ UNCHANGED <<asked, filter>>
    BY DeleteStep DEF IInv
  <1>2. Shown' = Shown \ {m}
    BY <1>1 DEF Shown
  <1>3. Promise!Forget(m)
    BY <1>1, <1>2 DEF Promise!Forget, Shown
  <1>4. RouterSSIDName \in Network
    BY DEF Network
  <1> QED BY <1>3, <1>4 DEF PromiseStep, Promise!Next

LEMMA RefineNext == IInv /\ [Next]_vars => [Promise!Next]_(Promise!promise)
  <1> SUFFICES ASSUME IInv, [Next]_vars PROVE PromiseStep
    BY DEF PromiseStep, Promise!promise, Shown
  <1>1. ASSUME UNCHANGED <<rows, filter, asked>> PROVE PromiseStep
    BY <1>1 DEF PromiseStep, Shown
  <1>2. ASSUME NEW m \in Mac, ArchiveDevice(m) \/ RestoreDevice(m) PROVE PromiseStep
    <2>1. Shown' = Shown
      BY <1>2, ArchiveRestoreStep, ShownKept DEF IInv
    <2> QED BY <1>2, <2>1 DEF ArchiveDevice, RestoreDevice, PromiseStep
  <1>3. ASSUME NEW m \in Mac, DeleteDevice(m) PROVE PromiseStep
    BY <1>3, ForgetPromise
  <1>4. ASSUME NEW c \in Callers, InsertRequest(c) PROVE PromiseStep
    BY <1>4, AskPromise
  <1>5. ASSUME NEW c \in Callers, RefuseRequest(c) \/ \E m \in Mac : SelectUnblocked(c, m)
        PROVE  PromiseStep
    BY <1>1, <1>5 DEF SelectUnblocked, RefuseRequest, table
  <1>6. ASSUME NEW w \in Workers, Start(w) \/ Stop(w) \/ CompletionFails(w) \/ PendingDeviceControl(w)
        PROVE  PromiseStep
    BY <1>1, <1>6 DEF Start, Stop, CompletionFails, PendingDeviceControl, table
  <1>7. ASSUME NEW w \in Workers, BlockDevice(w) PROVE PromiseStep
    BY <1>7, ApplyPromise
  <1>8. ASSUME NEW w \in Workers, CompleteDeviceControl(w) PROVE PromiseStep
    BY <1>8, ShowPromise
  <1>9. ASSUME NEW w \in Workers, NEW m \in Mac, NEW ssid \in Listed, RecordDevice(w, m, ssid)
        PROVE  PromiseStep
    <2>1. \A n \in Mac : n \in Shown' <=> n \in Shown
      BY <1>9, RecordStep DEF IInv, Shown
    <2>2. Shown' = Shown
      BY <2>1 DEF Shown
    <2> QED BY <1>9, <2>2 DEF RecordDevice, PromiseStep
  <1>10. CASE (\E i \in 1..MaxRequests : LeaseExpires(i)) \/ UNCHANGED vars
    BY <1>1, <1>10 DEF LeaseExpires, vars, table
  <1> QED
    BY ONLY <1>2, <1>3, <1>4, <1>5, <1>6, <1>7, <1>8, <1>9, <1>10, [Next]_vars
       DEF Next, Users, WorkerLoop

(* Nothing is filtered that nobody asked for on that network, and nothing  *)
(* is shown as blocked that was not filtered: the worker, its leases, its  *)
(* crashes and the life of the rows implement BlockPromise.                *)
THEOREM Refinement == Spec => KeepsPromise
  <1>1. Init => Promise!Init
    BY DEF Init, Promise!Init
  <1> QED BY <1>1, Inductive, RefineNext, PTL DEF Spec, KeepsPromise, Promise!Spec
=============================================================================
