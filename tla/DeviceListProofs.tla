--------------------------- MODULE DeviceListProofs ---------------------------
(* Proofs about DeviceList, for every set of devices, every page the       *)
(* router may send, any number of rows, instants and answers under way.    *)
EXTENDS DeviceList, WellFoundedInduction, FiniteSetTheorems, SequenceTheorems, TLAPS

(* Ids are given out in order, to one device each.                         *)
RowIds ==
    /\ \A m \in Mac : rows[m] # NoRow => rows[m].id < nextId
    /\ \A m, n \in Mac :
          rows[m] # NoRow /\ rows[n] # NoRow /\ rows[m].id = rows[n].id => m = n

(* A device has a reading of an instant exactly if the snapshot stored     *)
(* with that instant knows it, and the reading says what that says.        *)
Knows(t, d) == snapshots[t] # NoSnapshot /\ d \in snapshots[t].ids

Recorded ==
    /\ \A t \in Time, d \in Id : Knows(t, d) => \E r \in readings : r.dev = d /\ r.at = t
    /\ \A r \in readings : /\ Knows(r.at, r.dev)
                           /\ r.online <=> r.dev \in snapshots[r.at].online
    /\ \A t \in Time, d \in Id : Knows(t, d) => d \in Ids

(* While answers come in order, what one lists as active and was never     *)
(* hidden is active in the table and in every later answer, and so is what *)
(* the browser has once known.                                             *)
ActiveNow(d) == \E m \in Mac : HasId(m, d) /\ ~rows[m].archived

Lists(d, i) == d \in ActiveIds(inFlight[i])

AnswersInOrder ==
    \A i \in 1..Len(inFlight), d \in Id : Lists(d, i) /\ d \notin hidden =>
        /\ ActiveNow(d)
        /\ \A j \in i..Len(inFlight) : Lists(d, j)

Remembered ==
    /\ steady \subseteq known
    /\ \A d \in steady : /\ d \notin hidden /\ ActiveNow(d)
                         /\ \A i \in 1..Len(inFlight) : Lists(d, i)

Alerts == ~repeated /\ (~overtaken => AnswersInOrder /\ Remembered)

IInv == TypeOK /\ RowIds /\ Recorded /\ Alerts

-----------------------------------------------------------------------------
(* Least elements, and sequences without one element. *)

LEMMA Least ==
    ASSUME NEW S, S \subseteq Nat, S # {}
    PROVE  \E x \in S : \A y \in S : x <= y
<1> DEFINE R == OpToRel(<, Nat)
<1>1. IsWellFoundedOn(R, Nat)
    BY NatLessThanWellFounded
<1>2. \A x, y \in Nat : x < y => <<x, y>> \in R
    BY DEF OpToRel
<1> HIDE DEF R
<1>3. PICK x \in S : \A y \in S : ~(<<y, x>> \in R)
    BY <1>1, WFMin
<1>4. ASSUME NEW y \in S PROVE x <= y
    <2>1. x \in Nat /\ y \in Nat
        OBVIOUS
    <2>2. ~(y < x)
        BY <1>2, <1>3, <2>1
    <2> QED BY <2>1, <2>2
<1> QED BY <1>4

LEMMA MinIsLeast ==
    ASSUME NEW S, S \subseteq Nat, S # {}
    PROVE  Min(S) \in S /\ \A y \in S : Min(S) <= y
BY Least DEF Min

LEMMA RemovedAt ==
    ASSUME NEW T, NEW s \in Seq(T), NEW i \in 1..Len(s)
    PROVE  LET n == RemoveAt(s, i)
           IN  /\ n \in Seq(T) /\ Len(n) = Len(s) - 1
               /\ \A j \in 1..Len(n) : n[j] = s[IF j < i THEN j ELSE j + 1]
<1> DEFINE a == SubSeq(s, 1, i-1)
           b == SubSeq(s, i+1, Len(s))
<1>1. a \in Seq(T) /\ Len(a) = i-1 /\ \A j \in 1..(i-1) : a[j] = s[j]
    BY SubSeqProperties
<1>2. b \in Seq(T) /\ Len(b) = Len(s) - i /\ \A j \in 1..(Len(s) - i) : b[j] = s[i + j]
    BY SubSeqProperties
<1> HIDE DEF a, b
<1>3. a \o b \in Seq(T)
    BY <1>1, <1>2, ConcatProperties
<1>4. Len(a \o b) = Len(s) - 1
    <2>1. Len(a \o b) = Len(a) + Len(b)
        BY <1>1, <1>2, ConcatProperties
    <2> QED BY <1>1, <1>2, <2>1
<1>5. \A j \in 1..(Len(s) - 1) : (a \o b)[j] = IF j < i THEN a[j] ELSE b[j - (i-1)]
    <2>1. \A j \in 1 .. Len(a) + Len(b) :
             (a \o b)[j] = IF j <= Len(a) THEN a[j] ELSE b[j - Len(a)]
        BY <1>1, <1>2, ConcatProperties
    <2> QED BY <1>1, <1>2, <2>1
<1>6. RemoveAt(s, i) = a \o b
    BY DEF RemoveAt, a, b
<1>7. ASSUME NEW j \in 1..(Len(s) - 1)
      PROVE  (a \o b)[j] = s[IF j < i THEN j ELSE j + 1]
    <2>1. CASE j < i
        BY <1>1, <1>5, <2>1
    <2>2. CASE ~(j < i)
        <3>1. j - (i-1) \in 1..(Len(s) - i) /\ i + (j - (i-1)) = j + 1
            BY <2>2
        <3> QED BY <1>2, <1>5, <2>2, <3>1
    <2> QED BY <2>1, <2>2
<1> QED BY <1>3, <1>4, <1>6, <1>7

-----------------------------------------------------------------------------
(* The parser.  Of the places that name a device one comes before all      *)
(* others, and it is the one whose record the parser takes.                *)
LEMMA FirstPrecedes ==
    ASSUME NEW records \in Seq(Record), NEW m,
           NEW i \in 1..Len(records), Address(records[i]) = m
    PROVE  \E f \in 1..Len(records) :
              /\ FirstRecord(records, m) = records[f] /\ Address(records[f]) = m
              /\ \A j \in 1..Len(records) :
                    Address(records[j]) = m /\ j # f => Precedes(records, f, j)
<1> DEFINE places == Places(records, m, "userDevInfo")
           others == Places(records, m, "USERDevice")
           f == Min(IF places # {} THEN places ELSE others)
<1>1. \A j \in 1..Len(records) :
         /\ records[j].kind \in {"userDevInfo", "USERDevice"}
         /\ Address(records[j]) = m => j \in places \/ j \in others
    <2>1. \A j \in 1..Len(records) : records[j] \in Record
        OBVIOUS
    <2> QED BY <2>1 DEF Record, Places
<1>2. /\ places \subseteq Nat /\ others \subseteq Nat
      /\ \A j \in places : /\ j \in 1..Len(records) /\ records[j].kind = "userDevInfo"
                           /\ Address(records[j]) = m
      /\ \A j \in others : /\ j \in 1..Len(records) /\ records[j].kind = "USERDevice"
                           /\ Address(records[j]) = m
    BY DEF Places
<1>3. FirstRecord(records, m) = records[f]
    BY DEF FirstRecord
<1> HIDE DEF places, others
<1>4. CASE places # {}
    <2>1. f \in places /\ \A j \in places : f <= j
        BY <1>2, <1>4, MinIsLeast
    <2> HIDE DEF f
    <2> QED BY <1>1, <1>2, <1>3, <2>1 DEF Precedes
<1>5. CASE places = {}
    <2>1. f \in others /\ \A j \in others : f <= j
        <3>1. others # {} /\ others \subseteq Nat /\ f = Min(others)
            BY <1>1, <1>2, <1>5
        <3>2. Min(others) \in others /\ \A j \in others : Min(others) <= j
            BY <3>1, MinIsLeast
        <3> QED BY <3>1, <3>2
    <2> HIDE DEF f
    <2> QED BY <1>1, <1>2, <1>3, <1>5, <2>1 DEF Precedes
<1> QED BY <1>4, <1>5

(* What the parser makes of a page is what the page says, in whatever      *)
(* order and kinds of record it names its devices (parseHuaweiUserDevices).*)
LEMMA ParsedAsSaid ==
    ASSUME NEW page \in Pages
    PROVE  LET l == Listing(page)
           IN  l.listed \subseteq Mac /\ l.online \subseteq l.listed /\ l.said = l.online
<1> DEFINE records == page.records
           devices == ParseUserDevices(records)
           D == DOMAIN devices
<1>1. records \in Seq(Record)
    BY DEF Pages, BoundedSeq, SeqOf
<1>2. D = {Address(r) : r \in ToSet(records)} \intersect Mac
    BY DEF ParseUserDevices
<1>3. \A m \in D : devices[m] = FirstRecord(records, m).online
    BY <1>2 DEF ParseUserDevices
<1>4. \A m \in Mac : m \in D <=> \E i \in 1..Len(records) : Address(records[i]) = m
    BY <1>1, <1>2 DEF ToSet
<1>5. /\ Listing(page).listed = D /\ Listing(page).online = {m \in D : devices[m]}
      /\ Listing(page).said = SaysOnline(records)
    BY DEF Listing
<1> HIDE DEF records, devices, D
<1>6. ASSUME NEW m \in Mac PROVE m \in SaysOnline(records) <=> m \in D /\ devices[m]
    <2>1. CASE m \notin D
        BY <1>4, <2>1 DEF SaysOnline
    <2>2. CASE m \in D
        <3>1. PICK i \in 1..Len(records) : Address(records[i]) = m
            BY <1>4, <2>2
        <3>2. PICK f \in 1..Len(records) :
                 /\ FirstRecord(records, m) = records[f] /\ Address(records[f]) = m
                 /\ \A j \in 1..Len(records) :
                       Address(records[j]) = m /\ j # f => Precedes(records, f, j)
            BY <1>1, <3>1, FirstPrecedes
        <3>3. devices[m] = records[f].online
            BY <1>3, <2>2, <3>2
        <3>4. ASSUME NEW g \in 1..Len(records), Address(records[g]) = m,
                     \A j \in 1..Len(records) :
                        Address(records[j]) = m /\ j # g => Precedes(records, g, j)
              PROVE  g = f
            BY <1>1, <3>2, <3>4 DEF Precedes
        <3> QED BY <2>2, <3>2, <3>3, <3>4 DEF SaysOnline
    <2> QED BY <2>1, <2>2
<1>7. D \subseteq Mac
    BY <1>2
<1>8. SaysOnline(records) \subseteq Mac
    BY DEF SaysOnline
<1> QED BY <1>5, <1>6, <1>7, <1>8

-----------------------------------------------------------------------------
(* What a step leaves as it was. *)

LEMMA InitOK == Init => IInv
<1> SUFFICES ASSUME Init PROVE IInv
    OBVIOUS
<1> USE ListAssumption
<1>1. TypeOK
    BY DEF Init, TypeOK, Time, Ids, HasId
<1>2. RowIds
    BY DEF Init, RowIds
<1>3. Recorded
    BY DEF Init, Recorded, Knows
<1>4. ~repeated
    BY Zenon DEF Init
<1>5. AnswersInOrder /\ Remembered
    BY DEF Init, AnswersInOrder, Remembered
<1> QED BY <1>1, <1>2, <1>3, <1>4, <1>5 DEF IInv, Alerts

(* The table devices and its sequence stay.                                *)
LEMMA RowsKept ==
    ASSUME RowIds, UNCHANGED <<rows, nextId>>
    PROVE  RowIds' /\ Ids' = Ids /\ \A d \in Id : ActiveNow(d) => ActiveNow(d)'
BY DEF RowIds, Ids, HasId, ActiveNow

LEMMA TablesKept ==
    ASSUME Recorded, UNCHANGED <<rows, nextId, readings, snapshots>>
    PROVE  Recorded'
BY DEF Recorded, Ids, HasId, Knows

(* No step of the server but the one that hides a device takes an active   *)
(* one away.                                                               *)
LEMMA AlertsKept ==
    ASSUME TypeOK, Alerts, UNCHANGED <<browser, history>>,
           \A d \in Id : ActiveNow(d) => ActiveNow(d)'
    PROVE  Alerts'
<1>1. ~repeated'
    BY Zenon DEF Alerts, history
<1>2. ASSUME ~overtaken' PROVE AnswersInOrder /\ Remembered
    BY <1>2, Zenon DEF Alerts, history
<1>3. UNCHANGED <<inFlight, known, hidden, steady>>
    BY DEF browser, history
<1>4. ASSUME ~overtaken' PROVE AnswersInOrder'
    BY <1>2, <1>3, <1>4 DEF AnswersInOrder, Lists
<1>5. ASSUME ~overtaken' PROVE Remembered'
    <2>1. steady \subseteq Id
        BY DEF TypeOK
    <2> QED BY <1>2, <1>3, <1>5, <2>1 DEF Remembered, Lists
<1> QED BY <1>1, <1>4, <1>5 DEF Alerts

-----------------------------------------------------------------------------
(* RecordDevices.  The devices it inserts get the ids that follow, and     *)
(* after it every device of the table has exactly one reading with the     *)
(* timestamp of the snapshot, which says what the page says.               *)
LEMMA RecordedRows ==
    ASSUME TypeOK, RowIds, NEW listed \in SUBSET Mac,
           NEW newIds \in [{m \in listed : rows[m] = NoRow} -> Id],
           LET new == {m \in listed : rows[m] = NoRow}
           IN  /\ \A m, n \in new : newIds[m] = newIds[n] => m = n
               /\ {newIds[m] : m \in new} = nextId..(nextId + Cardinality(new) - 1)
               /\ nextId' = nextId + Cardinality(new),
           rows' = UpsertDevices(listed, newIds)
    PROVE  /\ rows' \in [Mac -> Row \union {NoRow}] /\ nextId' \in 1..(MaxRows + 1)
           /\ RowIds'
           /\ \A m \in listed : rows'[m] # NoRow
           /\ \A m \in Mac : rows'[m] # NoRow => m \in listed \/ rows[m] # NoRow
           /\ \A m \in Mac : rows[m] # NoRow =>
                 /\ rows'[m] # NoRow /\ rows'[m].id = rows[m].id
                 /\ ~rows[m].archived => ~rows'[m].archived
<1> DEFINE new == {m \in listed : rows[m] = NoRow}
           n == Cardinality(new)
<1> USE ListAssumption
<1>1. n \in Nat
    <2>1. IsFiniteSet(new)
        BY FS_Subset
    <2> QED BY <2>1, FS_CardinalityType
<1>2. /\ \A m \in new : newIds[m] \in Id /\ newIds[m] >= nextId /\ newIds[m] < nextId + n
      /\ \A k \in nextId..(nextId + n - 1) : k \in Id
    <2>1. {newIds[m] : m \in new} = nextId..(nextId + n - 1) /\ nextId \in Int
        BY DEF TypeOK
    <2>2. \A m \in new : newIds[m] \in Id
        OBVIOUS
    <2>3. \A m \in new : newIds[m] \in nextId..(nextId + n - 1)
        BY <2>1
    <2>4. \A k \in nextId..(nextId + n - 1) : k \in Id
        BY <2>1, <2>2
    <2> HIDE DEF new, n
    <2> QED BY <1>1, <2>1, <2>2, <2>3, <2>4
<1>3. \A m, k \in new : newIds[m] = newIds[k] => m = k
    OBVIOUS
<1>4. nextId' = nextId + n
    OBVIOUS
<1>5. \A m \in Mac : rows'[m] = IF m \notin listed THEN rows[m]
                                ELSE IF rows[m] = NoRow THEN [id |-> newIds[m], archived |-> FALSE]
                                     ELSE [rows[m] EXCEPT !.archived = FALSE]
    BY DEF UpsertDevices
<1>6. \A m \in Mac : rows[m] # NoRow => rows[m] \in Row
    BY DEF TypeOK
<1>7. \A m \in listed : rows[m] = NoRow <=> m \in new
    OBVIOUS
<1>8. DOMAIN rows' = Mac /\ rows' = [m \in Mac |-> rows'[m]]
    BY DEF UpsertDevices
<1> HIDE DEF new, n
<1>9. \A r \in Row : r # NoRow
    BY DEF Row, Id
<1>10. ASSUME NEW m \in Mac
       PROVE  /\ rows'[m] \in Row \union {NoRow}
              /\ m \in listed => rows'[m] # NoRow
              /\ rows'[m] # NoRow => m \in listed \/ rows[m] # NoRow
              /\ rows[m] # NoRow => /\ rows'[m] # NoRow /\ rows'[m].id = rows[m].id
                                    /\ ~rows[m].archived => ~rows'[m].archived
              /\ rows[m] = NoRow /\ rows'[m] # NoRow => m \in new /\ rows'[m].id = newIds[m]
    <2>1. CASE m \notin listed
        BY <1>5, <1>6, <1>9, <2>1
    <2>2. CASE m \in listed /\ rows[m] = NoRow
        <3>1. rows'[m] = [id |-> newIds[m], archived |-> FALSE] /\ newIds[m] \in Id
            BY <1>2, <1>5, <1>7, <2>2
        <3>2. rows'[m] \in Row /\ rows'[m].id = newIds[m]
            BY <3>1 DEF Row
        <3> QED BY <1>7, <1>9, <2>2, <3>2
    <2>3. CASE m \in listed /\ rows[m] # NoRow
        <3>1. rows'[m] = [rows[m] EXCEPT !.archived = FALSE] /\ rows[m] \in Row
            BY <1>5, <1>6, <2>3
        <3>2. rows'[m] \in Row /\ rows'[m].id = rows[m].id
            BY <3>1 DEF Row
        <3>3. ~rows'[m].archived
            BY <3>1 DEF Row
        <3> QED BY <1>9, <2>3, <3>2, <3>3
    <2> QED BY <2>1, <2>2, <2>3
<1>11. rows' \in [Mac -> Row \union {NoRow}]
    BY <1>8, <1>10
<1>12. nextId' \in 1..(MaxRows + 1)
    <2>1. nextId \in 1..(MaxRows + 1)
        BY DEF TypeOK
    <2>2. CASE n = 0
        BY <1>4, <2>1, <2>2
    <2>3. CASE n # 0
        <3>1. nextId + n - 1 \in Id
            BY <1>1, <1>2, <2>1, <2>3
        <3> QED BY <1>1, <1>4, <2>1, <3>1 DEF Id
    <2> QED BY <2>2, <2>3
<1>13. RowIds'
    <2>1. nextId \in Int /\ \A m \in Mac : rows[m] # NoRow => rows[m].id \in Int
        BY <1>6 DEF TypeOK, Row, Id
    <2>2. ASSUME NEW m \in Mac, rows'[m] # NoRow PROVE rows'[m].id < nextId'
        <3>1. CASE rows[m] # NoRow
            BY <1>1, <1>4, <1>10, <2>1, <3>1 DEF RowIds
        <3>2. CASE rows[m] = NoRow
            BY <1>2, <1>4, <1>10, <2>2, <3>2
        <3> QED BY <3>1, <3>2
    <2>3. ASSUME NEW m \in Mac, NEW k \in Mac, rows'[m] # NoRow, rows'[k] # NoRow,
                 rows'[m].id = rows'[k].id
          PROVE  m = k
        <3>1. \A j \in Mac : rows[j] # NoRow => rows'[j].id < nextId
            BY <1>10 DEF RowIds
        <3>2. \A j \in Mac : rows[j] = NoRow /\ rows'[j] # NoRow =>
                 j \in new /\ rows'[j].id = newIds[j] /\ newIds[j] >= nextId
            BY <1>2, <1>10
        <3>3. newIds \in [new -> Id]
            BY DEF new
        <3>4. CASE rows[m] # NoRow /\ rows[k] # NoRow
            BY <1>10, <2>3, <3>4 DEF RowIds
        <3>5. CASE rows[m] = NoRow /\ rows[k] = NoRow
            BY <1>3, <2>3, <3>2, <3>5
        <3>6. CASE rows[m] # NoRow /\ rows[k] = NoRow
            <4>1. newIds[k] \in Int /\ rows'[m].id \in Int
                BY <1>10, <2>1, <2>3, <3>2, <3>3, <3>6 DEF Id
            <4> QED BY <2>1, <2>3, <3>1, <3>2, <3>6, <4>1
        <3>7. CASE rows[m] = NoRow /\ rows[k] # NoRow
            <4>1. newIds[m] \in Int /\ rows'[k].id \in Int
                BY <1>10, <2>1, <2>3, <3>2, <3>3, <3>7 DEF Id
            <4> QED BY <2>1, <2>3, <3>1, <3>2, <3>7, <4>1
        <3> QED BY <3>4, <3>5, <3>6, <3>7
    <2> QED BY <2>2, <2>3 DEF RowIds
<1> QED BY <1>10, <1>11, <1>12, <1>13

LEMMA RecordedReadings ==
    ASSUME TypeOK, RowIds, Recorded,
           RowIds', \A m \in Mac : rows'[m] # NoRow => rows'[m] \in Row,
           \A m \in Mac : rows[m] # NoRow => rows'[m] # NoRow /\ rows'[m].id = rows[m].id,
           NEW listed \in SUBSET Mac, NEW online \in SUBSET listed,
           \A m \in listed : rows'[m] # NoRow,
           \A m \in Mac : rows'[m] # NoRow => m \in listed \/ rows[m] # NoRow,
           readings' = UpsertReadings(
                           UpsertReadings(MarkAbsent(readings, wall),
                                          {rows'[m].id : m \in online}, wall, TRUE),
                           {rows'[m].id : m \in listed \ online}, wall, FALSE),
           snapshots' = [snapshots EXCEPT ![wall] =
                           [ids |-> {rows'[m].id : m \in {n \in Mac : rows'[n] # NoRow}},
                            online |-> {rows'[m].id : m \in online}]]
    PROVE  /\ readings' \subseteq Reading
           /\ snapshots' \in [Time -> Snapshot \union {NoSnapshot}]
           /\ \A q, r \in readings' : q.dev = r.dev /\ q.at = r.at => q = r
           /\ \A r \in readings' : r.dev \in Ids'
           /\ Recorded'
<1> USE ListAssumption
<1> DEFINE here == {rows'[m].id : m \in online}
           away == {rows'[m].id : m \in listed \ online}
           all == {rows'[m].id : m \in {n \in Mac : rows'[n] # NoRow}}
<1>1. wall \in Time
    BY DEF TypeOK
<1>2. all = Ids' /\ Ids' \subseteq Id
    <2>1. \A m \in Mac : rows'[m] # NoRow => rows'[m].id \in Id
        BY DEF Row
    <2> QED BY <2>1 DEF Ids, HasId
<1>3. Ids \subseteq Ids'
    BY DEF Ids, HasId
<1>4. here \subseteq Ids' /\ away \subseteq Ids'
    BY <1>2
<1>5. Ids' \subseteq Ids \union here \union away
    <2>1. ASSUME NEW d \in Ids', d \notin here, d \notin away PROVE d \in Ids
        <3>1. PICK m \in Mac : rows'[m] # NoRow /\ rows'[m].id = d
            BY DEF Ids, HasId
        <3>2. m \notin listed
            BY <2>1, <3>1
        <3> QED BY <1>2, <3>1, <3>2 DEF Ids, HasId
    <2> QED BY <2>1
<1>6. here \intersect away = {}
    BY DEF RowIds
<1>7. snapshots' = [snapshots EXCEPT ![wall] = [ids |-> all, online |-> here]]
    OBVIOUS
<1>8. readings' = UpsertReadings(
                      UpsertReadings(UpsertReadings(readings, Ids, wall, FALSE), here, wall, TRUE),
                      away, wall, FALSE)
    BY DEF MarkAbsent
<1> HIDE DEF here, away, all
<1> DEFINE on(d) == [dev |-> d, at |-> wall, online |-> TRUE]
           off(d) == [dev |-> d, at |-> wall, online |-> FALSE]
<1>9. \A r \in readings : r \in Reading /\ r.dev \in Ids
    BY DEF TypeOK
<1>10. ASSUME NEW r \in readings'
       PROVE  \/ r \in readings /\ r.at # wall
              \/ r.dev \in Ids' /\ r.dev \in here /\ r = on(r.dev)
              \/ r.dev \in Ids' /\ r.dev \notin here /\ r = off(r.dev)
    <2>1. CASE \E d \in away : r = off(d)
        BY <1>4, <1>6, <2>1
    <2>2. CASE \E d \in here : r = on(d)
        BY <1>4, <2>2
    <2>3. CASE \E d \in Ids : r = off(d) /\ d \notin here
        BY <1>3, <2>3
    <2>4. CASE /\ r \in readings /\ (r.dev \notin Ids \/ r.at # wall)
        BY <1>9, <2>4
    <2>5. r \in UpsertReadings(UpsertReadings(readings, Ids, wall, FALSE), here, wall, TRUE)
             \/ \E d \in away : r = off(d)
        BY <1>8 DEF UpsertReadings
    <2>6. \/ \E d \in away : r = off(d)
          \/ \E d \in here : r = on(d)
          \/ /\ r \in UpsertReadings(readings, Ids, wall, FALSE)
             /\ r.dev \notin here \/ r.at # wall
        BY <2>5 DEF UpsertReadings
    <2>7. \/ \E d \in away : r = off(d)
          \/ \E d \in here : r = on(d)
          \/ \E d \in Ids : r = off(d) /\ d \notin here
          \/ r \in readings /\ (r.dev \notin Ids \/ r.at # wall)
        BY <2>6 DEF UpsertReadings
    <2> QED BY <2>1, <2>2, <2>3, <2>4, <2>7
<1>11. \A r \in readings : r.at # wall => r \in readings'
    BY <1>8 DEF UpsertReadings
<1>12. ASSUME NEW d \in Ids' PROVE \E r \in readings' : r.dev = d /\ r.at = wall
    <2>1. CASE d \in away
        <3>1. off(d) \in readings'
            BY <1>8, <2>1 DEF UpsertReadings
        <3> QED BY <3>1
    <2>2. CASE d \in here
        <3>1. on(d) \in UpsertReadings(UpsertReadings(readings, Ids, wall, FALSE), here, wall, TRUE)
            BY <2>2 DEF UpsertReadings
        <3>2. d \notin away
            BY <1>6, <2>2
        <3>3. on(d) \in readings'
            BY <1>8, <3>1, <3>2 DEF UpsertReadings
        <3> QED BY <3>3
    <2>3. CASE d \notin away /\ d \notin here
        <3>1. off(d) \in UpsertReadings(readings, Ids, wall, FALSE)
            BY <1>5, <2>3 DEF UpsertReadings
        <3>2. off(d) \in UpsertReadings(UpsertReadings(readings, Ids, wall, FALSE), here, wall, TRUE)
            BY <2>3, <3>1 DEF UpsertReadings
        <3>3. off(d) \in readings'
            BY <1>8, <2>3, <3>2 DEF UpsertReadings
        <3> QED BY <3>3
    <2> QED BY <2>1, <2>2, <2>3
<1>13. readings' \subseteq Reading
    <2>1. \A d \in Id : on(d) \in Reading /\ off(d) \in Reading
        BY <1>1 DEF Reading
    <2> QED BY <1>2, <1>9, <1>10, <2>1
<1>14. /\ snapshots' \in [Time -> Snapshot \union {NoSnapshot}]
       /\ snapshots'[wall] # NoSnapshot /\ snapshots'[wall].ids = Ids'
       /\ snapshots'[wall].online = here
       /\ \A t \in Time : t # wall => snapshots'[t] = snapshots[t]
    <2>1. [ids |-> all, online |-> here] \in Snapshot
        BY <1>2, <1>4 DEF Snapshot
    <2>2. [ids |-> all, online |-> here] # NoSnapshot
        BY <2>1 DEF Snapshot, Id
    <2>3. snapshots \in [Time -> Snapshot \union {NoSnapshot}]
        BY DEF TypeOK
    <2> DEFINE stored == [ids |-> all, online |-> here]
    <2>4. stored.ids = Ids' /\ stored.online = here
        BY <1>2
    <2>5. snapshots' = [snapshots EXCEPT ![wall] = stored]
        BY <1>7
    <2> HIDE DEF stored
    <2>6. stored \in Snapshot /\ stored # NoSnapshot
        BY <2>1, <2>2 DEF stored
    <2>7. snapshots'[wall] = stored /\ \A t \in Time : t # wall => snapshots'[t] = snapshots[t]
        BY <1>1, <2>3, <2>5
    <2>8. snapshots' \in [Time -> Snapshot \union {NoSnapshot}]
        BY <1>1, <2>3, <2>5, <2>6
    <2> QED BY <2>4, <2>6, <2>7, <2>8
<1>15. ASSUME NEW q \in readings', NEW r \in readings', q.dev = r.dev, q.at = r.at
       PROVE  q = r
    <2>0. \A d : on(d).at = wall /\ off(d).at = wall
        OBVIOUS
    <2> HIDE DEF on, off
    <2>1. CASE q.at = wall
        <3>1. \/ q.dev \in here /\ q = on(q.dev)
              \/ q.dev \notin here /\ q = off(q.dev)
            BY <1>10, <2>1
        <3>2. \/ q.dev \in here /\ r = on(q.dev)
              \/ q.dev \notin here /\ r = off(q.dev)
            BY <1>10, <1>15, <2>1
        <3> QED BY <1>15, <3>1, <3>2
    <2>2. CASE q.at # wall
        <3>1. q \in readings /\ r \in readings
            BY <1>10, <1>15, <2>0, <2>2
        <3> QED BY <1>15, <3>1 DEF TypeOK
    <2> QED BY <2>1, <2>2
<1>16. \A r \in readings' : r.dev \in Ids'
    BY <1>3, <1>9, <1>10
<1>17. ASSUME NEW t \in Time, NEW d \in Id, Knows(t, d)'
       PROVE  d \in Ids' /\ \E r \in readings' : r.dev = d /\ r.at = t
    <2>1. CASE t = wall
        <3>1. d \in Ids'
            BY <1>14, <1>17, <2>1 DEF Knows
        <3> QED BY <1>12, <2>1, <3>1
    <2>2. CASE t # wall
        <3>1. Knows(t, d)
            BY <1>14, <1>17, <2>2 DEF Knows
        <3>2. PICK r \in readings : r.dev = d /\ r.at = t
            BY <3>1 DEF Recorded
        <3>3. r \in readings'
            BY <1>11, <2>2, <3>2
        <3>4. d \in Ids
            BY <3>1 DEF Recorded
        <3> QED BY <1>3, <3>2, <3>3, <3>4
    <2> QED BY <2>1, <2>2
<1>18. ASSUME NEW r \in readings'
       PROVE  /\ Knows(r.at, r.dev)'
              /\ r.online <=> r.dev \in snapshots'[r.at].online
    <2>1. CASE r \in readings /\ r.at # wall
        <3>1. r.at \in Time
            BY <1>9, <2>1 DEF Reading
        <3>2. Knows(r.at, r.dev) /\ (r.online <=> r.dev \in snapshots[r.at].online)
            BY <2>1 DEF Recorded
        <3> QED BY <1>14, <2>1, <3>1, <3>2 DEF Knows
    <2>2. CASE r.dev \in Ids' /\ r.dev \in here /\ r = on(r.dev)
        <3>1. r.at = wall /\ r.online
            BY <2>2
        <3> QED BY <1>14, <2>2, <3>1 DEF Knows
    <2>3. CASE r.dev \in Ids' /\ r.dev \notin here /\ r = off(r.dev)
        <3>1. r.at = wall /\ ~r.online
            BY <2>3
        <3> QED BY <1>14, <2>3, <3>1 DEF Knows
    <2> QED BY <1>10, <2>1, <2>2, <2>3
<1>19. Recorded'
    <2>1. \A t \in Time, d \in Id : Knows(t, d)' => \E r \in readings' : r.dev = d /\ r.at = t
        BY <1>17, Zenon
    <2>2. \A t \in Time, d \in Id : Knows(t, d)' => d \in Ids'
        BY <1>17, Zenon
    <2>3. \A r \in readings' : /\ Knows(r.at, r.dev)'
                               /\ r.online <=> r.dev \in snapshots'[r.at].online
        BY <1>18, Zenon
    <2> QED BY <2>1, <2>2, <2>3, Zenon DEF Recorded
<1> QED BY <1>13, <1>14, <1>15, <1>16, <1>19

(* The database after RecordDevices, whatever the page.                    *)
LEMMA RecordStep == IInv /\ RecordDevices => IInv'
<1> SUFFICES ASSUME IInv, RecordDevices PROVE IInv'
    OBVIOUS
<1>1. TypeOK /\ RowIds /\ Recorded /\ Alerts
    BY DEF IInv
<1>2. PICK page \in Listings :
        LET listed == page.listed
            new == {m \in listed : rows[m] = NoRow}
        IN  \E newIds \in [new -> Id] :
              /\ \A m, n \in new : newIds[m] = newIds[n] => m = n
              /\ {newIds[m] : m \in new} = nextId..(nextId + Cardinality(new) - 1)
              /\ nextId' = nextId + Cardinality(new)
              /\ rows' = UpsertDevices(listed, newIds)
              /\ readings' =
                    UpsertReadings(
                        UpsertReadings(MarkAbsent(readings, wall),
                                       {rows'[m].id : m \in page.online}, wall, TRUE),
                        {rows'[m].id : m \in listed \ page.online}, wall, FALSE)
              /\ snapshots' = [snapshots EXCEPT ![wall] =
                    [ids |-> {rows'[m].id : m \in {n \in Mac : rows'[n] # NoRow}},
                     online |-> {rows'[m].id : m \in page.said}]]
    BY DEF RecordDevices
<1> DEFINE listed == page.listed
           online == page.online
<1>3. listed \in SUBSET Mac /\ online \in SUBSET listed /\ page.said = online
    BY ParsedAsSaid DEF Listings
<1> HIDE DEF listed, online
<1>4. PICK newIds \in [{m \in listed : rows[m] = NoRow} -> Id] :
        LET new == {m \in listed : rows[m] = NoRow}
        IN  /\ \A m, n \in new : newIds[m] = newIds[n] => m = n
            /\ {newIds[m] : m \in new} = nextId..(nextId + Cardinality(new) - 1)
            /\ nextId' = nextId + Cardinality(new)
            /\ rows' = UpsertDevices(listed, newIds)
            /\ readings' =
                  UpsertReadings(
                      UpsertReadings(MarkAbsent(readings, wall),
                                     {rows'[m].id : m \in online}, wall, TRUE),
                      {rows'[m].id : m \in listed \ online}, wall, FALSE)
            /\ snapshots' = [snapshots EXCEPT ![wall] =
                  [ids |-> {rows'[m].id : m \in {n \in Mac : rows'[n] # NoRow}},
                   online |-> {rows'[m].id : m \in online}]]
    BY <1>2, <1>3 DEF listed, online
<1>5. /\ rows' \in [Mac -> Row \union {NoRow}] /\ nextId' \in 1..(MaxRows + 1)
      /\ RowIds'
      /\ \A m \in listed : rows'[m] # NoRow
      /\ \A m \in Mac : rows'[m] # NoRow => m \in listed \/ rows[m] # NoRow
      /\ \A m \in Mac : rows[m] # NoRow =>
            /\ rows'[m] # NoRow /\ rows'[m].id = rows[m].id
            /\ ~rows[m].archived => ~rows'[m].archived
    BY <1>1, <1>3, <1>4, RecordedRows
<1>6. /\ readings' \subseteq Reading
      /\ snapshots' \in [Time -> Snapshot \union {NoSnapshot}]
      /\ \A q, r \in readings' : q.dev = r.dev /\ q.at = r.at => q = r
      /\ \A r \in readings' : r.dev \in Ids'
      /\ Recorded'
    <2>1. \A m \in Mac : rows'[m] # NoRow => rows'[m] \in Row
        BY <1>5
    <2>2. \A m \in Mac : rows[m] # NoRow => rows'[m] # NoRow /\ rows'[m].id = rows[m].id
        BY <1>5
    <2>3. \A m \in listed : rows'[m] # NoRow
        BY <1>5
    <2>4. \A m \in Mac : rows'[m] # NoRow => m \in listed \/ rows[m] # NoRow
        BY <1>5
    <2>5. RowIds'
        BY <1>5
    <2> QED BY <1>1, <1>3, <1>4, <2>1, <2>2, <2>3, <2>4, <2>5, RecordedReadings
<1>7. UNCHANGED <<wall, browser, history>>
    BY DEF RecordDevices
<1>8. TypeOK'
    <2>1. \A m, n \in Mac : rows'[m] # NoRow /\ rows'[m] = rows'[n] => m = n
        BY <1>5 DEF RowIds
    <2>2. wall' \in Time
        BY <1>1, <1>7 DEF TypeOK
    <2>3. /\ inFlight' \in Seq(SUBSET Row) /\ shown' \subseteq Row
          /\ known' \subseteq Id /\ steady' \subseteq Id /\ hidden' \subseteq Id
        BY <1>1, <1>7 DEF TypeOK, browser, history
    <2>4. repeated' \in BOOLEAN /\ overtaken' \in BOOLEAN
        BY <1>1, <1>7, Zenon DEF TypeOK, history
    <2> QED BY <1>5, <1>6, <2>1, <2>2, <2>3, <2>4 DEF TypeOK
<1>9. Alerts'
    <2>1. \A d \in Id : ActiveNow(d) => ActiveNow(d)'
        BY <1>5 DEF ActiveNow, HasId
    <2> QED BY <1>1, <1>7, <2>1, AlertsKept
<1> QED BY <1>5, <1>6, <1>8, <1>9 DEF IInv

-----------------------------------------------------------------------------
(* The other steps of the server. *)

LEMMA ClockStep == IInv /\ SetClock => IInv'
<1> SUFFICES ASSUME IInv, SetClock PROVE IInv'
    OBVIOUS
<1>1. TypeOK /\ RowIds /\ Recorded /\ Alerts
    BY DEF IInv
<1>2. /\ wall' \in Time
      /\ UNCHANGED <<rows, nextId, readings, snapshots, browser, history>>
    BY DEF SetClock
<1>3. RowIds' /\ Ids' = Ids /\ Recorded' /\ Alerts'
    BY <1>1, <1>2, RowsKept, TablesKept, AlertsKept
<1>4. TypeOK'
    <2>1. repeated' \in BOOLEAN /\ overtaken' \in BOOLEAN
        BY <1>1, <1>2, Zenon DEF TypeOK, history
    <2> QED BY <1>1, <1>2, <1>3, <2>1 DEF TypeOK, browser, history
<1> QED BY <1>3, <1>4 DEF IInv

(* A reading is cut off if the snapshot of its instant is.                 *)
LEMMA PruneStep == IInv /\ PruneRawData => IInv'
<1> SUFFICES ASSUME IInv, PruneRawData PROVE IInv'
    OBVIOUS
<1>1. TypeOK /\ RowIds /\ Recorded /\ Alerts
    BY DEF IInv
<1>2. /\ readings' = {r \in readings : r.at >= wall - Retention}
      /\ snapshots' = [t \in Time |-> IF t >= wall - Retention THEN snapshots[t] ELSE NoSnapshot]
      /\ UNCHANGED <<wall, rows, nextId, browser, history>>
    BY DEF PruneRawData
<1>3. RowIds' /\ Ids' = Ids /\ Alerts'
    BY <1>1, <1>2, RowsKept, AlertsKept
<1>4. TypeOK'
    <2>1. repeated' \in BOOLEAN /\ overtaken' \in BOOLEAN
        BY <1>1, <1>2, Zenon DEF TypeOK, history
    <2>2. snapshots' \in [Time -> Snapshot \union {NoSnapshot}]
        BY <1>1, <1>2 DEF TypeOK
    <2>3. /\ readings' \subseteq Reading
          /\ \A q, r \in readings' : q.dev = r.dev /\ q.at = r.at => q = r
          /\ \A r \in readings' : r.dev \in Ids'
        BY <1>1, <1>2, <1>3 DEF TypeOK
    <2> QED BY <1>1, <1>2, <2>1, <2>2, <2>3 DEF TypeOK, browser, history
<1>5. \A t \in Time, d \in Id : Knows(t, d)' => Knows(t, d) /\ t >= wall - Retention
    BY <1>2 DEF Knows
<1>6. \A t \in Time, d \in Id : Knows(t, d)' =>
         d \in Ids' /\ \E r \in readings' : r.dev = d /\ r.at = t
    BY <1>1, <1>2, <1>3, <1>5 DEF Recorded
<1>7. ASSUME NEW r \in readings'
      PROVE  /\ Knows(r.at, r.dev)'
             /\ r.online <=> r.dev \in snapshots'[r.at].online
    <2>1. /\ r \in readings /\ r.at >= wall - Retention /\ r.at \in Time
          /\ Knows(r.at, r.dev) /\ (r.online <=> r.dev \in snapshots[r.at].online)
        BY <1>1, <1>2 DEF TypeOK, Reading, Recorded
    <2>2. snapshots'[r.at] = snapshots[r.at]
        BY <1>2, <2>1
    <2> QED BY <2>1, <2>2 DEF Knows
<1>8. Recorded'
    <2>1. \A r \in readings' : /\ Knows(r.at, r.dev)'
                               /\ r.online <=> r.dev \in snapshots'[r.at].online
        BY <1>7, Zenon
    <2> QED BY <1>6, <2>1, Zenon DEF Recorded
<1> QED BY <1>3, <1>4, <1>8 DEF IInv

(* One row has its mark changed, and no id.                                *)
LEMMA Marked ==
    ASSUME TypeOK, NEW m \in Mac, rows[m] # NoRow, NEW b \in BOOLEAN,
           rows' = [rows EXCEPT ![m].archived = b]
    PROVE  /\ rows' \in [Mac -> Row \union {NoRow}]
           /\ \A k \in Mac : k # m => rows'[k] = rows[k]
           /\ rows'[m] \in Row /\ rows'[m].id = rows[m].id /\ rows'[m].archived = b
           /\ \A k \in Mac : rows'[k] # NoRow <=> rows[k] # NoRow
           /\ \A k \in Mac : rows'[k] # NoRow => rows'[k].id = rows[k].id
<1> USE ListAssumption
<1> DEFINE row == [rows[m] EXCEPT !.archived = b]
<1>1. rows \in [Mac -> Row \union {NoRow}] /\ rows[m] \in Row
    BY DEF TypeOK
<1>2. row \in Row /\ row.id = rows[m].id /\ row.archived = b
    BY <1>1 DEF Row
<1>3. rows' = [rows EXCEPT ![m] = row]
    OBVIOUS
<1>4. \A r \in Row : r # NoRow
    BY DEF Row, Id
<1> HIDE DEF row
<1>5. rows'[m] = row /\ \A k \in Mac : k # m => rows'[k] = rows[k]
    BY <1>1, <1>3
<1>6. rows' \in [Mac -> Row \union {NoRow}]
    BY <1>1, <1>2, <1>3
<1> QED BY <1>2, <1>4, <1>5, <1>6

(* What Marked says leaves the keys and the readings as they were.         *)
LEMMA KeysKept ==
    ASSUME TypeOK, RowIds, Recorded,
           rows' \in [Mac -> Row \union {NoRow}],
           \A k \in Mac : rows'[k] # NoRow <=> rows[k] # NoRow,
           \A k \in Mac : rows'[k] # NoRow => rows'[k].id = rows[k].id,
           UNCHANGED <<wall, nextId, readings, snapshots, browser, repeated, overtaken>>,
           hidden' \subseteq Id, steady' \subseteq Id
    PROVE  TypeOK' /\ RowIds' /\ Recorded'
<1>1. RowIds' /\ Ids' = Ids
    BY DEF RowIds, Ids, HasId
<1>2. Recorded'
    BY <1>1 DEF Recorded, Knows
<1>3. repeated' \in BOOLEAN /\ overtaken' \in BOOLEAN
    BY Zenon DEF TypeOK
<1>4. \A m, n \in Mac : rows'[m] # NoRow /\ rows'[m] = rows'[n] => m = n
    BY <1>1 DEF RowIds
<1>5. /\ wall' \in Time /\ nextId' \in 1..(MaxRows + 1) /\ readings' \subseteq Reading
      /\ snapshots' \in [Time -> Snapshot \union {NoSnapshot}]
      /\ inFlight' \in Seq(SUBSET Row) /\ shown' \subseteq Row /\ known' \subseteq Id
      /\ \A q, r \in readings' : q.dev = r.dev /\ q.at = r.at => q = r
      /\ \A r \in readings' : r.dev \in Ids'
    BY <1>1 DEF TypeOK, browser
<1> QED BY <1>1, <1>2, <1>3, <1>4, <1>5 DEF TypeOK

(* The device hidden is no longer one of those that may not be repeated.   *)
LEMMA ArchiveStep == \A m \in Mac : IInv /\ ArchiveDevice(m) => IInv'
<1> SUFFICES ASSUME NEW m \in Mac, IInv, ArchiveDevice(m) PROVE IInv'
    OBVIOUS
<1>1. TypeOK /\ RowIds /\ Recorded /\ Alerts
    BY DEF IInv
<1>2. /\ rows[m] # NoRow
      /\ rows' = [rows EXCEPT ![m].archived = TRUE]
      /\ hidden' = IF overtaken THEN {} ELSE hidden \union {rows[m].id}
      /\ steady' = steady \ {rows[m].id}
      /\ UNCHANGED <<wall, nextId, readings, snapshots, browser, repeated, overtaken>>
    BY DEF ArchiveDevice, HasId
<1>3. /\ rows' \in [Mac -> Row \union {NoRow}]
      /\ \A k \in Mac : k # m => rows'[k] = rows[k]
      /\ \A k \in Mac : rows'[k] # NoRow <=> rows[k] # NoRow
      /\ \A k \in Mac : rows'[k] # NoRow => rows'[k].id = rows[k].id
    BY <1>1, <1>2, Marked
<1>4. rows[m].id \in Id
    BY <1>1, <1>2 DEF TypeOK, Row
<1>5. TypeOK' /\ RowIds' /\ Recorded'
    <2>1. hidden' \subseteq Id /\ steady' \subseteq Id
        BY <1>1, <1>2, <1>4 DEF TypeOK
    <2> QED BY <1>1, <1>2, <1>3, <2>1, KeysKept
<1>6. \A d \in Id : ActiveNow(d) /\ d # rows[m].id => ActiveNow(d)'
    BY <1>3 DEF ActiveNow, HasId
<1>7. ~repeated'
    BY <1>1, <1>2, Zenon DEF Alerts
<1>8. ASSUME ~overtaken' PROVE AnswersInOrder' /\ Remembered'
    <2>1. AnswersInOrder /\ Remembered /\ ~overtaken
        BY <1>1, <1>2, <1>8, Zenon DEF Alerts
    <2>2. hidden' = hidden \union {rows[m].id}
        BY <1>2, <2>1
    <2>3. inFlight' = inFlight /\ known' = known
        BY <1>2 DEF browser
    <2>4. AnswersInOrder'
        BY <1>6, <2>1, <2>2, <2>3 DEF AnswersInOrder, Lists
    <2>5. Remembered'
        <3>1. steady \subseteq Id
            BY <1>1 DEF TypeOK
        <3> QED BY <1>2, <1>6, <2>1, <2>2, <2>3, <3>1 DEF Remembered, Lists
    <2> QED BY <2>4, <2>5
<1> QED BY <1>5, <1>7, <1>8 DEF IInv, Alerts

LEMMA RestoreStep == \A m \in Mac : IInv /\ RestoreDevice(m) => IInv'
<1> SUFFICES ASSUME NEW m \in Mac, IInv, RestoreDevice(m) PROVE IInv'
    OBVIOUS
<1>1. TypeOK /\ RowIds /\ Recorded /\ Alerts
    BY DEF IInv
<1>2. /\ rows[m] # NoRow
      /\ rows' = [rows EXCEPT ![m].archived = FALSE]
      /\ UNCHANGED <<wall, nextId, readings, snapshots, browser, history>>
    BY DEF RestoreDevice, HasId
<1>3. /\ rows' \in [Mac -> Row \union {NoRow}]
      /\ \A k \in Mac : k # m => rows'[k] = rows[k]
      /\ rows'[m].id = rows[m].id /\ rows'[m].archived = FALSE
      /\ \A k \in Mac : rows'[k] # NoRow <=> rows[k] # NoRow
      /\ \A k \in Mac : rows'[k] # NoRow => rows'[k].id = rows[k].id
    BY <1>1, <1>2, Marked
<1>4. TypeOK' /\ RowIds' /\ Recorded'
    <2>1. hidden' \subseteq Id /\ steady' \subseteq Id
        BY <1>1, <1>2 DEF TypeOK, history
    <2>2. UNCHANGED <<wall, nextId, readings, snapshots, browser, repeated, overtaken>>
        BY <1>2 DEF history
    <2> QED BY <1>1, <1>3, <2>1, <2>2, KeysKept
<1>5. \A d \in Id : ActiveNow(d) => ActiveNow(d)'
    BY <1>2, <1>3 DEF ActiveNow, HasId
<1>6. Alerts'
    BY <1>1, <1>2, <1>5, AlertsKept
<1> QED BY <1>4, <1>6 DEF IInv

(* The id of a deleted device is nobody's any more.                        *)
LEMMA DeleteStep == \A m \in Mac : IInv /\ DeleteDevice(m) => IInv'
<1> SUFFICES ASSUME NEW m \in Mac, IInv, DeleteDevice(m) PROVE IInv'
    OBVIOUS
<1> USE ListAssumption
<1> DEFINE id == rows[m].id
<1>1. TypeOK /\ RowIds /\ Recorded /\ Alerts
    BY DEF IInv
<1>2. /\ rows[m] # NoRow /\ rows[m].archived
      /\ rows' = [rows EXCEPT ![m] = NoRow]
      /\ readings' = {r \in readings : r.dev # id}
      /\ snapshots' = [t \in Time |-> IF snapshots[t] = NoSnapshot THEN NoSnapshot
                                      ELSE [ids |-> snapshots[t].ids \ {id},
                                            online |-> snapshots[t].online \ {id}]]
      /\ UNCHANGED <<wall, nextId, browser, history>>
    BY DEF DeleteDevice, HasId
<1>3. /\ rows' \in [Mac -> Row \union {NoRow}]
      /\ rows'[m] = NoRow /\ \A k \in Mac : k # m => rows'[k] = rows[k]
    BY <1>1, <1>2 DEF TypeOK
<1> HIDE DEF id
<1>4. Ids' = Ids \ {id}
    <2>1. \A k \in Mac : rows[k] # NoRow /\ rows[k].id = id => k = m
        BY <1>1, <1>2 DEF RowIds, id
    <2>2. \A d \in Id : d \in Ids' <=> d \in Ids /\ d # id
        BY <1>2, <1>3, <2>1 DEF Ids, HasId, id
    <2> QED BY <2>2 DEF Ids
<1>5. RowIds'
    BY <1>1, <1>2, <1>3 DEF RowIds
<1>6. ASSUME NEW t \in Time
      PROVE  /\ snapshots'[t] \in Snapshot \union {NoSnapshot}
             /\ snapshots'[t] = NoSnapshot <=> snapshots[t] = NoSnapshot
             /\ snapshots[t] # NoSnapshot =>
                   /\ snapshots'[t].ids = snapshots[t].ids \ {id}
                   /\ snapshots'[t].online = snapshots[t].online \ {id}
    <2>1. CASE snapshots[t] = NoSnapshot
        BY <1>2, <2>1
    <2>2. CASE snapshots[t] # NoSnapshot
        <3> DEFINE cut == [ids |-> snapshots[t].ids \ {id}, online |-> snapshots[t].online \ {id}]
        <3>1. snapshots[t] \in Snapshot
            BY <1>1, <2>2 DEF TypeOK
        <3>2. cut \in Snapshot
            BY <3>1 DEF Snapshot
        <3>3. cut # NoSnapshot
            BY <3>2 DEF Snapshot, Id
        <3>4. cut.ids = snapshots[t].ids \ {id} /\ cut.online = snapshots[t].online \ {id}
            OBVIOUS
        <3>5. snapshots'[t] = cut
            BY <1>2, <2>2
        <3> HIDE DEF cut
        <3> QED BY <2>2, <3>2, <3>3, <3>4, <3>5
    <2> QED BY <2>1, <2>2
<1>7. \A t \in Time, d \in Id : Knows(t, d)' <=> Knows(t, d) /\ d # id
    BY <1>6 DEF Knows
<1>8. TypeOK'
    <2>1. repeated' \in BOOLEAN /\ overtaken' \in BOOLEAN
        BY <1>1, <1>2, Zenon DEF TypeOK, history
    <2>2. \A j, k \in Mac : rows'[j] # NoRow /\ rows'[j] = rows'[k] => j = k
        BY <1>5 DEF RowIds
    <2>3. /\ readings' \subseteq Reading
          /\ \A q, r \in readings' : q.dev = r.dev /\ q.at = r.at => q = r
          /\ \A r \in readings' : r.dev \in Ids'
        BY <1>1, <1>2, <1>4 DEF TypeOK
    <2>4. snapshots' = [t \in Time |-> snapshots'[t]]
        BY <1>2
    <2>5. snapshots' \in [Time -> Snapshot \union {NoSnapshot}]
        BY <1>6, <2>4
    <2> QED BY <1>1, <1>2, <1>3, <2>1, <2>2, <2>3, <2>5 DEF TypeOK, browser, history
<1>9. \A t \in Time, d \in Id : Knows(t, d)' =>
         d \in Ids' /\ \E r \in readings' : r.dev = d /\ r.at = t
    BY <1>1, <1>2, <1>4, <1>7 DEF Recorded
<1>10. ASSUME NEW r \in readings'
       PROVE  /\ Knows(r.at, r.dev)'
              /\ r.online <=> r.dev \in snapshots'[r.at].online
    <2>1. /\ r \in readings /\ r.dev # id /\ r.at \in Time /\ r.dev \in Id
          /\ Knows(r.at, r.dev) /\ (r.online <=> r.dev \in snapshots[r.at].online)
        BY <1>1, <1>2 DEF TypeOK, Reading, Recorded
    <2>2. snapshots'[r.at].online = snapshots[r.at].online \ {id}
        BY <1>6, <2>1 DEF Knows
    <2> QED BY <1>7, <2>1, <2>2
<1>11. Recorded'
    <2>1. \A r \in readings' : /\ Knows(r.at, r.dev)'
                               /\ r.online <=> r.dev \in snapshots'[r.at].online
        BY <1>10, Zenon
    <2> QED BY <1>9, <2>1, Zenon DEF Recorded
<1>12. Alerts'
    <2>1. \A d \in Id : ActiveNow(d) => ActiveNow(d)'
        BY <1>2, <1>3 DEF ActiveNow, HasId
    <2> QED BY <1>1, <1>2, <2>1, AlertsKept
<1> QED BY <1>5, <1>8, <1>11, <1>12 DEF IInv

-----------------------------------------------------------------------------
(* The steps of the browser. *)

(* An answer lists as active what the table has.                           *)
LEMMA ActiveIsListed ==
    ASSUME TypeOK
    PROVE  /\ GetDevices \subseteq Row
           /\ \A d \in Id : d \in ActiveIds(GetDevices) <=> ActiveNow(d)
<1>1. GetDevices = {rows[m] : m \in {n \in Mac : rows[n] # NoRow}}
    BY DEF GetDevices, ListDevices
<1>2. \A m \in Mac : rows[m] # NoRow => rows[m] \in Row
    BY DEF TypeOK
<1>3. GetDevices \subseteq Row
    BY <1>1, <1>2
<1>4. ASSUME NEW d \in Id, ActiveNow(d) PROVE d \in ActiveIds(GetDevices)
    <2>1. PICK m \in Mac : HasId(m, d) /\ ~rows[m].archived
        BY <1>4 DEF ActiveNow
    <2>2. rows[m] \in GetDevices
        BY <1>1, <2>1 DEF HasId
    <2> QED BY <2>1, <2>2 DEF ActiveIds, HasId
<1>5. ASSUME NEW d \in Id, d \in ActiveIds(GetDevices) PROVE ActiveNow(d)
    <2>1. PICK r \in GetDevices : ~r.archived /\ r.id = d
        BY <1>5 DEF ActiveIds
    <2>2. PICK m \in Mac : rows[m] # NoRow /\ r = rows[m]
        BY <1>1, <2>1
    <2> QED BY <2>1, <2>2 DEF ActiveNow, HasId
<1> QED BY <1>3, <1>4, <1>5

LEMMA ActiveIdsType ==
    ASSUME NEW list \in SUBSET Row
    PROVE  ActiveIds(list) \subseteq Id /\ (list = {} => ActiveIds(list) = {})
BY DEF ActiveIds, Row

(* The database stays.                                                     *)
LEMMA DatabaseKept ==
    ASSUME TypeOK, RowIds, Recorded, UNCHANGED database,
           inFlight' \in Seq(SUBSET Row), shown' \subseteq Row, known' \subseteq Id,
           steady' \subseteq Id, hidden' \subseteq Id,
           repeated' \in BOOLEAN, overtaken' \in BOOLEAN
    PROVE  /\ TypeOK' /\ RowIds' /\ Recorded'
           /\ \A d \in Id : ActiveNow(d) => ActiveNow(d)'
<1>1. UNCHANGED <<wall, rows, nextId, readings, snapshots>>
    BY DEF database
<1>2. RowIds' /\ Ids' = Ids /\ Recorded' /\ \A d \in Id : ActiveNow(d) => ActiveNow(d)'
    BY <1>1, RowsKept, TablesKept
<1>3. TypeOK'
    BY <1>1, <1>2 DEF TypeOK
<1> QED BY <1>2, <1>3

(* Fewer answers, in the same order: whatever was listed by all of those   *)
(* after an answer still is.                                               *)
LEMMA FewerAnswers ==
    ASSUME TypeOK, AnswersInOrder, UNCHANGED <<rows, hidden>>, NEW i \in 1..Len(inFlight),
           inFlight' = RemoveAt(inFlight, i)
    PROVE  AnswersInOrder'
<1>1. inFlight \in Seq(SUBSET Row)
    BY DEF TypeOK
<1>2. /\ Len(inFlight') = Len(inFlight) - 1 /\ Len(inFlight) \in Nat
      /\ \A j \in 1..Len(inFlight') : inFlight'[j] = inFlight[IF j < i THEN j ELSE j + 1]
    BY <1>1, RemovedAt
<1> DEFINE from(j) == IF j < i THEN j ELSE j + 1
<1>3. ASSUME NEW j \in 1..Len(inFlight'), NEW d \in Id, Lists(d, j)', d \notin hidden'
      PROVE  ActiveNow(d)' /\ \A k \in j..Len(inFlight') : Lists(d, k)'
    <2>1. from(j) \in 1..Len(inFlight) /\ Lists(d, from(j))
        BY <1>2, <1>3 DEF Lists
    <2>2. ActiveNow(d) /\ \A k \in from(j)..Len(inFlight) : Lists(d, k)
        <3> HIDE DEF from
        <3> QED BY <1>3, <2>1 DEF AnswersInOrder
    <2>3. ActiveNow(d)'
        BY <2>2 DEF ActiveNow, HasId
    <2>4. ASSUME NEW k \in j..Len(inFlight') PROVE Lists(d, k)'
        <3>1. k \in 1..Len(inFlight') /\ from(k) \in from(j)..Len(inFlight)
            BY <1>2
        <3>2. inFlight'[k] = inFlight[from(k)]
            BY <1>2, <3>1
        <3> HIDE DEF from
        <3>3. Lists(d, from(k))
            BY <2>2, <3>1
        <3> QED BY <3>2, <3>3 DEF Lists
    <2> QED BY <2>3, <2>4
<1> HIDE DEF from
<1> QED BY <1>3, Zenon DEF AnswersInOrder

LEMMA LoseStep == \A i \in 1..MaxInFlight : IInv /\ LoseAnswer(i) => IInv'
<1> SUFFICES ASSUME NEW i \in 1..MaxInFlight, IInv, LoseAnswer(i) PROVE IInv'
    OBVIOUS
<1>1. TypeOK /\ RowIds /\ Recorded /\ Alerts
    BY DEF IInv
<1>2. /\ i \in 1..Len(inFlight) /\ inFlight' = RemoveAt(inFlight, i)
      /\ UNCHANGED <<database, shown, known, history>>
    BY DEF LoseAnswer
<1>3. inFlight \in Seq(SUBSET Row)
    BY <1>1 DEF TypeOK
<1>4. /\ inFlight' \in Seq(SUBSET Row)
      /\ Len(inFlight') = Len(inFlight) - 1 /\ Len(inFlight) \in Nat
      /\ \A j \in 1..Len(inFlight') : inFlight'[j] = inFlight[IF j < i THEN j ELSE j + 1]
    BY <1>2, <1>3, RemovedAt
<1>5. /\ TypeOK' /\ RowIds' /\ Recorded'
      /\ \A d \in Id : ActiveNow(d) => ActiveNow(d)'
    <2>1. repeated' \in BOOLEAN /\ overtaken' \in BOOLEAN
        BY <1>1, <1>2, Zenon DEF TypeOK, history
    <2>2. shown' \subseteq Row /\ known' \subseteq Id /\ steady' \subseteq Id /\ hidden' \subseteq Id
        BY <1>1, <1>2 DEF TypeOK, history
    <2>3. UNCHANGED database
        BY <1>2
    <2> QED BY <1>1, <1>4, <2>1, <2>2, <2>3, DatabaseKept
<1>6. ~repeated'
    BY <1>1, <1>2, Zenon DEF Alerts, history
<1>7. ASSUME ~overtaken' PROVE AnswersInOrder' /\ Remembered'
    <2>1. AnswersInOrder /\ Remembered
        BY <1>1, <1>2, <1>7, Zenon DEF Alerts, history
    <2>2. AnswersInOrder'
        <3>1. UNCHANGED <<rows, hidden>>
            BY <1>2 DEF database, history
        <3> QED BY <1>1, <1>2, <2>1, <3>1, FewerAnswers
    <2>3. ASSUME NEW d \in steady, NEW j \in 1..Len(inFlight') PROVE Lists(d, j)'
        <3>1. (IF j < i THEN j ELSE j + 1) \in 1..Len(inFlight)
            BY <1>2, <1>4
        <3>2. Lists(d, IF j < i THEN j ELSE j + 1)
            BY <2>1, <3>1 DEF Remembered
        <3> QED BY <1>4, <3>2 DEF Lists
    <2>4. Remembered'
        <3>1. UNCHANGED <<known, hidden, steady>> /\ steady \subseteq Id
            BY <1>1, <1>2 DEF TypeOK, history
        <3> QED BY <1>5, <2>1, <2>3, <3>1 DEF Remembered
    <2> QED BY <2>2, <2>4
<1> QED BY <1>5, <1>6, <1>7 DEF IInv, Alerts

LEMMA AnswerStep == IInv /\ Answer => IInv'
<1> SUFFICES ASSUME IInv, Answer PROVE IInv'
    OBVIOUS
<1>0. PICK last : last = Len(inFlight) + 1
    OBVIOUS
<1>1. TypeOK /\ RowIds /\ Recorded /\ Alerts
    BY DEF IInv
<1>2. /\ inFlight' = Append(inFlight, GetDevices)
      /\ UNCHANGED <<database, shown, known, history>>
    BY DEF Answer
<1>3. GetDevices \in SUBSET Row /\ \A d \in Id : d \in ActiveIds(GetDevices) <=> ActiveNow(d)
    BY <1>1, ActiveIsListed
<1> DEFINE list == GetDevices
<1> HIDE DEF list
<1>4. /\ inFlight' \in Seq(SUBSET Row)
      /\ Len(inFlight') = Len(inFlight) + 1 /\ Len(inFlight) \in Nat
      /\ \A j \in 1..Len(inFlight) : inFlight'[j] = inFlight[j]
      /\ inFlight'[Len(inFlight) + 1] = list
    <2>1. inFlight \in Seq(SUBSET Row) /\ list \in SUBSET Row /\ inFlight' = Append(inFlight, list)
        BY <1>1, <1>2, <1>3 DEF TypeOK, list
    <2> QED BY <2>1
<1>5. /\ TypeOK' /\ RowIds' /\ Recorded'
      /\ \A d \in Id : ActiveNow(d) => ActiveNow(d)'
    <2>1. repeated' \in BOOLEAN /\ overtaken' \in BOOLEAN
        BY <1>1, <1>2, Zenon DEF TypeOK, history
    <2>2. shown' \subseteq Row /\ known' \subseteq Id /\ steady' \subseteq Id /\ hidden' \subseteq Id
        BY <1>1, <1>2 DEF TypeOK, history
    <2>3. UNCHANGED database
        BY <1>2
    <2> QED BY <1>1, <1>4, <2>1, <2>2, <2>3, DatabaseKept
<1>6. ~repeated'
    BY <1>1, <1>2, Zenon DEF Alerts, history
<1>7. ASSUME NEW d \in Id, ActiveNow(d) PROVE Lists(d, last)'
    <2>1. d \in ActiveIds(list)
        BY <1>3, <1>7 DEF list
    <2> QED BY <1>0, <1>4, <2>1 DEF Lists
<1>8. \A d \in Id, j \in 1..Len(inFlight) : Lists(d, j)' <=> Lists(d, j)
    BY <1>4 DEF Lists
<1>9. \A d \in Id : Lists(d, last)' => ActiveNow(d)
    BY <1>0, <1>3, <1>4 DEF Lists, list
<1>10. ASSUME ~overtaken' PROVE AnswersInOrder' /\ Remembered'
    <2>1. AnswersInOrder /\ Remembered
        BY <1>1, <1>2, <1>10, Zenon DEF Alerts, history
    <2>2. UNCHANGED <<known, hidden, steady>> /\ steady \subseteq Id
        BY <1>1, <1>2 DEF TypeOK, history
    <2>3. ASSUME NEW j \in 1..Len(inFlight'), NEW d \in Id, Lists(d, j)', d \notin hidden'
          PROVE  ActiveNow(d)' /\ \A k \in j..Len(inFlight') : Lists(d, k)'
        <3>1. CASE j \in 1..Len(inFlight)
            <4>1. ActiveNow(d) /\ \A k \in j..Len(inFlight) : Lists(d, k)
                BY <1>8, <2>1, <2>2, <2>3, <3>1 DEF AnswersInOrder
            <4>2. \A k \in j..Len(inFlight') :
                     \/ k \in 1..Len(inFlight) /\ k \in j..Len(inFlight)
                     \/ k = last
                BY <1>0, <1>4, <3>1
            <4> QED BY <1>5, <1>7, <1>8, <4>1, <4>2
        <3>2. CASE j = last
            <4>1. ActiveNow(d)
                BY <1>9, <2>3, <3>2
            <4>2. \A k \in j..Len(inFlight') : k = last
                BY <1>0, <1>4, <3>2
            <4> QED BY <1>5, <1>7, <4>1, <4>2
        <3> QED BY <1>0, <1>4, <3>1, <3>2
    <2>4. ASSUME NEW d \in steady, NEW j \in 1..Len(inFlight') PROVE Lists(d, j)'
        <3>1. d \in Id /\ ActiveNow(d) /\ \A k \in 1..Len(inFlight) : Lists(d, k)
            BY <2>1, <2>2 DEF Remembered
        <3>2. j \in 1..Len(inFlight) \/ j = last
            BY <1>0, <1>4
        <3> QED BY <1>7, <1>8, <3>1, <3>2
    <2>5. AnswersInOrder'
        BY <2>3, Zenon DEF AnswersInOrder
    <2>6. Remembered'
        BY <1>5, <2>1, <2>2, <2>4 DEF Remembered
    <2> QED BY <2>5, <2>6
<1> QED BY <1>5, <1>6, <1>10 DEF IInv, Alerts

(* What the first of the answers in order lists and nobody has hidden is   *)
(* in all later ones, so that the memory never loses it.                   *)
LEMMA DeliverStep == \A i \in 1..MaxInFlight : IInv /\ Deliver(i) => IInv'
<1> SUFFICES ASSUME NEW i \in 1..MaxInFlight, IInv, Deliver(i) PROVE IInv'
    OBVIOUS
<1>1. TypeOK /\ RowIds /\ Recorded /\ Alerts
    BY DEF IInv
<1> DEFINE list == inFlight[i]
           late == overtaken \/ i > 1
<1>2. /\ i \in 1..Len(inFlight) /\ inFlight' = RemoveAt(inFlight, i) /\ UNCHANGED database
      /\ shown' = list
      /\ known' = IF list = {} THEN known ELSE ActiveIds(list)
    BY DEF Deliver
<1>3. /\ steady' = IF late THEN {} ELSE IF list = {} THEN steady
                   ELSE steady \union (ActiveIds(list) \ hidden)
      /\ hidden' = IF late THEN {} ELSE hidden
    BY DEF Deliver
<1>4. /\ overtaken' = late
      /\ repeated' = (\/ repeated
                      \/ ~late /\ known # {} /\ (ActiveIds(list) \ known) \intersect steady # {})
    BY Zenon DEF Deliver
<1>5. inFlight \in Seq(SUBSET Row) /\ list \in SUBSET Row
    BY <1>1, <1>2 DEF TypeOK
<1>6. ActiveIds(list) \subseteq Id /\ (list = {} => ActiveIds(list) = {})
    BY <1>5, ActiveIdsType
<1>7. /\ inFlight' \in Seq(SUBSET Row)
      /\ Len(inFlight') = Len(inFlight) - 1 /\ Len(inFlight) \in Nat
      /\ \A j \in 1..Len(inFlight') : inFlight'[j] = inFlight[IF j < i THEN j ELSE j + 1]
    BY <1>2, <1>5, RemovedAt
<1> HIDE DEF list
<1>8. /\ TypeOK' /\ RowIds' /\ Recorded'
      /\ \A d \in Id : ActiveNow(d) => ActiveNow(d)'
    <2>1. repeated' \in BOOLEAN /\ overtaken' \in BOOLEAN
        BY <1>4, Zenon
    <2>2. shown' \subseteq Row /\ known' \subseteq Id /\ steady' \subseteq Id /\ hidden' \subseteq Id
        BY <1>1, <1>2, <1>3, <1>5, <1>6 DEF TypeOK
    <2> QED BY <1>1, <1>2, <1>7, <2>1, <2>2, DatabaseKept
<1>9. CASE late
    <2>1. ~repeated' /\ overtaken'
        BY <1>1, <1>4, <1>9, Zenon DEF Alerts
    <2> QED BY <1>8, <2>1 DEF IInv, Alerts
<1>10. CASE ~late
    <2>1. AnswersInOrder /\ Remembered /\ ~repeated
        BY <1>1, <1>10, Zenon DEF Alerts
    <2>2. i = 1
        BY <1>10
    <2>3. \A d \in Id : Lists(d, 1) <=> d \in ActiveIds(list)
        BY <2>2 DEF Lists, list
    <2>4. steady \subseteq known /\ steady \subseteq Id /\ steady \subseteq ActiveIds(list)
        BY <1>1, <1>2, <2>1, <2>2, <2>3 DEF Remembered, TypeOK
    <2>5. ~repeated'
        BY <1>4, <2>1, <2>4
    <2>6. ASSUME NEW d \in steady'
          PROVE  /\ d \in Id /\ d \notin hidden' /\ d \in known' /\ ActiveNow(d)
                 /\ \A j \in 1..Len(inFlight) : Lists(d, j)
        <3>1. hidden' = hidden
            BY <1>3, <1>10
        <3>2. CASE d \in steady
            BY <1>2, <2>1, <2>4, <3>1, <3>2 DEF Remembered
        <3>3. CASE d \in ActiveIds(list) \ hidden
            <4>1. d \in Id /\ Lists(d, 1) /\ 1 \in 1..Len(inFlight)
                BY <1>2, <1>6, <2>2, <2>3, <3>3
            <4>2. list # {}
                BY <1>6, <3>3
            <4> QED BY <1>2, <2>1, <3>1, <3>3, <4>1, <4>2 DEF AnswersInOrder
        <3> QED BY <1>3, <1>10, <3>2, <3>3
    <2>7. AnswersInOrder'
        <3>1. UNCHANGED <<rows, hidden>>
            BY <1>2, <1>3, <1>10 DEF database
        <3> QED BY <1>1, <1>2, <2>1, <3>1, FewerAnswers
    <2>8. ASSUME NEW d \in steady', NEW j \in 1..Len(inFlight') PROVE Lists(d, j)'
        <3>1. inFlight'[j] = inFlight[j + 1] /\ j + 1 \in 1..Len(inFlight)
            BY <1>7, <2>2
        <3> QED BY <2>6, <3>1 DEF Lists
    <2>9. Remembered'
        BY <1>8, <2>6, <2>8 DEF Remembered
    <2> QED BY <1>8, <2>5, <2>7, <2>9 DEF IInv, Alerts
<1> QED BY <1>9, <1>10

LEMMA ReloadStep == IInv /\ Reload => IInv'
<1> SUFFICES ASSUME IInv, Reload PROVE IInv'
    OBVIOUS
<1>1. TypeOK /\ RowIds /\ Recorded /\ Alerts
    BY DEF IInv
<1>2. /\ inFlight' = <<>> /\ shown' = {}
      /\ UNCHANGED <<database, known, history>>
    BY DEF Reload
<1>3. /\ TypeOK' /\ RowIds' /\ Recorded'
      /\ \A d \in Id : ActiveNow(d) => ActiveNow(d)'
    <2>1. repeated' \in BOOLEAN /\ overtaken' \in BOOLEAN
        BY <1>1, <1>2, Zenon DEF TypeOK, history
    <2>2. /\ inFlight' \in Seq(SUBSET Row) /\ shown' \subseteq Row
          /\ known' \subseteq Id /\ steady' \subseteq Id /\ hidden' \subseteq Id
        BY <1>1, <1>2 DEF TypeOK, history
    <2>3. UNCHANGED database
        BY <1>2
    <2> QED BY <1>1, <2>1, <2>2, <2>3, DatabaseKept
<1>4. ~repeated'
    BY <1>1, <1>2, Zenon DEF Alerts, history
<1>5. ASSUME ~overtaken' PROVE AnswersInOrder' /\ Remembered'
    <2>1. AnswersInOrder /\ Remembered
        BY <1>1, <1>2, <1>5, Zenon DEF Alerts, history
    <2>2. UNCHANGED <<known, hidden, steady>> /\ steady \subseteq Id /\ Len(inFlight') = 0
        BY <1>1, <1>2 DEF TypeOK, history
    <2>3. 1..Len(inFlight') = {}
        BY <2>2
    <2> QED BY <1>3, <2>1, <2>2, <2>3 DEF AnswersInOrder, Remembered
<1> QED BY <1>3, <1>4, <1>5 DEF IInv, Alerts

-----------------------------------------------------------------------------
LEMMA Stutter == IInv /\ UNCHANGED vars => IInv'
<1> SUFFICES ASSUME IInv, UNCHANGED vars PROVE IInv'
    OBVIOUS
<1>1. UNCHANGED <<wall, rows, nextId, readings, snapshots, browser, history>>
    BY DEF vars, database
<1>2. TypeOK /\ RowIds /\ Recorded /\ Alerts
    BY DEF IInv
<1>3. RowIds' /\ Ids' = Ids /\ Recorded' /\ Alerts'
    BY <1>1, <1>2, RowsKept, TablesKept, AlertsKept
<1>4. TypeOK'
    <2>1. repeated' \in BOOLEAN /\ overtaken' \in BOOLEAN
        BY <1>1, <1>2, Zenon DEF TypeOK, history
    <2> QED BY <1>1, <1>2, <1>3, <2>1 DEF TypeOK, browser, history
<1> QED BY <1>3, <1>4 DEF IInv

LEMMA Invariant == Spec => []IInv
<1>1. Init => IInv
    BY InitOK
<1>2. IInv /\ [Next]_vars => IInv'
    <2> SUFFICES ASSUME IInv, [Next]_vars PROVE IInv'
        OBVIOUS
    <2>1. CASE SetClock
        BY <2>1, ClockStep
    <2>2. CASE RecordDevices
        BY <2>2, RecordStep
    <2>3. CASE PruneRawData
        BY <2>3, PruneStep
    <2>4. ASSUME NEW m \in Mac, ArchiveDevice(m) PROVE IInv'
        BY <2>4, ArchiveStep
    <2>5. ASSUME NEW m \in Mac, RestoreDevice(m) PROVE IInv'
        BY <2>5, RestoreStep
    <2>6. ASSUME NEW m \in Mac, DeleteDevice(m) PROVE IInv'
        BY <2>6, DeleteStep
    <2>7. CASE Answer
        BY <2>7, AnswerStep
    <2>8. CASE Reload
        BY <2>8, ReloadStep
    <2>9. ASSUME NEW i \in 1..MaxInFlight, Deliver(i) PROVE IInv'
        BY <2>9, DeliverStep
    <2>10. ASSUME NEW i \in 1..MaxInFlight, LoseAnswer(i) PROVE IInv'
        BY <2>10, LoseStep
    <2>11. CASE UNCHANGED vars
        BY <2>11, Stutter
    <2> QED BY ONLY <2>1, <2>2, <2>3, <2>4, <2>5, <2>6, <2>7, <2>8, <2>9, <2>10, <2>11,
                    [Next]_vars DEF Next, Server, Browser
<1> QED BY <1>1, <1>2, PTL DEF Spec

(* Types and keys hold always (the schema's constraints).                  *)
THEOREM TypeCorrect == Spec => []TypeOK
<1>1. IInv => TypeOK
    BY DEF IInv
<1> QED BY <1>1, Invariant, PTL

(* A device is shown online exactly if the latest snapshot that knows it   *)
(* says so, for every page the router may send, in whatever order the      *)
(* host's clock goes (RecordDevices, ListDevices).                         *)
THEOREM OnlineExactly == Spec => []OnlineMeansSeen
<1>1. ASSUME IInv PROVE OnlineMeansSeen
    <2>1. TypeOK /\ Recorded
        BY <1>1 DEF IInv
    <2>2. ASSUME NEW d \in Ids
          PROVE  LET times == {t \in Time : snapshots[t] # NoSnapshot /\ d \in snapshots[t].ids}
                 IN  Online(d) <=> \E t \in times : /\ \A u \in times : u <= t
                                                    /\ d \in snapshots[t].online
        <3> DEFINE times == {t \in Time : Knows(t, d)}
        <3>1. d \in Id /\ \A r \in readings : r \in Reading /\ r.at \in Time
            BY <2>1 DEF TypeOK, Ids, Reading
        <3>2. \A t \in times : \E r \in readings : r.dev = d /\ r.at = t
            BY <2>1, <3>1 DEF Recorded
        <3>3. \A r \in readings : r.dev = d =>
                 r.at \in times /\ (r.online <=> d \in snapshots[r.at].online)
            BY <2>1, <3>1 DEF Recorded
        <3>4. times = {t \in Time : snapshots[t] # NoSnapshot /\ d \in snapshots[t].ids}
            BY DEF Knows
        <3> HIDE DEF times
        <3>5. ASSUME Online(d)
              PROVE  \E t \in times : (\A u \in times : u <= t) /\ d \in snapshots[t].online
            <4>1. PICK r \in readings : r.dev = d /\ LatestReading(r) /\ r.online
                BY <3>5 DEF Online
            <4>2. r.at \in times /\ d \in snapshots[r.at].online
                BY <3>3, <4>1
            <4>3. \A u \in times : u <= r.at
                BY <3>2, <4>1 DEF LatestReading
            <4> QED BY <4>2, <4>3
        <3>6. ASSUME NEW t \in times, \A u \in times : u <= t, d \in snapshots[t].online
              PROVE  Online(d)
            <4>1. PICK r \in readings : r.dev = d /\ r.at = t
                BY <3>2
            <4>2. r.online
                BY <3>3, <3>6, <4>1
            <4>3. LatestReading(r)
                BY <3>3, <3>6, <4>1 DEF LatestReading
            <4> QED BY <4>1, <4>2, <4>3 DEF Online
        <3> QED BY <3>4, <3>5, <3>6, Zenon
    <2> QED BY <2>2, Zenon DEF OnlineMeansSeen
<1>2. IInv => OnlineMeansSeen
    BY <1>1
<1> QED BY <1>2, Invariant, PTL

(* While answers arrive in order a device that nobody has hidden is        *)
(* announced once, with any number of answers under way and lost           *)
(* (the effect on devices in App.tsx).                                     *)
THEOREM AnnouncedOnce == Spec => []RepeatedOnlyIfHidden
<1>1. IInv => RepeatedOnlyIfHidden
    BY Zenon DEF IInv, Alerts, RepeatedOnlyIfHidden
<1> QED BY <1>1, Invariant, PTL
=============================================================================
