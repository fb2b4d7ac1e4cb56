--------------------------- MODULE DashboardProofs ---------------------------
(* Proofs about Dashboard, for every set of months and granularities and   *)
(* any number of changes, acts and lost sessions.                          *)
EXTENDS Dashboard, TLAPS

(* The first call of an App is the only one of its kind, and until it has  *)
(* succeeded the user can do nothing.                                      *)
BootInv ==
    /\ \A q \in inFlight : q.kind = "boot" => page = "loading"
    /\ \A q, r \in inFlight : q.kind = "boot" /\ r.kind = "boot" => q = r
    /\ page # "ready" =>
          /\ \A q \in inFlight : ~OfUser(q)
          /\ asked = [range |-> Current, chart |-> FirstChart]

(* As long as the user lets each call end before the next one.             *)
OneAtATime ==
    ~mixed => \A q, r \in inFlight : OfUser(q) /\ OfUser(r) => q = r

(* What is shown, or what the call under way will show when it succeeds:   *)
(* a load brings range and chart, a chart its chart, and a collection the  *)
(* range that its closure captured.                                        *)
LoadBrings(q) == q.kind = "load" => q.chart = asked.chart /\ q.chart.range = asked.range

ChartBrings(q) == q.kind = "chart" => q.chart = asked.chart

CollectBrings(q) == q.kind \in {"post", "timer", "collect"} => q.range = asked.range

Loads  == \E q \in inFlight : q.kind = "load"
Charts == \E q \in inFlight : q.kind = "chart"

ShownOrUnderWay ==
    page = "ready" /\ ~mixed =>
       /\ \A q \in inFlight : LoadBrings(q) /\ ChartBrings(q)
       /\ ~flags.failed =>
             /\ \A q \in inFlight : CollectBrings(q)
             /\ ~Loads => view.range = asked.range
             /\ ~Loads /\ ~Charts => series = asked.chart

IInv == TypeOK /\ BootInv /\ OneAtATime /\ ShownOrUnderWay

Flags == [loading : BOOLEAN, failed : BOOLEAN, collecting : BOOLEAN]

-----------------------------------------------------------------------------
(* Calls. *)

(* What a call carries.                                                    *)
LEMMA CallFields ==
    ASSUME NEW q \in Call
    PROVE  /\ q.kind \in {"boot", "poll", "load", "chart", "post", "timer", "collect"}
           /\ q.since \in Version
           /\ q.kind = "load" =>
                 q.chart \in Chart /\ q.period \in Months \union {NoMonth} /\ q.view \in View
           /\ q.kind = "chart" => q.chart \in Chart
           /\ q.kind \in {"post", "timer", "collect"} =>
                 q.period \in Months /\ q.range \in Months
BY DEF Call

(* A collection goes from its answer to the timer to the calls after it:   *)
(* it keeps its period and its range.                                      *)
LEMMA AnsweredPost ==
    ASSUME NEW q \in Call, q.kind = "post"
    PROVE  LET n == [q EXCEPT !.kind = "timer"]
           IN  n \in Call /\ n.kind = "timer" /\ n.range = q.range
BY DEF Call

LEMMA FiredTimer ==
    ASSUME NEW q \in Call, q.kind = "timer", NEW v \in Version, NEW l \in BOOLEAN
    PROVE  LET n == [q EXCEPT !.kind = "collect", !.since = v, !.live = l]
           IN  n \in Call /\ n.kind = "collect" /\ n.range = q.range
BY DEF Call

(* What App shows after an answer, and the range of it.                    *)
LEMMA ViewShown ==
    ASSUME NEW q \in Call, NEW v \in Version, view \in View
    PROVE  /\ NextView(q, v) \in View
           /\ q.kind = "boot" => NextView(q, v).range = Current
           /\ q.kind \in {"poll", "chart", "post", "timer"} =>
                 NextView(q, v).range = view.range
           /\ q.kind = "load" => NextView(q, v).range = q.chart.range
           /\ q.kind = "collect" => NextView(q, v).range = q.range
<1> USE MonthAssumption, CallFields
<1>1. CASE q.kind = "boot"
    BY <1>1 DEF NextView, Loaded, View
<1>2. CASE q.kind = "poll"
    <2>1. Polled(v) \in View /\ Polled(v).range = view.range
        <3> DEFINE m == [period |-> Current, at |-> v]
        <3>1. m \in [period : Months, at : Version]
            OBVIOUS
        <3>2. Polled(v) = [view EXCEPT !.cards = v, !.month = m]
            BY DEF Polled
        <3> HIDE DEF m
        <3> QED BY <3>1, <3>2 DEF View
    <2> QED BY <2>1, <1>2 DEF NextView
<1>3. CASE q.kind = "load"
    <2> DEFINE m == IF q.period = NoMonth THEN q.view.month ELSE [period |-> q.period, at |-> v]
    <2>1. q.view \in View /\ q.chart \in Chart
        BY <1>3
    <2>2. m \in [period : Months, at : Version]
        BY <1>3, <2>1 DEF View
    <2>3. WithHistory(q, v) = [q.view EXCEPT !.range = q.chart.range, !.month = m]
        BY DEF WithHistory
    <2>4. q.chart.range \in Months
        BY <2>1 DEF Chart
    <2>5. NextView(q, v) = WithHistory(q, v)
        BY <1>3 DEF NextView
    <2> HIDE DEF m
    <2> QED BY <1>3, <2>1, <2>2, <2>3, <2>4, <2>5 DEF View
<1>4. CASE q.kind = "collect"
    BY <1>4 DEF NextView, Collected, View
<1>5. CASE q.kind \in {"chart", "post", "timer"}
    BY <1>5 DEF NextView
<1> QED BY <1>1, <1>2, <1>3, <1>4, <1>5

(* The flags after a call has ended.                                       *)
LEMMA FlagsCleared ==
    ASSUME NEW q, NEW ok \in BOOLEAN, flags \in Flags
    PROVE  /\ Cleared(q, ok) \in Flags
           /\ q.kind = "load" => /\ ~Cleared(q, ok).loading
                                 /\ Cleared(q, ok).failed <=> flags.failed \/ ~ok
                                 /\ Cleared(q, ok).collecting = flags.collecting
           /\ q.kind = "collect" \/ (q.kind = "post" /\ ~ok) =>
                 /\ ~Cleared(q, ok).collecting
                 /\ Cleared(q, ok).loading = flags.loading
                 /\ Cleared(q, ok).failed = flags.failed
           /\ q.kind \notin {"load", "collect"} /\ (q.kind = "post" => ok) =>
                 Cleared(q, ok) = flags
<1>1. CASE q.kind = "load"
    <2> DEFINE f == flags.failed \/ ~ok
    <2>1. f \in BOOLEAN
        OBVIOUS
    <2>2. Cleared(q, ok) = [flags EXCEPT !.loading = FALSE, !.failed = f]
        BY <1>1 DEF Cleared
    <2> HIDE DEF f
    <2>3. /\ Cleared(q, ok) \in Flags
          /\ Cleared(q, ok).loading = FALSE
          /\ Cleared(q, ok).failed = f
          /\ Cleared(q, ok).collecting = flags.collecting
        BY <2>1, <2>2 DEF Flags
    <2> QED BY <1>1, <2>3 DEF f
<1>2. CASE q.kind = "collect" \/ (q.kind = "post" /\ ~ok)
    <2>1. Cleared(q, ok) = [flags EXCEPT !.collecting = FALSE]
        BY <1>2 DEF Cleared
    <2>2. /\ Cleared(q, ok) \in Flags
          /\ Cleared(q, ok).collecting = FALSE
          /\ Cleared(q, ok).loading = flags.loading
          /\ Cleared(q, ok).failed = flags.failed
        BY <2>1 DEF Flags
    <2> QED BY <1>2, <2>2
<1>3. CASE q.kind \notin {"load", "collect"} /\ (q.kind = "post" => ok)
    BY <1>3 DEF Cleared
<1> QED BY <1>1, <1>2, <1>3

-----------------------------------------------------------------------------
(* The invariant holds when the page opens, and each step keeps it.        *)

LEMMA Opened == Init => IInv
<1> SUFFICES ASSUME Init PROVE IInv
    OBVIOUS
<1> USE DEF Init, FirstChart, Loaded, NoFlags
<1>1. view \in View /\ series \in Chart /\ asked \in [range : Months, chart : Chart]
    BY MonthAssumption, GranularityAssumption, DashboardBounds DEF View, Chart, Version
<1>2. flags \in Flags /\ ~flags.loading /\ ~flags.collecting
    BY DEF Flags
<1>3. mixed \in BOOLEAN /\ orphans \in BOOLEAN
    BY Zenon
<1>4. TypeOK
    BY <1>1, <1>2, <1>3, DashboardBounds DEF TypeOK, Flags, Version
<1>5. BootInv /\ OneAtATime /\ ShownOrUnderWay
    BY DEF BootInv, OneAtATime, ShownOrUnderWay
<1> QED BY <1>4, <1>5 DEF IInv

(* A new App, or none: nothing of the one before is left.                  *)
LEMMA Mounted ==
    ASSUME NEW calls, Mount(calls),
           calls \subseteq Call,
           \A q, r \in calls : q.kind = "boot" /\ q = r,
           shell' # "authenticated" => calls = {},
           shell' \in {"loading", "anonymous", "authenticated"},
           version' \in Version, session' \in BOOLEAN, orphans' \in BOOLEAN,
           acts' \in 0..MaxActs, losses' \in 0..MaxLosses
    PROVE  IInv'
<1> USE DEF Mount, FirstChart, Loaded, NoFlags
<1>1. view' \in View /\ series' \in Chart /\ input' \in Chart
      /\ asked' \in [range : Months, chart : Chart]
    BY MonthAssumption, GranularityAssumption, DashboardBounds DEF View, Chart, Version
<1>2. flags' \in Flags /\ ~flags'.loading /\ ~flags'.collecting
    BY DEF Flags
<1>3. mixed' \in BOOLEAN
    BY Zenon
<1>4. page' = "loading" /\ inFlight' = calls
    OBVIOUS
<1>5. TypeOK'
    BY <1>1, <1>2, <1>3, <1>4 DEF TypeOK, Flags
<1>6. BootInv' /\ OneAtATime' /\ ShownOrUnderWay'
    BY <1>4 DEF BootInv, OneAtATime, ShownOrUnderWay, OfUser
<1> QED BY <1>5, <1>6 DEF IInv

LEMMA BootCall ==
    ASSUME version \in Version, NEW l \in BOOLEAN
    PROVE  Boot(l) \in Call /\ Boot(l).kind = "boot"
BY DEF Boot, Call

LEMMA GetAuthSessionStep == IInv /\ GetAuthSession => IInv'
<1> SUFFICES ASSUME IInv, GetAuthSession PROVE IInv'
    OBVIOUS
<1>1. /\ version' \in Version /\ session' \in BOOLEAN /\ orphans' \in BOOLEAN
      /\ acts' \in 0..MaxActs /\ losses' \in 0..MaxLosses
    BY DashboardBounds DEF IInv, TypeOK, GetAuthSession, server
<1>2. CASE Mount({Boot(TRUE)}) /\ shell' = "authenticated"
    <2>1. Boot(TRUE) \in Call /\ Boot(TRUE).kind = "boot"
        BY BootCall DEF IInv, TypeOK
    <2> QED BY <1>1, <1>2, <2>1, Mounted
<1>3. CASE Unmount("anonymous")
    BY <1>1, <1>3, Mounted DEF Unmount
<1> QED BY <1>2, <1>3 DEF GetAuthSession

LEMMA LoginStep == IInv /\ Login => IInv'
<1> SUFFICES ASSUME IInv, Login PROVE IInv'
    OBVIOUS
<1>1. session' \in BOOLEAN
    BY Zenon DEF Login
<1>2. /\ version' \in Version /\ orphans' \in BOOLEAN
      /\ acts' \in 0..MaxActs /\ losses' \in 0..MaxLosses
    BY DEF IInv, TypeOK, Login, bounds
<1>3. Boot(TRUE) \in Call /\ Boot(TRUE).kind = "boot"
    BY BootCall DEF IInv, TypeOK
<1> QED BY <1>1, <1>2, <1>3, Mounted DEF Login

LEMMA LogoutStep == IInv /\ Logout => IInv'
<1> SUFFICES ASSUME IInv, Logout PROVE IInv'
    OBVIOUS
<1>1. session' \in BOOLEAN
    BY Zenon DEF Logout
<1>2. orphans' \in BOOLEAN
    BY Zenon DEF Logout, IInv, TypeOK
<1>3. version' \in Version /\ acts' \in 0..MaxActs /\ losses' \in 0..MaxLosses
    BY DashboardBounds DEF IInv, TypeOK, Logout, Act
<1> QED BY <1>1, <1>2, <1>3, Mounted DEF Logout, Unmount

LEMMA ReloadStep == IInv /\ Reload => IInv'
<1> SUFFICES ASSUME IInv, Reload PROVE IInv'
    OBVIOUS
<1>1. orphans' \in BOOLEAN
    BY Zenon DEF Reload
<1>2. /\ version' \in Version /\ session' \in BOOLEAN
      /\ acts' \in 0..MaxActs /\ losses' \in 0..MaxLosses
    BY DashboardBounds DEF IInv, TypeOK, Reload, Act, server
<1> QED BY <1>1, <1>2, Mounted DEF Reload, Unmount

LEMMA UnauthorizedStep ==
    ASSUME IInv, NEW q \in inFlight, Unauthorized(q) PROVE IInv'
<1>1. orphans' \in BOOLEAN
    BY Zenon DEF Unauthorized
<1>2. /\ version' \in Version /\ session' \in BOOLEAN
      /\ acts' \in 0..MaxActs /\ losses' \in 0..MaxLosses
    BY DEF IInv, TypeOK, Unauthorized, server, bounds
<1> QED BY <1>1, <1>2, Mounted DEF Unauthorized, Unmount

LEMMA OrphanArrivesStep == IInv /\ OrphanArrives => IInv'
<1> SUFFICES ASSUME IInv, OrphanArrives PROVE IInv'
    OBVIOUS
<1>1. orphans' \in BOOLEAN
    BY Zenon DEF OrphanArrives
<1>2. /\ version' \in Version /\ session' \in BOOLEAN
      /\ acts' \in 0..MaxActs /\ losses' \in 0..MaxLosses
      /\ shell' \in {"loading", "anonymous"}
    BY DEF IInv, TypeOK, OrphanArrives, Unmount, server, bounds
<1> QED BY <1>1, <1>2, Mounted DEF OrphanArrives, Unmount

(* What touches nothing that App shows or waits for.                       *)
LEMMA BesideApp ==
    ASSUME IInv,
           UNCHANGED <<shell, page, view, series, flags, inFlight, asked, mixed>>,
           version' \in Version, session' \in BOOLEAN, orphans' \in BOOLEAN,
           input' \in Chart, acts' \in 0..MaxActs, losses' \in 0..MaxLosses
    PROVE  IInv'
<1>1. TypeOK'
    BY DEF IInv, TypeOK
<1>2. BootInv' /\ OneAtATime' /\ ShownOrUnderWay'
    BY DEF IInv, BootInv, OneAtATime, ShownOrUnderWay, LoadBrings, ChartBrings,
           CollectBrings, Loads, Charts
<1> QED BY <1>1, <1>2 DEF IInv

LEMMA NewDataStep == IInv /\ NewData => IInv'
<1> SUFFICES ASSUME IInv, NewData PROVE IInv'
    OBVIOUS
<1> QED BY BesideApp, DashboardBounds
        DEF IInv, TypeOK, NewData, Version, app, history, bounds

LEMMA SessionEndsStep == IInv /\ SessionEnds => IInv'
<1> SUFFICES ASSUME IInv, SessionEnds PROVE IInv'
    OBVIOUS
<1>1. session' \in BOOLEAN
    BY Zenon DEF SessionEnds
<1> QED BY <1>1, BesideApp, DashboardBounds DEF IInv, TypeOK, SessionEnds, app, history

LEMMA OrphanIsLostStep == IInv /\ OrphanIsLost => IInv'
<1> SUFFICES ASSUME IInv, OrphanIsLost PROVE IInv'
    OBVIOUS
<1>1. orphans' \in BOOLEAN
    BY Zenon DEF OrphanIsLost
<1> QED BY <1>1, BesideApp DEF IInv, TypeOK, OrphanIsLost, server, app, history, bounds

LEMMA TypeRangeStep ==
    ASSUME IInv, NEW m \in Months, TypeRange(m) PROVE IInv'
<1>1. input' \in Chart
    BY DEF IInv, TypeOK, TypeRange, Chart
<1> QED BY <1>1, BesideApp, DashboardBounds
        DEF IInv, TypeOK, TypeRange, Act, server, history

LEMMA PollStep == IInv /\ Poll => IInv'
<1> SUFFICES ASSUME IInv, Poll PROVE IInv'
    OBVIOUS
<1> DEFINE call == [kind |-> "poll", since |-> version, live |-> session]
<1>1. call \in Call /\ call.kind = "poll"
    BY DEF Call, IInv, TypeOK
<1>2. inFlight' = inFlight \union {call}
    BY DEF Poll, Send
<1>3. UNCHANGED <<version, session, shell, page, view, series, input, flags, orphans,
                  asked, mixed, acts, losses>>
    BY DEF Poll, server, history, bounds
<1>4. shell = "authenticated"
    BY DEF Poll, PollsRun
<1> HIDE DEF call
<1>5. TypeOK'
    BY <1>1, <1>2, <1>3, <1>4 DEF IInv, TypeOK
<1>6. \A q \in inFlight' : q.kind = "poll" \/ q \in inFlight
    BY <1>1, <1>2
<1>7. BootInv'
    BY <1>3, <1>6 DEF IInv, BootInv, OfUser
<1>8. OneAtATime'
    BY <1>3, <1>6 DEF IInv, OneAtATime, OfUser
<1>9. ShownOrUnderWay'
    <2>1. Loads' = Loads /\ Charts' = Charts
        BY <1>1, <1>2 DEF Loads, Charts
    <2>2. ASSUME page = "ready", ~mixed PROVE ShownOrUnderWay'
        BY <2>1, <2>2, <1>3, <1>6
           DEF IInv, ShownOrUnderWay, LoadBrings, ChartBrings, CollectBrings
    <2> QED BY <2>2, <1>3 DEF ShownOrUnderWay
<1> QED BY <1>5, <1>7, <1>8, <1>9 DEF IInv

(* A call of the user's, beside what it asks for.                          *)
LEMMA Begun ==
    ASSUME IInv, NEW call, Begin(call), call \in Call, OfUser(call)
    PROVE  /\ inFlight' = inFlight \union {call}
           /\ page = "ready"
           /\ UNCHANGED <<version, session, shell, page, view, series, orphans, losses>>
           /\ shell = "authenticated"
           /\ acts' \in 0..MaxActs /\ mixed' \in BOOLEAN
           /\ BootInv' /\ OneAtATime'
           /\ ~mixed' => ~mixed /\ \A q \in inFlight : ~OfUser(q)
<1>1. /\ inFlight' = inFlight \union {call}
      /\ page = "ready"
      /\ UNCHANGED <<version, session, shell, page, view, series, orphans, losses>>
    BY DEF Begin, Send, Act, server
<1>2. shell = "authenticated"
    BY <1>1 DEF IInv, TypeOK
<1>3. acts' \in 0..MaxActs
    BY DashboardBounds DEF Begin, Act, IInv, TypeOK
<1>4. mixed' \in BOOLEAN
    BY Zenon DEF Begin, IInv, TypeOK
<1>5. ~mixed' => ~mixed /\ \A q \in inFlight : ~OfUser(q)
    BY Zenon DEF Begin
<1>6. BootInv'
    <2>1. \A q \in inFlight' : q.kind # "boot"
        BY <1>1 DEF IInv, BootInv, OfUser
    <2> QED BY <2>1, <1>1 DEF BootInv
<1>7. OneAtATime'
    BY <1>1, <1>5 DEF OneAtATime
<1> QED BY <1>1, <1>2, <1>3, <1>4, <1>5, <1>6, <1>7

LEMMA LoadHistoryStep ==
    ASSUME IInv, NEW m \in Months, NEW p \in Months \union {NoMonth},
           LoadHistory(m, p), input' \in Chart
    PROVE  IInv'
<1> DEFINE chart == [range |-> m, gran |-> input.gran]
           call == [kind |-> "load", since |-> version, live |-> session,
                    chart |-> chart, period |-> p, view |-> view]
<1>1. chart \in Chart /\ chart.range = m
    BY DEF IInv, TypeOK, Chart
<1>2. call \in Call /\ call.kind = "load" /\ call.chart = chart
    BY <1>1 DEF IInv, TypeOK, Call
<1>3. Begin(call) /\ asked' = [range |-> m, chart |-> chart]
    BY DEF LoadHistory
<1>4. flags' = [flags EXCEPT !.loading = TRUE, !.failed = FALSE]
    BY DEF LoadHistory
<1> HIDE DEF chart, call
<1>5. /\ flags' \in Flags
      /\ ~flags'.failed
      /\ flags'.collecting = flags.collecting
    BY <1>4 DEF IInv, TypeOK, Flags
<1>6. OfUser(call)
    BY <1>2 DEF OfUser
<1>7. TypeOK'
    BY <1>1, <1>2, <1>3, <1>5, <1>6, Begun DEF IInv, TypeOK, Flags
<1>8. ShownOrUnderWay'
    <2> SUFFICES ASSUME ~mixed' PROVE ShownOrUnderWay'
        BY DEF ShownOrUnderWay
    <2>1. inFlight' = inFlight \union {call} /\ \A q \in inFlight : ~OfUser(q)
        BY <1>2, <1>3, <1>6, Begun
    <2>2. \A q \in inFlight' : (LoadBrings(q) /\ ChartBrings(q) /\ CollectBrings(q))'
        BY <2>1, <1>1, <1>2, <1>3 DEF LoadBrings, ChartBrings, CollectBrings, OfUser
    <2>3. Loads'
        BY <2>1, <1>2 DEF Loads
    <2> QED BY <2>2, <2>3 DEF ShownOrUnderWay
<1> QED BY <1>2, <1>3, <1>6, <1>7, <1>8, Begun DEF IInv

LEMMA SelectMonthStep ==
    ASSUME IInv, NEW m \in Months, SelectMonth(m) PROVE IInv'
<1>1. input' \in Chart
    BY DEF IInv, TypeOK, SelectMonth, Chart
<1> QED BY <1>1, LoadHistoryStep DEF SelectMonth

LEMMA ApplyRangeStep == IInv /\ ApplyRange => IInv'
<1> SUFFICES ASSUME IInv, ApplyRange PROVE IInv'
    OBVIOUS
<1>1. input' \in Chart /\ input.range \in Months
    BY DEF IInv, TypeOK, ApplyRange, Chart
<1> QED BY <1>1, LoadHistoryStep DEF ApplyRange

LEMMA ChangeGranularityStep ==
    ASSUME IInv, NEW g \in Granularity, ChangeGranularity(g) PROVE IInv'
<1> DEFINE chart == [input EXCEPT !.gran = g]
           call == [kind |-> "chart", since |-> version, live |-> session, chart |-> chart]
<1>1. chart \in Chart
    BY DEF IInv, TypeOK, Chart
<1>2. call \in Call /\ call.kind = "chart" /\ call.chart = chart
    BY <1>1 DEF IInv, TypeOK, Call
<1>3. Begin(call) /\ asked' = [asked EXCEPT !.chart = chart] /\ input' = chart
    BY DEF ChangeGranularity
<1>4. UNCHANGED flags
    BY DEF ChangeGranularity
<1> HIDE DEF chart, call
<1>5. /\ asked' \in [range : Months, chart : Chart]
      /\ asked'.range = asked.range /\ asked'.chart = chart
    BY <1>1, <1>3 DEF IInv, TypeOK
<1>6. OfUser(call)
    BY <1>2 DEF OfUser
<1>7. TypeOK'
    BY <1>1, <1>2, <1>3, <1>4, <1>5, <1>6, Begun DEF IInv, TypeOK
<1>8. ShownOrUnderWay'
    <2> SUFFICES ASSUME ~mixed' PROVE ShownOrUnderWay'
        BY DEF ShownOrUnderWay
    <2>1. /\ inFlight' = inFlight \union {call} /\ \A q \in inFlight : ~OfUser(q)
          /\ ~mixed /\ page = "ready" /\ UNCHANGED <<view, series>>
        BY <1>2, <1>3, <1>6, Begun
    <2>2. \A q \in inFlight' : (LoadBrings(q) /\ ChartBrings(q) /\ CollectBrings(q))'
        BY <2>1, <1>2, <1>5 DEF LoadBrings, ChartBrings, CollectBrings, OfUser
    <2>3. Charts' /\ ~Loads
        BY <2>1, <1>2 DEF Charts, Loads, OfUser
    <2>4. ~flags'.failed => view'.range = asked'.range
        BY <2>1, <2>3, <1>4, <1>5 DEF IInv, ShownOrUnderWay
    <2> QED BY <2>2, <2>3, <2>4 DEF ShownOrUnderWay
<1> QED BY <1>2, <1>3, <1>6, <1>7, <1>8, Begun DEF IInv

LEMMA CollectNowStep == IInv /\ CollectNow => IInv'
<1> SUFFICES ASSUME IInv, CollectNow PROVE IInv'
    OBVIOUS
<1> DEFINE call == [kind |-> "post", since |-> version, live |-> session,
                    period |-> view.month.period, range |-> view.range]
<1>1. call \in Call /\ call.kind = "post" /\ call.range = view.range
    BY DEF IInv, TypeOK, Call, View
<1>2. Begin(call) /\ UNCHANGED <<input, asked>>
    BY DEF CollectNow
<1>3. flags' = [flags EXCEPT !.collecting = TRUE]
    BY DEF CollectNow
<1> HIDE DEF call
<1>4. flags' \in Flags /\ flags'.loading = flags.loading /\ flags'.failed = flags.failed
    BY <1>3 DEF IInv, TypeOK, Flags
<1>5. OfUser(call)
    BY <1>1 DEF OfUser
<1>6. TypeOK'
    BY <1>1, <1>2, <1>4, <1>5, Begun DEF IInv, TypeOK, Flags
<1>7. ShownOrUnderWay'
    <2> SUFFICES ASSUME ~mixed' PROVE ShownOrUnderWay'
        BY DEF ShownOrUnderWay
    <2>1. /\ inFlight' = inFlight \union {call} /\ \A q \in inFlight : ~OfUser(q)
          /\ ~mixed /\ page = "ready" /\ UNCHANGED <<view, series>>
        BY <1>1, <1>2, <1>5, Begun
    <2>2. ~Loads /\ ~Charts
        BY <2>1 DEF Charts, Loads, OfUser
    <2>3. ~flags.failed => view.range = asked.range /\ series = asked.chart
        BY <2>1, <2>2 DEF IInv, ShownOrUnderWay
    <2>4. \A q \in inFlight' : /\ (LoadBrings(q) /\ ChartBrings(q))'
                               /\ ~flags.failed => CollectBrings(q)'
        BY <2>1, <2>3, <1>1, <1>2 DEF LoadBrings, ChartBrings, CollectBrings, OfUser
    <2> QED BY <2>1, <2>3, <2>4, <1>2, <1>4 DEF ShownOrUnderWay
<1> QED BY <1>1, <1>2, <1>5, <1>6, <1>7, Begun DEF IInv

(* A call takes the place of another one of the same collection.           *)
LEMMA Continued ==
    ASSUME IInv, NEW q \in inFlight, NEW n \in Call,
           q.kind \in {"post", "timer"}, n.kind \in {"timer", "collect"}, n.range = q.range,
           inFlight' = (inFlight \ {q}) \union {n},
           UNCHANGED <<page, view.range, series, flags, asked, mixed>>
    PROVE  /\ inFlight' \subseteq Call /\ BootInv' /\ OneAtATime' /\ ShownOrUnderWay'
           /\ flags.loading => \E r \in inFlight' : r.kind = "load"
           /\ \E r \in inFlight' : r.kind \in {"post", "timer", "collect"}
<1>1. \A r \in inFlight' : r = n \/ (r \in inFlight /\ r # q)
    OBVIOUS
<1>2. OfUser(q) /\ OfUser(n) /\ n \in inFlight'
    BY DEF OfUser
<1>3. inFlight \subseteq Call /\ (flags.loading => \E r \in inFlight : r.kind = "load")
    BY DEF IInv, TypeOK
<1>4. page = "ready"
    BY <1>2 DEF IInv, BootInv
<1>5. Loads' = Loads /\ Charts' = Charts
    BY DEF Loads, Charts
<1>6. BootInv'
    BY <1>1, <1>4 DEF IInv, BootInv
<1>7. OneAtATime'
    BY <1>1, <1>2 DEF IInv, OneAtATime
<1>8. ShownOrUnderWay'
    <2> SUFFICES ASSUME ~mixed PROVE ShownOrUnderWay'
        BY DEF ShownOrUnderWay
    <2>1. \A r \in inFlight : /\ LoadBrings(r) /\ ChartBrings(r)
                              /\ ~flags.failed => CollectBrings(r)
        BY <1>4 DEF IInv, ShownOrUnderWay
    <2>2. ~flags.failed => q.range = asked.range
        BY <2>1 DEF CollectBrings
    <2>3. \A r \in inFlight' : /\ (LoadBrings(r) /\ ChartBrings(r))'
                               /\ ~flags.failed => CollectBrings(r)'
        BY <1>1, <2>1, <2>2 DEF LoadBrings, ChartBrings, CollectBrings
    <2> QED BY <1>4, <1>5, <2>3 DEF IInv, ShownOrUnderWay
<1> QED BY <1>1, <1>2, <1>3, <1>6, <1>7, <1>8

LEMMA CollectTimerStep ==
    ASSUME IInv, NEW q \in inFlight, CollectTimer(q) PROVE IInv'
<1> DEFINE n == [q EXCEPT !.kind = "collect", !.since = version, !.live = session]
<1>1. q \in Call /\ version \in Version /\ session \in BOOLEAN
    BY DEF IInv, TypeOK
<1>2. q.kind = "timer" /\ inFlight' = (inFlight \ {q}) \union {n}
    BY DEF CollectTimer
<1>3. n \in Call /\ n.kind = "collect" /\ n.range = q.range
    BY <1>1, <1>2, FiredTimer
<1> HIDE DEF n
<1>4. UNCHANGED <<version, session, shell, page, view, series, input, flags, orphans,
                  asked, mixed, acts, losses>>
    BY DEF CollectTimer, server, history, bounds
<1>5. /\ inFlight' \subseteq Call /\ BootInv' /\ OneAtATime' /\ ShownOrUnderWay'
      /\ flags.loading => \E r \in inFlight' : r.kind = "load"
      /\ \E r \in inFlight' : r.kind \in {"post", "timer", "collect"}
    BY <1>2, <1>3, <1>4, Continued
<1>6. TypeOK'
    BY <1>4, <1>5 DEF IInv, TypeOK
<1> QED BY <1>5, <1>6 DEF IInv

(* What a call that has ended leaves, whichever way it ended.              *)
LEMMA Ended ==
    ASSUME IInv, NEW q \in inFlight, inFlight' = inFlight \ {q},
           NEW ok \in BOOLEAN, flags' = Cleared(q, ok),
           q.kind # "timer", q.kind = "post" => ~ok
    PROVE  /\ inFlight' \subseteq Call /\ flags' \in Flags
           /\ flags'.loading => \E r \in inFlight' : r.kind = "load"
           /\ flags'.collecting => \E r \in inFlight' : r.kind \in {"post", "timer", "collect"}
           /\ q.kind = "boot" => \A r \in inFlight' : r.kind # "boot"
           /\ OfUser(q) /\ ~mixed => \A r \in inFlight' : ~OfUser(r)
           /\ OfUser(q) => page = "ready"
<1>1. inFlight \subseteq Call /\ flags \in Flags
      /\ (flags.loading => \E r \in inFlight : r.kind = "load")
      /\ (flags.collecting => \E r \in inFlight : r.kind \in {"post", "timer", "collect"})
    BY DEF IInv, TypeOK, Flags
<1>2. flags' \in Flags
    BY <1>1, FlagsCleared
<1>3. flags'.loading => q.kind # "load" /\ flags.loading
    BY <1>1, FlagsCleared
<1>4. flags'.collecting => q.kind \notin {"post", "timer", "collect"} /\ flags.collecting
    BY <1>1, FlagsCleared
<1>5. q.kind = "boot" => \A r \in inFlight' : r.kind # "boot"
    BY DEF IInv, BootInv
<1>6. OfUser(q) /\ ~mixed => \A r \in inFlight' : ~OfUser(r)
    BY DEF IInv, OneAtATime
<1>7. OfUser(q) => page = "ready"
    BY DEF IInv, BootInv
<1>8. flags'.loading => \E r \in inFlight' : r.kind = "load"
    BY <1>1, <1>3
<1>9. flags'.collecting => \E r \in inFlight' : r.kind \in {"post", "timer", "collect"}
    BY <1>1, <1>4
<1> QED BY <1>1, <1>2, <1>5, <1>6, <1>7, <1>8, <1>9

LEMMA FailStep ==
    ASSUME IInv, NEW q \in inFlight, Fail(q) PROVE IInv'
<1>1. /\ inFlight' = inFlight \ {q} /\ q.kind # "timer"
      /\ flags' = Cleared(q, FALSE)
      /\ page' = IF q.kind = "boot" THEN "error" ELSE page
      /\ UNCHANGED <<version, session, shell, view, series, input, orphans,
                     asked, acts, losses>>
    BY DEF Fail, server, bounds
<1>2. mixed' \in BOOLEAN /\ (~mixed' => ~mixed /\ q.kind # "chart")
    BY Zenon DEF Fail, IInv, TypeOK
<1>3. /\ inFlight' \subseteq Call /\ flags' \in Flags
      /\ flags'.loading => \E r \in inFlight' : r.kind = "load"
      /\ flags'.collecting => \E r \in inFlight' : r.kind \in {"post", "timer", "collect"}
      /\ q.kind = "boot" => \A r \in inFlight' : r.kind # "boot"
      /\ OfUser(q) /\ ~mixed => \A r \in inFlight' : ~OfUser(r)
      /\ OfUser(q) => page = "ready"
    BY <1>1, Ended
<1>4. q \in Call /\ flags \in Flags
    BY DEF IInv, TypeOK, Flags
<1>5. TypeOK'
    <2>1. shell' = "authenticated"
        BY <1>1 DEF IInv, TypeOK
    <2> QED BY <2>1, <1>1, <1>2, <1>3 DEF IInv, TypeOK, Flags
<1>6. BootInv'
    BY <1>1, <1>3 DEF IInv, BootInv
<1>7. OneAtATime'
    BY <1>1, <1>2 DEF IInv, OneAtATime
<1>8. ShownOrUnderWay'
    <2> SUFFICES ASSUME page' = "ready", ~mixed' PROVE ShownOrUnderWay'
        BY DEF ShownOrUnderWay
    <2>1. page = "ready" /\ ~mixed /\ q.kind # "boot" /\ q.kind # "chart"
        BY <1>1, <1>2
    <2>2. \A r \in inFlight' : LoadBrings(r)' /\ ChartBrings(r)'
        BY <1>1, <2>1 DEF IInv, ShownOrUnderWay, LoadBrings, ChartBrings
    <2>3. ASSUME ~flags'.failed
          PROVE  /\ \A r \in inFlight' : CollectBrings(r)'
                 /\ ~Loads' => view'.range = asked'.range
                 /\ ~Loads' /\ ~Charts' => series' = asked'.chart
        <3>1. q.kind # "load" /\ ~flags.failed
            BY <1>1, <1>4, <2>3, FlagsCleared
        <3>2. Loads' = Loads /\ Charts' = Charts
            BY <1>1, <2>1, <3>1 DEF Loads, Charts
        <3> QED BY <1>1, <2>1, <3>1, <3>2 DEF IInv, ShownOrUnderWay, CollectBrings
    <2> QED BY <2>2, <2>3 DEF ShownOrUnderWay
<1> QED BY <1>5, <1>6, <1>7, <1>8 DEF IInv

(* An answer has a version, and brings the view that ViewShown describes.  *)
LEMMA Answered ==
    ASSUME IInv, NEW q \in inFlight, Succeed(q)
    PROVE  /\ view' \in View /\ series' \in Chart
           /\ q.kind = "boot" => view'.range = Current /\ series' = FirstChart
           /\ q.kind \in {"poll", "chart", "post"} => view'.range = view.range
           /\ q.kind = "load" => view'.range = q.chart.range
           /\ q.kind = "collect" => view'.range = q.range
           /\ q.kind \in {"load", "chart"} => series' = q.chart
           /\ q.kind \in {"poll", "post", "collect"} => series' = series
           /\ q.kind \in {"boot", "poll", "load", "chart", "post", "collect"}
<1>1. q \in Call /\ view \in View /\ series \in Chart /\ version \in Version
    BY DEF IInv, TypeOK
<1>2. PICK v \in q.since..version : view' = NextView(q, v)
    BY DEF Succeed
<1>3. v \in Version
    BY <1>1, CallFields, DashboardBounds DEF Version
<1>4. /\ series' = IF q.kind \in {"load", "chart"} THEN q.chart
                   ELSE IF q.kind = "boot" THEN FirstChart ELSE series
      /\ q.kind # "timer"
    BY DEF Succeed
<1>5. FirstChart \in Chart
    BY MonthAssumption, GranularityAssumption DEF FirstChart, Chart
<1>6. /\ view' \in View
      /\ q.kind = "boot" => view'.range = Current
      /\ q.kind \in {"poll", "chart", "post"} => view'.range = view.range
      /\ q.kind = "load" => view'.range = q.chart.range
      /\ q.kind = "collect" => view'.range = q.range
    BY <1>1, <1>2, <1>3, ViewShown
<1>7. q.kind \in {"boot", "poll", "load", "chart", "post", "collect"}
    BY <1>1, <1>4, CallFields
<1>8. series' \in Chart
    BY <1>1, <1>4, <1>5, CallFields
<1> QED BY <1>4, <1>6, <1>7, <1>8

LEMMA SucceedStep ==
    ASSUME IInv, NEW q \in inFlight, Succeed(q) PROVE IInv'
<1>1. /\ view' \in View /\ series' \in Chart
      /\ q.kind = "boot" => view'.range = Current /\ series' = FirstChart
      /\ q.kind \in {"poll", "chart", "post"} => view'.range = view.range
      /\ q.kind = "load" => view'.range = q.chart.range
      /\ q.kind = "collect" => view'.range = q.range
      /\ q.kind \in {"load", "chart"} => series' = q.chart
      /\ q.kind \in {"poll", "post", "collect"} => series' = series
      /\ q.kind \in {"boot", "poll", "load", "chart", "post", "collect"}
    BY Answered
<1>2. /\ page' = IF q.kind \in {"boot", "load", "collect"} THEN "ready" ELSE page
      /\ flags' = Cleared(q, TRUE)
      /\ UNCHANGED <<version, session, shell, input, orphans, asked, mixed, acts, losses>>
    BY DEF Succeed, server, history, bounds
<1>3. q \in Call /\ flags \in Flags /\ shell = "authenticated"
    BY DEF IInv, TypeOK, Flags
<1>4. CASE q.kind = "post"
    <2> DEFINE n == [q EXCEPT !.kind = "timer"]
    <2>1. inFlight' = (inFlight \ {q}) \union {n}
        BY <1>4 DEF Succeed
    <2>2. n \in Call /\ n.kind = "timer" /\ n.range = q.range
        BY <1>3, <1>4, AnsweredPost
    <2> HIDE DEF n
    <2>3. flags' = flags /\ page' = page
        BY <1>2, <1>3, <1>4, FlagsCleared
    <2>4. /\ inFlight' \subseteq Call /\ BootInv' /\ OneAtATime' /\ ShownOrUnderWay'
          /\ flags.loading => \E r \in inFlight' : r.kind = "load"
          /\ \E r \in inFlight' : r.kind \in {"post", "timer", "collect"}
        BY <1>1, <1>2, <1>4, <2>1, <2>2, <2>3, Continued
    <2>5. TypeOK'
        BY <1>1, <1>2, <1>3, <2>3, <2>4 DEF IInv, TypeOK
    <2> QED BY <2>4, <2>5 DEF IInv
<1>5. CASE q.kind # "post"
    <2>1. inFlight' = inFlight \ {q} /\ q.kind # "timer"
        BY <1>5 DEF Succeed
    <2>2. /\ inFlight' \subseteq Call /\ flags' \in Flags
          /\ flags'.loading => \E r \in inFlight' : r.kind = "load"
          /\ flags'.collecting => \E r \in inFlight' : r.kind \in {"post", "timer", "collect"}
          /\ q.kind = "boot" => \A r \in inFlight' : r.kind # "boot"
          /\ OfUser(q) /\ ~mixed => \A r \in inFlight' : ~OfUser(r)
          /\ OfUser(q) => page = "ready"
        BY <1>2, <1>5, <2>1, Ended
    <2>3. TypeOK'
        BY <1>1, <1>2, <1>3, <2>2 DEF IInv, TypeOK, Flags
    <2>4. q.kind # "boot" => page' = page
        BY <1>1, <1>2, <2>2 DEF OfUser
    <2>5. BootInv'
        BY <1>2, <2>1, <2>2, <2>4 DEF IInv, BootInv
    <2>6. OneAtATime'
        BY <1>2, <2>1 DEF IInv, OneAtATime
    <2>7. ShownOrUnderWay'
        <3> SUFFICES ASSUME page' = "ready", ~mixed' PROVE ShownOrUnderWay'
            BY DEF ShownOrUnderWay
        <3>1. CASE q.kind = "boot"
            <4>1. \A r \in inFlight' : ~OfUser(r)
                BY <3>1, <2>1 DEF IInv, BootInv
            <4>2. asked = [range |-> Current, chart |-> FirstChart]
                BY <3>1 DEF IInv, BootInv
            <4> QED BY <4>1, <4>2, <3>1, <1>1, <1>2
                    DEF ShownOrUnderWay, LoadBrings, ChartBrings, CollectBrings, OfUser
        <3>2. CASE q.kind = "poll"
            <4>1. page = "ready" /\ ~mixed /\ flags' = flags
                BY <3>2, <1>2, <1>3, <2>4, FlagsCleared
            <4>2. Loads' = Loads /\ Charts' = Charts
                BY <3>2, <2>1 DEF Loads, Charts
            <4> QED BY <4>1, <4>2, <3>2, <1>1, <1>2, <2>1
                    DEF IInv, ShownOrUnderWay, LoadBrings, ChartBrings, CollectBrings
        <3>3. CASE OfUser(q)
            <4>1. /\ page = "ready" /\ ~mixed /\ \A r \in inFlight' : ~OfUser(r)
                  /\ LoadBrings(q) /\ ChartBrings(q)
                BY <3>3, <1>2, <2>2 DEF IInv, ShownOrUnderWay
            <4>2. CASE q.kind = "load"
                BY <4>1, <4>2, <1>1, <1>2
                   DEF ShownOrUnderWay, LoadBrings, ChartBrings, CollectBrings, OfUser
            <4>3. CASE q.kind \in {"chart", "collect"}
                <5>1. flags'.failed = flags.failed
                    BY <4>3, <1>2, <1>3, FlagsCleared
                <5>2. ~Loads /\ (q.kind = "collect" => ~Charts)
                    BY <4>1, <4>3, <2>1 DEF Loads, Charts, OfUser
                <5>3. ~flags.failed => /\ CollectBrings(q) /\ view.range = asked.range
                                       /\ q.kind = "collect" => series = asked.chart
                    BY <4>1, <5>2 DEF IInv, ShownOrUnderWay
                <5>4. ~flags.failed => view'.range = asked.range /\ series' = asked.chart
                    BY <4>1, <4>3, <5>3, <1>1 DEF CollectBrings, ChartBrings
                <5> QED BY <4>1, <5>1, <5>4, <1>2
                        DEF ShownOrUnderWay, LoadBrings, ChartBrings, CollectBrings, OfUser
            <4> QED BY <4>2, <4>3, <3>3, <1>1, <1>5 DEF OfUser
        <3> QED BY <3>1, <3>2, <3>3 DEF OfUser
    <2> QED BY <2>3, <2>5, <2>6, <2>7 DEF IInv
<1> QED BY <1>4, <1>5

LEMMA Stutter == IInv /\ UNCHANGED vars => IInv'
<1> SUFFICES ASSUME IInv, UNCHANGED vars PROVE IInv'
    OBVIOUS
<1> QED BY BesideApp DEF IInv, TypeOK, vars, server, app, history, bounds

LEMMA Inductive == IInv /\ [Next]_vars => IInv'
<1> SUFFICES ASSUME IInv, [Next]_vars PROVE IInv'
    OBVIOUS
<1>1. CASE User
    <2>1. ASSUME NEW m \in Months, SelectMonth(m) \/ TypeRange(m) PROVE IInv'
        BY <2>1, SelectMonthStep, TypeRangeStep
    <2>2. ASSUME NEW g \in Granularity, ChangeGranularity(g) PROVE IInv'
        BY <2>2, ChangeGranularityStep
    <2> QED BY ONLY <1>1, <2>1, <2>2, IInv, LogoutStep, ReloadStep, ApplyRangeStep, CollectNowStep
            DEF User
<1>2. ASSUME NEW q \in inFlight, Ends(q) PROVE IInv'
    BY <1>2, SucceedStep, FailStep, UnauthorizedStep, CollectTimerStep DEF Ends
<1> QED BY ONLY <1>1, <1>2, IInv, [Next]_vars, GetAuthSessionStep, LoginStep, NewDataStep,
               SessionEndsStep, PollStep, OrphanArrivesStep, OrphanIsLostStep, Stutter
        DEF Next

-----------------------------------------------------------------------------
(* The theorems. *)

LEMMA Invariance == Spec => []IInv
BY Opened, Inductive, PTL DEF Spec

(* Every variable keeps its type, outside App nothing of it is left, and a *)
(* button that waits has a call that it waits for (App.tsx, AppShell.tsx). *)
THEOREM TypeCorrect == Spec => []TypeOK
<1>1. IInv => TypeOK
    BY DEF IInv
<1> QED BY <1>1, Invariance, PTL

(* A user whose calls do not overlap sees the range and the chart that     *)
(* they asked for last, or the error, however many polls, collections and  *)
(* lost sessions come in between (loadHistory, collectNow,                 *)
(* changeGranularity and the timer's refresh in App.tsx).                  *)
THEOREM AskedIsShown == Spec => []HistoryAsAsked
<1>1. IInv => HistoryAsAsked
    BY DEF IInv, ShownOrUnderWay, HistoryAsAsked, Loads, Charts, OfUser
<1> QED BY <1>1, Invariance, PTL
=============================================================================
