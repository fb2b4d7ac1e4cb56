------------------------------ MODULE Dashboard ------------------------------
(***************************************************************************)
(* The dashboard in a browser: AppShell.tsx, which decides between the     *)
(* login page and the application, and the usage half of App.tsx, whose    *)
(* state is written by a poll every 30 seconds, by history loads, by       *)
(* manual collections and by changes of granularity, each from the state   *)
(* its closure captured when it began.  The list of devices is in          *)
(* DeviceList.                                                             *)
(*                                                                         *)
(* The server's data is a version that grows.  The requests of one         *)
(* Promise.all are answered together, at some moment between their being   *)
(* sent and their answer's arrival, and arrive in any order with those of  *)
(* other calls.  The cards, the status and the plan are written together   *)
(* but for the plan's own form, which is left out.  asked and mixed are    *)
(* history variables.                                                      *)
(***************************************************************************)
EXTENDS Naturals

CONSTANTS
    Months,       \* months, and the ranges of dates that they stand for
    Current,      \* the month in which the dashboard was opened
    NoMonth,      \* loadHistory is called without a month
    Granularity,  \* granularities of the chart
    Day,          \* the one it starts with
    MaxVersion,   \* bound: changes of the server's data
    MaxActs,      \* bound: things the user does
    MaxLosses     \* bound: sessions that end, or are not recognised

ASSUME MonthAssumption == Current \in Months /\ NoMonth \notin Months
ASSUME GranularityAssumption == Day \in Granularity
ASSUME DashboardBounds == MaxVersion \in Nat /\ MaxActs \in Nat /\ MaxLosses \in Nat

VARIABLES
    version,  \* the server's data
    session,  \* the browser's cookie belongs to a session the API admits
    shell,    \* AppShell's state
    page,     \* App's state.kind
    view,     \* the rest of App's state: cards and status, month, history
    series,   \* the chart
    input,    \* the dates typed in and the granularity selected
    flags,    \* historyLoading, historyError and collecting
    inFlight, \* calls of the mounted App under way
    orphans,  \* answers for an App that is gone, whose session has ended
    asked,    \* history: range and chart the user asked for last
    mixed,    \* history: one of the user's calls overlapped another one
    acts,     \* things the user may still do
    losses    \* sessions that may still end

server  == <<version, session>>
app     == <<page, view, series, input, flags, inFlight>>
history == <<asked, mixed>>
bounds  == <<acts, losses>>
vars    == <<server, shell, app, orphans, history, bounds>>

Version == 0..MaxVersion
Chart   == [range : Months, gran : Granularity]
View    == [cards : Version, month : [period : Months, at : Version], range : Months]

(* since is the version when the call was sent, live whether its session   *)
(* was admitted then.                                                      *)
Call ==
    [kind : {"boot", "poll"}, since : Version, live : BOOLEAN] \union
    [kind : {"load"}, since : Version, live : BOOLEAN,
     chart : Chart, period : Months \union {NoMonth}, view : View] \union
    [kind : {"chart"}, since : Version, live : BOOLEAN, chart : Chart] \union
    [kind : {"post", "timer", "collect"}, since : Version, live : BOOLEAN,
     period : Months, range : Months]

FirstChart == [range |-> Current, gran |-> Day]
Loaded(v)  == [cards |-> v, month |-> [period |-> Current, at |-> v], range |-> Current]
NoFlags    == [loading |-> FALSE, failed |-> FALSE, collecting |-> FALSE]

-----------------------------------------------------------------------------
(* Mounting and unmounting.  What a component keeps is gone with it.       *)

Boot(alive) == [kind |-> "boot", since |-> version, live |-> alive]

Mount(calls) ==
    /\ page' = "loading" /\ view' = Loaded(0) /\ series' = FirstChart
    /\ input' = FirstChart /\ flags' = NoFlags
    /\ inFlight' = calls
    /\ asked' = [range |-> Current, chart |-> FirstChart] /\ mixed' = FALSE

Unmount(to) == shell' = to /\ Mount({})

(* The browser opens the page, with or without a session from before.      *)
Init ==
    /\ version = 0 /\ session \in BOOLEAN
    /\ shell = "loading" /\ page = "loading"
    /\ view = Loaded(0) /\ series = FirstChart /\ input = FirstChart /\ flags = NoFlags
    /\ inFlight = {} /\ orphans = FALSE
    /\ asked = [range |-> Current, chart |-> FirstChart] /\ mixed = FALSE
    /\ acts = MaxActs /\ losses = MaxLosses

(* AppShell's effect.  A call that fails is taken for no session.          *)
GetAuthSession ==
    /\ shell = "loading"
    /\ \/ session /\ shell' = "authenticated" /\ Mount({Boot(TRUE)}) /\ UNCHANGED losses
       \/ ~session /\ Unmount("anonymous") /\ UNCHANGED losses
       \/ session /\ losses > 0 /\ losses' = losses - 1 /\ Unmount("anonymous")
    /\ UNCHANGED <<server, orphans, acts>>

(* login() succeeds.  The session that the cookie named before is left.    *)
Login ==
    /\ shell = "anonymous"
    /\ session' = TRUE /\ shell' = "authenticated"
    /\ Mount({Boot(TRUE)})
    /\ UNCHANGED <<version, orphans, bounds>>

Act == acts > 0 /\ acts' = acts - 1 /\ UNCHANGED losses

(* logout() succeeds; if it fails the application stays.                   *)
Logout ==
    /\ shell = "authenticated" /\ Act
    /\ session' = FALSE
    /\ orphans' = (orphans \/ inFlight # {})
    /\ Unmount("anonymous")
    /\ UNCHANGED version

Reload ==
    /\ Act /\ orphans' = FALSE
    /\ Unmount("loading")
    /\ UNCHANGED server

(* The server. *)

NewData ==
    /\ version < MaxVersion /\ version' = version + 1
    /\ UNCHANGED <<session, shell, app, orphans, history, bounds>>

(* It expires, Redis restarts or the password is reset.                    *)
SessionEnds ==
    /\ session /\ losses > 0 /\ losses' = losses - 1
    /\ session' = FALSE
    /\ UNCHANGED <<version, shell, app, orphans, history, acts>>

-----------------------------------------------------------------------------
(* Calls of App. *)

Send(call) == inFlight' = inFlight \union {call}

(* mutant: the timer runs only while there is something to bring up to     *)
(* date.                                                                   *)
PollsWhenReady == shell = "authenticated" /\ page = "ready"

PollsRun == shell = "authenticated"

(* The timer runs as long as App is mounted, whatever it shows.            *)
Poll ==
    /\ PollsRun
    /\ Send([kind |-> "poll", since |-> version, live |-> session])
    /\ UNCHANGED <<server, shell, page, view, series, input, flags, orphans, history, bounds>>

OfUser(q) == q.kind \notin {"boot", "poll"}

(* A call of the user's; while an earlier one is under way they mix.       *)
Begin(call) ==
    /\ page = "ready" /\ Act
    /\ Send(call)
    /\ mixed' = (mixed \/ \E q \in inFlight : OfUser(q))
    /\ UNCHANGED <<server, shell, page, view, series, orphans>>

LoadHistory(range, period) ==
    /\ Begin([kind |-> "load", since |-> version, live |-> session,
              chart |-> [range |-> range, gran |-> input.gran],
              period |-> period, view |-> view])
    /\ flags' = [flags EXCEPT !.loading = TRUE, !.failed = FALSE]
    /\ asked' = [range |-> range, chart |-> [range |-> range, gran |-> input.gran]]

(* The select for the month is not disabled while a load is under way.     *)
SelectMonth(m) ==
    /\ LoadHistory(m, m)
    /\ input' = [input EXCEPT !.range = m]

ApplyRange ==
    /\ ~flags.loading
    /\ LoadHistory(input.range, NoMonth)
    /\ UNCHANGED input

TypeRange(m) ==
    /\ page = "ready" /\ m # input.range /\ Act
    /\ input' = [input EXCEPT !.range = m]
    /\ UNCHANGED <<server, shell, page, view, series, flags, inFlight, orphans, history>>

(* The chart follows the dates typed in, applied or not.                   *)
ChangeGranularity(g) ==
    LET chart == [input EXCEPT !.gran = g]
    IN  /\ g # input.gran
        /\ Begin([kind |-> "chart", since |-> version, live |-> session, chart |-> chart])
        /\ input' = chart /\ asked' = [asked EXCEPT !.chart = chart]
        /\ UNCHANGED flags

CollectNow ==
    /\ ~flags.collecting
    /\ Begin([kind |-> "post", since |-> version, live |-> session,
              period |-> view.month.period, range |-> view.range])
    /\ flags' = [flags EXCEPT !.collecting = TRUE]
    /\ UNCHANGED <<input, asked>>

(* What follows runCollection after two and a half seconds.                *)
CollectTimer(q) ==
    /\ q \in inFlight /\ q.kind = "timer"
    /\ inFlight' = (inFlight \ {q}) \union
                      {[q EXCEPT !.kind = "collect", !.since = version, !.live = session]}
    /\ UNCHANGED <<server, shell, page, view, series, input, flags, orphans, history, bounds>>

(* The state after an answer to q with the data of version v: the poll     *)
(* starts from the state as it is, the others from the one captured.       *)

(* mutants: the poll writes the whole state it knew when it began; it      *)
(* leaves the month alone.                                                 *)
PolledAnew(v) == Loaded(v)

PolledCards(v) == [view EXCEPT !.cards = v]

Polled(v) ==
    [view EXCEPT !.cards = v, !.month = [period |-> Current, at |-> v]]

WithHistory(q, v) ==
    [q.view EXCEPT !.range = q.chart.range,
                   !.month = IF q.period = NoMonth THEN @ ELSE [period |-> q.period, at |-> v]]

Collected(q, v) ==
    [cards |-> v, month |-> [period |-> q.period, at |-> v], range |-> q.range]

NextView(q, v) ==
    CASE q.kind = "boot"    -> Loaded(v)
      [] q.kind = "poll"    -> IF page = "ready" THEN Polled(v) ELSE view
      [] q.kind = "load"    -> WithHistory(q, v)
      [] q.kind = "collect" -> Collected(q, v)
      [] OTHER              -> view

(* mutant: the flag is cleared on the way of success alone.                *)
ClearedBySuccess(q, ok) ==
    CASE q.kind = "load" -> [flags EXCEPT !.loading = FALSE, !.failed = @ \/ ~ok]
      [] q.kind = "collect" /\ ok -> [flags EXCEPT !.collecting = FALSE]
      [] OTHER -> flags

(* The finally clauses, and the catch of a collection that was refused.    *)
Cleared(q, ok) ==
    CASE q.kind = "load" -> [flags EXCEPT !.loading = FALSE, !.failed = @ \/ ~ok]
      [] q.kind = "collect" \/ (q.kind = "post" /\ ~ok) ->
            [flags EXCEPT !.collecting = FALSE]
      [] OTHER -> flags

(* All answers of the call are there and good.                             *)
Succeed(q) ==
    /\ q \in inFlight /\ q.kind # "timer" /\ q.live
    /\ \E v \in q.since..version : view' = NextView(q, v)
    /\ series' = IF q.kind \in {"load", "chart"} THEN q.chart
                 ELSE IF q.kind = "boot" THEN FirstChart ELSE series
    /\ page' = IF q.kind \in {"boot", "load", "collect"} THEN "ready" ELSE page
    /\ flags' = Cleared(q, TRUE)
    /\ inFlight' = (inFlight \ {q}) \union
                      (IF q.kind = "post" THEN {[q EXCEPT !.kind = "timer"]} ELSE {})
    /\ UNCHANGED <<server, shell, input, orphans, history, bounds>>

(* One of them is an error, or does not come.  That of a chart is shown    *)
(* nowhere.                                                                *)
Fail(q) ==
    /\ q \in inFlight /\ q.kind # "timer"
    /\ page' = IF q.kind = "boot" THEN "error" ELSE page
    /\ flags' = Cleared(q, FALSE)
    /\ mixed' = (mixed \/ q.kind = "chart")
    /\ inFlight' = inFlight \ {q}
    /\ UNCHANGED <<server, shell, view, series, input, orphans, asked, bounds>>

(* One of them is 401: the event takes AppShell to the login page, and the *)
(* other answers find no App.                                              *)
Unauthorized(q) ==
    /\ q \in inFlight /\ q.kind # "timer" /\ ~session
    /\ Unmount("anonymous") /\ orphans' = TRUE
    /\ UNCHANGED <<server, bounds>>

(* So does a 401 that arrives after a new login; one stands for all.       *)
OrphanArrives ==
    /\ orphans
    /\ orphans' = (shell = "authenticated" /\ ~session /\ inFlight # {})
    /\ Unmount(IF shell = "authenticated" THEN "anonymous" ELSE shell)
    /\ UNCHANGED <<server, bounds>>

OrphanIsLost ==
    /\ orphans /\ orphans' = FALSE
    /\ UNCHANGED <<server, shell, app, history, bounds>>

User ==
    \/ Logout \/ Reload \/ ApplyRange \/ CollectNow
    \/ \E m \in Months : SelectMonth(m) \/ TypeRange(m)
    \/ \E g \in Granularity : ChangeGranularity(g)

Ends(q) == Succeed(q) \/ Fail(q) \/ Unauthorized(q) \/ CollectTimer(q)

Next ==
    \/ GetAuthSession \/ Login \/ User
    \/ NewData \/ SessionEnds
    \/ Poll \/ OrphanArrives \/ OrphanIsLost
    \/ \E q \in inFlight : Ends(q)

Spec == Init /\ [][Next]_vars

(* The timer fires while App is mounted.  Calls end, and not every poll    *)
(* fails.                                                                  *)
Fairness ==
    /\ WF_vars(GetAuthSession) /\ WF_vars(Poll)
    /\ WF_vars(\E q \in inFlight : q.kind # "poll" /\ Ends(q))
    /\ SF_vars(\E q \in inFlight : q.kind = "poll" /\ (Succeed(q) \/ Unauthorized(q)))

LiveSpec == Spec /\ Fairness

-----------------------------------------------------------------------------
(* Types; outside App nothing of it is left, and a button that waits has a *)
(* call that it waits for, or another load has cleared its flag.           *)
TypeOK ==
    /\ version \in Version /\ session \in BOOLEAN
    /\ shell \in {"loading", "anonymous", "authenticated"}
    /\ page \in {"loading", "error", "ready"}
    /\ view \in View /\ series \in Chart /\ input \in Chart
    /\ flags \in [loading : BOOLEAN, failed : BOOLEAN, collecting : BOOLEAN]
    /\ inFlight \subseteq Call /\ orphans \in BOOLEAN
    /\ asked \in [range : Months, chart : Chart] /\ mixed \in BOOLEAN
    /\ acts \in 0..MaxActs /\ losses \in 0..MaxLosses
    /\ shell # "authenticated" => inFlight = {} /\ page = "loading"
    /\ flags.loading => \E q \in inFlight : q.kind = "load"
    /\ flags.collecting => \E q \in inFlight : q.kind \in {"post", "timer", "collect"}

(* A user who lets each call of theirs end before the next one sees the    *)
(* total and the chart of what they asked for last, or the error, whatever *)
(* polls come in between and whichever state a load or a collection has    *)
(* captured (loadHistory, collectNow, changeGranularity and the timer).    *)
HistoryAsAsked ==
    page = "ready" /\ ~mixed /\ ~flags.failed /\ (\A q \in inFlight : ~OfUser(q))
        => view.range = asked.range /\ series = asked.chart

(* When the user and the server's data come to rest with the application   *)
(* on the screen, it comes to show that data and the current month for     *)
(* good, although loads and collections write the state that their closure *)
(* captured and polls overtake each other.                                 *)
AtRest == <>[][UNCHANGED <<version, session, acts, shell, page>>]_vars

Converges ==
    AtRest /\ <>[](page = "ready" /\ session)
        => <>[](view.cards = version /\ view.month = [period |-> Current, at |-> version])

(* A session that is gone takes the user to the login page, also from the  *)
(* page that shows an error (client.ts, AppShell.tsx, the timer).          *)
LossShown == shell = "authenticated" /\ ~session ~> shell # "authenticated"

(* No call leaves a button disabled for good, however it ends and whatever *)
(* else is under way.                                                      *)
ButtonsComeBack ==
    /\ flags.loading ~> ~flags.loading
    /\ flags.collecting ~> ~flags.collecting
=============================================================================
