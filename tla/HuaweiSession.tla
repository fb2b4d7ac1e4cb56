---------------------------- MODULE HuaweiSession ----------------------------
(***************************************************************************)
(* The session of a worker process with the Huawei router: the adapter's   *)
(* authenticated flag and cached error (router/huawei_adapter.go), from    *)
(* the login when the worker starts (cmd/worker/main.go) and the optional  *)
(* discovery of the router's pages (router/huawei_discovery.go) through    *)
(* every collection.  ConnectionCounters, ConnectedDevices and BlockDevice *)
(* have one shape: Authenticate, ask for the pages one after the other,    *)
(* and on an authentication error reauthenticate once and begin again.     *)
(*                                                                         *)
(* One action is one HTTP exchange, because the router changes in between: *)
(* its session ends, its password is changed, it reboots (an outage and    *)
(* the end of the session).  refusal, logins, rejected, lost, expiries and *)
(* began are history variables of the process.                             *)
(***************************************************************************)
EXTENDS Naturals

CONSTANTS
    Faults,          \* what may go wrong, a subset of AllFaults
    RouterDiscovery, \* ROUTER_DISCOVERY
    Pages,           \* the most pages a call asks for
    MaxFaults,       \* bound: faults of any kind
    MaxLogins        \* bound: where the count of a process's logins saturates

AllFaults == {"unreachable", "failing", "expired", "displaced", "lost", "password"}

ASSUME FaultsAssumption == Faults \subseteq AllFaults /\ RouterDiscovery \in BOOLEAN
ASSUME SessionBounds == Pages \in Nat \ {0} /\ MaxFaults \in Nat /\ MaxLogins \in Nat

VARIABLES
    power,         \* "up", "unreachable" or "failing" (it answers 5xx)
    valid,         \* the configured password is the router's
    session,       \* the router knows the client's session
    authenticated, \* HuaweiAdapter.authenticated
    authErr,       \* HuaweiAdapter.authErr: "none", "transient" or "permanent"
    pc,            \* which exchange comes next
    goal,          \* what the login is for
    fetched,       \* pages of the call that have been read so far
    outcome,       \* how the last call ended
    refusal,       \* history: what the permanent error was made from
    logins,        \* history: requests sent to login.cgi
    rejected,      \* history: logins the router rejected
    lost,          \* history: logins whose answer was lost
    expiries,      \* history: sessions the router ended
    began,         \* history: how many those were at the first of the pages read
    budget         \* faults left

routerVars  == <<power, valid, session>>
adapterVars == <<authenticated, authErr>>
counts      == <<logins, rejected, lost, expiries>>
history     == <<refusal, counts>>
reading     == <<fetched, began>>
vars == <<routerVars, adapterVars, pc, goal, outcome, history, reading, budget>>

Init ==
    /\ power = "up" /\ valid \in {TRUE, "password" \notin Faults} /\ session = FALSE
    /\ authenticated = FALSE /\ authErr = "none"
    /\ pc = "down" /\ goal = "start" /\ outcome = "none"
    /\ refusal = "none" /\ logins = 0 /\ rejected = 0 /\ lost = 0 /\ expiries = 0
    /\ fetched = 0 /\ began = 0
    /\ budget = MaxFaults

-----------------------------------------------------------------------------
Spend == budget > 0 /\ budget' = budget - 1

(* What a page request comes back with (requestPageBodyWithReferer): 401,  *)
(* 403 and a login form are authentication failures, any other status but  *)
(* 200 and a transport error are not.                                      *)
PageAnswer ==
    IF power # "up" THEN "transient" ELSE IF session THEN "none" ELSE "permanent"

(* mutants: no error is permanent; every error is.                         *)
NothingIsPermanent == FALSE

EveryErrorIsPermanent == authErr # "none"

IsPermanentAuthenticationError == authErr = "permanent"

AfterStart == IF RouterDiscovery THEN "discovery" ELSE "idle"

(* mutant: h.authenticated does not depend on the error.                   *)
FinishLoginAnyway(e) ==
    /\ authErr' = e
    /\ authenticated' = TRUE
    /\ pc' = IF goal = "start" THEN AfterStart ELSE "pages"
    /\ UNCHANGED outcome

(* The login is over with error e.  configuredAdapter gives up on any      *)
(* error and the process exits; a call reports it, or goes on.             *)
FinishLogin(e) ==
    /\ authErr' = e
    /\ authenticated' = (e = "none")
    /\ pc' = CASE e = "none" /\ goal = "start" -> AfterStart
               [] e = "none" /\ goal # "start" -> "pages"
               [] e # "none" /\ goal = "start" -> "down"
               [] OTHER -> "idle"
    /\ outcome' = CASE e = "none" \/ goal = "start" -> outcome
                    [] e = "permanent" -> "refused"
                    [] OTHER -> "error"

StartWorker ==
    /\ pc = "down"
    /\ authenticated' = FALSE /\ authErr' = "none" /\ session' = FALSE
    /\ refusal' = "none" /\ logins' = 0 /\ rejected' = 0 /\ lost' = 0 /\ expiries' = 0
    /\ fetched' = 0 /\ began' = 0
    /\ pc' = "identity" /\ goal' = "start" /\ outcome' = "none"
    /\ UNCHANGED <<power, valid, budget>>

(* The login page names the product; without it the process exits.         *)
Identity ==
    /\ pc = "identity"
    /\ pc' = IF power = "up" THEN "token" ELSE "down"
    /\ UNCHANGED <<routerVars, adapterVars, goal, outcome, history, reading, budget>>

(* The menu and the WAN data, if the landing page names them.  An error of *)
(* any kind ends the process: discovery does not reauthenticate.           *)
DiscoverPages ==
    /\ pc = "discovery"
    /\ \/ pc' = IF PageAnswer = "none" THEN "candidates" ELSE "down"
       \/ pc' = "candidates"
    /\ UNCHANGED <<routerVars, adapterVars, goal, outcome, history, reading, budget>>

(* Pages that may not exist: errors are skipped.                           *)
DiscoverCandidates ==
    /\ pc = "candidates"
    /\ pc' = "idle"
    /\ UNCHANGED <<routerVars, adapterVars, goal, outcome, history, reading, budget>>

StopWorker ==
    /\ pc # "down"
    /\ pc' = "down" /\ fetched' = 0 /\ began' = 0
    /\ UNCHANGED <<routerVars, adapterVars, goal, outcome, history, budget>>

(* ConnectionCounters, ConnectedDevices or BlockDevice is called.          *)
(* Authenticate returns the session or the cached permanent error, and     *)
(* logs in otherwise.                                                      *)
Authenticate ==
    /\ pc = "idle"
    /\ goal' = "first"
    /\ \/ authenticated /\ pc' = "pages" /\ UNCHANGED outcome
       \/ ~authenticated /\ IsPermanentAuthenticationError /\ outcome' = "refused" /\ UNCHANGED pc
       \/ ~authenticated /\ ~IsPermanentAuthenticationError /\ pc' = "token" /\ UNCHANGED outcome
    /\ UNCHANGED <<routerVars, adapterVars, history, reading, budget>>

(* GetRandCount.asp; anything but a token is an ordinary error.            *)
FetchLoginToken ==
    /\ pc = "token"
    /\ IF power = "up"
       THEN pc' = "login" /\ UNCHANGED <<adapterVars, outcome>>
       ELSE FinishLogin("transient")
    /\ UNCHANGED <<routerVars, goal, history, reading, budget>>

(* login.cgi.  A status of 400 or more, the login page or a failure flag   *)
(* is ErrAuthenticationFailed; no answer is an ordinary error, whatever    *)
(* the router made of the request.                                         *)
SubmitLogin ==
    /\ pc = "login"
    /\ logins' = IF logins < MaxLogins THEN logins + 1 ELSE logins
    /\ \/ /\ power = "up" /\ valid
          /\ session' = TRUE /\ UNCHANGED <<refusal, rejected, lost, budget>>
          /\ \/ pc' = "landing" /\ UNCHANGED <<adapterVars, outcome>>
             \/ FinishLogin("none")
       \/ /\ power = "up" /\ ~valid
          /\ rejected' = rejected + 1 /\ refusal' = "password"
          /\ FinishLogin("permanent")
          /\ UNCHANGED <<session, lost, budget>>
       \/ /\ "lost" \in Faults /\ power = "up" /\ Spend
          /\ lost' = lost + 1
          /\ session' = (session \/ valid)
          /\ rejected' = IF valid THEN rejected ELSE rejected + 1
          /\ FinishLogin("transient")
          /\ UNCHANGED refusal
       \/ /\ power = "failing"
          /\ FinishLogin("permanent") /\ refusal' = "status"
          /\ UNCHANGED <<session, rejected, lost, budget>>
       \/ /\ power = "unreachable"
          /\ FinishLogin("transient")
          /\ UNCHANGED <<session, refusal, rejected, lost, budget>>
    /\ UNCHANGED <<power, valid, goal, expiries, reading>>

(* The landing page, when login.cgi itself answered.                       *)
FetchLanding ==
    /\ pc = "landing"
    /\ FinishLogin(PageAnswer)
    /\ refusal' = IF PageAnswer = "permanent" THEN "displaced" ELSE refusal
    /\ UNCHANGED <<routerVars, goal, counts, reading, budget>>

EndCall(o) ==
    /\ outcome' = o /\ pc' = "idle"
    /\ fetched' = 0 /\ began' = 0
    /\ UNCHANGED <<adapterVars, goal>>

Renew ==
    /\ authenticated' = FALSE /\ authErr' = "none"
    /\ pc' = "token" /\ goal' = "renewed" /\ UNCHANGED outcome

(* mutant: the call goes on with the page it had come to.                  *)
ResumeAfterRenewal == Renew /\ UNCHANGED reading

(* reauthenticate, and the call from its first page.                       *)
Reauthenticate == Renew /\ fetched' = 0 /\ began' = 0

(* One page of the call, which may be its last.  Pages are joined to one   *)
(* document (connectionCounters), or read one after the other.             *)
FetchPages ==
    /\ pc = "pages"
    /\ \/ PageAnswer = "none" /\ EndCall("ok")
       \/ /\ PageAnswer = "none" /\ fetched + 1 < Pages
          /\ fetched' = fetched + 1
          /\ began' = IF fetched = 0 THEN expiries ELSE began
          /\ UNCHANGED <<adapterVars, pc, goal, outcome>>
       \/ PageAnswer = "transient" /\ EndCall("error")
       \/ PageAnswer = "permanent" /\ goal = "renewed" /\ EndCall("refused")
       \/ PageAnswer = "permanent" /\ goal # "renewed" /\ Reauthenticate
    /\ UNCHANGED <<routerVars, history, budget>>

(* The router. *)

Outage(mode) ==
    /\ mode \in Faults /\ power = "up"
    /\ Spend
    /\ power' = mode
    /\ UNCHANGED <<valid, session, adapterVars, pc, goal, outcome, history, reading>>

Recover ==
    /\ power # "up"
    /\ power' = "up"
    /\ UNCHANGED <<valid, session, adapterVars, pc, goal, outcome, history, reading, budget>>

(* The router ends the session: it timed out, or, also in the middle of a  *)
(* login, another administrator's login displaced it.                      *)
SessionEnds ==
    /\ session
    /\ \/ "expired" \in Faults /\ pc # "landing"
       \/ "displaced" \in Faults
    /\ Spend
    /\ session' = FALSE /\ expiries' = expiries + 1
    /\ UNCHANGED <<power, valid, adapterVars, pc, goal, outcome, refusal, logins, rejected, lost,
                   reading>>

ChangePassword ==
    /\ "password" \in Faults
    /\ Spend
    /\ valid' = ~valid
    /\ UNCHANGED <<power, session, adapterVars, pc, goal, outcome, history, reading>>

Next ==
    \/ StartWorker \/ StopWorker \/ Identity \/ DiscoverPages \/ DiscoverCandidates
    \/ Authenticate \/ FetchLoginToken \/ SubmitLogin \/ FetchLanding \/ FetchPages
    \/ Outage("unreachable") \/ Outage("failing") \/ Recover
    \/ SessionEnds \/ ChangePassword

Spec == Init /\ [][Next]_vars

(* The collector's loop calls the adapter again and again and an exchange  *)
(* ends (the client has a timeout); outages end; a worker that exited is   *)
(* restarted.                                                              *)
Fairness ==
    /\ WF_vars(StartWorker) /\ WF_vars(Recover)
    /\ WF_vars(Identity \/ DiscoverPages \/ DiscoverCandidates)
    /\ WF_vars(Authenticate \/ FetchLoginToken \/ SubmitLogin \/ FetchLanding \/ FetchPages)

LiveSpec == Spec /\ Fairness

-----------------------------------------------------------------------------
(* Types, and the agreement of the adapter's two fields: pages are asked   *)
(* for, and a session is taken for established, only when the last login   *)
(* ended without an error (authenticated = authErr == nil).                *)
TypeOK ==
    /\ power \in {"up", "unreachable", "failing"}
    /\ valid \in BOOLEAN /\ session \in BOOLEAN /\ authenticated \in BOOLEAN
    /\ authErr \in {"none", "transient", "permanent"}
    /\ pc \in {"down", "identity", "token", "login", "landing", "discovery", "candidates",
               "idle", "pages"}
    /\ goal \in {"start", "first", "renewed"}
    /\ outcome \in {"none", "ok", "refused", "error"}
    /\ refusal \in {"none", "password", "status", "displaced"}
    /\ logins \in Nat /\ rejected \in Nat /\ lost \in Nat /\ expiries \in Nat
    /\ budget \in 0..MaxFaults /\ fetched \in 0..(Pages - 1) /\ began \in Nat
    /\ authenticated => authErr = "none"
    /\ pc \in {"pages", "discovery", "candidates"} => authenticated

(* The firmware's lockout counts rejected logins: a process causes one at  *)
(* most, and one more only when it never got to see the rejection, however *)
(* many calls it makes and sessions it loses (Authenticate, reauthenticate *)
(* and the permanent error they cache).                                    *)
AtMostOneRejection == rejected <= 1 + lost

(* What a call reads from several pages comes from one session of the      *)
(* router.  A router that restarted in between has a new session, so the   *)
(* counters of a reading are never partly those before and partly those    *)
(* after a restart (ConnectionCounters, reauthenticate).                   *)
ReadUnderOneSession ==
    [][pc = "pages" /\ pc' = "idle" /\ outcome' = "ok" /\ fetched > 0 => began = expiries]_vars

(* A worker that goes on collects again once the faults are over, with     *)
(* three exceptions, each an answer to its login that the adapter caches   *)
(* as a permanent error until the process is started again: the password   *)
(* was rejected; login.cgi answered 5xx; another administrator displaced   *)
(* the session before the landing page was read.  The last two are no      *)
(* rejections but taken for one (see Recovers).  Nothing else, a lost      *)
(* answer, an outage before or after login.cgi, an expired session, leaves *)
(* the adapter stuck (Authenticate, reauthenticate).  A process that ends  *)
(* at its start is started again and counts as going on.                   *)
Working == outcome = "ok" \/ pc = "down"

Refused == refusal = "password"

TakenForRefused == refusal \in {"status", "displaced"}

RecoversUnlessTakenForRefused == ~Working ~> (Working \/ Refused \/ TakenForRefused)

(* The comment on Authenticate promises more: "Transient failures are      *)
(* retried by the collector", so only a rejected password is an exception. *)
Recovers == ~Working ~> (Working \/ Refused)
=============================================================================
