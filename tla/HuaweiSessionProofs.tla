------------------------- MODULE HuaweiSessionProofs -------------------------
(* Proofs about HuaweiSession, for every set of faults, every number of    *)
(* pages to a call and every number of faults.                             *)
EXTENDS HuaweiSession, TLAPS

(* What the adapter has been told: of the rejected logins, all but those   *)
(* whose answer was lost are known to it, and it stops at the first.  It   *)
(* is on its way to a login only as long as no error is cached.            *)
RejectionKnown ==
    /\ rejected <= lost + (IF authErr = "permanent" THEN 1 ELSE 0)
    /\ pc \in {"identity", "token", "login", "landing"} => authErr # "permanent"

(* The pages read so far come from the session that the router still has,  *)
(* if it has one: a call that has read a page never logs in.               *)
PagesOfSession ==
    /\ fetched > 0 => pc = "pages"
    /\ fetched > 0 /\ session => began = expiries

IInv == TypeOK /\ RejectionKnown /\ PagesOfSession

-----------------------------------------------------------------------------
LEMMA InitInv == Init => IInv
  <1> SUFFICES ASSUME Init PROVE IInv
    OBVIOUS
  <1>1. valid \in BOOLEAN
    <2>1. ("password" \notin Faults) = TRUE \/ ("password" \notin Faults) = FALSE
      OBVIOUS
    <2>2. valid = TRUE \/ valid = ("password" \notin Faults)
      BY DEF Init
    <2> QED BY ONLY <2>1, <2>2, Zenon
  <1>2. session \in BOOLEAN /\ authenticated \in BOOLEAN /\ ~session /\ ~authenticated
    BY Zenon DEF Init
  <1> QED BY <1>1, <1>2, SessionBounds DEF Init, IInv, TypeOK, RejectionKnown, PagesOfSession

(* How a login ends, whatever it was for.                                  *)
LEMMA FinishLoginType ==
    ASSUME TypeOK, NEW e \in {"none", "transient", "permanent"}, FinishLogin(e)
    PROVE  /\ authErr' = e /\ authenticated' \in BOOLEAN
           /\ authenticated' = (e = "none")
           /\ pc' \in {"down", "idle", "pages", "discovery"}
           /\ pc' \in {"pages", "discovery"} => e = "none"
           /\ outcome' \in {"none", "ok", "refused", "error"}
  BY DEF TypeOK, FinishLogin, AfterStart

LEMMA SubmitLoginStep ==
    ASSUME IInv, SubmitLogin
    PROVE  IInv'
  <1> USE SessionBounds DEF IInv, RejectionKnown, PagesOfSession
  <1>1. fetched = 0 /\ fetched' = 0 /\ began' = began /\ expiries' = expiries
        /\ authErr # "permanent" /\ logins' \in Nat
        /\ refusal' \in {"none", "password", "status", "displaced"} /\ power' = power /\ valid' = valid
        /\ goal' = goal /\ pc = "login"
    BY DEF TypeOK, SubmitLogin, reading
  <1>2. CASE /\ power = "up" /\ valid
             /\ session' = TRUE /\ UNCHANGED <<rejected, lost, budget>>
             /\ pc' = "landing" /\ UNCHANGED <<adapterVars, outcome>>
    BY <1>1, <1>2 DEF TypeOK, adapterVars
  <1>3. CASE /\ power = "up" /\ valid
             /\ session' = TRUE /\ UNCHANGED <<rejected, lost, budget>>
             /\ FinishLogin("none")
    BY <1>1, <1>3, FinishLoginType DEF TypeOK
  <1>4. CASE /\ rejected' = rejected + 1 /\ FinishLogin("permanent")
             /\ UNCHANGED <<session, lost, budget>>
    BY <1>1, <1>4, FinishLoginType DEF TypeOK
  <1>5. CASE /\ Spend /\ lost' = lost + 1
             /\ session' = (session \/ valid)
             /\ rejected' = IF valid THEN rejected ELSE rejected + 1
             /\ FinishLogin("transient")
    BY <1>1, <1>5, FinishLoginType DEF TypeOK, Spend
  <1>6. ASSUME NEW e \in {"transient", "permanent"}, FinishLogin(e),
               UNCHANGED <<session, rejected, lost, budget>>
        PROVE  IInv'
    BY <1>1, <1>6, FinishLoginType DEF TypeOK
  <1> QED BY <1>2, <1>3, <1>4, <1>5, <1>6 DEF SubmitLogin

LEMMA FetchPagesStep ==
    ASSUME IInv, FetchPages
    PROVE  IInv'
  <1> USE SessionBounds DEF IInv, RejectionKnown, PagesOfSession
  <1>1. UNCHANGED <<power, valid, session, refusal, logins, rejected, lost, expiries, budget>>
        /\ authenticated /\ authErr = "none"
    BY DEF FetchPages, routerVars, history, counts, TypeOK
  <1>2. ASSUME NEW o \in {"ok", "error", "refused"}, EndCall(o) PROVE IInv'
    BY <1>1, <1>2 DEF EndCall, TypeOK, adapterVars
  <1>3. CASE /\ PageAnswer = "none" /\ fetched + 1 < Pages
             /\ fetched' = fetched + 1
             /\ began' = IF fetched = 0 THEN expiries ELSE began
             /\ UNCHANGED <<adapterVars, pc, goal, outcome>>
    BY <1>1, <1>3 DEF TypeOK, adapterVars, FetchPages
  <1>4. CASE Reauthenticate
    <2>1. ~authenticated' /\ authenticated' \in BOOLEAN
      BY <1>4, Zenon DEF Reauthenticate, Renew
    <2> QED BY <1>1, <1>4, <2>1 DEF TypeOK, Reauthenticate, Renew
  <1> QED BY <1>2, <1>3, <1>4 DEF FetchPages

LEMMA Step == IInv /\ [Next]_vars => IInv'
  <1> SUFFICES ASSUME IInv, [Next]_vars PROVE IInv'
    OBVIOUS
  <1> USE SessionBounds
          DEF IInv, TypeOK, RejectionKnown, PagesOfSession, routerVars, adapterVars, history,
              counts, reading
  <1>1. CASE StartWorker
    <2>1. /\ ~authenticated' /\ authenticated' \in BOOLEAN
          /\ ~session' /\ session' \in BOOLEAN
      BY <1>1, Zenon DEF StartWorker
    <2> QED BY <1>1, <2>1 DEF StartWorker
  <1>2. CASE StopWorker
    BY <1>2 DEF StopWorker
  <1>3. CASE Identity
    BY <1>3 DEF Identity
  <1>4. CASE DiscoverPages
    BY <1>4 DEF DiscoverPages
  <1>5. CASE DiscoverCandidates
    BY <1>5 DEF DiscoverCandidates
  <1>6. CASE Authenticate
    BY <1>6 DEF Authenticate, IsPermanentAuthenticationError
  <1>7. CASE FetchLoginToken
    BY <1>7, FinishLoginType DEF FetchLoginToken
  <1>8. CASE FetchLanding
    <2>1. PageAnswer \in {"none", "transient", "permanent"}
      BY DEF PageAnswer
    <2> QED BY <1>8, <2>1, FinishLoginType DEF FetchLanding
  <1>9. ASSUME NEW mode \in {"unreachable", "failing"}, Outage(mode) PROVE IInv'
    BY <1>9 DEF Outage, Spend
  <1>10. CASE Recover
    BY <1>10 DEF Recover
  <1>11. CASE SessionEnds
    <2>1. ~session' /\ session' \in BOOLEAN
      BY <1>11, Zenon DEF SessionEnds
    <2> QED BY <1>11, <2>1 DEF SessionEnds, Spend
  <1>12. CASE ChangePassword
    BY <1>12 DEF ChangePassword, Spend
  <1>13. CASE UNCHANGED vars
    BY <1>13 DEF vars
  <1> QED
    BY <1>1, <1>2, <1>3, <1>4, <1>5, <1>6, <1>7, <1>8, <1>9, <1>10, <1>11, <1>12, <1>13,
       SubmitLoginStep, FetchPagesStep DEF Next

LEMMA Inductive == Spec => []IInv
  BY InitInv, Step, PTL DEF Spec

(* The adapter's two fields agree in every reachable state, and pages are  *)
(* asked for only under a session the adapter takes for established.       *)
THEOREM TypeCorrect == Spec => []TypeOK
  <1>1. IInv => TypeOK
    BY DEF IInv
  <1> QED BY <1>1, Inductive, PTL

(* The router's lockout is never approached: a process sees one login      *)
(* rejected at most, and causes one more only for every answer that was    *)
(* lost, under any number of faults of any kind.                           *)
THEOREM OneRejection == Spec => []AtMostOneRejection
  <1>1. IInv => AtMostOneRejection
    BY DEF IInv, TypeOK, RejectionKnown, AtMostOneRejection
  <1> QED BY <1>1, Inductive, PTL

(* The pages of a call that succeeds come from one session of the router,  *)
(* however many they are and whenever sessions end.                        *)
THEOREM OneSessionPerRead == Spec => ReadUnderOneSession
  <1>1. ASSUME IInv, [Next]_vars
        PROVE  pc = "pages" /\ pc' = "idle" /\ outcome' = "ok" /\ fetched > 0 => began = expiries
    <2> SUFFICES ASSUME pc = "pages", pc' = "idle", outcome' = "ok", fetched > 0
                 PROVE  began = expiries
      OBVIOUS
    <2>1. FetchPages
      BY <1>1 DEF Next, vars, StartWorker, StopWorker, Identity, DiscoverPages, DiscoverCandidates,
                  Authenticate, FetchLoginToken, SubmitLogin, FetchLanding, Outage, Recover,
                  SessionEnds, ChangePassword
    <2>2. PageAnswer = "none"
      BY <2>1 DEF FetchPages, EndCall, Reauthenticate, Renew
    <2>3. session
      BY <2>2 DEF PageAnswer
    <2> QED BY <1>1, <2>3 DEF IInv, PagesOfSession
  <1> QED BY <1>1, Inductive, PTL DEF Spec, ReadUnderOneSession
=============================================================================
