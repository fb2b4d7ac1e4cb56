-------------------------- MODULE AuthSessionsProofs --------------------------
(* Proofs about AuthSessions, for any number of concurrent requests, any   *)
(* passwords and tokens, every limit and every bound.                      *)
EXTENDS AuthSessions, FiniteSetTheorems, TLAPS

-----------------------------------------------------------------------------
(* Sessions. *)

Carries(r) == r.pc \notin {"idle", "checked", "invalid"}

(* A session that is stored, or that a request carries, is none of an      *)
(* account to come; and if it is of the account's present version it was   *)
(* opened with its present password.                                       *)
Sound(s) == account # None /\ s.version <= account.version /\ Faithful(s)

SoundSessions ==
    /\ \A t \in Tokens : sessions[t] # None => Sound(sessions[t])
    /\ \A c \in Clients : Carries(request[c]) => Sound(request[c].session)

IInv == TypeOK /\ SoundSessions

(* What is in a request. *)
LEMMA RequestFields ==
    ASSUME NEW r \in Request
    PROVE  /\ r.pc \in {"idle", "checked", "invalid", "valid", "cleared",
                        "presented", "admitted", "stale"}
           /\ r.pc = "checked" => r.password \in Passwords
           /\ Carries(r) => r.session \in Session
           /\ r.pc \in {"presented", "admitted", "stale"} => r.token \in Tokens
  BY DEF Request, Carries

(* The pc of a request that carries a session goes on.                     *)
LEMMA RequestGoesOn ==
    ASSUME NEW r \in Request, NEW p
    PROVE  /\ r.pc = "valid" /\ p = "cleared" =>
                 [r EXCEPT !.pc = p] = [pc |-> p, session |-> r.session]
           /\ r.pc = "presented" /\ p \in {"admitted", "stale"} =>
                 [r EXCEPT !.pc = p] = [pc |-> p, session |-> r.session, token |-> r.token]
  BY DEF Request

LEMMA IdleRequest == Idle \in Request /\ ~Carries(Idle) /\ Idle.pc = "idle"
  BY DEF Idle, Request, Carries

(* A step that leaves the account alone is correct if what it writes is.   *)
LEMMA AccountStays ==
    ASSUME IInv, account' = account, fresh' \subseteq Tokens,
           attempts' \in Nat, guesses' \in Nat, unrecorded' \in Nat, lost' \in Nat,
           sessions' \in [Tokens -> Session \union {None}],
           request' \in [Clients -> Request],
           \A t \in Tokens : sessions'[t] # None => Sound(sessions'[t]),
           \A c \in Clients : Carries(request'[c]) => Sound(request'[c].session)
    PROVE  IInv'
  BY DEF IInv, TypeOK, SoundSessions, Sound, Faithful, Enabled, Carries

(* A request that moves on, with a session that is sound or without one.   *)
LEMMA RequestStep ==
    ASSUME IInv, NEW c \in Clients, NEW r \in Request, Goes(c, r),
           Carries(r) => Sound(r.session)
    PROVE  /\ request' \in [Clients -> Request]
           /\ \A d \in Clients : Carries(request'[d]) => Sound(request'[d].session)
  BY DEF IInv, TypeOK, SoundSessions, Goes

(* The account gets a version that no session has.                         *)
LEMMA VersionGrows ==
    ASSUME IInv, account # None, account' \in Account,
           account'.version = account.version + 1,
           UNCHANGED <<redis, request, history, lost>>
    PROVE  IInv'
  <1>1. account \in Account /\ account.version \in Nat
    BY DEF IInv, TypeOK, Account
  <1>2. account' # None
    BY NoneAssumption
  <1>3. ASSUME NEW s \in Session, Sound(s)
        PROVE  /\ account' # None /\ s.version <= account'.version
               /\ s.version # account'.version
    BY <1>1, <1>2, <1>3 DEF Sound, Session
  <1>4. \A c \in Clients : Carries(request[c]) => request[c].session \in Session
    BY RequestFields DEF IInv, TypeOK
  <1>5. \A t \in Tokens : sessions[t] # None => sessions[t] \in Session
    BY DEF IInv, TypeOK
  <1> QED
    BY <1>1, <1>2, <1>3, <1>4, <1>5
       DEF IInv, TypeOK, SoundSessions, Sound, Faithful, redis, history

(* The two updates of an account. *)
LEMMA AccountUpdate ==
    ASSUME NEW a \in Account, NEW v \in Nat
    PROVE  /\ \A p \in Passwords :
                 /\ [a EXCEPT !.password = p, !.version = v] \in Account
                 /\ [a EXCEPT !.password = p, !.version = v].version = v
           /\ \A b \in BOOLEAN :
                 /\ [a EXCEPT !.disabled = b, !.version = v] \in Account
                 /\ [a EXCEPT !.disabled = b, !.version = v].version = v
  <1>1. ASSUME NEW p \in Passwords
        PROVE  /\ [a EXCEPT !.password = p, !.version = v] \in Account
               /\ [a EXCEPT !.password = p, !.version = v].version = v
    <2> DEFINE e == [a EXCEPT !.password = p]
    <2>1. e \in Account
      BY DEF Account
    <2> HIDE DEF e
    <2> QED BY <2>1 DEF Account
  <1>2. ASSUME NEW b \in BOOLEAN
        PROVE  /\ [a EXCEPT !.disabled = b, !.version = v] \in Account
               /\ [a EXCEPT !.disabled = b, !.version = v].version = v
    <2> DEFINE e == [a EXCEPT !.disabled = b]
    <2>1. e \in Account
      BY DEF Account
    <2> HIDE DEF e
    <2> QED BY <2>1 DEF Account
  <1> QED BY <1>1, <1>2

LEMMA OperatorStep == ASSUME IInv, Operator PROVE IInv'
  <1>1. ASSUME NEW p \in Passwords, CreateUser(p) PROVE IInv'
    <2>1. /\ \A t \in Tokens : sessions[t] = None
          /\ \A c \in Clients : ~Carries(request[c])
      BY <1>1 DEF CreateUser, IInv, SoundSessions, Sound
    <2>2. account' \in Account
      BY <1>1 DEF CreateUser, Account
    <2> QED
      BY <1>1, <2>1, <2>2 DEF CreateUser, IInv, TypeOK, SoundSessions, redis, history
  <1>2. ASSUME account # None
        PROVE  account \in Account /\ account.version \in Nat
    BY <1>2 DEF IInv, TypeOK, Account
  <1>3. ASSUME NEW p \in Passwords, ResetUserPassword(p) PROVE IInv'
    <2>1. account \in Account /\ account.version + 1 \in Nat
      BY <1>2, <1>3 DEF ResetUserPassword
    <2>2. account' \in Account /\ account'.version = account.version + 1
      BY <1>3, <2>1, AccountUpdate, Zenon DEF ResetUserPassword, NewPassword
    <2> QED BY <1>3, <2>2, VersionGrows DEF ResetUserPassword
  <1>4. CASE DisableUser
    <2>1. account \in Account /\ account.version + 1 \in Nat /\ TRUE \in BOOLEAN
      BY <1>2, <1>4 DEF DisableUser
    <2>2. account' \in Account /\ account'.version = account.version + 1
      BY <1>4, <2>1, AccountUpdate, Zenon DEF DisableUser
    <2> QED BY <1>4, <2>2, VersionGrows DEF DisableUser
  <1> QED BY <1>1, <1>3, <1>4 DEF Operator

LEMMA LoginStep == ASSUME IInv, NEW c \in Clients, Login(c) PROVE IInv'
  <1>0. /\ request[c] \in Request /\ attempts \in Nat /\ guesses \in Nat
        /\ unrecorded \in Nat /\ lost \in Nat /\ fresh \subseteq Tokens
        /\ sessions \in [Tokens -> Session \union {None}]
        /\ \A t \in Tokens : sessions[t] # None => Sound(sessions[t])
        /\ Carries(request[c]) => Sound(request[c].session)
    BY DEF IInv, TypeOK, SoundSessions
  <1>1. ASSUME NEW p \in Passwords, SubmitLogin(c, p) PROVE IInv'
    <2>1. [pc |-> "checked", password |-> p] \in Request
          /\ ~Carries([pc |-> "checked", password |-> p])
      BY DEF Request, Carries
    <2>2. Goes(c, [pc |-> "checked", password |-> p])
      BY <1>1 DEF SubmitLogin
    <2> QED
      BY <1>0, <1>1, <2>1, <2>2, RequestStep, AccountStays
         DEF SubmitLogin, database, redis, history
  <1>2. CASE AuthenticateUser(c)
    <2>1. CASE Enabled /\ account.password = request[c].password
      <3> DEFINE s == [version |-> account.version, password |-> account.password]
                 r == [pc |-> "valid", session |-> s]
      <3>1. account \in Account
        BY <2>1 DEF Enabled, IInv, TypeOK
      <3>2. s \in Session /\ s.version = account.version /\ s.password = account.password
        BY <3>1 DEF Account, Session
      <3>3. Sound(s)
        BY <2>1, <3>1, <3>2 DEF Sound, Faithful, Enabled, Account
      <3>4. r \in Request /\ r.session = s
        BY <3>2 DEF Request
      <3>5. Goes(c, r)
        BY <1>2, <2>1 DEF AuthenticateUser
      <3> HIDE DEF s, r
      <3> QED
        BY <1>0, <1>2, <2>1, <3>3, <3>4, <3>5, RequestStep, AccountStays
           DEF AuthenticateUser, database, redis
    <2>2. CASE ~(Enabled /\ account.password = request[c].password)
      <3>1. [pc |-> "invalid"] \in Request /\ ~Carries([pc |-> "invalid"])
        BY DEF Request, Carries
      <3>2. Goes(c, [pc |-> "invalid"]) /\ guesses' = guesses + 1
        BY <1>2, <2>2 DEF AuthenticateUser
      <3> QED
        BY <1>0, <1>2, <3>1, <3>2, RequestStep, AccountStays
           DEF AuthenticateUser, database, redis
    <2> QED BY <2>1, <2>2
  <1>3. CASE RecordLoginFailure(c)
    <2>1. Goes(c, Idle)
      BY <1>3 DEF RecordLoginFailure, Unavailable
    <2>2. attempts' \in Nat /\ unrecorded' \in Nat /\ lost' \in Nat
      BY <1>0, <1>3 DEF RecordLoginFailure, Unavailable
    <2> QED
      BY <1>0, <1>3, <2>1, <2>2, IdleRequest, RequestStep, AccountStays
         DEF RecordLoginFailure, database
  <1>4. CASE ClearLoginFailures(c)
    <2>1. CASE StartWindow /\ Goes(c, [request[c] EXCEPT !.pc = "cleared"]) /\ UNCHANGED lost
      <3> DEFINE r == [pc |-> "cleared", session |-> request[c].session]
      <3>1. Carries(request[c]) /\ request[c].pc = "valid"
        BY <1>4 DEF ClearLoginFailures, Carries
      <3>2. request[c].session \in Session /\ [request[c] EXCEPT !.pc = "cleared"] = r
        BY <1>0, <3>1, RequestFields, RequestGoesOn
      <3>3. r \in Request /\ r.session = request[c].session
        BY <3>2 DEF Request
      <3>4. Goes(c, r)
        BY <2>1, <3>2
      <3> HIDE DEF r
      <3> QED
        BY <1>0, <1>4, <2>1, <3>1, <3>3, <3>4, RequestStep, AccountStays
           DEF ClearLoginFailures, StartWindow, database
    <2>2. CASE Unavailable(c) /\ UNCHANGED <<attempts, history>>
      BY <1>0, <1>4, <2>2, IdleRequest, RequestStep, AccountStays
         DEF ClearLoginFailures, Unavailable, database, history
    <2> QED BY <1>4, <2>1, <2>2 DEF ClearLoginFailures
  <1>5. CASE CreateSession(c)
    <2>1. Goes(c, Idle) /\ fresh' \subseteq Tokens /\ lost' \in Nat
      BY <1>0, <1>5 DEF CreateSession, Unavailable
    <2>2. Carries(request[c]) /\ request[c].session \in Session
      BY <1>0, <1>5, RequestFields DEF CreateSession, Carries
    <2>3. /\ sessions' \in [Tokens -> Session \union {None}]
          /\ \A t \in Tokens : sessions'[t] = sessions[t] \/ sessions'[t] = request[c].session
      BY <1>0, <1>5, <2>2 DEF CreateSession, NewSession
    <2>4. \A t \in Tokens : sessions'[t] # None => Sound(sessions'[t])
      BY <1>0, <2>2, <2>3
    <2> QED
      BY <1>0, <1>5, <2>1, <2>3, <2>4, IdleRequest, RequestStep, AccountStays
         DEF CreateSession, database, history
  <1> QED BY <1>1, <1>2, <1>3, <1>4, <1>5 DEF Login

LEMMA AuthenticatedStep ==
    ASSUME IInv, NEW c \in Clients, Authenticated(c) \/ DatabaseFails(c)
    PROVE  IInv'
  <1>0. /\ request[c] \in Request /\ attempts \in Nat /\ guesses \in Nat
        /\ unrecorded \in Nat /\ lost \in Nat /\ fresh \subseteq Tokens
        /\ sessions \in [Tokens -> Session \union {None}]
        /\ \A t \in Tokens : sessions[t] # None => Sound(sessions[t])
        /\ Carries(request[c]) => Sound(request[c].session)
    BY DEF IInv, TypeOK, SoundSessions
  <1>1. ASSUME NEW t \in Tokens, PresentSession(c, t) PROVE IInv'
    <2> DEFINE r == [pc |-> "presented", session |-> sessions[t], token |-> t]
    <2>1. sessions[t] \in Session /\ Sound(sessions[t])
      BY <1>0, <1>1 DEF PresentSession
    <2>2. r \in Request /\ r.session = sessions[t]
      BY <2>1 DEF Request
    <2>3. Goes(c, r)
      BY <1>1 DEF PresentSession
    <2> HIDE DEF r
    <2> QED
      BY <1>0, <1>1, <2>1, <2>2, <2>3, RequestStep, AccountStays
         DEF PresentSession, database, redis, history
  <1>2. CASE UserAuthVersion(c)
    <2> DEFINE p == IF IsCurrent(request[c].session) THEN "admitted" ELSE "stale"
               r == [pc |-> p, session |-> request[c].session, token |-> request[c].token]
    <2>1. Carries(request[c]) /\ request[c].pc = "presented"
      BY <1>2 DEF UserAuthVersion, Carries
    <2>2. p \in {"admitted", "stale"} /\ Goes(c, [request[c] EXCEPT !.pc = p])
      BY <1>2 DEF UserAuthVersion
    <2> HIDE DEF p
    <2>3. /\ request[c].session \in Session /\ request[c].token \in Tokens
          /\ [request[c] EXCEPT !.pc = p] = r
      BY <1>0, <2>1, <2>2, RequestFields, RequestGoesOn
    <2>4. r \in Request /\ r.session = request[c].session
      BY <2>2, <2>3 DEF Request
    <2>5. Goes(c, r)
      BY <2>2, <2>3
    <2> HIDE DEF r
    <2> QED
      BY <1>0, <1>2, <2>1, <2>4, <2>5, RequestStep, AccountStays
         DEF UserAuthVersion, database, redis, history
  <1>3. CASE EvictSession(c)
    <2>1. Goes(c, Idle) /\ lost' \in Nat
      BY <1>0, <1>3 DEF EvictSession
    <2>2. /\ sessions' \in [Tokens -> Session \union {None}]
          /\ \A t \in Tokens : sessions'[t] = sessions[t] \/ sessions'[t] = None
      BY <1>0, <1>3 DEF EvictSession
    <2>3. \A t \in Tokens : sessions'[t] # None => Sound(sessions'[t])
      BY <1>0, <2>2
    <2> QED
      BY <1>0, <1>3, <2>1, <2>2, <2>3, IdleRequest, RequestStep, AccountStays
         DEF EvictSession, database, history
  <1>4. CASE Serve(c) \/ DatabaseFails(c)
    BY <1>0, <1>4, IdleRequest, RequestStep, AccountStays
       DEF Serve, DatabaseFails, database, redis, history
  <1> QED BY <1>1, <1>2, <1>3, <1>4 DEF Authenticated

LEMMA RedisStep ==
    ASSUME IInv,
           \/ ExpireAttempts \/ RestartRedis
           \/ \E t \in Tokens : ExpireSession(t) \/ Logout(t)
    PROVE  IInv'
  <1>0. /\ attempts \in Nat /\ guesses \in Nat
        /\ unrecorded \in Nat /\ lost \in Nat /\ fresh \subseteq Tokens
        /\ sessions \in [Tokens -> Session \union {None}]
        /\ \A t \in Tokens : sessions[t] # None => Sound(sessions[t])
        /\ request \in [Clients -> Request]
        /\ \A c \in Clients : Carries(request[c]) => Sound(request[c].session)
    BY DEF IInv, TypeOK, SoundSessions
  <1>1. CASE ExpireAttempts
    BY <1>0, <1>1, AccountStays DEF ExpireAttempts, StartWindow, database
  <1>2. CASE RestartRedis
    BY <1>0, <1>2, AccountStays DEF RestartRedis, StartWindow, database
  <1>3. ASSUME NEW t \in Tokens, ExpireSession(t) \/ Logout(t) PROVE IInv'
    <2>1. /\ sessions' \in [Tokens -> Session \union {None}]
          /\ \A u \in Tokens : sessions'[u] = sessions[u] \/ sessions'[u] = None
          /\ lost' \in Nat
      BY <1>0, <1>3 DEF ExpireSession, Logout
    <2> QED
      BY <1>0, <1>3, <2>1, AccountStays DEF ExpireSession, Logout, database, history
  <1> QED BY <1>1, <1>2, <1>3

LEMMA Inductive == Spec => []IInv
  <1>1. Init => IInv
    BY IdleRequest DEF Init, IInv, TypeOK, SoundSessions
  <1>2. IInv /\ [Next]_vars => IInv'
    <2> SUFFICES ASSUME IInv, [Next]_vars PROVE IInv'
      OBVIOUS
    <2>1. CASE UNCHANGED vars
      BY <2>1
         DEF vars, database, redis, history, IInv, TypeOK, SoundSessions, Sound, Faithful, Enabled
    <2> QED
      BY <2>1, OperatorStep, LoginStep, AuthenticatedStep, RedisStep DEF Next
  <1> QED BY <1>1, <1>2, PTL DEF Spec

(* Types, and no stored session newer than its account.                    *)
THEOREM TypeCorrect == Spec => []TypeOK
  <1>1. IInv => TypeOK
    BY DEF IInv
  <1> QED BY <1>1, Inductive, PTL

(* A session of the account's present version was opened with its present  *)
(* password, wherever between the steps of a login the operator came.      *)
THEOREM FaithfulSessions == Spec => []SessionsFaithful
  <1>1. IInv => SessionsFaithful
    BY DEF IInv, SoundSessions, Sound, Carries, SessionsFaithful
  <1> QED BY <1>1, Inductive, PTL

(* Therefore a session is accepted only with the password it was opened    *)
(* with, and only while the account is enabled.                            *)
THEOREM CurrentOnly == Spec => AdmitsCurrentOnly
  <1>1. ASSUME IInv, [Next]_vars, NEW c \in Clients,
               request[c].pc = "presented", request'[c].pc = "admitted"
        PROVE  Enabled /\ account.password = request[c].session.password
    <2>0. request \in [Clients -> Request] /\ Sound(request[c].session)
      BY <1>1 DEF IInv, TypeOK, SoundSessions, Carries
    <2>1. request'[c] # request[c]
      BY <1>1
    <2>2. UserAuthVersion(c)
      <3>1. ASSUME NEW d \in Clients, NEW r, Goes(d, r), d # c PROVE FALSE
        BY <2>0, <2>1, <3>1 DEF Goes
      <3>2. ASSUME NEW d \in Clients, Goes(d, Idle) PROVE FALSE
        BY <1>1, <2>0, <3>1, <3>2, IdleRequest DEF Goes
      <3>3. ~Operator /\ ~ExpireAttempts /\ ~RestartRedis
            /\ \A t \in Tokens : ~ExpireSession(t) /\ ~Logout(t)
        BY <2>1 DEF Operator, CreateUser, ResetUserPassword, DisableUser, ExpireAttempts,
                    RestartRedis, ExpireSession, Logout
      <3>4. ASSUME NEW d \in Clients, Login(d) PROVE FALSE
        <4>1. \E r : Goes(d, r)
          BY <3>4 DEF Login, SubmitLogin, AuthenticateUser, RecordLoginFailure,
                      ClearLoginFailures, CreateSession, Unavailable
        <4>2. request[d].pc # "presented"
          BY <3>4, IdleRequest
             DEF Login, SubmitLogin, AuthenticateUser, RecordLoginFailure, ClearLoginFailures,
                 CreateSession
        <4> QED BY <1>1, <3>1, <4>1, <4>2
      <3>5. ASSUME NEW d \in Clients, Authenticated(d) \/ DatabaseFails(d)
            PROVE  UserAuthVersion(c)
        <4>1. \E r : Goes(d, r)
          BY <3>5 DEF Authenticated, PresentSession, UserAuthVersion, EvictSession, Serve,
                      DatabaseFails
        <4>2. d = c /\ ~Goes(d, Idle)
          BY <3>1, <3>2, <4>1
        <4>3. ASSUME NEW t \in Tokens, PresentSession(d, t) PROVE FALSE
          BY <1>1, <4>2, <4>3, IdleRequest DEF PresentSession
        <4> QED
          BY <3>5, <4>2, <4>3 DEF Authenticated, EvictSession, Serve, DatabaseFails
      <3>6. ~UNCHANGED vars
        BY <2>1 DEF vars
      <3> QED BY <1>1, <3>3, <3>4, <3>5, <3>6 DEF Next
    <2>3. IsCurrent(request[c].session)
      <3>1. request'[c] = [request[c] EXCEPT !.pc = IF IsCurrent(request[c].session)
                                                    THEN "admitted" ELSE "stale"]
        BY <2>0, <2>2 DEF UserAuthVersion, Goes
      <3>2. request[c] \in Request
        BY <2>0
      <3>3. ~IsCurrent(request[c].session) => request'[c].pc = "stale"
        BY <1>1, <3>1, <3>2, RequestGoesOn
      <3> QED BY <1>1, <3>3
    <2> QED BY <2>0, <2>3 DEF IsCurrent, Sound, Faithful
  <1>2. IInv /\ [Next]_vars =>
           \A c \in Clients :
              request[c].pc = "presented" /\ request'[c].pc = "admitted" =>
                 Enabled /\ account.password = request[c].session.password
    BY <1>1
  <1> QED BY <1>2, Inductive, PTL DEF Spec, AdmitsCurrentOnly

-----------------------------------------------------------------------------
(* The throttle. *)

With(pcs) == {c \in Clients : request[c].pc \in pcs}

(* A wrong password that was compared is counted, is known to be           *)
(* unrecorded, or its request is about to report it; and the counter       *)
(* leaves room for those that are past the check of the limit.             *)
ThrottleInv ==
    /\ guesses <= attempts + unrecorded + Cardinality(With({"invalid"}))
    /\ attempts + Cardinality(With({"checked", "invalid"}))
          <= LoginLimit + Cardinality(Clients) - 1

LEMMA CountType ==
    ASSUME NEW pcs
    PROVE  /\ IsFiniteSet(With(pcs)) /\ Cardinality(With(pcs)) \in Nat
           /\ Cardinality(With(pcs)) <= Cardinality(Clients)
           /\ Cardinality(Clients) \in Nat
  <1>1. With(pcs) \subseteq Clients
    BY DEF With
  <1> QED BY <1>1, ClientsAssumption, FS_Subset, FS_CardinalityType

(* How the number of requests at some steps changes when one moves on.     *)
LEMMA CountStep ==
    ASSUME TypeOK, NEW c \in Clients, NEW r \in Request, Goes(c, r), NEW pcs
    PROVE  LET n == Cardinality(With(pcs))
           IN  /\ n \in Nat /\ n' \in Nat
               /\ r.pc \in pcs /\ request[c].pc \notin pcs => n' = n + 1
               /\ r.pc \notin pcs /\ request[c].pc \in pcs => n' = n - 1
               /\ (r.pc \in pcs <=> request[c].pc \in pcs) => n' = n
  <1>1. With(pcs)' = IF r.pc \in pcs THEN With(pcs) \union {c} ELSE With(pcs) \ {c}
    BY DEF With, Goes, TypeOK
  <1>2. c \in With(pcs) <=> request[c].pc \in pcs
    BY DEF With
  <1>3. IsFiniteSet(With(pcs)) /\ Cardinality(With(pcs)) \in Nat
    BY CountType
  <1>4. r.pc \in pcs =>
           Cardinality(With(pcs)') = IF request[c].pc \in pcs THEN Cardinality(With(pcs))
                                     ELSE Cardinality(With(pcs)) + 1
    <2>1. Cardinality(With(pcs) \union {c}) = IF c \in With(pcs) THEN Cardinality(With(pcs))
                                             ELSE Cardinality(With(pcs)) + 1
      BY <1>3, FS_AddElement
    <2> QED BY <1>1, <1>2, <2>1
  <1>5. r.pc \notin pcs =>
           Cardinality(With(pcs)') = IF request[c].pc \in pcs THEN Cardinality(With(pcs)) - 1
                                     ELSE Cardinality(With(pcs))
    BY <1>1, <1>2, <1>3, FS_RemoveElement
  <1>6. With(pcs)' \subseteq Clients
    BY DEF With
  <1>7. Cardinality(With(pcs)') \in Nat
    BY <1>6, ClientsAssumption, FS_Subset, FS_CardinalityType
  <1> QED BY <1>3, <1>4, <1>5, <1>7

LEMMA ThrottleStep ==
    ASSUME TypeOK, ThrottleInv, [Next]_vars
    PROVE  ThrottleInv'
  <1> DEFINE i == Cardinality(With({"invalid"}))
             n == Cardinality(With({"checked", "invalid"}))
  <1>0. /\ guesses \in Nat /\ attempts \in Nat /\ unrecorded \in Nat /\ LoginLimit \in Nat \ {0}
        /\ i \in Nat /\ n \in Nat /\ Cardinality(Clients) \in Nat
        /\ guesses <= attempts + unrecorded + i
        /\ attempts + n <= LoginLimit + Cardinality(Clients) - 1
        /\ i <= Cardinality(Clients) /\ n <= Cardinality(Clients)
    BY CountType, LimitAssumption DEF TypeOK, ThrottleInv
  <1>1. ThrottleInv' <=> /\ guesses' <= attempts' + unrecorded' + i'
                         /\ attempts' + n' <= LoginLimit + Cardinality(Clients) - 1
    BY DEF ThrottleInv
  <1>2. request' = request => i' = i /\ n' = n
    BY DEF With
  <1> HIDE DEF i, n
  <1>3. CASE UNCHANGED <<request, attempts, history>> \/ (UNCHANGED request /\ StartWindow)
    BY <1>0, <1>1, <1>2, <1>3 DEF history, StartWindow
  <1>4. ASSUME NEW c \in Clients, NEW r \in Request, Goes(c, r),
               r.pc \notin {"checked", "invalid"}
        PROVE  /\ i' \in Nat /\ n' \in Nat /\ i' <= i /\ n' <= n
               /\ request[c].pc = "invalid" => i' = i - 1 /\ n' = n - 1
               /\ request[c].pc \notin {"checked", "invalid"} => i' = i /\ n' = n
               /\ request[c].pc = "checked" => i' = i
    BY <1>0, <1>4, CountStep DEF i, n
  <1>5. ASSUME NEW c \in Clients, NEW p \in Passwords, SubmitLogin(c, p) PROVE ThrottleInv'
    <2>1. [pc |-> "checked", password |-> p] \in Request
      BY DEF Request
    <2>2. request[c].pc = "idle" /\ Goes(c, [pc |-> "checked", password |-> p])
      BY <1>5, IdleRequest DEF SubmitLogin
    <2>3. i' = i /\ n' \in Nat
      BY <2>1, <2>2, CountStep DEF i, n
    <2>4. n' <= Cardinality(Clients)
      <3>1. With({"checked", "invalid"})' \subseteq Clients
        BY DEF With
      <3> QED BY <3>1, ClientsAssumption, FS_Subset DEF n
    <2>5. attempts < LoginLimit
      BY <1>0, <1>5 DEF SubmitLogin, LoginLimited
    <2> QED
      BY <1>0, <1>1, <1>5, <2>3, <2>4, <2>5 DEF SubmitLogin, redis, history
  <1>6. ASSUME NEW c \in Clients, AuthenticateUser(c) PROVE ThrottleInv'
    <2>1. request[c].pc = "checked" /\ UNCHANGED <<attempts, unrecorded>>
      BY <1>6 DEF AuthenticateUser, redis
    <2>2. CASE Enabled /\ account.password = request[c].password
      <3> DEFINE r == [pc |-> "valid",
                       session |-> [version |-> account.version, password |-> account.password]]
      <3>1. account \in Account
        BY <2>2 DEF Enabled, TypeOK
      <3>2. r \in Request /\ r.pc = "valid"
        BY <3>1 DEF Account, Session, Request
      <3>3. Goes(c, r) /\ guesses' = guesses
        BY <1>6, <2>2 DEF AuthenticateUser
      <3> HIDE DEF r
      <3> QED BY <1>0, <1>1, <1>4, <2>1, <3>2, <3>3
    <2>3. CASE ~(Enabled /\ account.password = request[c].password)
      <3>1. Goes(c, [pc |-> "invalid"]) /\ guesses' = guesses + 1
        BY <1>6, <2>3 DEF AuthenticateUser
      <3>2. [pc |-> "invalid"] \in Request
        BY DEF Request
      <3>3. i' = i + 1 /\ n' = n
        BY <2>1, <3>1, <3>2, CountStep DEF i, n
      <3> QED BY <1>0, <1>1, <2>1, <3>1, <3>3
    <2> QED BY <2>2, <2>3
  <1>7. ASSUME NEW c \in Clients, RecordLoginFailure(c) PROVE ThrottleInv'
    <2>1. Goes(c, Idle) /\ request[c].pc = "invalid" /\ guesses' = guesses
      BY <1>7 DEF RecordLoginFailure, Unavailable
    <2>2. i' = i - 1 /\ n' = n - 1
      BY <1>4, <2>1, IdleRequest
    <2>3. \/ attempts' = attempts + 1 /\ unrecorded' = unrecorded
          \/ attempts' = attempts /\ unrecorded' = unrecorded + 1
      BY <1>7 DEF RecordLoginFailure
    <2> QED BY <1>0, <1>1, <2>1, <2>2, <2>3
  <1>8. ASSUME NEW c \in Clients, ClearLoginFailures(c) PROVE ThrottleInv'
    <2>1. request[c].pc = "valid" /\ request[c] \in Request
      BY <1>8 DEF ClearLoginFailures, TypeOK
    <2>2. CASE StartWindow /\ Goes(c, [request[c] EXCEPT !.pc = "cleared"])
      <3> DEFINE r == [pc |-> "cleared", session |-> request[c].session]
      <3>1. request[c].session \in Session /\ [request[c] EXCEPT !.pc = "cleared"] = r
        BY <2>1, RequestFields, RequestGoesOn DEF Carries
      <3>2. r \in Request /\ r.pc = "cleared"
        BY <3>1 DEF Request
      <3>3. Goes(c, r)
        BY <2>2, <3>1
      <3> HIDE DEF r
      <3>4. i' = i /\ n' = n
        BY <1>4, <2>1, <3>2, <3>3
      <3> QED BY <1>0, <1>1, <2>2, <3>4 DEF StartWindow
    <2>3. CASE Unavailable(c) /\ UNCHANGED <<attempts, history>>
      BY <1>0, <1>1, <1>4, <2>1, <2>3, IdleRequest DEF Unavailable, history
    <2> QED BY <1>8, <2>2, <2>3 DEF ClearLoginFailures
  <1>9. ASSUME NEW c \in Clients, NEW r \in Request, Goes(c, r),
               r.pc \notin {"checked", "invalid"}, UNCHANGED <<attempts, history>>,
               request[c].pc # "invalid"
        PROVE  ThrottleInv'
    BY <1>0, <1>1, <1>4, <1>9 DEF history, TypeOK, Request
  <1>10. ASSUME NEW c \in Clients,
                CreateSession(c) \/ EvictSession(c) \/ Serve(c) \/ DatabaseFails(c)
         PROVE  ThrottleInv'
    BY <1>9, <1>10, IdleRequest
       DEF CreateSession, Unavailable, EvictSession, Serve, DatabaseFails, redis, history
  <1>11. ASSUME NEW c \in Clients, NEW t \in Tokens, PresentSession(c, t) PROVE ThrottleInv'
    <2> DEFINE r == [pc |-> "presented", session |-> sessions[t], token |-> t]
    <2>1. r \in Request /\ r.pc = "presented"
      BY <1>11 DEF PresentSession, TypeOK, Request
    <2>2. Goes(c, r) /\ request[c].pc # "invalid" /\ UNCHANGED <<attempts, history>>
      BY <1>11, IdleRequest DEF PresentSession, redis
    <2> HIDE DEF r
    <2> QED BY <1>9, <2>1, <2>2
  <1>12. ASSUME NEW c \in Clients, UserAuthVersion(c) PROVE ThrottleInv'
    <2> DEFINE p == IF IsCurrent(request[c].session) THEN "admitted" ELSE "stale"
               r == [pc |-> p, session |-> request[c].session, token |-> request[c].token]
    <2>1. request[c] \in Request /\ request[c].pc = "presented" /\ p \in {"admitted", "stale"}
          /\ Goes(c, [request[c] EXCEPT !.pc = p]) /\ UNCHANGED <<attempts, history>>
      BY <1>12 DEF UserAuthVersion, TypeOK, redis
    <2> HIDE DEF p
    <2>2. request[c].session \in Session /\ request[c].token \in Tokens
          /\ [request[c] EXCEPT !.pc = p] = r
      BY <2>1, RequestFields, RequestGoesOn DEF Carries
    <2>3. r \in Request /\ r.pc \in {"admitted", "stale"} /\ Goes(c, r)
      BY <2>1, <2>2 DEF Request
    <2> HIDE DEF r
    <2> QED BY <1>9, <2>1, <2>3
  <1>13. CASE \/ Operator \/ ExpireAttempts \/ RestartRedis \/ UNCHANGED vars
              \/ \E t \in Tokens : ExpireSession(t) \/ Logout(t)
    BY <1>3, <1>13
       DEF Operator, CreateUser, ResetUserPassword, DisableUser, ExpireAttempts, RestartRedis,
           ExpireSession, Logout, redis, history, vars
  <1> QED
    BY <1>5, <1>6, <1>7, <1>8, <1>10, <1>11, <1>12, <1>13 DEF Next, Login, Authenticated

(* However many logins run at once and however Redis fails or restarts,    *)
(* no more passwords are compared in a window than the limit, one for each *)
(* further login under way, and one for each failure it did not record.    *)
THEOREM BoundedGuesses == Spec => []GuessesBounded
  <1>1. Init => ThrottleInv
    <2> SUFFICES ASSUME Init PROVE ThrottleInv
      OBVIOUS
    <2>1. With({"invalid"}) = {} /\ With({"checked", "invalid"}) = {}
      BY IdleRequest DEF Init, With
    <2>2. Cardinality(With({"invalid"})) = 0 /\ Cardinality(With({"checked", "invalid"})) = 0
      BY <2>1, FS_EmptySet
    <2> QED
      BY <2>2, LimitAssumption, ClientsAssumption, FS_CardinalityType DEF Init, ThrottleInv
  <1>2. TypeOK /\ ThrottleInv /\ [Next]_vars => ThrottleInv'
    BY ThrottleStep
  <1>3. TypeOK /\ ThrottleInv => GuessesBounded
    <2> SUFFICES ASSUME TypeOK, ThrottleInv PROVE GuessesBounded
      OBVIOUS
    <2> DEFINE i == Cardinality(With({"invalid"}))
               n == Cardinality(With({"checked", "invalid"}))
    <2>1. i \in Nat /\ n \in Nat /\ Cardinality(Clients) \in Nat
      BY CountType
    <2>2. i <= n
      <3>1. With({"invalid"}) \subseteq With({"checked", "invalid"})
        BY DEF With
      <3> QED BY <3>1, CountType, FS_Subset
    <2>3. /\ guesses <= attempts + unrecorded + i
          /\ attempts + n <= LoginLimit + Cardinality(Clients) - 1
      BY DEF ThrottleInv
    <2> HIDE DEF i, n
    <2> QED BY <2>1, <2>2, <2>3, LimitAssumption DEF TypeOK, GuessesBounded
  <1> QED BY <1>1, <1>2, <1>3, TypeCorrect, PTL DEF Spec
=============================================================================
