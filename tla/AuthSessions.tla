----------------------------- MODULE AuthSessions -----------------------------
(***************************************************************************)
(* Signing in to the dashboard (httpapi/auth.go, store/auth.go,            *)
(* cmd/users): one account in PostgreSQL that an operator manages from the *)
(* command line, its sessions and its counter of failed logins in Redis    *)
(* (which keeps nothing across a restart), and concurrent HTTP requests.   *)
(*                                                                         *)
(* Every access to Redis or to the database is a step of its own, since    *)
(* the operator and the other requests come in between.  The counter is    *)
(* that of one client address.  The field password of a session, guesses   *)
(* and unrecorded are history: what the user typed, the wrong passwords    *)
(* compared since the counter last started at zero, and those of them that *)
(* Redis did not count.                                                    *)
(***************************************************************************)
EXTENDS Naturals, FiniteSets

CONSTANTS
    Clients,    \* concurrent HTTP requests
    Passwords,
    Tokens,     \* session tokens, each drawn once
    LoginLimit, \* failed logins in a window
    None,       \* no account, no session
    MaxVersion, \* bound: changes of the account
    MaxLost     \* bound: Redis commands that fail

ASSUME LimitAssumption == LoginLimit \in Nat \ {0}
ASSUME AuthBounds == MaxVersion \in Nat /\ MaxLost \in Nat
ASSUME ClientsAssumption == IsFiniteSet(Clients)

Account == [password : Passwords, version : Nat, disabled : BOOLEAN]

(* A Redis session (authSession). *)
Session == [version : Nat, password : Passwords]

ASSUME NoneAssumption == None \notin Account /\ None \notin Session

VARIABLES
    account,    \* the row of app_users
    sessions,   \* Redis: token -> session
    fresh,      \* tokens not drawn yet
    attempts,   \* Redis: the failed logins counted; 0 when there is no key
    request,    \* what each request is doing
    guesses,    \* history
    unrecorded, \* history
    lost        \* Redis commands that failed

database == <<account>>
redis    == <<sessions, fresh, attempts>>
history  == <<guesses, unrecorded>>
vars     == <<database, redis, request, history, lost>>

(* A login goes through "checked", "valid" or "invalid", and "cleared"; a  *)
(* request with a session cookie through "presented" and "admitted", or    *)
(* "stale".                                                                *)
Request ==
    [pc : {"idle"}] \union
    [pc : {"checked"}, password : Passwords] \union
    [pc : {"invalid"}] \union
    [pc : {"valid", "cleared"}, session : Session] \union
    [pc : {"presented", "admitted", "stale"}, session : Session, token : Tokens]

Idle == [pc |-> "idle"]

Goes(c, r) == request' = [request EXCEPT ![c] = r]

Enabled == account # None /\ ~account.disabled

(* A Redis command of request c fails: it answers 503.                     *)
Unavailable(c) == lost < MaxLost /\ lost' = lost + 1 /\ Goes(c, Idle)

-----------------------------------------------------------------------------
Init ==
    /\ account = None
    /\ sessions = [t \in Tokens |-> None] /\ fresh = Tokens
    /\ attempts = 0
    /\ request = [c \in Clients |-> Idle]
    /\ guesses = 0 /\ unrecorded = 0 /\ lost = 0

(* The operator. *)

(* mutant: an upsert.                                                      *)
CreateOrReplaceUser(p) ==
    /\ account' = [password |-> p, version |-> 1, disabled |-> FALSE]
    /\ UNCHANGED <<redis, request, history, lost>>

CreateUser(p) ==
    /\ account = None
    /\ account' = [password |-> p, version |-> 1, disabled |-> FALSE]
    /\ UNCHANGED <<redis, request, history, lost>>

DisableUser ==
    /\ account # None /\ account.version < MaxVersion
    /\ account' = [account EXCEPT !.disabled = TRUE, !.version = @ + 1]
    /\ UNCHANGED <<redis, request, history, lost>>

(* mutant: auth_version stays.                                             *)
ReplacePassword(p) == [account EXCEPT !.password = p]

NewPassword(p) == [account EXCEPT !.password = p, !.version = @ + 1]

ResetUserPassword(p) ==
    /\ account # None /\ account.version < MaxVersion
    /\ account' = NewPassword(p)
    /\ UNCHANGED <<redis, request, history, lost>>

(* Redis. *)

StartWindow == attempts' = 0 /\ guesses' = 0 /\ unrecorded' = 0

(* Fifteen minutes without a failure. *)
ExpireAttempts ==
    /\ attempts > 0
    /\ StartWindow
    /\ UNCHANGED <<database, sessions, fresh, request, lost>>

ExpireSession(t) ==
    /\ sessions[t] # None
    /\ sessions' = [sessions EXCEPT ![t] = None]
    /\ UNCHANGED <<database, fresh, attempts, request, history, lost>>

(* It saves nothing: all keys are gone. *)
RestartRedis ==
    /\ sessions' = [t \in Tokens |-> None]
    /\ StartWindow
    /\ UNCHANGED <<database, fresh, request, lost>>

(* Signing in: login, step by step. *)

(* mutant: one attempt more.                                               *)
OverLimit == attempts > LoginLimit

LoginLimited == attempts >= LoginLimit

SubmitLogin(c, p) ==
    /\ request[c] = Idle
    /\ ~LoginLimited
    /\ Goes(c, [pc |-> "checked", password |-> p])
    /\ UNCHANGED <<database, redis, history, lost>>

(* One select; the password is compared with the hash it returned.         *)
AuthenticateUser(c) ==
    /\ request[c].pc = "checked"
    /\ IF Enabled /\ account.password = request[c].password
       THEN /\ Goes(c, [pc |-> "valid",
                        session |-> [version |-> account.version, password |-> account.password]])
            /\ UNCHANGED guesses
       ELSE Goes(c, [pc |-> "invalid"]) /\ guesses' = guesses + 1
    /\ UNCHANGED <<database, redis, unrecorded, lost>>

(* The database answers a login or a request with an error: 500 or 503.    *)
DatabaseFails(c) ==
    /\ request[c].pc \in {"checked", "presented"}
    /\ Goes(c, Idle)
    /\ UNCHANGED <<database, redis, history, lost>>

RecordLoginFailure(c) ==
    /\ request[c].pc = "invalid"
    /\ \/ /\ attempts' = attempts + 1 /\ Goes(c, Idle)
          /\ UNCHANGED <<unrecorded, lost>>
       \/ /\ Unavailable(c)
          /\ unrecorded' = unrecorded + 1 /\ UNCHANGED attempts
    /\ UNCHANGED <<database, sessions, fresh, guesses>>

ClearLoginFailures(c) ==
    /\ request[c].pc = "valid"
    /\ \/ StartWindow /\ Goes(c, [request[c] EXCEPT !.pc = "cleared"]) /\ UNCHANGED lost
       \/ Unavailable(c) /\ UNCHANGED <<attempts, history>>
    /\ UNCHANGED <<database, sessions, fresh>>

(* mutant: the session gets the version the account has by now.            *)
LateSession(c) ==
    IF account = None THEN request[c].session
    ELSE [request[c].session EXCEPT !.version = account.version]

NewSession(c) == request[c].session

CreateSession(c) ==
    /\ request[c].pc = "cleared"
    /\ \/ /\ \E t \in fresh :
                sessions' = [sessions EXCEPT ![t] = NewSession(c)] /\ fresh' = fresh \ {t}
          /\ Goes(c, Idle) /\ UNCHANGED lost
       \/ Unavailable(c) /\ UNCHANGED <<sessions, fresh>>
    /\ UNCHANGED <<database, attempts, history>>

(* Using a session: require and sessionUser. *)

PresentSession(c, t) ==
    /\ request[c] = Idle
    /\ sessions[t] # None
    /\ Goes(c, [pc |-> "presented", session |-> sessions[t], token |-> t])
    /\ UNCHANGED <<database, redis, history, lost>>

(* mutant: only the account is looked at, not its version.                 *)
IsKnown(s) == Enabled

IsCurrent(s) == Enabled /\ account.version = s.version

UserAuthVersion(c) ==
    /\ request[c].pc = "presented"
    /\ Goes(c, [request[c] EXCEPT !.pc = IF IsCurrent(request[c].session) THEN "admitted"
                                                                           ELSE "stale"])
    /\ UNCHANGED <<database, redis, history, lost>>

(* The stale session is deleted; an error of Redis is ignored.             *)
EvictSession(c) ==
    /\ request[c].pc = "stale"
    /\ \/ sessions' = [sessions EXCEPT ![request[c].token] = None] /\ UNCHANGED lost
       \/ lost < MaxLost /\ lost' = lost + 1 /\ UNCHANGED sessions
    /\ Goes(c, Idle)
    /\ UNCHANGED <<database, fresh, attempts, history>>

(* The handler behind require runs, or the CSRF token is wrong.            *)
Serve(c) ==
    /\ request[c].pc = "admitted"
    /\ Goes(c, Idle)
    /\ UNCHANGED <<database, redis, history, lost>>

(* An error of Redis is ignored: the cookie goes, the session stays.       *)
Logout(t) ==
    /\ sessions[t] # None
    /\ \/ sessions' = [sessions EXCEPT ![t] = None] /\ UNCHANGED lost
       \/ lost < MaxLost /\ lost' = lost + 1 /\ UNCHANGED sessions
    /\ UNCHANGED <<database, fresh, attempts, request, history>>

Operator ==
    \/ \E p \in Passwords : CreateUser(p) \/ ResetUserPassword(p)
    \/ DisableUser

Login(c) ==
    \/ \E p \in Passwords : SubmitLogin(c, p)
    \/ AuthenticateUser(c) \/ RecordLoginFailure(c)
    \/ ClearLoginFailures(c) \/ CreateSession(c)

Authenticated(c) ==
    \/ \E t \in Tokens : PresentSession(c, t)
    \/ UserAuthVersion(c) \/ EvictSession(c) \/ Serve(c)

Next ==
    \/ Operator
    \/ ExpireAttempts \/ RestartRedis
    \/ \E t \in Tokens : ExpireSession(t) \/ Logout(t)
    \/ \E c \in Clients : Login(c) \/ Authenticated(c) \/ DatabaseFails(c)

Spec == Init /\ [][Next]_vars

-----------------------------------------------------------------------------
(* Types.  No stored session is newer than the account: its auth_version   *)
(* only grows, and no session survives it.                                 *)
TypeOK ==
    /\ account \in Account \union {None}
    /\ sessions \in [Tokens -> Session \union {None}] /\ fresh \subseteq Tokens
    /\ attempts \in Nat /\ guesses \in Nat /\ unrecorded \in Nat /\ lost \in Nat
    /\ request \in [Clients -> Request]
    /\ \A t \in Tokens : sessions[t] # None =>
          account # None /\ sessions[t].version <= account.version

(* README.md: "Resetting a password or disabling an account immediately    *)
(* invalidates its existing sessions".  A session is accepted only while   *)
(* its user's password is the one it was opened with and the account is    *)
(* enabled, also when the reset falls between the steps of a login: the    *)
(* session carries the version read with the hash (AuthenticateUser).      *)
AdmitsCurrentOnly ==
    [][\A c \in Clients :
          request[c].pc = "presented" /\ request'[c].pc = "admitted" =>
              Enabled /\ account.password = request[c].session.password]_vars

(* Behind it: a stored session with the account's version was opened with  *)
(* the account's password, and so was one a login is about to store.       *)
Faithful(s) == s.version = account.version => Enabled /\ s.password = account.password

SessionsFaithful ==
    /\ \A t \in Tokens : sessions[t] # None => Faithful(sessions[t])
    /\ \A c \in Clients :
          request[c].pc \notin {"idle", "checked", "invalid"} => Faithful(request[c].session)

(* The throttle (RUNBOOK.md: "Five failed attempts ... cause a 15-minute   *)
(* lockout"): concurrent logins check before any of them is counted, so    *)
(* as many more are compared as there are requests under way, and one for  *)
(* every failure Redis did not record; never more.                         *)
GuessesBounded == guesses <= LoginLimit + Cardinality(Clients) - 1 + unrecorded
=============================================================================
