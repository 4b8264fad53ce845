------------------------------- MODULE Gateway -------------------------------
(***************************************************************************)
(* What comes in through the router: logins with their limit of attempts   *)
(* (internal/auth/service.go, handler.go), requests with a session, of     *)
(* which one reloads the configuration (internal/command/run.go,           *)
(* internal/router/router.go); beside them the commands that create a user *)
(* and change a password (internal/user/service.go, internal/command/      *)
(* user.go), which run in a process of their own.                          *)
(*                                                                         *)
(* A step is a statement on the database, a critical section of            *)
(* Service.mu, or the Replace of one service; other requests come in       *)
(* between.  A password stands for how often it has been set: 0 is a user  *)
(* who is not there, and of what is given at a login a wrong password.     *)
(* Sessions are numbered as they are made.                                 *)
(***************************************************************************)
EXTENDS Naturals, Integers, FiniteSets, Sequences, Subsequences

CONSTANTS
  Requests,     \* the requests
  Users,        \* the names of users
  Addresses,    \* where requests come from
  MaxAttempts,  \* maxLoginAttempts
  Window,       \* loginAttemptWindow
  SessionTime,  \* sessionDuration
  MaxClock,     \* bound: how far the clock goes
  MaxPassword,  \* bound: how often a password is set
  MaxSessions,  \* bound: how many sessions are made
  MaxFile,      \* bound: how often the configuration is written
  MaxFaults     \* bound: how often the database, or a reading of the file, fails

ASSUME GatewayAssumption ==
  /\ IsFiniteSet(Requests) /\ Users # {} /\ Addresses # {}
  /\ MaxAttempts \in Nat \ {0} /\ Window \in Nat \ {0} /\ SessionTime \in Nat \ {0}
  /\ MaxClock \in Nat /\ MaxPassword \in Nat \ {0} /\ MaxSessions \in Nat
  /\ MaxFile \in Nat \ {0} /\ MaxFaults \in Nat

VARIABLES
  clock,
  password,   \* the password of each user, in the database
  disabled,   \* the users who are disabled there
  sessions,   \* the sessions in memory: whose, and until when
  attempts,   \* failedLogins: the times of failed logins, for each address
  request,    \* the requests
  made,       \* how many sessions have been made
  cookies,    \* the sessions a client knows of
  spilt,      \* history: the sessions of logins the database then failed
  file,       \* the configuration in the file
  services,   \* the configuration in each service, 0: there is no such service
  mixed,      \* history: reloads have crossed, and none has run alone since
  faults      \* how often something has failed

accounts == <<password, disabled>>
loaded   == <<file, services, mixed>>
vars     == <<clock, accounts, sessions, attempts, request, made, cookies,
              spilt, loaded, faults>>

Order == <<"storage", "sync", "dns", "features", "bt">>
Services == {"storage", "sync", "dns", "features", "bt"}

\* given: the password given.  at: the time of the login.  known: the password
\* that was read.  good: whether the login is.  config: what was loaded.
\* next: the service that gets it next.  crossed: history, another reload was
\* under way as well.  hopeless: history, see Hopeless.
Request == [pc : {"idle", "find", "compare", "update", "log", "lookup", "query",
                  "serve", "load", "apply"},
            kind : {"none", "login", "page", "reload"},
            user : Users, address : Addresses, given : 0..MaxPassword,
            at : 0..MaxClock, known : 0..MaxPassword, good : BOOLEAN,
            session : 0..MaxSessions, config : 0..MaxFile,
            next : 1..Len(Order), crossed : BOOLEAN, hopeless : BOOLEAN]

NoRequest ==
  [pc |-> "idle", kind |-> "none", user |-> CHOOSE u \in Users : TRUE,
   address |-> CHOOSE a \in Addresses : TRUE, given |-> 0, at |-> 0, known |-> 0,
   good |-> FALSE, session |-> 0, config |-> 0, next |-> 1, crossed |-> FALSE,
   hopeless |-> FALSE]

\* The services the process has: bt, when it is not enabled at the start, is not
\* made, nor later.
Present == {s \in Services : services[s] # 0}

Idle(c) == request[c].pc = "idle"
Live(s) == s \in DOMAIN sessions /\ sessions[s].until > clock
Recent(a) ==
  SubSeqAt(attempts[a], {n \in DOMAIN attempts[a] : attempts[a][n] > clock - Window})
Without(s) == [t \in DOMAIN sessions \ {s} |-> sessions[t]]
With(s, u, until) ==
  [t \in DOMAIN sessions \cup {s} |->
     IF t = s THEN [user |-> u, until |-> until] ELSE sessions[t]]

----------------------------------------------------------------------------
Init ==
  /\ clock = 0
  /\ password \in [Users -> {0, 1}]
  /\ disabled = {}
  /\ sessions = <<>>
  /\ attempts = [a \in Addresses |-> <<>>]
  /\ request = [c \in Requests |-> NoRequest]
  /\ made = 0
  /\ cookies = {} /\ spilt = {}
  /\ file = 1
  /\ \E bt \in {0, 1} : services = [s \in Services |-> IF s = "bt" THEN bt ELSE 1]
  /\ mixed = FALSE
  /\ faults = 0

----------------------------------------------------------------------------
Fine == UNCHANGED faults
Fault == faults < MaxFaults /\ faults' = faults + 1

\* The request goes on, or is answered and forgotten.
Becomes(c, r) == request' = [request EXCEPT ![c] = r]
Goto(c, pc) == [request[c] EXCEPT !.pc = pc]
Answer(c) == Becomes(c, NoRequest)

\* A statement on the database that fails fails the request.
DatabaseFails(c) == Fault /\ Answer(c)

\* The login cannot be right any more: with a password older than the user's,
\* or of a user who is disabled, which nothing here undoes.
HopelessLogin(u, given) == given = 0 \/ given < password[u] \/ u \in disabled

\* The session has ended, or its user is disabled.
HopelessSession(s) == ~Live(s) \/ sessions[s].user \in disabled

----------------------------------------------------------------------------
\* Login.

\* Mutant: one attempt too many.
LimitedLate(a) == Len(Recent(a)) > MaxAttempts

\* isRateLimited, of what it keeps.
Limited(a) == Len(Recent(a)) >= MaxAttempts

Login(c, u, a, given) ==
  /\ Idle(c)
  /\ attempts' = [attempts EXCEPT ![a] = Recent(a)]
  /\ Becomes(c, IF Limited(a) THEN NoRequest
                ELSE [NoRequest EXCEPT
                        !.pc = "find", !.kind = "login", !.user = u, !.address = a,
                        !.given = given, !.at = clock,
                        !.hopeless = HopelessLogin(u, given)])
  /\ UNCHANGED <<clock, accounts, sessions, made, cookies, spilt, loaded, faults>>

\* findUser.
Find(c) ==
  LET r == request[c] IN
  /\ r.pc = "find"
  /\ \/ Fine /\ Becomes(c, [Goto(c, "compare") EXCEPT
               !.known = password[r.user], !.good = r.user \notin disabled])
     \/ DatabaseFails(c)
  /\ UNCHANGED <<clock, accounts, sessions, attempts, made, cookies, spilt, loaded>>

\* Mutant: the password is not looked at.
RightUnread(r) == r.known # 0 /\ r.good

\* The password is that of an enabled user; a user who is not there is
\* compared all the same, for the time it takes.
Right(r) == r.known # 0 /\ r.known = r.given /\ r.good

\* After the slow comparison the attempt is counted, or the session made.
Compare(c) ==
  LET r == request[c] IN
  /\ r.pc = "compare"
  /\ IF Right(r)
       THEN /\ made < MaxSessions /\ made' = made + 1
            /\ sessions' = With(made', r.user, r.at + SessionTime)
            /\ Becomes(c, [NoRequest EXCEPT !.pc = "update", !.kind = "login",
                            !.user = r.user, !.good = TRUE, !.session = made',
                            !.hopeless = r.hopeless])
            /\ UNCHANGED attempts
       ELSE /\ attempts' = [attempts EXCEPT ![r.address] = Append(@, r.at)]
            /\ Becomes(c, [NoRequest EXCEPT !.pc = "log", !.kind = "login"])
            /\ UNCHANGED <<sessions, made>>
  /\ UNCHANGED <<clock, accounts, cookies, spilt, loaded, faults>>

\* Mutant: the session stays though the login fails.
UpdateKeeping(c) ==
  /\ request[c].pc = "update"
  /\ \/ Fine /\ Becomes(c, Goto(c, "log"))
     \/ DatabaseFails(c)
  /\ UNCHANGED <<clock, accounts, sessions, attempts, made, cookies, spilt, loaded>>

\* last_login_at.  If that fails the session is taken back.
Update(c) ==
  LET r == request[c] IN
  /\ r.pc = "update"
  /\ \/ Fine /\ Becomes(c, Goto(c, "log")) /\ UNCHANGED sessions
     \/ DatabaseFails(c) /\ sessions' = Without(r.session)
  /\ UNCHANGED <<clock, accounts, attempts, made, cookies, spilt, loaded>>

\* recordLogin.  If that fails the session is not taken back.
Log(c) ==
  LET r == request[c] IN
  /\ r.pc = "log"
  /\ \/ /\ Fine
        /\ IF r.good THEN Becomes(c, Goto(c, "lookup")) ELSE Answer(c)
        /\ UNCHANGED spilt
     \/ /\ DatabaseFails(c)
        /\ spilt' = spilt \cup (IF r.good THEN {r.session} ELSE {})
  /\ UNCHANGED <<clock, accounts, sessions, attempts, made, cookies, loaded>>

----------------------------------------------------------------------------
\* Requests with a session: RequireSession and the session handler, and the
\* handler of login itself, for the answer it gives.

Page(c, s, kind) ==
  /\ Idle(c)
  /\ s \in cookies
  /\ kind \in {"page", "reload"}
  /\ Becomes(c, [NoRequest EXCEPT !.pc = "lookup", !.kind = kind, !.session = s,
                                  !.hopeless = HopelessSession(s)])
  /\ UNCHANGED <<clock, accounts, sessions, attempts, made, cookies, spilt, loaded,
                 faults>>

\* UserForSession, before the query.
Lookup(c) ==
  LET s == request[c].session IN
  /\ request[c].pc = "lookup"
  /\ IF Live(s) THEN /\ Becomes(c, [Goto(c, "query") EXCEPT !.user = sessions[s].user])
                     /\ UNCHANGED sessions
     ELSE Answer(c) /\ sessions' = Without(s)
  /\ UNCHANGED <<clock, accounts, attempts, made, cookies, spilt, loaded, faults>>

\* Who is let in is served; a login gets its cookie.
Admitted(c) ==
  /\ Becomes(c, Goto(c, IF request[c].kind = "reload" THEN "load" ELSE "serve"))
  /\ cookies' = IF request[c].kind = "login" THEN cookies \cup {request[c].session}
                ELSE cookies

\* Mutant: the time of the visit is written back after the query.
QueryTouching(c) ==
  LET r == request[c] IN
  /\ r.pc = "query"
  /\ Fine /\ Admitted(c) /\ sessions' = With(r.session, r.user, clock + SessionTime)
  /\ UNCHANGED <<clock, accounts, attempts, made, spilt, loaded>>

\* UserForSession, from the query on.
Query(c) ==
  LET r == request[c] IN
  /\ r.pc = "query"
  /\ \/ /\ Fine /\ r.user \notin disabled
        /\ Admitted(c) /\ UNCHANGED <<sessions, spilt>>
     \/ /\ Fine /\ r.user \in disabled
        /\ Answer(c) /\ sessions' = Without(r.session)
        /\ UNCHANGED <<cookies, spilt>>
     \/ /\ DatabaseFails(c)
        /\ spilt' = spilt \cup (IF r.kind = "login" THEN {r.session} ELSE {})
        /\ UNCHANGED <<sessions, cookies>>
  /\ UNCHANGED <<clock, accounts, attempts, made, loaded>>

\* The handler of the page, or the answer to the login.
Serve(c) ==
  /\ request[c].pc = "serve"
  /\ Answer(c)
  /\ UNCHANGED <<clock, accounts, sessions, attempts, made, cookies, spilt, loaded,
                 faults>>

\* Logout, which asks for no session.
Logout(s) ==
  /\ s \in cookies
  /\ sessions' = Without(s)
  /\ UNCHANGED <<clock, accounts, attempts, request, made, cookies, spilt, loaded,
                 faults>>

----------------------------------------------------------------------------
\* Reload.

Reloading == {c \in Requests : request[c].pc = "apply"}

\* Load.  A file that is not valid changes nothing.
Load(c) ==
  /\ request[c].pc = "load"
  /\ \/ /\ Fine
        /\ request' = [d \in Requests |->
             IF d = c THEN [Goto(c, "apply") EXCEPT !.config = file, !.next = 1,
                                                    !.crossed = Reloading # {}]
             ELSE IF d \in Reloading THEN [request[d] EXCEPT !.crossed = TRUE]
             ELSE request[d]]
     \/ DatabaseFails(c)
  /\ UNCHANGED <<clock, accounts, sessions, attempts, made, cookies, spilt, loaded>>

\* Mutant: the reload ends with the scheduler.
ApplyToStorage(c) ==
  LET r == request[c]  last == r.next = 2 IN
  /\ r.pc = "apply"
  /\ services' = [services EXCEPT ![Order[r.next]] = IF @ = 0 THEN 0 ELSE r.config]
  /\ mixed' = IF last THEN r.crossed ELSE mixed
  /\ IF last THEN Answer(c) ELSE Becomes(c, [r EXCEPT !.next = @ + 1])
  /\ UNCHANGED <<clock, accounts, sessions, attempts, made, cookies, spilt, file,
                 faults>>

\* One service after the other; Load has seen to it that none refuses.  One that
\* was not made is passed over (btService is nil), and stays so.
Apply(c) ==
  LET r == request[c]  last == r.next = Len(Order) IN
  /\ r.pc = "apply"
  /\ services' = [services EXCEPT ![Order[r.next]] = IF @ = 0 THEN 0 ELSE r.config]
  /\ mixed' = IF last THEN r.crossed ELSE mixed
  /\ IF last THEN Answer(c) ELSE Becomes(c, [r EXCEPT !.next = @ + 1])
  /\ UNCHANGED <<clock, accounts, sessions, attempts, made, cookies, spilt, file,
                 faults>>

----------------------------------------------------------------------------
\* The world: commands, the administrator of the database, the editor of the
\* file, the clock.

\* user create.  The name is unique in the database, which decides between two.
CreateUser(u) ==
  /\ password[u] = 0
  /\ password' = [password EXCEPT ![u] = 1]
  /\ UNCHANGED <<clock, disabled, sessions, attempts, request, made, cookies, spilt,
                 loaded, faults>>

\* user passwd, of a user who is there.  No session of the user is ended.
UpdatePassword(u) ==
  /\ password[u] \in 1..(MaxPassword - 1)
  /\ password' = [password EXCEPT ![u] = @ + 1]
  /\ UNCHANGED <<clock, disabled, sessions, attempts, request, made, cookies, spilt,
                 loaded, faults>>

\* The program has no operation that disables a user, or enables one again.
Disable(u) ==
  /\ password[u] # 0
  /\ disabled' = disabled \cup {u}
  /\ UNCHANGED <<clock, password, sessions, attempts, request, made, cookies, spilt,
                 loaded, faults>>

Edit ==
  /\ file < MaxFile
  /\ file' = file + 1
  /\ UNCHANGED <<clock, accounts, sessions, attempts, request, made, cookies, spilt,
                 services, mixed, faults>>

Tick ==
  /\ clock < MaxClock
  /\ clock' = clock + 1
  /\ UNCHANGED <<accounts, sessions, attempts, request, made, cookies, spilt, loaded,
                 faults>>

Next ==
  \/ \E c \in Requests :
       \/ \E u \in Users, a \in Addresses, given \in 0..MaxPassword :
            Login(c, u, a, given)
       \/ \E s \in cookies, kind \in {"page", "reload"} : Page(c, s, kind)
       \/ Find(c) \/ Compare(c) \/ Update(c) \/ Log(c)
       \/ Lookup(c) \/ Query(c) \/ Serve(c) \/ Load(c) \/ Apply(c)
  \/ \E s \in cookies : Logout(s)
  \/ \E u \in Users : CreateUser(u) \/ UpdatePassword(u) \/ Disable(u)
  \/ Edit \/ Tick

Spec == Init /\ [][Next]_vars

----------------------------------------------------------------------------
\* Properties.

\* The types of the state.
TypeOK ==
  /\ clock \in 0..MaxClock
  /\ password \in [Users -> 0..MaxPassword]
  /\ disabled \subseteq Users
  /\ DOMAIN sessions \subseteq 1..made
  /\ \A s \in DOMAIN sessions :
       sessions[s] \in [user : Users, until : 0..(MaxClock + SessionTime)]
  /\ attempts \in [Addresses -> Seq(0..MaxClock)]
  /\ request \in [Requests -> Request]
  /\ made \in 0..MaxSessions
  /\ cookies \subseteq 1..made /\ spilt \subseteq 1..made
  /\ file \in 1..MaxFile
  /\ services \in [Services -> 0..MaxFile] /\ Services \ Present \subseteq {"bt"}
  /\ mixed \in BOOLEAN
  /\ faults \in 0..MaxFaults

\* The limit of attempts is tested before the slow comparison and counted after
\* it (Login, service.go:86 and 109): logins that run at once may pass it
\* together, but the failures remembered of one window exceed it by less than
\* the logins that run at once.
LimitHolds ==
  \A a \in Addresses :
    Len(Recent(a)) <= MaxAttempts + Cardinality(Requests) - 1

\* Nobody is let in who could not be when the request came: with a password
\* that had been replaced by then, as a user who was disabled, or with a session
\* that had been ended by logout or by time; whatever is read before and used
\* after the comparison and the query (Login, UserForSession, RequireSession).
AccessIsEarned ==
  \A c \in Requests :
    request[c].pc \in {"serve", "load", "apply"} => ~request[c].hopeless

\* A session that has been taken away does not come back, and none is made to
\* last longer: not even by a request that found it before (UserForSession
\* writes the time of the visit back where it has read the session).
SessionsStayEnded ==
  [][\A s \in DOMAIN sessions' :
       s > made \/ (s \in DOMAIN sessions /\ sessions'[s] = sessions[s])]_vars

\* A login that fails leaves no session behind, but when it was the logging of
\* the login, or the query for its answer, that failed (service.go:137,
\* handler.go:94): then nobody knows the session and nothing takes it away.
FailedLoginsLeaveNothing ==
  DOMAIN sessions \subseteq
    cookies \cup spilt \cup
    {request[c].session : c \in {d \in Requests : ~Idle(d) /\ request[d].kind = "login"}}

\* While no reload runs, all services the process has have the same
\* configuration, unless the last reload to end has crossed another (the reload of
\* run.go is not serialised): each service then has that of whoever came to it
\* last.  A process started without bt has none to configure, whatever features
\* says of it after a reload.
ServicesAgree ==
  Reloading = {} /\ ~mixed => \A s, t \in Present : services[s] = services[t]
=============================================================================
