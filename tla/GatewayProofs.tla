---------------------------- MODULE GatewayProofs ----------------------------
(***************************************************************************)
(* The invariants of Gateway, for any number of requests, users, sessions, *)
(* configurations and failures.                                            *)
(***************************************************************************)
EXTENDS Gateway, Functions, FiniteSetTheorems, TLAPS

\* The types of what the other invariants speak of.
Typed ==
  /\ clock \in 0..MaxClock
  /\ password \in [Users -> 0..MaxPassword]
  /\ made \in 0..MaxSessions
  /\ DOMAIN sessions \subseteq 1..made
  /\ \A s \in DOMAIN sessions : sessions[s].user \in Users /\ sessions[s].until \in Nat
  /\ request \in [Requests -> Request]
  /\ cookies \subseteq 1..made
  /\ file \in 1..MaxFile

\* What a request has found out so far.  One that cannot be let in is on its way
\* to being turned away: a login by what it was given or has read, a visit by its
\* session or, once that was found, by its user.
Fits(c) ==
  LET r == request[c] IN
  /\ r.pc \in {"find", "compare"} => r.session = 0
  /\ (r.pc = "find" /\ r.hopeless) => HopelessLogin(r.user, r.given)
  /\ (r.pc = "compare" /\ r.hopeless) => ~Right(r)
  /\ r.pc \in {"update", "log"} =>
       /\ r.good => ~r.hopeless /\ r.session \in 1..made
       /\ ~r.good => r.session = 0
  /\ r.pc = "update" => r.good
  /\ r.pc \in {"lookup", "query"} => r.session \in 1..made
  /\ (r.pc = "lookup" /\ r.hopeless) => HopelessSession(r.session)
  /\ (r.pc = "query" /\ r.hopeless) => r.user \in disabled
  /\ r.pc \in {"serve", "load", "apply"} =>
       /\ ~r.hopeless
       /\ r.kind = "login" => r.session \in cookies

\* Of two reloads both know that they have crossed; one that has not has brought
\* its configuration to all the services before the next.
ReloadsFit ==
  /\ \A c, d \in Reloading : c # d => request[c].crossed
  /\ \A c \in Reloading : ~request[c].crossed =>
       \A k \in 1..(request[c].next - 1) :
         services[Order[k]] \in {0, request[c].config}

ServicesTyped == services \in [Services -> 0..MaxFile]

IInv ==
  /\ Typed /\ ServicesTyped
  /\ \A c \in Requests : Fits(c)
  /\ FailedLoginsLeaveNothing
  /\ ReloadsFit
  /\ ServicesAgree

----------------------------------------------------------------------------
\* Requests.

LEMMA NoRequestTyped == NoRequest \in Request /\ NoRequest.pc = "idle"
  <1>1. NoRequest.user \in Users /\ NoRequest.address \in Addresses
    BY GatewayAssumption DEF NoRequest
  <1>2. Len(Order) = 5
    BY DEF Order
  <1> QED
    BY <1>1, <1>2, GatewayAssumption DEF NoRequest, Request

LEMMA BecomesOne ==
  ASSUME NEW c \in Requests, NEW r \in Request, request \in [Requests -> Request],
         Becomes(c, r)
  PROVE  /\ request' \in [Requests -> Request]
         /\ request'[c] = r
         /\ \A d \in Requests \ {c} : request'[d] = request[d]
  BY DEF Becomes

LEMMA OrderIsOfServices ==
  /\ Len(Order) = 5
  /\ \A k \in 1..5 : Order[k] \in Services
  /\ \A k, l \in 1..5 : Order[k] = Order[l] => k = l
  /\ \A s \in Services : \E k \in 1..5 : Order[k] = s
  <1>1. /\ Len(Order) = 5
        /\ Order[1] = "storage" /\ Order[2] = "sync" /\ Order[3] = "dns"
        /\ Order[4] = "features" /\ Order[5] = "bt"
    BY DEF Order
  <1>2. 1..5 = {1, 2, 3, 4, 5}
    OBVIOUS
  <1>3. \A k \in 1..5 : Order[k] \in Services
    BY <1>1, <1>2 DEF Services
  <1>4. \A s \in Services : \E k \in 1..5 : Order[k] = s
    BY <1>1, <1>2 DEF Services
  <1>5. \A k, l \in 1..5 : Order[k] = Order[l] => k = l
    BY <1>1, <1>2
  <1> QED
    BY <1>1, <1>3, <1>4, <1>5

----------------------------------------------------------------------------
\* Types.

LEMMA TypedInit == Init => Typed /\ ServicesTyped
  <1> SUFFICES ASSUME Init PROVE Typed /\ ServicesTyped
    OBVIOUS
  <1>1. password \in [Users -> 0..MaxPassword] /\ request \in [Requests -> Request]
    BY NoRequestTyped, GatewayAssumption DEF Init
  <1>2. DOMAIN sessions = {}
    BY DEF Init
  <1> QED
    BY <1>1, <1>2, GatewayAssumption DEF Init, Typed, ServicesTyped

\* The record that each step of a request leaves is a request.
LEMMA LoginTyped ==
  ASSUME Typed, NEW c \in Requests, NEW u \in Users, NEW a \in Addresses,
         NEW given \in 0..MaxPassword, Login(c, u, a, given)
  PROVE  \E r \in Request : Becomes(c, r)
  <1>1. [NoRequest EXCEPT !.pc = "find", !.kind = "login", !.user = u,
           !.address = a, !.given = given, !.at = clock,
           !.hopeless = HopelessLogin(u, given)] \in Request
    BY NoRequestTyped DEF Request, Typed, HopelessLogin
  <1> QED
    BY <1>1, NoRequestTyped DEF Login

LEMMA FindTyped ==
  ASSUME Typed, NEW c \in Requests, Find(c)
  PROVE  \E r \in Request : Becomes(c, r)
  <1>1. request[c] \in Request
    BY DEF Typed
  <1>2. password[request[c].user] \in 0..MaxPassword
    BY <1>1 DEF Typed, Request
  <1>3. [Goto(c, "compare") EXCEPT !.known = password[request[c].user],
           !.good = request[c].user \notin disabled] \in Request
    BY <1>1, <1>2 DEF Request, Goto
  <1> QED
    BY <1>3, NoRequestTyped DEF Find, DatabaseFails, Answer

LEMMA CompareTyped ==
  ASSUME Typed, NEW c \in Requests, Compare(c)
  PROVE  \E r \in Request : Becomes(c, r)
  <1> DEFINE r == request[c]
  <1>1. r \in Request
    BY DEF Typed
  <1>2. CASE Right(r)
    <2>1. made' \in 0..MaxSessions /\ Becomes(c, [NoRequest EXCEPT !.pc = "update",
            !.kind = "login", !.user = r.user, !.good = TRUE, !.session = made',
            !.hopeless = r.hopeless])
      BY <1>2, GatewayAssumption DEF Compare, Typed
    <2>2. [NoRequest EXCEPT !.pc = "update",
            !.kind = "login", !.user = r.user, !.good = TRUE, !.session = made',
            !.hopeless = r.hopeless] \in Request
      BY <1>1, <2>1, NoRequestTyped DEF Request
    <2> QED
      BY <2>1, <2>2
  <1>3. CASE ~Right(r)
    <2>1. [NoRequest EXCEPT !.pc = "log", !.kind = "login"] \in Request
      BY NoRequestTyped DEF Request
    <2> QED
      BY <1>3, <2>1 DEF Compare
  <1> QED
    BY <1>2, <1>3

LEMMA UpdateLogTyped ==
  ASSUME Typed, NEW c \in Requests, Update(c) \/ Log(c)
  PROVE  \E r \in Request : Becomes(c, r)
  <1>1. request[c] \in Request
    BY DEF Typed
  <1>2. Goto(c, "log") \in Request /\ Goto(c, "lookup") \in Request
    BY <1>1 DEF Request, Goto
  <1> QED
    BY <1>2, NoRequestTyped DEF Update, Log, DatabaseFails, Answer

LEMMA PageTyped ==
  ASSUME Typed, NEW c \in Requests, NEW s \in cookies,
         NEW kind \in {"page", "reload"}, Page(c, s, kind)
  PROVE  \E r \in Request : Becomes(c, r)
  <1>1. s \in 0..MaxSessions
    BY GatewayAssumption DEF Typed
  <1>2. HopelessSession(s) \in BOOLEAN
    BY DEF HopelessSession, Live
  <1>3. [NoRequest EXCEPT !.pc = "lookup", !.kind = kind, !.session = s,
                          !.hopeless = HopelessSession(s)] \in Request
    BY <1>1, <1>2, NoRequestTyped DEF Request
  <1> QED
    BY <1>3 DEF Page

LEMMA LookupTyped ==
  ASSUME Typed, NEW c \in Requests, Lookup(c)
  PROVE  \E r \in Request : Becomes(c, r)
  <1>1. request[c] \in Request
    BY DEF Typed
  <1>2. CASE Live(request[c].session)
    <2>1. sessions[request[c].session].user \in Users
      BY <1>2 DEF Live, Typed
    <2>2. [Goto(c, "query") EXCEPT !.user = sessions[request[c].session].user]
            \in Request
      BY <1>1, <2>1 DEF Request, Goto
    <2> QED
      BY <1>2, <2>2 DEF Lookup
  <1> QED
    BY <1>2, NoRequestTyped DEF Lookup, Answer

LEMMA QueryServeTyped ==
  ASSUME Typed, NEW c \in Requests, Query(c) \/ Serve(c)
  PROVE  \E r \in Request : Becomes(c, r)
  <1>1. request[c] \in Request
    BY DEF Typed
  <1>2. Goto(c, "load") \in Request /\ Goto(c, "serve") \in Request
    BY <1>1 DEF Request, Goto
  <1> QED
    BY <1>2, NoRequestTyped DEF Query, Serve, Admitted, DatabaseFails, Answer

LEMMA CrossedTyped ==
  ASSUME NEW r \in Request, NEW crossed \in BOOLEAN
  PROVE  [r EXCEPT !.crossed = crossed] \in Request
  BY DEF Request

LEMMA LoadedTyped ==
  ASSUME NEW r \in Request, NEW config \in 0..MaxFile, NEW crossed \in BOOLEAN
  PROVE  [[r EXCEPT !.pc = "apply"] EXCEPT !.config = config, !.next = 1,
                                           !.crossed = crossed] \in Request
  <1> DEFINE l == [[r EXCEPT !.pc = "apply"] EXCEPT !.config = config, !.next = 1]
  <1>1. 1 \in 1..Len(Order)
    BY OrderIsOfServices
  <1>2. l \in Request
    BY <1>1 DEF Request
  <1>3. [l EXCEPT !.crossed = crossed] \in Request
    BY <1>2, CrossedTyped
  <1>4. [[r EXCEPT !.pc = "apply"] EXCEPT !.config = config, !.next = 1,
                                          !.crossed = crossed]
          = [l EXCEPT !.crossed = crossed]
    BY DEF Request
  <1> QED
    BY <1>3, <1>4

LEMMA LoadTyped ==
  ASSUME Typed, NEW c \in Requests, Load(c)
  PROVE  request' \in [Requests -> Request]
  <1>1. CASE DatabaseFails(c)
    BY <1>1, NoRequestTyped, BecomesOne DEF DatabaseFails, Answer, Typed
  <1>2. CASE ~DatabaseFails(c)
    <2>1. \A d \in Requests : request[d] \in Request
      BY DEF Typed
    <2>2. \A d \in Requests : [request[d] EXCEPT !.crossed = TRUE] \in Request
      BY <2>1, CrossedTyped
    <2>3. file \in 0..MaxFile /\ (Reloading # {}) \in BOOLEAN
      BY GatewayAssumption DEF Typed
    <2>4. [Goto(c, "apply") EXCEPT !.config = file, !.next = 1,
                                   !.crossed = Reloading # {}] \in Request
      BY <2>1, <2>3, LoadedTyped DEF Goto
    <2> QED
      BY <1>2, <2>1, <2>2, <2>4 DEF Load
  <1> QED
    BY <1>1, <1>2

LEMMA ApplyTyped ==
  ASSUME Typed, NEW c \in Requests, Apply(c)
  PROVE  \E r \in Request : Becomes(c, r)
  <1> DEFINE r == request[c]
  <1>1. r \in Request /\ Len(Order) = 5
    BY OrderIsOfServices DEF Typed
  <1>2. CASE r.next # Len(Order)
    <2>1. r.next + 1 \in 1..Len(Order)
      BY <1>1, <1>2 DEF Request
    <2>2. [r EXCEPT !.next = @ + 1] \in Request
      BY <1>1, <2>1 DEF Request
    <2> QED
      BY <1>2, <2>2 DEF Apply
  <1> QED
    BY <1>2, NoRequestTyped DEF Apply, Answer

\* What a request does to the requests.
Steps(c) ==
  \/ \E u \in Users, a \in Addresses, given \in 0..MaxPassword : Login(c, u, a, given)
  \/ \E s \in cookies, kind \in {"page", "reload"} : Page(c, s, kind)
  \/ Find(c) \/ Compare(c) \/ Update(c) \/ Log(c)
  \/ Lookup(c) \/ Query(c) \/ Serve(c) \/ Apply(c)

LEMMA StepsBecome ==
  ASSUME Typed, NEW c \in Requests, Steps(c)
  PROVE  /\ request' \in [Requests -> Request]
         /\ \A d \in Requests \ {c} : request'[d] = request[d]
  <1>1. \E r \in Request : Becomes(c, r)
    BY LoginTyped, PageTyped, FindTyped, CompareTyped, UpdateLogTyped, LookupTyped,
       QueryServeTyped, ApplyTyped DEF Steps
  <1> QED
    BY <1>1, BecomesOne DEF Typed

LEMMA OthersLeaveRequests ==
  ASSUME \/ \E s \in cookies : Logout(s)
         \/ \E u \in Users : CreateUser(u) \/ UpdatePassword(u) \/ Disable(u)
         \/ Edit \/ Tick
         \/ UNCHANGED vars
  PROVE  request' = request
  BY DEF Logout, CreateUser, UpdatePassword, Disable, Edit, Tick, vars

\* Every step, by who takes it.
LEMMA NextCases ==
  ASSUME [Next]_vars
  PROVE  \/ \E c \in Requests : Steps(c) \/ Load(c)
         \/ \E s \in cookies : Logout(s)
         \/ \E u \in Users : CreateUser(u) \/ UpdatePassword(u) \/ Disable(u)
         \/ Edit \/ Tick
         \/ UNCHANGED vars
  BY DEF Next, Steps

LEMMA TypedStep ==
  ASSUME Typed, \A c \in Requests : Fits(c), [Next]_vars
  PROVE  Typed'
  <1>1. request' \in [Requests -> Request]
    <2>1. CASE \E c \in Requests : Steps(c) \/ Load(c)
      BY <2>1, StepsBecome, LoadTyped
    <2>2. CASE request' = request
      BY <2>2 DEF Typed
    <2> QED
      BY <2>1, <2>2, NextCases, OthersLeaveRequests
  <1>2. clock' \in 0..MaxClock /\ file' \in 1..MaxFile
    <2>1. CASE Tick
      BY <2>1, GatewayAssumption DEF Tick, Typed, loaded
    <2>2. CASE Edit
      BY <2>2, GatewayAssumption DEF Edit, Typed
    <2>3. CASE UNCHANGED <<clock, file>>
      BY <2>3 DEF Typed
    <2> QED
      BY <2>1, <2>2, <2>3 DEF Next, vars, loaded, Login, Page, Find, Compare,
         Update, Log, Lookup, Query, Serve, Load, Apply, Logout, CreateUser,
         UpdatePassword, Disable
  <1>3. password' \in [Users -> 0..MaxPassword]
    <2>1. CASE \E u \in Users : CreateUser(u)
      BY <2>1, GatewayAssumption DEF CreateUser, Typed
    <2>2. CASE \E u \in Users : UpdatePassword(u)
      <3>1. PICK u \in Users : UpdatePassword(u)
        BY <2>2
      <3>2. password[u] + 1 \in 0..MaxPassword
        BY <3>1, GatewayAssumption DEF UpdatePassword, Typed
      <3> QED
        BY <3>1, <3>2 DEF UpdatePassword, Typed
    <2>3. CASE UNCHANGED password
      BY <2>3 DEF Typed
    <2> QED
      BY <2>1, <2>2, <2>3 DEF Next, vars, accounts, Login, Page, Find, Compare,
         Update, Log, Lookup, Query, Serve, Load, Apply, Logout, Disable, Edit, Tick
  <1>4. /\ made' \in 0..MaxSessions /\ made <= made'
        /\ DOMAIN sessions' \subseteq 1..made'
        /\ \A s \in DOMAIN sessions' :
             sessions'[s].user \in Users /\ sessions'[s].until \in Nat
    <2>1. CASE \E c \in Requests : Compare(c)
      <3>1. PICK c \in Requests : Compare(c)
        BY <2>1
      <3>2. request[c].user \in Users /\ request[c].at + SessionTime \in Nat
        BY GatewayAssumption DEF Typed, Request
      <3>3. CASE Right(request[c])
        <4>1. /\ made' = made + 1 /\ made < MaxSessions
              /\ sessions' = With(made', request[c].user, request[c].at + SessionTime)
          BY <3>1, <3>3 DEF Compare
        <4>2. DOMAIN sessions' = DOMAIN sessions \cup {made'}
          BY <4>1 DEF With
        <4>3. \A s \in DOMAIN sessions' :
                sessions'[s].user \in Users /\ sessions'[s].until \in Nat
          BY <3>2, <4>1 DEF With, Typed
        <4> QED
          BY <4>1, <4>2, <4>3, GatewayAssumption DEF Typed
      <3>4. CASE ~Right(request[c])
        BY <3>1, <3>4 DEF Compare, Typed
      <3> QED
        BY <3>3, <3>4
    <2>2. CASE UNCHANGED made /\ \E s : sessions' = Without(s)
      BY <2>2 DEF Without, Typed
    <2>3. CASE UNCHANGED <<made, sessions>>
      BY <2>3 DEF Typed
    <2> QED
      BY <2>1, <2>2, <2>3 DEF Next, vars, Login, Page, Find,
         Update, Log, Lookup, Query, Serve, Load, Apply, Logout, CreateUser,
         UpdatePassword, Disable, Edit, Tick
  <1>5. cookies' \subseteq 1..made'
    <2>1. CASE \E c \in Requests : Query(c)
      <3>1. PICK c \in Requests : Query(c)
        BY <2>1
      <3>2. /\ UNCHANGED made
            /\ cookies' \subseteq cookies \cup {request[c].session}
        BY <3>1 DEF Query, Admitted
      <3>3. request[c].session \in 1..made
        BY <3>1 DEF Query, Fits
      <3> QED
        BY <3>2, <3>3 DEF Typed
    <2>2. CASE UNCHANGED cookies
      BY <1>4, <2>2 DEF Typed
    <2> QED
      BY <2>1, <2>2 DEF Next, vars, Login, Page, Find, Compare,
         Update, Log, Lookup, Serve, Load, Apply, Logout, CreateUser,
         UpdatePassword, Disable, Edit, Tick
  <1> QED
    BY <1>1, <1>2, <1>3, <1>4, <1>5 DEF Typed

----------------------------------------------------------------------------
\* Who is let in.

\* What only grows: nothing here makes a hopeless request hopeful.
Grows ==
  /\ made <= made' /\ cookies \subseteq cookies' /\ disabled \subseteq disabled'
  /\ \A u \in Users : password[u] <= password'[u]
  /\ \A s \in 1..made : HopelessSession(s) => HopelessSession(s)'

LEMMA SessionsOnlyEnd ==
  ASSUME Typed, disabled \subseteq disabled', clock <= clock',
         DOMAIN sessions' \cap (1..made) \subseteq DOMAIN sessions,
         \A s \in DOMAIN sessions' \cap (1..made) : sessions'[s] = sessions[s],
         clock' \in Nat
  PROVE  \A s \in 1..made : HopelessSession(s) => HopelessSession(s)'
  BY GatewayAssumption DEF HopelessSession, Live, Typed

\* Sessions only fade: what is not made anew is what it was.
LEMMA SessionsFade ==
  ASSUME Typed, Typed', [Next]_vars
  PROVE  /\ made <= made'
         /\ DOMAIN sessions' \cap (1..made) \subseteq DOMAIN sessions
         /\ \A s \in DOMAIN sessions' \cap (1..made) : sessions'[s] = sessions[s]
  <1>1. CASE \E c \in Requests : Compare(c)
    <2>1. PICK c \in Requests : Compare(c)
      BY <1>1
    <2>2. CASE Right(request[c])
      <3>1. /\ made' = made + 1 /\ made < MaxSessions
            /\ sessions' = With(made', request[c].user, request[c].at + SessionTime)
        BY <2>1, <2>2 DEF Compare
      <3>2. made' \notin 1..made
        BY <3>1, GatewayAssumption DEF Typed
      <3> QED
        BY <3>1, <3>2, GatewayAssumption DEF Typed, With
    <2>3. CASE ~Right(request[c])
      BY <2>1, <2>3, GatewayAssumption DEF Compare, Typed
    <2> QED
      BY <2>2, <2>3
  <1>2. CASE UNCHANGED made /\ \E s : sessions' = Without(s)
    BY <1>2, GatewayAssumption DEF Without, Typed
  <1>3. CASE UNCHANGED <<made, sessions>>
    BY <1>3, GatewayAssumption DEF Typed
  <1> QED
    BY <1>1, <1>2, <1>3 DEF Next, vars, Login, Page, Find,
       Update, Log, Lookup, Query, Serve, Load, Apply, Logout, CreateUser,
       UpdatePassword, Disable, Edit, Tick

LEMMA NextGrows ==
  ASSUME Typed, Typed', [Next]_vars
  PROVE  Grows
  <1>1. disabled \subseteq disabled' /\ cookies \subseteq cookies'
    BY DEF Next, vars, accounts, Login, Page, Find, Compare, Update, Log, Lookup,
       Query, Admitted, Serve, Load, Apply, Logout, CreateUser, UpdatePassword,
       Disable, Edit, Tick
  <1>2. clock <= clock' /\ clock \in Nat /\ clock' \in Nat
    <2>1. clock' = clock \/ clock' = clock + 1
      BY DEF Next, vars, Login, Page, Find, Compare, Update, Log, Lookup,
         Query, Serve, Load, Apply, Logout, CreateUser, UpdatePassword,
         Disable, Edit, Tick
    <2> QED
      BY <2>1, GatewayAssumption DEF Typed
  <1>3. \A u \in Users : password[u] <= password'[u]
    <2>1. CASE \E u \in Users : CreateUser(u) \/ UpdatePassword(u)
      BY <2>1, GatewayAssumption DEF CreateUser, UpdatePassword, Typed
    <2>2. CASE UNCHANGED password
      BY <2>2, GatewayAssumption DEF Typed
    <2> QED
      BY <2>1, <2>2 DEF Next, vars, accounts, Login, Page, Find, Compare,
         Update, Log, Lookup, Query, Serve, Load, Apply, Logout, Disable, Edit, Tick
  <1>4. /\ made <= made'
        /\ DOMAIN sessions' \cap (1..made) \subseteq DOMAIN sessions
        /\ \A s \in DOMAIN sessions' \cap (1..made) : sessions'[s] = sessions[s]
    BY SessionsFade
  <1>5. \A s \in 1..made : HopelessSession(s) => HopelessSession(s)'
    BY <1>1, <1>2, <1>4, SessionsOnlyEnd
  <1> QED
    BY <1>1, <1>3, <1>4, <1>5 DEF Grows

\* A request that waits keeps what it has found out.
LEMMA WaitingFits ==
  ASSUME Typed, Typed', Grows, NEW c \in Requests, Fits(c), request'[c] = request[c]
  PROVE  Fits(c)'
  <1> DEFINE r == request[c]
  <1>1. r \in Request
    BY DEF Typed
  <1>2. (r.pc = "find" /\ r.hopeless) => HopelessLogin(r.user, r.given)'
    <2> SUFFICES ASSUME r.pc = "find", r.hopeless
                 PROVE  HopelessLogin(r.user, r.given)'
      OBVIOUS
    <2>1. HopelessLogin(r.user, r.given)
      BY DEF Fits
    <2>2. /\ r.user \in Users /\ r.given \in Nat
          /\ password[r.user] \in Nat /\ password'[r.user] \in Nat
      BY <1>1, GatewayAssumption DEF Request, Typed
    <2> QED
      BY <2>1, <2>2 DEF HopelessLogin, Grows
  <1>3. \A s \in 1..made : s \in 1..made'
    BY GatewayAssumption DEF Grows, Typed
  <1> QED
    BY <1>2, <1>3 DEF Fits, Grows, Right

\* What each step of a request leaves fits.
LEMMA LoginFits ==
  ASSUME Typed, Typed', NEW c \in Requests, NEW u \in Users, NEW a \in Addresses,
         NEW given \in 0..MaxPassword, Login(c, u, a, given)
  PROVE  Fits(c)'
  <1>1. CASE Limited(a)
    BY <1>1, NoRequestTyped, BecomesOne DEF Login, Typed, Fits
  <1>2. CASE ~Limited(a)
    <2>1. /\ request'[c] = [NoRequest EXCEPT !.pc = "find", !.kind = "login",
               !.user = u, !.address = a, !.given = given, !.at = clock,
               !.hopeless = HopelessLogin(u, given)]
          /\ UNCHANGED <<password, disabled>>
      BY <1>2 DEF Login, Becomes, Typed, accounts
    <2>2. HopelessLogin(u, given)' = HopelessLogin(u, given)
      BY <2>1 DEF HopelessLogin
    <2>3. /\ request'[c].pc = "find" /\ request'[c].user = u
          /\ request'[c].given = given /\ request'[c].session = 0
          /\ request'[c].hopeless = HopelessLogin(u, given)
      BY <2>1 DEF NoRequest
    <2> QED
      BY <2>1, <2>3 DEF Fits, HopelessLogin
  <1> QED
    BY <1>1, <1>2

LEMMA AnswerFits ==
  ASSUME Typed, NEW c \in Requests, Answer(c)
  PROVE  Fits(c)'
  BY NoRequestTyped DEF Answer, Becomes, Typed, Fits

LEMMA FindFits ==
  ASSUME Typed, Typed', NEW c \in Requests, Fits(c), Find(c)
  PROVE  Fits(c)'
  <1> DEFINE r == request[c]
  <1>1. CASE DatabaseFails(c)
    BY <1>1, AnswerFits DEF DatabaseFails
  <1>2. CASE ~DatabaseFails(c)
    <2>1. /\ request'[c] = [Goto(c, "compare") EXCEPT
               !.known = password[r.user], !.good = r.user \notin disabled]
          /\ r.pc = "find" /\ r \in Request
      BY <1>2 DEF Find, Becomes, Typed
    <2>2. /\ request'[c].pc = "compare" /\ request'[c].session = r.session
          /\ request'[c].known = password[r.user] /\ request'[c].given = r.given
          /\ r.user \in disabled => ~request'[c].good
          /\ request'[c].hopeless = r.hopeless
      BY <2>1 DEF Goto, Request
    <2>3. r.hopeless => r.given = 0 \/ r.given < password[r.user] \/ r.user \in disabled
      BY <2>1 DEF Fits, HopelessLogin
    <2>4. r.given \in Nat /\ password[r.user] \in Nat
      BY <2>1, GatewayAssumption DEF Request, Typed
    <2>5. r.hopeless => ~Right(request'[c])
      BY <2>2, <2>3, <2>4 DEF Right
    <2>6. r.session = 0
      BY <2>1 DEF Fits
    <2> QED
      BY <2>2, <2>5, <2>6 DEF Fits, Right
  <1> QED
    BY <1>1, <1>2

LEMMA CompareFits ==
  ASSUME Typed, Typed', NEW c \in Requests, Fits(c), Compare(c)
  PROVE  Fits(c)'
  <1> DEFINE r == request[c]
  <1>1. CASE Right(r)
    <2>1. /\ request'[c] = [NoRequest EXCEPT !.pc = "update", !.kind = "login",
                              !.user = r.user, !.good = TRUE, !.session = made',
                              !.hopeless = r.hopeless]
          /\ made' = made + 1 /\ r.pc = "compare"
      BY <1>1 DEF Compare, Becomes, Typed
    <2>2. /\ request'[c].pc = "update" /\ request'[c].good
          /\ request'[c].session = made' /\ request'[c].hopeless = r.hopeless
      BY <2>1 DEF NoRequest
    <2>3. ~r.hopeless
      BY <1>1, <2>1 DEF Fits
    <2>4. made' \in 1..made'
      BY <2>1, GatewayAssumption DEF Typed
    <2> QED
      BY <2>2, <2>3, <2>4 DEF Fits
  <1>2. CASE ~Right(r)
    <2>1. request'[c] = [NoRequest EXCEPT !.pc = "log", !.kind = "login"]
      BY <1>2 DEF Compare, Becomes, Typed
    <2>2. /\ request'[c].pc = "log" /\ ~request'[c].good /\ request'[c].session = 0
      BY <2>1 DEF NoRequest
    <2> QED
      BY <2>2 DEF Fits
  <1> QED
    BY <1>1, <1>2

LEMMA GotoKeeps ==
  ASSUME NEW c, NEW pc, request[c] \in Request
  PROVE  /\ Goto(c, pc).pc = pc /\ Goto(c, pc).kind = request[c].kind
         /\ Goto(c, pc).user = request[c].user
         /\ Goto(c, pc).session = request[c].session
         /\ Goto(c, pc).good = request[c].good
         /\ Goto(c, pc).hopeless = request[c].hopeless
         /\ Goto(c, pc).crossed = request[c].crossed
  BY DEF Goto, Request

LEMMA UpdateFits ==
  ASSUME Typed, Typed', NEW c \in Requests, Fits(c), Update(c)
  PROVE  Fits(c)'
  <1>1. CASE DatabaseFails(c)
    BY <1>1, AnswerFits DEF DatabaseFails
  <1>2. CASE ~DatabaseFails(c)
    <2>1. /\ request'[c] = Goto(c, "log") /\ request[c] \in Request
          /\ request[c].pc = "update" /\ UNCHANGED made
      BY <1>2 DEF Update, Becomes, Typed
    <2> QED
      BY <2>1, GotoKeeps DEF Fits
  <1> QED
    BY <1>1, <1>2

LEMMA LogFits ==
  ASSUME Typed, Typed', NEW c \in Requests, Fits(c), Log(c)
  PROVE  Fits(c)'
  <1>1. CASE Answer(c)
    BY <1>1, AnswerFits
  <1>2. CASE ~Answer(c)
    <2>1. /\ request'[c] = Goto(c, "lookup") /\ request[c] \in Request
          /\ request[c].pc = "log" /\ request[c].good /\ UNCHANGED made
      BY <1>2 DEF Log, Becomes, Typed, DatabaseFails
    <2> QED
      BY <2>1, GotoKeeps DEF Fits
  <1> QED
    BY <1>1, <1>2

LEMMA PageFits ==
  ASSUME Typed, Typed', NEW c \in Requests, NEW s \in cookies,
         NEW kind \in {"page", "reload"}, Page(c, s, kind)
  PROVE  Fits(c)'
  <1>1. /\ request'[c] = [NoRequest EXCEPT !.pc = "lookup", !.kind = kind,
                            !.session = s, !.hopeless = HopelessSession(s)]
        /\ UNCHANGED <<clock, disabled, sessions, made>>
    BY DEF Page, Becomes, Typed, accounts
  <1>2. /\ request'[c].pc = "lookup" /\ request'[c].session = s
        /\ request'[c].hopeless = HopelessSession(s)
    BY <1>1 DEF NoRequest
  <1>3. s \in 1..made'
    BY <1>1 DEF Typed
  <1>4. HopelessSession(s) => HopelessSession(s)'
    BY <1>1 DEF HopelessSession, Live
  <1> QED
    BY <1>2, <1>3, <1>4 DEF Fits, HopelessSession, Live

LEMMA LookupFits ==
  ASSUME Typed, Typed', NEW c \in Requests, Fits(c), Lookup(c)
  PROVE  Fits(c)'
  <1> DEFINE r == request[c]  s == request[c].session
  <1>1. CASE Live(s)
    <2>1. /\ request'[c] = [Goto(c, "query") EXCEPT !.user = sessions[s].user]
          /\ r \in Request /\ r.pc = "lookup" /\ UNCHANGED <<disabled, made>>
      BY <1>1 DEF Lookup, Becomes, Typed, accounts
    <2>2. /\ request'[c].pc = "query" /\ request'[c].session = s
          /\ request'[c].user = sessions[s].user
          /\ request'[c].hopeless = r.hopeless
      BY <2>1 DEF Goto, Request
    <2>3. s \in 1..made /\ (r.hopeless => sessions[s].user \in disabled)
      BY <1>1, <2>1 DEF Fits, HopelessSession
    <2> QED
      BY <2>1, <2>2, <2>3 DEF Fits
  <1>2. CASE ~Live(s)
    BY <1>2, AnswerFits DEF Lookup
  <1> QED
    BY <1>1, <1>2

LEMMA QueryFits ==
  ASSUME Typed, Typed', NEW c \in Requests, Fits(c), Query(c)
  PROVE  Fits(c)'
  <1>1. CASE Answer(c)
    BY <1>1, AnswerFits
  <1>2. CASE ~Answer(c)
    <2>1. /\ request[c].pc = "query" /\ request[c].user \notin disabled /\ Admitted(c)
      BY <1>2 DEF Query, DatabaseFails
    <2>2. /\ request[c] \in Request
          /\ \E pc \in {"load", "serve"} : request'[c] = Goto(c, pc)
          /\ request[c].kind = "login" => request[c].session \in cookies'
      BY <2>1 DEF Admitted, Becomes, Typed
    <2>3. ~request[c].hopeless
      BY <2>1 DEF Fits, Typed
    <2> QED
      BY <2>2, <2>3, GotoKeeps DEF Fits
  <1> QED
    BY <1>1, <1>2

LEMMA LoadedKeeps ==
  ASSUME NEW r \in Request, NEW config, NEW crossed
  PROVE  LET l == [[r EXCEPT !.pc = "apply"] EXCEPT !.config = config, !.next = 1,
                                                    !.crossed = crossed]
             m == [r EXCEPT !.crossed = crossed]
         IN  /\ l.pc = "apply" /\ l.kind = r.kind /\ l.session = r.session
             /\ l.hopeless = r.hopeless /\ l.config = config /\ l.next = 1
             /\ l.crossed = crossed
             /\ m.pc = r.pc /\ m.address = r.address
             /\ m.kind = r.kind /\ m.session = r.session
             /\ m.hopeless = r.hopeless /\ m.config = r.config /\ m.next = r.next
             /\ m.crossed = crossed
  BY DEF Request

LEMMA LoadSets ==
  ASSUME Typed, NEW c \in Requests, Load(c), ~DatabaseFails(c)
  PROVE  /\ request[c].pc = "load"
         /\ request'[c] = [[request[c] EXCEPT !.pc = "apply"] EXCEPT !.config = file,
                             !.next = 1, !.crossed = Reloading # {}]
         /\ \A d \in Requests \ {c} :
              request'[d] = IF d \in Reloading THEN [request[d] EXCEPT !.crossed = TRUE]
                            ELSE request[d]
  BY DEF Load, Goto, Typed

LEMMA LoadFits ==
  ASSUME Typed, Typed', NEW c \in Requests, \A d \in Requests : Fits(d), Load(c)
  PROVE  \A d \in Requests : d = c \/ d \in Reloading => Fits(d)'
  <1> SUFFICES ASSUME NEW d \in Requests, d = c \/ d \in Reloading
               PROVE  Fits(d)'
    OBVIOUS
  <1> USE DEF Reloading
  <1>0. request[d] \in Request /\ Fits(d) /\ UNCHANGED <<cookies, made>>
    BY DEF Typed, Load
  <1>1. CASE DatabaseFails(c) /\ d = c
    BY <1>1, AnswerFits DEF DatabaseFails
  <1>2. CASE DatabaseFails(c) /\ d # c
    <2>1. request'[d] = request[d] /\ request[d].pc = "apply"
      BY <1>2 DEF DatabaseFails, Answer, Becomes, Typed
    <2> QED
      BY <1>0, <2>1 DEF Fits
  <1>3. CASE ~DatabaseFails(c)
    <2>1. /\ request[d].pc \in {"load", "apply"}
          /\ request'[d].pc = "apply" /\ request'[d].kind = request[d].kind
          /\ request'[d].session = request[d].session
          /\ request'[d].hopeless = request[d].hopeless
      <3>1. CASE d = c
        <4>1. /\ request[d].pc = "load"
              /\ \E crossed : request'[d] =
                   [[request[d] EXCEPT !.pc = "apply"] EXCEPT !.config = file,
                      !.next = 1, !.crossed = crossed]
          BY <1>3, <3>1, LoadSets
        <4> QED
          BY <1>0, <4>1, LoadedKeeps
      <3>2. CASE d # c
        <4>1. /\ d \in Reloading /\ request[d].pc = "apply"
              /\ request'[d] = [request[d] EXCEPT !.crossed = TRUE]
          BY <1>3, <3>2, LoadSets
        <4> QED
          BY <1>0, <4>1, LoadedKeeps
      <3> QED
        BY <3>1, <3>2
    <2> QED
      BY <1>0, <2>1 DEF Fits
  <1> QED
    BY <1>1, <1>2, <1>3

LEMMA ApplyFits ==
  ASSUME Typed, Typed', NEW c \in Requests, Fits(c), Apply(c)
  PROVE  Fits(c)'
  <1>1. CASE Answer(c)
    BY <1>1, AnswerFits
  <1>2. CASE ~Answer(c)
    <2>1. /\ request'[c] = [request[c] EXCEPT !.next = @ + 1] /\ request[c] \in Request
          /\ request[c].pc = "apply" /\ UNCHANGED <<cookies, made>>
      BY <1>2 DEF Apply, Becomes, Typed
    <2>2. /\ request'[c].pc = "apply" /\ request'[c].kind = request[c].kind
          /\ request'[c].session = request[c].session
          /\ request'[c].hopeless = request[c].hopeless
      BY <2>1 DEF Request
    <2> QED
      BY <2>1, <2>2 DEF Fits
  <1> QED
    BY <1>1, <1>2

LEMMA FitsStep ==
  ASSUME Typed, Typed', Grows, \A c \in Requests : Fits(c), [Next]_vars
  PROVE  \A c \in Requests : Fits(c)'
  <1>1. CASE \E c \in Requests : Steps(c)
    <2>1. PICK c \in Requests : Steps(c)
      BY <1>1
    <2>2. Fits(c)'
      BY <2>1, LoginFits, PageFits, FindFits, CompareFits, UpdateFits, LogFits,
         LookupFits, QueryFits, AnswerFits, ApplyFits DEF Steps, Serve
    <2> QED
      BY <2>1, <2>2, StepsBecome, WaitingFits
  <1>2. CASE \E c \in Requests : Load(c)
    <2>1. PICK c \in Requests : Load(c)
      BY <1>2
    <2>2. \A d \in Requests : d # c /\ d \notin Reloading => request'[d] = request[d]
      BY <2>1 DEF Load, DatabaseFails, Answer, Becomes, Typed
    <2> QED
      BY <2>1, <2>2, LoadFits, WaitingFits
  <1>3. CASE request' = request
    BY <1>3, WaitingFits
  <1> QED
    BY <1>1, <1>2, <1>3, NextCases, OthersLeaveRequests

----------------------------------------------------------------------------
\* Sessions that are left behind.

\* The logins under way that hold session s.
Holds(c, s) == ~Idle(c) /\ request[c].kind = "login" /\ request[c].session = s
Kept(s) == s \in cookies \/ s \in spilt \/ \E c \in Requests : Holds(c, s)

LEMMA KeptMeans == FailedLoginsLeaveNothing <=> \A s \in DOMAIN sessions : Kept(s)
  BY DEF FailedLoginsLeaveNothing, Kept, Holds, Idle

\* Nothing is forgotten that a client knows, or that the database spilt.
LEMMA RecordsGrow ==
  ASSUME [Next]_vars
  PROVE  cookies \subseteq cookies' /\ spilt \subseteq spilt'
  BY DEF Next, vars, Login, Page, Find, Compare, Update, Log, Lookup,
     Query, Admitted, Serve, Load, Apply, Logout, CreateUser, UpdatePassword,
     Disable, Edit, Tick

\* The request that takes the step does not lose the session it holds, and the
\* session it makes is held.
LEMMA HolderKeeps ==
  ASSUME Typed, Typed', NEW c \in Requests, Fits(c), Steps(c) \/ Load(c),
         NEW s \in DOMAIN sessions',
         s \notin DOMAIN sessions \/ Holds(c, s)
  PROVE  Kept(s)'
  <1> DEFINE r == request[c]
  <1>1. r \in Request /\ s \in 1..made' /\ 0 \notin DOMAIN sessions
    BY GatewayAssumption DEF Typed
  <1>2. CASE \E u \in Users, a \in Addresses, given \in 0..MaxPassword :
               Login(c, u, a, given)
    BY <1>2 DEF Login, Holds
  <1>3. CASE \E t \in cookies, kind \in {"page", "reload"} : Page(c, t, kind)
    BY <1>3 DEF Page, Holds
  <1>4. CASE Find(c)
    BY <1>1, <1>4 DEF Find, Holds, Fits
  <1>5. CASE Compare(c)
    <2>1. CASE Right(r)
      <3>1. /\ request'[c] = [NoRequest EXCEPT !.pc = "update", !.kind = "login",
                              !.user = r.user, !.good = TRUE, !.session = made',
                              !.hopeless = r.hopeless]
            /\ sessions' = With(made', r.user, r.at + SessionTime)
            /\ r.session = 0
        BY <1>5, <2>1 DEF Compare, Becomes, Typed, Fits
      <3>2. /\ request'[c].pc = "update" /\ request'[c].kind = "login"
            /\ request'[c].session = made'
        BY <3>1 DEF NoRequest
      <3>3. s = made'
        BY <1>1, <3>1 DEF With, Holds, Typed
      <3> QED
        BY <3>2, <3>3 DEF Kept, Holds, Idle
    <2>2. CASE ~Right(r)
      BY <1>1, <1>5, <2>2 DEF Compare, Holds, Fits
    <2> QED
      BY <2>1, <2>2
  <1>6. CASE Update(c)
    <2>1. CASE DatabaseFails(c) /\ sessions' = Without(r.session)
      BY <2>1 DEF Without, Holds
    <2>2. CASE Becomes(c, Goto(c, "log")) /\ UNCHANGED sessions
      <3>1. request'[c] = Goto(c, "log")
        BY <2>2 DEF Becomes, Typed
      <3> QED
        BY <1>1, <2>2, <3>1, GotoKeeps DEF Kept, Holds, Idle
    <2> QED
      BY <1>6, <2>1, <2>2 DEF Update
  <1>7. CASE Log(c)
    <2>1. Holds(c, s) /\ r.good
      BY <1>1, <1>7 DEF Log, Holds, Fits, Typed
    <2>2. CASE DatabaseFails(c) /\ s \in spilt'
      BY <2>2 DEF Kept
    <2>3. CASE Becomes(c, Goto(c, "lookup"))
      <3>1. request'[c] = Goto(c, "lookup")
        BY <2>3 DEF Becomes, Typed
      <3> QED
        BY <1>1, <2>1, <3>1, GotoKeeps DEF Kept, Holds, Idle
    <2> QED
      BY <1>7, <2>1, <2>2, <2>3 DEF Log, Holds
  <1>8. CASE Lookup(c)
    <2>1. CASE Live(r.session)
      <3>1. /\ request'[c] = [Goto(c, "query") EXCEPT !.user = sessions[r.session].user]
            /\ UNCHANGED sessions
        BY <1>8, <2>1 DEF Lookup, Becomes, Typed
      <3>2. /\ request'[c].pc = "query" /\ request'[c].kind = r.kind
            /\ request'[c].session = r.session
        BY <1>1, <3>1 DEF Goto, Request
      <3> QED
        BY <3>1, <3>2 DEF Kept, Holds, Idle
    <2>2. CASE ~Live(r.session)
      BY <1>8, <2>2 DEF Lookup, Without, Holds
    <2> QED
      BY <2>1, <2>2
  <1>9. CASE Query(c)
    <2>1. CASE Admitted(c) /\ UNCHANGED <<sessions, spilt>>
      BY <2>1 DEF Admitted, Kept, Holds
    <2>2. CASE sessions' = Without(r.session)
      BY <2>2 DEF Without, Holds
    <2>3. CASE /\ UNCHANGED <<sessions, cookies>>
               /\ spilt' = spilt \cup (IF r.kind = "login" THEN {r.session} ELSE {})
      BY <2>3 DEF Kept, Holds
    <2> QED
      BY <1>9, <2>1, <2>2, <2>3 DEF Query
  <1>10. CASE Serve(c) \/ Load(c) \/ Apply(c)
    <2>1. UNCHANGED <<sessions, cookies>> /\ r.pc \in {"serve", "load", "apply"}
      BY <1>10 DEF Serve, Load, Apply
    <2>2. r.kind = "login" /\ r.session = s
      BY <2>1 DEF Holds
    <2>3. s \in cookies
      BY <2>1, <2>2 DEF Fits
    <2> QED
      BY <2>1, <2>3 DEF Kept
  <1> QED
    BY <1>2, <1>3, <1>4, <1>5, <1>6, <1>7, <1>8, <1>9, <1>10 DEF Steps

\* Sessions are made by those who hold them.
LEMMA SessionsAreMade ==
  ASSUME [Next]_vars, NEW s \in DOMAIN sessions', s \notin DOMAIN sessions
  PROVE  \E c \in Requests : Compare(c)
  BY DEF Next, vars, Login, Page, Find, Update, Log, Lookup, Without,
     Query, Serve, Load, Apply, Logout, CreateUser, UpdatePassword,
     Disable, Edit, Tick

LEMMA WaitingHolds ==
  ASSUME NEW c \in Requests, NEW s, Holds(c, s), request'[c] = request[c]
  PROVE  Kept(s)'
  BY DEF Kept, Holds, Idle

LEMMA KeptStep ==
  ASSUME Typed, Typed', \A c \in Requests : Fits(c),
         \A s \in DOMAIN sessions : Kept(s), [Next]_vars
  PROVE  \A s \in DOMAIN sessions' : Kept(s)'
  <1> SUFFICES ASSUME NEW s \in DOMAIN sessions' PROVE Kept(s)'
    OBVIOUS
  <1>1. CASE s \notin DOMAIN sessions
    <2>1. PICK c \in Requests : Compare(c)
      BY <1>1, SessionsAreMade
    <2> QED
      BY <1>1, <2>1, HolderKeeps DEF Steps
  <1>2. CASE s \in cookies \/ s \in spilt
    BY <1>2, RecordsGrow DEF Kept
  <1>3. CASE \E c \in Requests : Holds(c, s)
    <2>1. PICK c \in Requests : Holds(c, s)
      BY <1>3
    <2>2. CASE Steps(c)
      BY <2>1, <2>2, HolderKeeps
    <2>3. CASE \E d \in Requests : d # c /\ Steps(d)
      BY <2>1, <2>3, StepsBecome, WaitingHolds
    <2>4. CASE \E d \in Requests : Load(d)
      <3>1. CASE Load(c)
        BY <2>1, <3>1, HolderKeeps
      <3>2. CASE \E d \in Requests : d # c /\ Load(d)
        <4>1. PICK d \in Requests : d # c /\ Load(d)
          BY <3>2
        <4>2. CASE c \in Reloading
          <5>1. s \in cookies
            BY <2>1, <4>2 DEF Reloading, Fits, Holds
          <5> QED
            BY <5>1, RecordsGrow DEF Kept
        <4>3. CASE c \notin Reloading
          <5>1. request'[c] = request[c]
            BY <4>1, <4>3 DEF Load, DatabaseFails, Answer, Becomes, Typed
          <5> QED
            BY <2>1, <5>1, WaitingHolds
        <4> QED
          BY <4>2, <4>3
      <3> QED
        BY <2>4, <3>1, <3>2
    <2>5. CASE request' = request
      BY <2>1, <2>5, WaitingHolds
    <2> QED
      BY <2>2, <2>3, <2>4, <2>5, NextCases, OthersLeaveRequests
  <1> QED
    BY <1>1, <1>2, <1>3 DEF Kept

----------------------------------------------------------------------------
\* Reloads.

\* Only Load and Apply begin, carry on and end one.
LEMMA OthersDoNotReload ==
  ASSUME Typed, NEW c \in Requests, Steps(c), ~Apply(c)
  PROVE  /\ Reloading' = Reloading
         /\ \A d \in Reloading : request'[d] = request[d]
         /\ UNCHANGED <<services, mixed>>
  <1>1. request[c] \in Request
    BY DEF Typed
  <1>2. request[c].pc # "apply" /\ UNCHANGED <<services, mixed>>
    BY DEF Steps, Login, Page, Find, Compare, Update, Log, Lookup, Query, Serve,
       Idle, loaded
  <1>3. request'[c].pc # "apply"
    <2>1. CASE Answer(c)
      BY <2>1, NoRequestTyped DEF Answer, Becomes, Typed
    <2>2. CASE \E pc \in {"log", "lookup", "serve", "load"} : Becomes(c, Goto(c, pc))
      BY <1>1, <2>2, GotoKeeps DEF Becomes, Typed
    <2>3. CASE \E u \in Users, a \in Addresses, given \in 0..MaxPassword :
                 Login(c, u, a, given)
      <3>1. PICK u \in Users, a \in Addresses, given \in 0..MaxPassword :
                 Login(c, u, a, given)
        BY <2>3
      <3>2. CASE Limited(a)
        BY <2>1, <3>1, <3>2 DEF Login, Answer
      <3>3. CASE ~Limited(a)
        <4>1. Becomes(c, [NoRequest EXCEPT !.pc = "find", !.kind = "login",
               !.user = u, !.address = a, !.given = given, !.at = clock,
               !.hopeless = HopelessLogin(u, given)])
          BY <3>1, <3>3 DEF Login
        <4>2. request'[c].pc = "find"
          BY <4>1 DEF Becomes, Typed, NoRequest
        <4> QED
          BY <4>2
      <3> QED
        BY <3>2, <3>3
    <2>4. CASE \E s \in cookies, kind \in {"page", "reload"} : Page(c, s, kind)
      <3>1. PICK s \in cookies, kind \in {"page", "reload"} : Page(c, s, kind)
        BY <2>4
      <3>2. request'[c] = [NoRequest EXCEPT !.pc = "lookup", !.kind = kind,
                             !.session = s, !.hopeless = HopelessSession(s)]
        BY <3>1 DEF Page, Becomes, Typed
      <3> QED
        BY <3>2 DEF NoRequest
    <2>5. CASE Find(c) /\ ~Answer(c)
      <3>1. request'[c] = [Goto(c, "compare") EXCEPT
               !.known = password[request[c].user],
               !.good = request[c].user \notin disabled]
        BY <2>5 DEF Find, DatabaseFails, Becomes, Typed
      <3> QED
        BY <1>1, <3>1 DEF Goto, Request
    <2>6. CASE Compare(c)
      <3>1. CASE Right(request[c])
        <4>1. request'[c] = [NoRequest EXCEPT !.pc = "update", !.kind = "login",
                              !.user = request[c].user, !.good = TRUE,
                              !.session = made', !.hopeless = request[c].hopeless]
          BY <2>6, <3>1 DEF Compare, Becomes, Typed
        <4> QED
          BY <4>1 DEF NoRequest
      <3>2. CASE ~Right(request[c])
        <4>1. request'[c] = [NoRequest EXCEPT !.pc = "log", !.kind = "login"]
          BY <2>6, <3>2 DEF Compare, Becomes, Typed
        <4> QED
          BY <4>1 DEF NoRequest
      <3> QED
        BY <3>1, <3>2
    <2>7. CASE Lookup(c) /\ ~Answer(c)
      <3>1. request'[c] = [Goto(c, "query") EXCEPT
                             !.user = sessions[request[c].session].user]
        BY <2>7 DEF Lookup, Becomes, Typed
      <3> QED
        BY <1>1, <3>1 DEF Goto, Request
    <2>8. CASE Update(c) \/ Log(c) \/ Query(c) \/ Serve(c)
      BY <2>1, <2>2, <2>8 DEF Update, Log, Query, Admitted, Serve, DatabaseFails
    <2> QED
      BY <2>1, <2>3, <2>4, <2>5, <2>6, <2>7, <2>8 DEF Steps
  <1> QED
    BY <1>2, <1>3, StepsBecome DEF Reloading

LEMMA FailedLoadDoesNotReload ==
  ASSUME Typed, NEW c \in Requests, Load(c), DatabaseFails(c)
  PROVE  /\ Reloading' = Reloading
         /\ \A d \in Reloading : request'[d] = request[d]
         /\ UNCHANGED <<services, mixed>>
  <1>1. /\ request[c].pc = "load" /\ request'[c].pc # "apply"
        /\ \A d \in Requests \ {c} : request'[d] = request[d]
    BY NoRequestTyped DEF Load, DatabaseFails, Answer, Becomes, Typed
  <1> QED
    BY <1>1 DEF Reloading, Load, loaded

LEMMA WorldDoesNotReload ==
  ASSUME \/ \E s \in cookies : Logout(s)
         \/ \E u \in Users : CreateUser(u) \/ UpdatePassword(u) \/ Disable(u)
         \/ Edit \/ Tick
         \/ UNCHANGED vars
  PROVE  /\ Reloading' = Reloading
         /\ \A d \in Reloading : request'[d] = request[d]
         /\ UNCHANGED <<services, mixed>>
  <1>1. request' = request /\ UNCHANGED <<services, mixed>>
    BY DEF Logout, CreateUser, UpdatePassword, Disable, Edit, Tick, vars, loaded
  <1> QED
    BY <1>1 DEF Reloading

LEMMA UnloadedAgree ==
  ASSUME ReloadsFit, ServicesAgree, Reloading' = Reloading,
         \A d \in Reloading : request'[d] = request[d], UNCHANGED <<services, mixed>>
  PROVE  ReloadsFit' /\ ServicesAgree'
  BY DEF ReloadsFit, ServicesAgree, Present

LEMMA LoadAgrees ==
  ASSUME Typed, ReloadsFit, NEW c \in Requests, Load(c), ~DatabaseFails(c)
  PROVE  ReloadsFit' /\ ServicesAgree'
  <1>1. /\ request[c] \in Request /\ request[c].pc = "load"
        /\ UNCHANGED services
    BY LoadSets DEF Typed, Load, loaded
  <1>2. /\ request'[c].pc = "apply" /\ request'[c].next = 1
        /\ Reloading # {} => request'[c].crossed
    <2>1. PICK crossed \in BOOLEAN :
            /\ Reloading # {} => crossed
            /\ request'[c] = [[request[c] EXCEPT !.pc = "apply"] EXCEPT
                                !.config = file, !.next = 1, !.crossed = crossed]
      BY LoadSets
    <2> QED
      BY <1>1, <2>1, LoadedKeeps
  <1>3. \A d \in Reloading : request'[d].pc = "apply" /\ request'[d].crossed
    <2> SUFFICES ASSUME NEW d \in Reloading
                 PROVE  request'[d].pc = "apply" /\ request'[d].crossed
      OBVIOUS
    <2>1. /\ d \in Requests \ {c} /\ request[d] \in Request /\ request[d].pc = "apply"
          /\ request'[d] = [request[d] EXCEPT !.crossed = TRUE]
      BY <1>1, LoadSets DEF Reloading, Typed
    <2>2. request'[d].crossed = TRUE /\ request'[d].pc = "apply"
      BY <2>1, LoadedKeeps
    <2> QED
      BY <2>2
  <1>4. \A d \in Requests : d # c /\ d \notin Reloading => request'[d] = request[d]
    BY LoadSets
  <1>5. Reloading' = Reloading \cup {c}
    BY <1>2, <1>3, <1>4 DEF Reloading
  <1>6. \A d, e \in Reloading' : d # e => request'[d].crossed
    BY <1>2, <1>3, <1>5
  <1>7. \A d \in Reloading' : ~request'[d].crossed =>
          \A k \in 1..(request'[d].next - 1) :
              services'[Order[k]] \in {0, request'[d].config}
    BY <1>2, <1>3, <1>5
  <1> QED
    BY <1>1, <1>5, <1>6, <1>7 DEF ReloadsFit, ServicesAgree, Present

LEMMA ApplyAgrees ==
  ASSUME Typed, ServicesTyped, ReloadsFit, NEW c \in Requests, Apply(c)
  PROVE  ReloadsFit' /\ ServicesAgree'
  <1> DEFINE r == request[c]
  <1>1. /\ r \in Request /\ r.pc = "apply" /\ c \in Reloading
        /\ services' = [services EXCEPT ![Order[r.next]] = IF @ = 0 THEN 0 ELSE r.config]
        /\ r.next \in 1..5
    BY OrderIsOfServices DEF Apply, Typed, Reloading, Request
  <1>2. services'[Order[r.next]] \in {0, r.config}
    BY <1>1, OrderIsOfServices DEF ServicesTyped
  <1>3. ~r.crossed => \A k \in 1..r.next : services'[Order[k]] \in {0, r.config}
    <2> SUFFICES ASSUME ~r.crossed, NEW k \in 1..r.next
                 PROVE  services'[Order[k]] \in {0, r.config}
      OBVIOUS
    <2>1. CASE k = r.next
      BY <1>2, <2>1
    <2>2. CASE k # r.next
      <3>1. k \in 1..(r.next - 1) /\ k \in 1..5
        BY <1>1, <2>2
      <3>2. services[Order[k]] \in {0, r.config}
        BY <1>1, <3>1 DEF ReloadsFit
      <3>3. Order[k] # Order[r.next] /\ Order[k] \in Services
        BY <1>1, <2>2, <3>1, OrderIsOfServices
      <3> QED
        BY <1>1, <3>2, <3>3 DEF ServicesTyped
    <2> QED
      BY <2>1, <2>2
  <1>4. ~r.crossed => Reloading = {c}
    BY <1>1 DEF ReloadsFit
  <1>5. \A d \in Requests \ {c} : request'[d] = request[d]
    BY StepsBecome DEF Steps
  <1>6. CASE r.next = Len(Order)
    <2>1. /\ request'[c] = NoRequest /\ mixed' = r.crossed
      BY <1>6 DEF Apply, Answer, Becomes, Typed
    <2>2. Reloading' = Reloading \ {c}
      BY <1>5, <2>1, NoRequestTyped DEF Reloading
    <2>3. \A d \in Reloading' : request'[d] = request[d] /\ request[d].crossed
      BY <1>1, <1>5, <2>2 DEF ReloadsFit, Reloading
    <2>4. ServicesAgree'
      <3> SUFFICES ASSUME ~r.crossed, NEW s \in Services, NEW t \in Services,
                          services'[s] # 0, services'[t] # 0
                   PROVE  services'[s] = services'[t]
        BY <2>1 DEF ServicesAgree, Present
      <3>1. r.next = 5
        BY <1>6, OrderIsOfServices
      <3> QED
        BY <1>3, <3>1, OrderIsOfServices
    <2> QED
      BY <2>3, <2>4 DEF ReloadsFit
  <1>7. CASE r.next # Len(Order)
    <2>1. request'[c] = [r EXCEPT !.next = @ + 1]
      BY <1>7 DEF Apply, Becomes, Typed
    <2>2. /\ request'[c].pc = "apply" /\ request'[c].next = r.next + 1
          /\ request'[c].config = r.config /\ request'[c].crossed = r.crossed
      BY <1>1, <2>1 DEF Request
    <2>3. Reloading' = Reloading
      BY <1>1, <1>5, <2>2 DEF Reloading
    <2>4. \A d, e \in Reloading' : d # e => request'[d].crossed
      BY <1>5, <2>2, <2>3 DEF ReloadsFit, Reloading
    <2>5. \A d \in Reloading' : ~request'[d].crossed =>
            \A k \in 1..(request'[d].next - 1) :
              services'[Order[k]] \in {0, request'[d].config}
      <3> SUFFICES ASSUME NEW d \in Reloading', ~request'[d].crossed,
                          NEW k \in 1..(request'[d].next - 1)
                   PROVE  services'[Order[k]] \in {0, request'[d].config}
        OBVIOUS
      <3>1. d = c
        BY <1>1, <2>3, <2>4
      <3>2. k \in 1..r.next
        BY <1>1, <2>2, <3>1
      <3> QED
        BY <1>3, <2>2, <3>1, <3>2
    <2> QED
      BY <1>1, <2>3, <2>4, <2>5 DEF ReloadsFit, ServicesAgree
  <1> QED
    BY <1>6, <1>7

LEMMA ReloadStep ==
  ASSUME Typed, ServicesTyped, ReloadsFit, ServicesAgree, [Next]_vars
  PROVE  ReloadsFit' /\ ServicesAgree'
  <1>1. CASE \E c \in Requests : Apply(c)
    BY <1>1, ApplyAgrees
  <1>2. CASE \E c \in Requests : Load(c) /\ ~DatabaseFails(c)
    BY <1>2, LoadAgrees
  <1>3. CASE \E c \in Requests : (Steps(c) /\ ~Apply(c)) \/ (Load(c) /\ DatabaseFails(c))
    BY <1>3, OthersDoNotReload, FailedLoadDoesNotReload, UnloadedAgree
  <1>4. CASE \/ \E s \in cookies : Logout(s)
             \/ \E u \in Users : CreateUser(u) \/ UpdatePassword(u) \/ Disable(u)
             \/ Edit \/ Tick
             \/ UNCHANGED vars
    BY <1>4, WorldDoesNotReload, UnloadedAgree
  <1> QED
    BY <1>1, <1>2, <1>3, <1>4, NextCases

LEMMA ServicesTypedStep ==
  ASSUME Typed, ServicesTyped, [Next]_vars
  PROVE  ServicesTyped'
  <1>1. CASE \E c \in Requests : Apply(c)
    <2>1. PICK c \in Requests : Apply(c)
      BY <1>1
    <2>2. request[c].config \in 0..MaxFile
      BY DEF Typed, Request
    <2> QED
      BY <2>1, <2>2 DEF Apply, ServicesTyped
  <1>2. CASE UNCHANGED services
    BY <1>2 DEF ServicesTyped
  <1> QED
    BY <1>1, <1>2 DEF Next, vars, loaded, Login, Page, Find, Compare, Update, Log,
       Lookup, Query, Serve, Load, Logout, CreateUser, UpdatePassword, Disable,
       Edit, Tick

----------------------------------------------------------------------------
\* The theorems.

LEMMA InitIInv == Init => IInv
  <1> SUFFICES ASSUME Init PROVE IInv
    OBVIOUS
  <1>1. \A c \in Requests : request[c].pc = "idle"
    BY NoRequestTyped DEF Init
  <1>2. DOMAIN sessions = {}
    BY DEF Init
  <1>3. Reloading = {}
    BY <1>1 DEF Reloading
  <1>4. \A s, t \in Present : services[s] = services[t]
    <2>1. PICK bt \in {0, 1} :
                 services = [s \in Services |-> IF s = "bt" THEN bt ELSE 1]
      BY DEF Init
    <2>2. \A s \in Services : services[s] = IF s = "bt" THEN bt ELSE 1
      BY <2>1
    <2>3. \A s \in Present : services[s] = 1
      BY <2>2 DEF Present
    <2> QED
      BY <2>3
  <1> QED
    BY <1>1, <1>2, <1>3, <1>4, TypedInit
       DEF IInv, Fits, FailedLoginsLeaveNothing, ReloadsFit, ServicesAgree

LEMMA NextIInv == IInv /\ [Next]_vars => IInv'
  <1> SUFFICES ASSUME IInv, [Next]_vars PROVE IInv'
    OBVIOUS
  <1> USE DEF IInv
  <1>1. Typed'
    BY TypedStep
  <1>2. ServicesTyped'
    BY ServicesTypedStep
  <1>3. \A c \in Requests : Fits(c)'
    BY <1>1, NextGrows, FitsStep
  <1>4. FailedLoginsLeaveNothing'
    <2>1. \A s \in DOMAIN sessions' : Kept(s)'
      BY <1>1, KeptMeans, KeptStep
    <2> QED
      BY <2>1 DEF FailedLoginsLeaveNothing, Kept, Holds, Idle
  <1>5. ReloadsFit' /\ ServicesAgree'
    BY ReloadStep
  <1> QED
    BY <1>1, <1>2, <1>3, <1>4, <1>5

\* What has been found out of each request, each session and each reload always
\* fits (the strengthening of the invariants below).
THEOREM Invariant == Spec => []IInv
  BY InitIInv, NextIInv, PTL DEF Spec

\* Nobody is let in who could not be when the request came, whatever the database
\* and the sessions become between reading and using them (Login, UserForSession).
THEOREM OnlyEarnedAccess == Spec => []AccessIsEarned
  <1>1. IInv => AccessIsEarned
    BY DEF IInv, AccessIsEarned, Fits
  <1> QED
    BY <1>1, Invariant, PTL

\* A login that fails before it is logged leaves no session behind
\* (service.go:133), and none but the two failures after that does.
THEOREM NothingLeft == Spec => []FailedLoginsLeaveNothing
  <1>1. IInv => FailedLoginsLeaveNothing
    BY DEF IInv
  <1> QED
    BY <1>1, Invariant, PTL

\* Reloads that do not cross leave the same configuration everywhere, in whatever
\* order they are asked for (reload in run.go).
THEOREM OneConfiguration == Spec => []ServicesAgree
  <1>1. IInv => ServicesAgree
    BY DEF IInv
  <1> QED
    BY <1>1, Invariant, PTL

\* No step brings a session back or makes it last longer (Logout, UserForSession).
THEOREM EndedIsEnded == Spec => SessionsStayEnded
  <1>1. IInv /\ IInv' /\ [Next]_vars =>
          [\A s \in DOMAIN sessions' :
             s > made \/ (s \in DOMAIN sessions /\ sessions'[s] = sessions[s])]_vars
    <2> SUFFICES ASSUME Typed, Typed', [Next]_vars, NEW s \in DOMAIN sessions',
                        ~(s > made)
                 PROVE  s \in DOMAIN sessions /\ sessions'[s] = sessions[s]
      BY DEF IInv
    <2>1. s \in 1..made
      BY GatewayAssumption DEF Typed
    <2> QED
      BY <2>1, SessionsFade
  <1> QED
    BY <1>1, Invariant, PTL DEF Spec, SessionsStayEnded
----------------------------------------------------------------------------
\* Which place of s the k-th element of SubSeqAt(s, S) comes from.
LEMMA PlaceOfEach ==
  ASSUME NEW N \in Nat, NEW S \in SUBSET (1..N)
  PROVE  /\ IsFiniteSet(S) /\ Cardinality(S) \in Nat
         /\ \A k \in 1..Cardinality(S) :
              \E n \in S : Cardinality({m \in S : m <= n}) = k
  <1> DEFINE Upto(n) == {m \in S : m <= n}
             rank    == [n \in S |-> Cardinality(Upto(n))]
             Ranks   == 1..Cardinality(S)
  <1>0. IsFiniteSet(1..N) /\ \A n \in S : n \in Nat
    BY FS_Interval
  <1>1. IsFiniteSet(S) /\ Cardinality(S) \in Nat
    BY <1>0, FS_Subset, FS_CardinalityType
  <1>2. \A n \in S : IsFiniteSet(Upto(n)) /\ Cardinality(Upto(n)) \in Ranks
    <2> TAKE n \in S
    <2>1. IsFiniteSet(Upto(n)) /\ Cardinality(Upto(n)) <= Cardinality(S)
      BY <1>1, FS_Subset, Zenon
    <2>2. Upto(n) # {}
      OBVIOUS
    <2> QED
      BY <1>1, <2>1, <2>2, FS_EmptySet, FS_CardinalityType
  <1>3. \A n, k \in S : n < k => Cardinality(Upto(n)) < Cardinality(Upto(k))
    <2> TAKE n, k \in S
    <2> HAVE n < k
    <2>1. n \in Nat /\ k \in Nat /\ \A m \in S : m \in Nat /\ (m <= n => m <= k)
      BY <1>0
    <2>2. Upto(n) \subseteq Upto(k)
      BY <2>1
    <2>3. k \in Upto(k) /\ k \notin Upto(n)
      BY <2>1
    <2>4. Cardinality(Upto(n)) <= Cardinality(Upto(k))
          /\ Cardinality(Upto(n)) # Cardinality(Upto(k))
      BY <1>2, <2>2, <2>3, FS_Subset
    <2> QED
      BY <1>2, <2>4
  <1>4. rank \in Injection(S, Ranks)
    <2>1. \A n, k \in S : Cardinality(Upto(n)) = Cardinality(Upto(k)) => n = k
      <3> TAKE n, k \in S
      <3>1. Cardinality(Upto(n)) \in Nat /\ Cardinality(Upto(k)) \in Nat
        BY <1>2
      <3>2. n \in Nat /\ k \in Nat
        BY <1>0
      <3> HIDE DEF Upto
      <3> QED
        BY <1>3, <3>1, <3>2
    <2> QED
      BY <1>2, <2>1 DEF Injection, IsInjective
  <1>5. IsFiniteSet(Ranks) /\ Cardinality(Ranks) = Cardinality(S)
    BY <1>1, FS_Interval
  <1>6. rank \in Surjection(S, Ranks)
    BY <1>4, <1>5, FS_Injection, Zenon
  <1> QED
    BY <1>1, <1>6 DEF Surjection

LEMMA SubSeqTyped ==
  ASSUME NEW T, NEW s \in Seq(T), NEW S \in SUBSET DOMAIN s
  PROVE  /\ SubSeqAt(s, S) \in Seq(T)
         /\ IsFiniteSet(S)
         /\ Len(SubSeqAt(s, S)) = Cardinality(S) /\ Cardinality(S) \in Nat
  <1> DEFINE Place(k) == CHOOSE n \in S : Cardinality({m \in S : m <= n}) = k
  <1>1. Len(s) \in Nat /\ DOMAIN s = 1..Len(s)
    OBVIOUS
  <1>2. IsFiniteSet(S) /\ Cardinality(S) \in Nat
    BY <1>1, PlaceOfEach
  <1>3. \A k \in 1..Cardinality(S) : Place(k) \in S
    <2> TAKE k \in 1..Cardinality(S)
    <2>1. \E n \in S : Cardinality({m \in S : m <= n}) = k
      BY <1>1, PlaceOfEach
    <2> QED
      BY <2>1
  <1> HIDE DEF Place
  <1>4. \A k \in 1..Cardinality(S) : s[Place(k)] \in T
    BY <1>1, <1>3
  <1>5. [k \in 1..Cardinality(S) |-> s[Place(k)]] \in Seq(T)
    BY <1>2, <1>4
  <1> QED
    BY <1>2, <1>5 DEF SubSeqAt, Place
----------------------------------------------------------------------------
\* The limit of attempts.

\* The logins of an address that have passed the test and are not yet counted.
InFlight(a) ==
  {c \in Requests : request[c].pc \in {"find", "compare"} /\ request[c].address = a}

\* The places of the attempts that are remembered.
Remembered(a) == {n \in DOMAIN attempts[a] : attempts[a][n] > clock - Window}

AttemptsTyped == attempts \in [Addresses -> Seq(0..MaxClock)]

\* Who has passed the test is counted on: the failures there are and those there
\* may still be come to less than the limit and all the requests together.
AttemptsFit ==
  \A a \in Addresses :
    Len(Recent(a)) + Cardinality(InFlight(a)) <= MaxAttempts - 1 + Cardinality(Requests)

\* What isRateLimited keeps is as long as there are places remembered.
LEMMA RecentProperties ==
  ASSUME AttemptsTyped, NEW a \in Addresses
  PROVE  /\ Recent(a) \in Seq(0..MaxClock)
         /\ IsFiniteSet(Remembered(a))
         /\ Len(Recent(a)) = Cardinality(Remembered(a)) /\ Len(Recent(a)) \in Nat
  <1>1. attempts[a] \in Seq(0..MaxClock)
    BY DEF AttemptsTyped
  <1>2. Remembered(a) \subseteq DOMAIN attempts[a]
    BY DEF Remembered
  <1>3. Recent(a) = SubSeqAt(attempts[a], Remembered(a))
    BY DEF Recent, Remembered
  <1> QED
    BY <1>1, <1>2, <1>3, SubSeqTyped

\* The same after a step.
LEMMA RecentPropertiesNext ==
  ASSUME AttemptsTyped', NEW a \in Addresses
  PROVE  /\ IsFiniteSet(Remembered(a)') /\ Len(Recent(a)') \in Nat
         /\ Len(Recent(a)') = Cardinality(Remembered(a)')
  <1>1. attempts'[a] \in Seq(0..MaxClock)
    BY DEF AttemptsTyped
  <1>2. Remembered(a)' \subseteq DOMAIN attempts'[a]
    BY DEF Remembered
  <1>3. Recent(a)' = SubSeqAt(attempts'[a], Remembered(a)')
    BY DEF Recent, Remembered
  <1> QED
    BY <1>1, <1>2, <1>3, SubSeqTyped

\* The logins in flight are some of the requests.
LEMMA InFlightFinite ==
  ASSUME NEW a
  PROVE  /\ IsFiniteSet(InFlight(a)) /\ Cardinality(InFlight(a)) \in Nat
         /\ Cardinality(Requests) \in Nat
         /\ Cardinality(InFlight(a)) <= Cardinality(Requests)
  <1>1. InFlight(a) \subseteq Requests
    BY DEF InFlight
  <1> QED
    BY <1>1, FS_Subset, FS_CardinalityType, GatewayAssumption

\* The attempts of an address are left alone while time goes on.
LEMMA RecentFades ==
  ASSUME Typed, clock' \in Nat, clock <= clock', AttemptsTyped, AttemptsTyped',
         NEW a \in Addresses, attempts'[a] = attempts[a]
  PROVE  Len(Recent(a)') <= Len(Recent(a))
  <1>1. Remembered(a)' \subseteq Remembered(a)
    <2>1. attempts[a] \in Seq(0..MaxClock) /\ MaxClock \in Nat /\ clock \in Nat
      BY GatewayAssumption DEF AttemptsTyped, Typed
    <2>2. \A n \in DOMAIN attempts[a] : attempts[a][n] \in Nat
      BY <2>1
    <2> QED
      BY <2>1, <2>2, GatewayAssumption DEF Remembered
  <1>2. Cardinality(Remembered(a)') <= Cardinality(Remembered(a))
    BY <1>1, RecentProperties, FS_Subset
  <1> QED
    BY <1>2, RecentProperties, RecentPropertiesNext

\* isRateLimited keeps what it has remembered, or less.
LEMMA RecentKept ==
  ASSUME AttemptsTyped, AttemptsTyped', NEW a \in Addresses, attempts'[a] = Recent(a)
  PROVE  Len(Recent(a)') <= Len(Recent(a))
  <1>1. Recent(a) \in Seq(0..MaxClock) /\ Len(Recent(a)) \in Nat
    BY RecentProperties
  <1>2. Remembered(a)' \subseteq 1..Len(Recent(a))
    BY <1>1 DEF Remembered
  <1>3. /\ IsFiniteSet(1..Len(Recent(a)))
        /\ Cardinality(1..Len(Recent(a))) = Len(Recent(a))
    BY <1>1, FS_Interval
  <1>4. Cardinality(Remembered(a)') <= Cardinality(1..Len(Recent(a)))
    BY <1>2, <1>3, FS_Subset
  <1> QED
    BY <1>3, <1>4, RecentPropertiesNext

\* A failure adds one at most: it may be too old already.
LEMMA RecentGrows ==
  ASSUME AttemptsTyped, AttemptsTyped', clock' = clock, NEW a \in Addresses,
         NEW t \in 0..MaxClock, attempts'[a] = Append(attempts[a], t)
  PROVE  Len(Recent(a)') <= Len(Recent(a)) + 1
  <1> DEFINE last == Len(attempts[a]) + 1
  <1>1. attempts[a] \in Seq(0..MaxClock)
    BY DEF AttemptsTyped
  <1>2. Remembered(a)' \subseteq Remembered(a) \cup {last}
    BY <1>1 DEF Remembered
  <1> HIDE DEF last
  <1>3. IsFiniteSet(Remembered(a)) /\ Cardinality(Remembered(a)) \in Nat
    BY RecentProperties
  <1>4. /\ IsFiniteSet(Remembered(a) \cup {last})
        /\ Cardinality(Remembered(a) \cup {last})
             \in {Cardinality(Remembered(a)), Cardinality(Remembered(a)) + 1}
    <2>1. /\ IsFiniteSet(Remembered(a) \cup {last})
          /\ Cardinality(Remembered(a) \cup {last}) =
               IF last \in Remembered(a) THEN Cardinality(Remembered(a))
               ELSE Cardinality(Remembered(a)) + 1
      BY <1>3, FS_AddElement, Zenon
    <2> QED
      BY <2>1
  <1>5. Cardinality(Remembered(a)') <= Cardinality(Remembered(a) \cup {last})
    BY <1>2, <1>4, FS_Subset
  <1>6. Cardinality(Remembered(a) \cup {last}) \in Nat
    BY <1>4, FS_CardinalityType
  <1> QED
    BY <1>3, <1>4, <1>5, <1>6, RecentProperties, RecentPropertiesNext

\* Every step keeps the attempts times of logins.
LEMMA AttemptsTypedStep ==
  ASSUME Typed, AttemptsTyped, [Next]_vars
  PROVE  AttemptsTyped'
  <1>1. ASSUME NEW c \in Requests, NEW u \in Users, NEW a \in Addresses,
               NEW given \in 0..MaxPassword, Login(c, u, a, given)
        PROVE  AttemptsTyped'
    BY <1>1, RecentProperties DEF Login, AttemptsTyped
  <1>2. ASSUME NEW c \in Requests, Compare(c)
        PROVE  AttemptsTyped'
    <2>1. request[c].address \in Addresses /\ request[c].at \in 0..MaxClock
      BY DEF Typed, Request
    <2>2. Append(attempts[request[c].address], request[c].at) \in Seq(0..MaxClock)
      BY <2>1 DEF AttemptsTyped
    <2> QED
      BY <1>2, <2>1, <2>2 DEF Compare, AttemptsTyped
  <1>3. CASE UNCHANGED attempts
    BY <1>3 DEF AttemptsTyped
  <1> QED
    BY <1>1, <1>2, <1>3 DEF Next, vars, Page, Find, Update, Log, Lookup, Query, Serve,
       Load, Apply, Logout, CreateUser, UpdatePassword, Disable, Edit, Tick

\* Where the step of a request leaves it: not between the test and the counting,
\* but for Login and Find.
LEMMA PastTheTest ==
  ASSUME Typed, NEW c \in Requests, Steps(c) \/ Load(c),
         ~Find(c),
         \A u \in Users, a \in Addresses, given \in 0..MaxPassword :
           ~Login(c, u, a, given)
  PROVE  request'[c].pc \notin {"find", "compare"}
  <1> DEFINE r == request[c]
  <1>1. r \in Request
    BY DEF Typed
  <1>2. CASE Answer(c)
    BY <1>2, NoRequestTyped DEF Answer, Becomes, Typed
  <1>3. CASE \E pc \in {"log", "lookup", "load", "serve"} : Becomes(c, Goto(c, pc))
    BY <1>1, <1>3, GotoKeeps DEF Becomes, Typed
  <1>4. CASE \E s \in cookies, kind \in {"page", "reload"} : Page(c, s, kind)
    <2>1. PICK s \in cookies, kind \in {"page", "reload"} : Page(c, s, kind)
      BY <1>4
    <2>2. request'[c] = [NoRequest EXCEPT !.pc = "lookup", !.kind = kind,
                           !.session = s, !.hopeless = HopelessSession(s)]
      BY <2>1 DEF Page, Becomes, Typed
    <2>3. request'[c].pc = "lookup"
      BY <2>2 DEF NoRequest
    <2> QED
      BY <2>3
  <1>5. CASE Compare(c)
    <2>1. \/ request'[c] = [NoRequest EXCEPT !.pc = "update", !.kind = "login",
                              !.user = r.user, !.good = TRUE, !.session = made',
                              !.hopeless = r.hopeless]
          \/ request'[c] = [NoRequest EXCEPT !.pc = "log", !.kind = "login"]
      BY <1>5 DEF Compare, Becomes, Typed
    <2>2. request'[c].pc \in {"update", "log"}
      BY <2>1 DEF NoRequest
    <2> QED
      BY <2>2
  <1>6. CASE Lookup(c) /\ ~Answer(c)
    <2>1. request'[c] = [Goto(c, "query") EXCEPT !.user = sessions[r.session].user]
      BY <1>6 DEF Lookup, Becomes, Typed
    <2>2. request'[c].pc = "query"
      BY <1>1, <2>1 DEF Goto, Request
    <2> QED
      BY <2>2
  <1>7. CASE Load(c) /\ ~DatabaseFails(c)
    <2>1. \E crossed : request'[c] =
            [[r EXCEPT !.pc = "apply"] EXCEPT !.config = file, !.next = 1,
               !.crossed = crossed]
      BY <1>7, LoadSets
    <2> QED
      BY <1>1, <2>1, LoadedKeeps
  <1>8. CASE Apply(c) /\ ~Answer(c)
    <2>1. request'[c] = [r EXCEPT !.next = @ + 1] /\ r.pc = "apply"
      BY <1>8 DEF Apply, Becomes, Typed
    <2>2. request'[c].pc = "apply"
      BY <1>1, <2>1 DEF Request
    <2> QED
      BY <2>2
  <1>9. CASE Update(c) \/ Log(c) \/ Query(c) \/ Serve(c)
    BY <1>2, <1>3, <1>9 DEF Update, Log, Query, Serve, DatabaseFails, Admitted
  <1> QED
    BY <1>2, <1>4, <1>5, <1>6, <1>7, <1>8, <1>9 DEF Steps, DatabaseFails

\* No step but Login puts a login between the test and the counting.
LEMMA FlightShrinks ==
  ASSUME Typed, [Next]_vars, NEW a \in Addresses,
         \A c \in Requests, u \in Users, b \in Addresses, given \in 0..MaxPassword :
           ~Login(c, u, b, given)
  PROVE  InFlight(a)' \subseteq InFlight(a)
  <1> SUFFICES ASSUME NEW d \in Requests, request'[d].pc \in {"find", "compare"}
               PROVE  /\ request[d].pc \in {"find", "compare"}
                      /\ request'[d].address = request[d].address
    BY DEF InFlight
  <1>1. request[d] \in Request
    BY DEF Typed
  <1>2. CASE Find(d)
    <2>1. CASE DatabaseFails(d)
      BY <2>1, NoRequestTyped DEF DatabaseFails, Answer, Becomes, Typed
    <2>2. CASE ~DatabaseFails(d)
      <3>1. /\ request[d].pc = "find"
            /\ request'[d] = [Goto(d, "compare") EXCEPT
                 !.known = password[request[d].user],
                 !.good = request[d].user \notin disabled]
        BY <1>2, <2>2 DEF Find, Becomes, Typed
      <3> QED
        BY <1>1, <3>1 DEF Goto, Request
    <2> QED
      BY <2>1, <2>2
  <1>3. ASSUME NEW c \in Requests, Steps(c) \/ Load(c), c # d
        PROVE  /\ request'[d].pc = request[d].pc
               /\ request'[d].address = request[d].address
    <2>1. CASE request'[d] = request[d]
      BY <2>1
    <2>2. CASE Load(c) /\ ~DatabaseFails(c)
      <3>1. CASE d \in Reloading
        <4>1. request'[d] = [request[d] EXCEPT !.crossed = TRUE]
          BY <1>3, <2>2, <3>1, LoadSets
        <4> QED
          BY <1>1, <4>1, LoadedKeeps
      <3>2. CASE d \notin Reloading
        BY <1>3, <2>2, <3>2, LoadSets
      <3> QED
        BY <3>1, <3>2
    <2>3. CASE Load(c) /\ DatabaseFails(c)
      BY <1>3, <2>3 DEF DatabaseFails, Answer, Becomes, Typed
    <2> QED
      BY <1>3, <2>1, <2>2, <2>3, StepsBecome
  <1> QED
    BY <1>2, <1>3, PastTheTest, NextCases, OthersLeaveRequests

\* Every step keeps the count: Login adds one below the limit, Compare takes one
\* away where it counts one, and time only forgets.
LEMMA AttemptsFitStep ==
  ASSUME Typed, Typed', AttemptsTyped, AttemptsTyped', AttemptsFit, [Next]_vars
  PROVE  AttemptsFit'
  <1> SUFFICES ASSUME NEW a \in Addresses
               PROVE  Len(Recent(a)') + Cardinality(InFlight(a)')
                        <= MaxAttempts - 1 + Cardinality(Requests)
    BY DEF AttemptsFit
  <1>1. /\ Len(Recent(a)) + Cardinality(InFlight(a))
             <= MaxAttempts - 1 + Cardinality(Requests)
        /\ Len(Recent(a)) \in Nat /\ Len(Recent(a)') \in Nat
    BY RecentProperties, RecentPropertiesNext DEF AttemptsFit
  <1>2. /\ IsFiniteSet(InFlight(a)) /\ Cardinality(InFlight(a)) \in Nat
        /\ IsFiniteSet(InFlight(a)') /\ Cardinality(InFlight(a)') \in Nat
        /\ Cardinality(InFlight(a)') <= Cardinality(Requests)
        /\ Cardinality(Requests) \in Nat
    <2>1. InFlight(a)' \subseteq Requests
      BY DEF InFlight
    <2> QED
      BY <2>1, InFlightFinite, FS_Subset, FS_CardinalityType, GatewayAssumption
  <1>3. MaxAttempts \in Nat
    BY GatewayAssumption
  <1>4. CASE \E c \in Requests, u \in Users, b \in Addresses, given \in 0..MaxPassword :
               Login(c, u, b, given)
    <2>1. PICK c \in Requests, u \in Users, b \in Addresses, given \in 0..MaxPassword :
                 Login(c, u, b, given)
      BY <1>4
    <2>2. Len(Recent(a)') <= Len(Recent(a))
      BY <2>1, RecentFades, RecentKept DEF Login, Typed, AttemptsTyped
    <2>3. CASE Limited(b) \/ a # b
      <3>1. InFlight(a)' \subseteq InFlight(a)
        BY <2>1, <2>3, NoRequestTyped DEF Login, Becomes, InFlight, Typed, Request
      <3>2. Cardinality(InFlight(a)') <= Cardinality(InFlight(a))
        BY <1>2, <3>1, FS_Subset
      <3> QED
        BY <1>1, <1>2, <1>3, <2>2, <3>2
    <2>4. CASE ~Limited(b) /\ a = b
      <3>1. Len(Recent(a)) < MaxAttempts
        BY <1>1, <1>3, <2>4 DEF Limited
      <3> QED
        BY <1>1, <1>2, <1>3, <2>2, <3>1
    <2> QED
      BY <2>3, <2>4
  <1>5. CASE ~\E c \in Requests, u \in Users, b \in Addresses, given \in 0..MaxPassword :
               Login(c, u, b, given)
    <2>1. InFlight(a)' \subseteq InFlight(a)
      BY <1>5, FlightShrinks
    <2>2. Cardinality(InFlight(a)') <= Cardinality(InFlight(a))
      BY <1>2, <2>1, FS_Subset
    <2>3. CASE attempts'[a] = attempts[a]
      <3>1. CASE Tick
        <4>1. Len(Recent(a)') <= Len(Recent(a))
          BY <2>3, <3>1, RecentFades, GatewayAssumption DEF Tick, Typed
        <4> QED
          BY <1>1, <1>2, <1>3, <2>2, <4>1
      <3>2. CASE UNCHANGED clock
        <4>1. Len(Recent(a)') <= Len(Recent(a))
          BY <2>3, <3>2, RecentFades, GatewayAssumption DEF Typed
        <4> QED
          BY <1>1, <1>2, <1>3, <2>2, <4>1
      <3> QED
        BY <3>1, <3>2
           DEF Next, vars, Login, Page, Find, Compare, Update, Log, Lookup, Query,
               Serve, Load, Apply, Logout, CreateUser, UpdatePassword, Disable, Edit
    <2>4. CASE attempts'[a] # attempts[a]
      <3>1. PICK c \in Requests : Compare(c)
        BY <1>5, <2>4 DEF Next, vars, Page, Find, Update, Log, Lookup, Query, Serve, Load,
           Apply, Logout, CreateUser, UpdatePassword, Disable, Edit, Tick
      <3>2. ~Right(request[c]) /\ request[c].address = a /\ request[c].at \in 0..MaxClock
        BY <2>4, <3>1 DEF Compare, Typed, AttemptsTyped, Request
      <3>3. clock' = clock /\ attempts'[a] = Append(attempts[a], request[c].at)
        BY <3>1, <3>2 DEF Compare, AttemptsTyped
      <3>4. Len(Recent(a)') <= Len(Recent(a)) + 1
        BY <3>2, <3>3, RecentGrows
      <3>5. c \in InFlight(a) /\ c \notin InFlight(a)'
        <4>1. request'[c].pc \notin {"find", "compare"}
          BY <1>5, <3>1, PastTheTest DEF Steps, Compare, Find
        <4> QED
          BY <3>1, <3>2, <4>1 DEF Compare, InFlight
      <3>6. Cardinality(InFlight(a)') # Cardinality(InFlight(a))
        BY <1>2, <2>1, <3>5, FS_Subset
      <3> QED
        BY <1>1, <1>2, <1>3, <2>2, <3>4, <3>6
    <2> QED
      BY <2>3, <2>4
  <1> QED
    BY <1>4, <1>5

\* However many logins run at once, the failures remembered of an address exceed
\* the limit by less than their number (isRateLimited, Login).
THEOREM AttemptsAreLimited == Spec => []LimitHolds
  <1> DEFINE Fit == IInv /\ AttemptsTyped /\ AttemptsFit
  <1>1. Init => AttemptsTyped /\ AttemptsFit
    <2> SUFFICES ASSUME Init, NEW a \in Addresses
                 PROVE  /\ AttemptsTyped
                        /\ Len(Recent(a)) + Cardinality(InFlight(a))
                             <= MaxAttempts - 1 + Cardinality(Requests)
      BY DEF Init, AttemptsTyped, AttemptsFit
    <2>1. AttemptsTyped /\ Remembered(a) = {} /\ InFlight(a) = {}
      BY NoRequestTyped DEF Init, AttemptsTyped, Remembered, InFlight
    <2>2. Len(Recent(a)) = 0 /\ Cardinality(InFlight(a)) = 0
      BY <2>1, RecentProperties, FS_EmptySet
    <2> QED
      BY <2>1, <2>2, InFlightFinite, GatewayAssumption
  <1>2. Fit /\ [Next]_vars => Fit'
    BY NextIInv, AttemptsTypedStep, AttemptsFitStep DEF IInv
  <1>3. Fit => LimitHolds
    <2> SUFFICES ASSUME AttemptsTyped, AttemptsFit, NEW a \in Addresses
                 PROVE  Len(Recent(a)) <= MaxAttempts + Cardinality(Requests) - 1
      BY DEF LimitHolds
    <2> QED
      BY RecentProperties, InFlightFinite, GatewayAssumption DEF AttemptsFit
  <1> HIDE DEF Fit
  <1>4. Init => Fit
    BY <1>1, InitIInv DEF Fit
  <1> QED
    BY <1>2, <1>3, <1>4, PTL DEF Spec
=============================================================================
