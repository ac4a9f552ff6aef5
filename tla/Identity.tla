------------------------------- MODULE Identity -------------------------------
(***************************************************************************)
(* Identity and Access (packages/core/src/identity): accounts, links that  *)
(* verify an address, sessions whose token rotates, deletion, and the      *)
(* retention sweeps, under requests that overlap.                          *)
(*                                                                         *)
(* As in Family, a request decides from rows it read and saves them whole. *)
(* Nothing is locked by a read; the one lock that shapes the outcome is    *)
(* the user row an account deletion saves before it lists the sessions.    *)
(* A save is an upsert: a row that was deleted since it was read comes     *)
(* back, unless a foreign key or the unique address is in the way.         *)
(*                                                                         *)
(* Rows hold ages and time left where the tables hold moments.  A tick is  *)
(* longer than any request, so a request lives through one at most.        *)
(* A device is created with its session and not kept apart from it.        *)
(***************************************************************************)
EXTENDS Integers, FiniteSets

CONSTANTS
  User,         \* user rows, in the order they are allocated
  Email,        \* addresses
  Session,      \* session rows, in the order they are allocated
  Link,         \* email_verification rows, in the order they are allocated
  Request,      \* requests that can be under way at once
  MaxAttempts,  \* failed sign-ins that start a lock-out
  Lockout,      \* ticks a lock-out lasts
  Lifetime,     \* ticks from a sign-in to the end of its session
  LinkLife,     \* ticks a link can be used
  Keep,         \* ticks a dead row is kept: registration, account, session
  MaxToken,     \* bound: session tokens generated
  MaxServed     \* bound: requests served

ASSUME RowAssumption ==
  User \subseteq Nat \ {0} /\ Session \subseteq Nat \ {0} /\ Link \subseteq Nat \ {0}
ASSUME TimeAssumption ==
  /\ {MaxAttempts, Lockout, Lifetime, LinkLife, Keep} \subseteq Nat \ {0}
  /\ {MaxToken, MaxServed} \subseteq Nat

Absent  == [absent |-> TRUE]
Never   == -1
NoToken == 0

VARIABLES
  user,        \* user
  session,     \* session
  link,        \* email_verification
  request,     \* where each request is
  minted,      \* session tokens generated so far
  served,      \* requests served so far
  overwrote,   \* history: tables where a save replaced a row changed since read
  superseded   \* history: tokens that were current and no longer are

tables == <<user, session, link>>
vars   == <<tables, request, minted, served, overwrote, superseded>>

------------------------------------------------------------------------------
(* Rows *)

Registered(e) ==
  [email |-> e, status |-> "pending_verification", failed |-> 0, lock |-> 0, age |-> 0]
Issued(u)  == [user |-> u, left |-> LinkLife, spent |-> "no"]
Opened(u, t) ==
  [user |-> u, token |-> t, previous |-> NoToken, left |-> Lifetime, revoked |-> Never]

Verified(row) == [row EXCEPT !.status = "active", !.age = 0]

\* recordFailedAttempt: the count is not reset by a lock that ran out.
Missed(row) ==
  [row EXCEPT !.failed = IF @ < MaxAttempts THEN @ + 1 ELSE @,
              !.lock   = IF row.failed + 1 >= MaxAttempts THEN Lockout ELSE @]
Cleared(row) == [row EXCEPT !.failed = 0, !.lock = 0]

\* User.requestDeletion: asking again does not push the date out.
Leaving(row) ==
  IF row.status = "active"
    THEN [row EXCEPT !.status = "deletion_requested", !.age = 0] ELSE row

Rotated(row, t) == [row EXCEPT !.previous = row.token, !.token = t]
\* Mutant of Revoked: the row is saved as it was read.
RevokedUnsaid(row) == row
Revoked(row) == [row EXCEPT !.revoked = 0]

IsRevoked(row) == row.revoked # Never
IsUsable(row)  == ~IsRevoked(row) /\ row.left > 0
LinkUsable(row) == row.spent = "no" /\ row.left > 0

InUse(table)  == {k \in DOMAIN table : table[k] # Absent}
SessionsOf(u) == {s \in InUse(session) : session[s].user = u}
AccountsAt(e) == {u \in InUse(user) : user[u].email = e}

------------------------------------------------------------------------------
(* Requests *)

Nothing == [x \in {} |-> x]
NoRows  == [user |-> Nothing, session |-> Nothing, link |-> Nothing]
Table   == [user |-> user, session |-> session, link |-> link]
One(k, row) == [x \in {k} |-> row]
Over(new, table) ==
  [k \in DOMAIN table |-> IF k \in DOMAIN new THEN new[k] ELSE table[k]]

Idle == [phase |-> "idle", caller |-> 0, reads |-> NoRows, writes |-> NoRows,
         straddled |-> FALSE]

\* What the rows about to be saved were when they were read.
ReadsOf(writes) ==
  [user    |-> [u \in DOMAIN writes.user |-> user[u]],
   session |-> [s \in DOMAIN writes.session |-> session[s]],
   link    |-> [v \in DOMAIN writes.link |-> link[v]]]

Decide(p, writes) ==
  request' = [request EXCEPT ![p].phase = "decided", ![p].reads = ReadsOf(writes),
                             ![p].writes = writes]

\* randomUUID: no row has this id and no other request is about to use it.
Fresh(k, t) ==
  LET free == {j \in DOMAIN Table[t] : Table[t][j] = Absent}
                \ UNION {DOMAIN request[q].writes[t] : q \in Request}
  IN k \in free /\ \A j \in free : k <= j

Mint(t) == minted < MaxToken /\ t = minted + 1 /\ minted' = t

\* The user row an account deletion holds while it revokes the sessions.
Locked(u) == \E q \in Request : request[q].phase = "locked" /\ request[q].caller = u

Init ==
  /\ user    = [u \in User |-> Absent]
  /\ session = [s \in Session |-> Absent]
  /\ link    = [v \in Link |-> Absent]
  /\ request = [p \in Request |-> Idle]
  /\ minted  = 0
  /\ served  = 0
  /\ overwrote  = {}
  /\ superseded = {}

Reading == UNCHANGED <<tables, overwrote, superseded>>
Ready(p) == request[p].phase = "idle"
Start(p) == Ready(p) /\ served < MaxServed /\ served' = served + 1

------------------------------------------------------------------------------
(* Commands without a session: what they read, and what they will save. *)

RegisterUser(p, e) ==
  /\ Start(p) /\ AccountsAt(e) = {}
  /\ \E u \in User, v \in Link :
       /\ Fresh(u, "user") /\ Fresh(v, "link")
       /\ Decide(p, [NoRows EXCEPT !.user = One(u, Registered(e)),
                                   !.link = One(v, Issued(u))])
  /\ Reading /\ UNCHANGED minted

VerifyEmail(p, v) ==
  /\ Start(p) /\ link[v] # Absent /\ LinkUsable(link[v])
  /\ LET u == link[v].user
     IN /\ user[u] # Absent /\ user[u].status = "pending_verification"
        /\ Decide(p, [NoRows EXCEPT !.user = One(u, Verified(user[u])),
                                    !.link = One(v, [link[v] EXCEPT !.spent = "consumed"])])
  /\ Reading /\ UNCHANGED minted

\* Supersedes the open link that expires last, if there is one.
ResendVerification(p, e) ==
  /\ Start(p)
  /\ \E u \in AccountsAt(e), v \in Link :
       LET open == {w \in InUse(link) : link[w].user = u /\ link[w].spent = "no"}
           last == {w \in open : \A x \in open : link[x].left <= link[w].left}
       IN /\ user[u].status = "pending_verification" /\ Fresh(v, "link")
          /\ \E old \in IF last = {} THEN {{}} ELSE {{w} : w \in last} :
               Decide(p, [NoRows EXCEPT !.link =
                 [w \in old \cup {v} |->
                    IF w = v THEN Issued(u) ELSE [link[w] EXCEPT !.spent = "superseded"]]])
  /\ Reading /\ UNCHANGED minted

\* authenticateUser with a wrong password, for an account in any status.
SignInFails(p, e) ==
  /\ Start(p)
  /\ \E u \in AccountsAt(e) :
       /\ user[u].lock = 0
       /\ Decide(p, [NoRows EXCEPT !.user = One(u, Missed(user[u]))])
  /\ Reading /\ UNCHANGED minted

\* Mutant of SignIn: the lock-out is not looked at.
SignInDespiteLock(p, e) ==
  /\ Start(p)
  /\ \E u \in AccountsAt(e), s \in Session, t \in 1..MaxToken :
       /\ user[u].status = "active" /\ Fresh(s, "session") /\ Mint(t)
       /\ Decide(p, [NoRows EXCEPT !.user = One(u, Cleared(user[u])),
                                   !.session = One(s, Opened(u, t))])
  /\ Reading

SignIn(p, e) ==
  /\ Start(p)
  /\ \E u \in AccountsAt(e), s \in Session, t \in 1..MaxToken :
       /\ user[u].lock = 0 /\ user[u].status = "active"
       /\ Fresh(s, "session") /\ Mint(t)
       /\ Decide(p, [NoRows EXCEPT !.user = One(u, Cleared(user[u])),
                                   !.session = One(s, Opened(u, t))])
  /\ Reading

\* A token that was rotated away ends its session, on any route.
Replay(p, s) ==
  /\ Start(p) /\ session[s] # Absent /\ session[s].previous # NoToken
  /\ Decide(p, [NoRows EXCEPT !.session = One(s, Revoked(session[s]))])
  /\ Reading /\ UNCHANGED minted

RenewSession(p, s) ==
  /\ Start(p) /\ session[s] # Absent /\ IsUsable(session[s])
  /\ \E t \in 1..MaxToken :
       /\ Mint(t)
       /\ Decide(p, [NoRows EXCEPT !.session = One(s, Rotated(session[s], t))])
  /\ Reading

------------------------------------------------------------------------------
(* Commands behind SessionGuard. *)

\* authenticateSession, with the token that is current.
AuthenticateSession(p, s) ==
  /\ Start(p) /\ session[s] # Absent /\ IsUsable(session[s])
  /\ user[session[s].user].status = "active"
  /\ request' = [request EXCEPT ![p].phase = "admitted", ![p].caller = session[s].user]
  /\ Reading /\ UNCHANGED minted

RevokeSession(p, s) ==
  /\ request[p].phase = "admitted"
  /\ session[s] # Absent /\ session[s].user = request[p].caller
  /\ Decide(p, [NoRows EXCEPT !.session = One(s, Revoked(session[s]))])
  /\ Reading /\ UNCHANGED <<minted, served>>

\* Mutant of RequestAccountDeletion: the sessions are listed before the user is saved.
RequestAccountDeletionListingFirst(p) ==
  LET u == request[p].caller
  IN /\ request[p].phase = "admitted"
     /\ user[u] # Absent /\ user[u].status # "pending_verification"
     /\ Decide(p, [NoRows EXCEPT !.user = One(u, Leaving(user[u])),
                     !.session = [s \in SessionsOf(u) |-> Revoked(session[s])]])
     /\ Reading /\ UNCHANGED <<minted, served>>

RequestAccountDeletion(p) ==
  LET u == request[p].caller
  IN /\ request[p].phase = "admitted"
     /\ user[u] # Absent /\ user[u].status # "pending_verification"
     /\ request' = [request EXCEPT ![p].phase = "leaving",
          ![p].reads = [NoRows EXCEPT !.user = One(u, user[u])],
          ![p].writes = [NoRows EXCEPT !.user = One(u, Leaving(user[u]))]]
     /\ Reading /\ UNCHANGED <<minted, served>>

\* Its save waits for the row lock; the sessions are listed after it.
RevokeAllSessions(p) ==
  LET u == request[p].caller
  IN /\ request[p].phase = "leaving" /\ ~Locked(u)
     /\ request' = [request EXCEPT ![p].phase = "locked",
          ![p].reads.session = [s \in SessionsOf(u) |-> session[s]],
          ![p].writes.session = [s \in SessionsOf(u) |-> Revoked(session[s])]]
     /\ Reading /\ UNCHANGED <<minted, served>>

------------------------------------------------------------------------------
(* How a request ends. *)

Addressed(users) ==  \* the unique index on user.email
  \A u, w \in InUse(users) : users[u].email = users[w].email => u = w
References(rows, users) ==  \* the foreign keys to user.id
  \A k \in DOMAIN rows : users[rows[k].user] # Absent

Changed(new, old) ==
  {old[s].token : s \in {x \in DOMAIN new : old[x] # Absent /\ old[x].token # new[x].token}}

Commit(p) ==
  LET r == request[p]
  IN /\ \/ r.phase = "locked"
        \/ r.phase = "decided" /\ \A u \in DOMAIN r.writes.user : ~Locked(u)
     /\ user' = Over(r.writes.user, user)
     /\ Addressed(user')
     /\ References(r.writes.session, user') /\ References(r.writes.link, user')
     /\ session' = Over(r.writes.session, session)
     /\ link'    = Over(r.writes.link, link)
     /\ overwrote' = overwrote \cup
          {t \in DOMAIN Table : \E k \in DOMAIN r.reads[t] : Table[t][k] # r.reads[t][k]}
     /\ superseded' = superseded \cup Changed(r.writes.session, session)
     /\ request' = [request EXCEPT ![p] = Idle]
     /\ UNCHANGED <<minted, served>>

\* A refusal by a constraint, a query that changes nothing, a lost connection.
End(p) ==
  /\ ~Ready(p)
  /\ request' = [request EXCEPT ![p] = Idle]
  /\ Reading /\ UNCHANGED <<minted, served>>

------------------------------------------------------------------------------
(* Time and retention. *)

Older(n)  == IF n < Keep THEN n + 1 ELSE n
Sooner(n) == IF n > 0 THEN n - 1 ELSE 0

AgedUser(row) ==
  IF row = Absent THEN row
  ELSE [row EXCEPT !.lock = Sooner(@),
                   !.age = IF row.status = "active" THEN @ ELSE Older(@)]
AgedSession(row) ==
  IF row = Absent THEN row
  ELSE [row EXCEPT !.left = IF @ > -Keep THEN @ - 1 ELSE @,
                   !.revoked = IF @ = Never THEN @ ELSE Older(@)]
AgedLink(row) == IF row = Absent THEN row ELSE [row EXCEPT !.left = Sooner(@)]

AgedRows(rows) ==
  [user    |-> [u \in DOMAIN rows.user |-> AgedUser(rows.user[u])],
   session |-> [s \in DOMAIN rows.session |-> AgedSession(rows.session[s])],
   link    |-> [v \in DOMAIN rows.link |-> AgedLink(rows.link[v])]]

Tick ==
  /\ \A p \in Request : ~request[p].straddled
  /\ LET aged == AgedRows(Table)
     IN user' = aged.user /\ session' = aged.session /\ link' = aged.link
  /\ request' = [p \in Request |->
       IF Ready(p) THEN request[p]
       ELSE [request[p] EXCEPT !.reads = AgedRows(@), !.writes = AgedRows(@),
                               !.straddled = TRUE]]
  /\ UNCHANGED <<minted, served, overwrote, superseded>>

\* Mutant of Erase: the foreign keys restrict and do not cascade.
EraseRestricted(gone) ==
  /\ gone # {} /\ \A u \in gone : ~Locked(u) /\ SessionsOf(u) = {}
  /\ user'    = [u \in User |-> IF u \in gone THEN Absent ELSE user[u]]
  /\ link'    = [v \in Link |->
                   IF link[v] # Absent /\ link[v].user \in gone THEN Absent ELSE link[v]]
  /\ UNCHANGED <<session, request, minted, served, overwrote, superseded>>

\* A DELETE by age, and what it cascades to.
Erase(gone) ==
  /\ gone # {} /\ \A u \in gone : ~Locked(u)
  /\ user'    = [u \in User |-> IF u \in gone THEN Absent ELSE user[u]]
  /\ session' = [s \in Session |->
                   IF \E u \in gone : s \in SessionsOf(u) THEN Absent ELSE session[s]]
  /\ link'    = [v \in Link |->
                   IF link[v] # Absent /\ link[v].user \in gone THEN Absent ELSE link[v]]
  /\ UNCHANGED <<request, minted, served, overwrote, superseded>>

Old(status) == {u \in InUse(user) : user[u].status = status /\ user[u].age >= Keep}

EraseUnverified      == Erase(Old("pending_verification"))
EraseDeletedAccounts == Erase(Old("deletion_requested"))

EraseStaleSessions ==
  LET stale == {s \in InUse(session) : session[s].revoked >= Keep \/ session[s].left <= -Keep}
  IN /\ stale # {}
     /\ \A s \in stale : ~\E q \in Request :  \* rows a deletion has saved are locked too
          request[q].phase = "locked" /\ s \in DOMAIN request[q].writes.session
     /\ session' = [s \in Session |-> IF s \in stale THEN Absent ELSE session[s]]
     /\ UNCHANGED <<user, link, request, minted, served, overwrote, superseded>>

------------------------------------------------------------------------------
Next ==
  \/ \E p \in Request :
       \/ \E e \in Email : \/ RegisterUser(p, e) \/ ResendVerification(p, e)
                           \/ SignInFails(p, e) \/ SignIn(p, e)
       \/ \E v \in Link : VerifyEmail(p, v)
       \/ \E s \in Session : \/ Replay(p, s) \/ RenewSession(p, s)
                             \/ AuthenticateSession(p, s) \/ RevokeSession(p, s)
       \/ RequestAccountDeletion(p) \/ RevokeAllSessions(p)
       \/ Commit(p) \/ End(p)
  \/ Tick \/ EraseUnverified \/ EraseDeletedAccounts \/ EraseStaleSessions

\* Time passes, a request comes to an end, and the sweep of deleted accounts runs.
Fairness ==
  /\ WF_vars(Tick) /\ WF_vars(EraseDeletedAccounts)
  /\ \A p \in Request : WF_vars(Commit(p) \/ End(p))

Spec == Init /\ [][Next]_vars /\ Fairness

------------------------------------------------------------------------------
(* Properties *)

UserRows ==
  [email : Email, status : {"pending_verification", "active", "deletion_requested"},
   failed : 0..MaxAttempts, lock : 0..Lockout, age : 0..Keep]
SessionRows ==
  [user : User, token : 1..MaxToken, previous : 0..MaxToken,
   left : (-Keep)..Lifetime, revoked : Never..Keep]
LinkRows ==
  [user : User, left : 0..LinkLife, spent : {"no", "consumed", "superseded"}]

SomeOf(keys, rows) == UNION {[S -> rows] : S \in SUBSET keys}
ReadRows ==
  [user    : SomeOf(User, UserRows \cup {Absent}),
   session : SomeOf(Session, SessionRows \cup {Absent}),
   link    : SomeOf(Link, LinkRows \cup {Absent})]
WriteRows ==
  [user : SomeOf(User, UserRows), session : SomeOf(Session, SessionRows),
   link : SomeOf(Link, LinkRows)]
Requests ==
  [phase : {"idle", "admitted", "leaving", "locked", "decided"},
   caller : User \cup {0}, reads : ReadRows, writes : WriteRows,
   straddled : BOOLEAN]

\* The keys of the tables: an address belongs to one account, sessions and
\* links to an account that exists.
KeysHold ==
  /\ Addressed(user)
  /\ \A s \in InUse(session) : user[session[s].user] # Absent
  /\ \A v \in InUse(link) : user[link[v].user] # Absent

\* Types, and the keys.
TypeOK ==
  /\ user \in [User -> UserRows \cup {Absent}]
  /\ session \in [Session -> SessionRows \cup {Absent}]
  /\ link \in [Link -> LinkRows \cup {Absent}]
  /\ request \in [Request -> Requests]
  /\ minted \in 0..MaxToken
  /\ served \in 0..MaxServed
  /\ overwrote \subseteq {"user", "session", "link"}
  /\ superseded \subseteq 1..MaxToken
  /\ KeysHold

\* A token that was rotated away never opens its session again, whatever
\* overlapping saves put back into the row: they put it back revoked
\* (Session.rotate, Session.revoke, PrismaSessionRepository.save).
SupersededStaysShut ==
  \A s \in InUse(session) : IsUsable(session[s]) => session[s].token \notin superseded

\* An account that is to be deleted keeps no open session, unless a row was
\* overwritten: a sign-in under way at the time has either committed before the
\* sessions are listed, since both save the user row first, or it waits for that
\* row and brings the account back with it (requestAccountDeletion,
\* authenticateUser).
DeletedKeepsNoSession ==
  \A u \in InUse(user) :
    user[u].status = "deletion_requested" =>
      overwrote # {} \/ \A s \in SessionsOf(u) : ~IsUsable(session[s])

\* A revoked session and a deletion that was requested stay so until the row is
\* erased, and a lock-out runs its time, unless a save has replaced a row that
\* changed since it was read (User.requestDeletion, User.recordFailedAttempt,
\* Session.revoke, the repositories' save).
EndsAreFinal ==
  [][ /\ \A u \in InUse(user) : user[u].status = "deletion_requested" =>
           \/ user'[u] = Absent \/ user'[u].status = "deletion_requested"
           \/ "user" \in overwrote'
      /\ \A s \in InUse(session) : IsRevoked(session[s]) =>
           session'[s] = Absent \/ IsRevoked(session'[s]) \/ "session" \in overwrote'
      /\ \A u \in InUse(user) : user[u].lock > 0 =>
           \/ user'[u] = Absent \/ user'[u].lock >= user[u].lock - 1
           \/ "user" \in overwrote' ]_vars

\* FR-019: an account whose deletion was requested is erased in the end,
\* though a failed sign-in can put the row back after its erasure; only a save
\* that undoes the request prevents it (runEraseDeletedAccountsSweep).
DeletionCompletes ==
  \A u \in User :
    (user[u] # Absent /\ user[u].status = "deletion_requested")
      ~> (user[u] = Absent \/ user[u].status # "deletion_requested")
==============================================================================
