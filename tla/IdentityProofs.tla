---------------------------- MODULE IdentityProofs ----------------------------
(***************************************************************************)
(* Proofs about Identity, for every number of overlapping requests: types  *)
(* and keys, a token that was superseded opens nothing, a deleted account  *)
(* keeps no session, and what has ended stays ended.                       *)
(***************************************************************************)
EXTENDS TLAPS, Identity

\* A token belongs to one session, in the table and in what requests are about
\* to save.  A save that leaves the session open brings a token of its own:
\* no row has carried it, and no other request has it.
TokensApart ==
  /\ \A s, x \in InUse(session) : session[s].token = session[x].token => s = x
  /\ \A p \in Request : \A s \in DOMAIN request[p].writes.session :
       LET row == request[p].writes.session[s] IN
       /\ row.token <= minted
       /\ ~IsRevoked(row) => row.token \notin superseded
       /\ \A x \in InUse(session) :
            row.token = session[x].token => s = x /\ IsRevoked(row)
       /\ \A q \in Request : \A x \in DOMAIN request[q].writes.session :
            row.token = request[q].writes.session[x].token =>
              s = x /\ (p = q \/ IsRevoked(row))
  /\ \A s \in InUse(session) :
       /\ session[s].token <= minted
       /\ ~IsRevoked(session[s]) => session[s].token \notin superseded
  /\ \A t \in superseded : t <= minted

\* What a request may make of the rows it read.
UserSaved(r, u) ==
  LET old == r.reads.user[u] new == r.writes.user[u] IN
  /\ u \in DOMAIN r.reads.user
  /\ old # Absent =>
       /\ old.status = "deletion_requested" => new.status = "deletion_requested"
       /\ new.lock >= old.lock
  /\ new.status = "deletion_requested" =>
       /\ old # Absent
       /\ \/ old.status = "deletion_requested"
          \/ r.phase \in {"leaving", "locked"} /\ r.caller = u

\* An open session is saved by a sign-in, with its active user, or by the
\* renewal of a session that was open.
SessionSaved(r, s) ==
  LET old == r.reads.session[s] new == r.writes.session[s] IN
  /\ s \in DOMAIN r.reads.session
  /\ old # Absent /\ IsRevoked(old) => IsRevoked(new)
  /\ ~IsRevoked(new) =>
       /\ r.phase = "decided"
       /\ \/ /\ new.user \in DOMAIN r.writes.user
             /\ r.writes.user[new.user].status = "active"
          \/ /\ r.writes.user = Nothing /\ old # Absent
             /\ ~IsRevoked(old) /\ old.user = new.user /\ old.left = new.left

OwnFine(r) ==
  /\ r.phase \in {"idle", "admitted"} => r.writes = NoRows
  /\ r.phase \in {"admitted", "leaving", "locked"} => r.caller \in User
  /\ \A u \in DOMAIN r.writes.user : UserSaved(r, u)
  /\ \A s \in DOMAIN r.writes.session : SessionSaved(r, s)

\* Who holds the lock of a user row is about to revoke its open sessions.
ListsThem(r) ==
  r.phase = "locked" =>
    \A s \in SessionsOf(r.caller) :
      IsUsable(session[s]) => s \in DOMAIN r.writes.session

LocksApart ==
  \A p, q \in Request :
    request[p].phase = "locked" /\ request[q].phase = "locked"
    /\ request[p].caller = request[q].caller => p = q

SessionsShut ==
  \A u \in InUse(user) : user[u].status = "deletion_requested" =>
    \A s \in SessionsOf(u) : ~IsUsable(session[s])

IInv ==
  /\ TypeOK
  /\ TokensApart
  /\ LocksApart
  /\ \A p \in Request : OwnFine(request[p])
  /\ overwrote = {} =>
       SessionsShut /\ \A p \in Request : ListsThem(request[p])

------------------------------------------------------------------------------
(* Rows and partial functions *)

LEMMA Present == Absent \notin UserRows /\ Absent \notin SessionRows /\ Absent \notin LinkRows
  BY DEF Absent, UserRows, SessionRows, LinkRows

LEMMA PartialFacts ==
  ASSUME NEW S, NEW R, NEW f \in SomeOf(S, R)
  PROVE  DOMAIN f \subseteq S /\ \A k \in DOMAIN f : f[k] \in R
  BY DEF SomeOf

LEMMA PartialType ==
  ASSUME NEW S, NEW R, NEW T \in SUBSET S, NEW f \in [T -> R]
  PROVE  f \in SomeOf(S, R)
  BY DEF SomeOf

LEMMA OneFacts ==
  ASSUME NEW S, NEW R, NEW k \in S, NEW row \in R
  PROVE  One(k, row) \in SomeOf(S, R) /\ DOMAIN One(k, row) = {k} /\ One(k, row)[k] = row
  <1>1. One(k, row) \in [{k} -> R] /\ {k} \in SUBSET S
    BY DEF One
  <1> QED
    BY <1>1, PartialType DEF One

LEMMA NothingFacts ==
  DOMAIN Nothing = {} /\ \A S, R : Nothing \in SomeOf(S, R)
  <1>1. DOMAIN Nothing = {}
    BY DEF Nothing
  <1>2. ASSUME NEW S, NEW R
        PROVE  Nothing \in SomeOf(S, R)
    <2>1. Nothing \in [{} -> R] /\ {} \in SUBSET S
      BY DEF Nothing
    <2> QED
      BY <2>1, PartialType
  <1> QED
    BY <1>1, <1>2

LEMMA NoRowsType == NoRows \in WriteRows /\ NoRows \in ReadRows
  BY NothingFacts DEF NoRows, WriteRows, ReadRows

LEMMA IdleFacts == Idle \in Requests /\ OwnFine(Idle)
  <1>1. Idle \in Requests
    BY NoRowsType DEF Idle, Requests
  <1> QED
    BY <1>1, NothingFacts DEF OwnFine, Idle, NoRows

LEMMA TableFacts ==
  ASSUME TypeOK
  PROVE  /\ \A u \in User : user[u] # Absent => user[u] \in UserRows
         /\ \A s \in Session : session[s] # Absent => session[s] \in SessionRows
         /\ \A v \in Link : link[v] # Absent => link[v] \in LinkRows
         /\ InUse(user) = {u \in User : user[u] # Absent}
         /\ InUse(session) = {s \in Session : session[s] # Absent}
         /\ InUse(link) = {v \in Link : link[v] # Absent}
  BY DEF TypeOK, InUse

LEMMA WritesFacts ==
  ASSUME NEW w \in WriteRows
  PROVE  /\ w = [user |-> w.user, session |-> w.session, link |-> w.link]
         /\ DOMAIN w.user \subseteq User /\ \A u \in DOMAIN w.user : w.user[u] \in UserRows
         /\ DOMAIN w.session \subseteq Session
         /\ \A s \in DOMAIN w.session : w.session[s] \in SessionRows
         /\ DOMAIN w.link \subseteq Link /\ \A v \in DOMAIN w.link : w.link[v] \in LinkRows
  <1>1. /\ w.user \in SomeOf(User, UserRows) /\ w.session \in SomeOf(Session, SessionRows)
        /\ w.link \in SomeOf(Link, LinkRows)
        /\ w = [user |-> w.user, session |-> w.session, link |-> w.link]
    BY DEF WriteRows
  <1> QED
    BY <1>1, PartialFacts

LEMMA ReadsFacts ==
  ASSUME NEW r \in ReadRows
  PROVE  /\ r = [user |-> r.user, session |-> r.session, link |-> r.link]
         /\ DOMAIN r.user \subseteq User
         /\ \A u \in DOMAIN r.user : r.user[u] \in UserRows \cup {Absent}
         /\ DOMAIN r.session \subseteq Session
         /\ \A s \in DOMAIN r.session : r.session[s] \in SessionRows \cup {Absent}
         /\ DOMAIN r.link \subseteq Link
         /\ \A v \in DOMAIN r.link : r.link[v] \in LinkRows \cup {Absent}
  <1>1. /\ r.user \in SomeOf(User, UserRows \cup {Absent})
        /\ r.session \in SomeOf(Session, SessionRows \cup {Absent})
        /\ r.link \in SomeOf(Link, LinkRows \cup {Absent})
        /\ r = [user |-> r.user, session |-> r.session, link |-> r.link]
    BY DEF ReadRows
  <1> QED
    BY <1>1, PartialFacts

LEMMA ReadsType ==
  ASSUME TypeOK, NEW w \in WriteRows
  PROVE  ReadsOf(w) \in ReadRows
  <1>1. /\ [u \in DOMAIN w.user |-> user[u]] \in SomeOf(User, UserRows \cup {Absent})
        /\ [s \in DOMAIN w.session |-> session[s]] \in SomeOf(Session, SessionRows \cup {Absent})
        /\ [v \in DOMAIN w.link |-> link[v]] \in SomeOf(Link, LinkRows \cup {Absent})
    <2>1. /\ DOMAIN w.user \in SUBSET User /\ DOMAIN w.session \in SUBSET Session
          /\ DOMAIN w.link \in SUBSET Link
      BY WritesFacts
    <2>2. [u \in DOMAIN w.user |-> user[u]] \in [DOMAIN w.user -> UserRows \cup {Absent}]
      BY <2>1 DEF TypeOK
    <2>3. [s \in DOMAIN w.session |-> session[s]]
            \in [DOMAIN w.session -> SessionRows \cup {Absent}]
      BY <2>1 DEF TypeOK
    <2>4. [v \in DOMAIN w.link |-> link[v]] \in [DOMAIN w.link -> LinkRows \cup {Absent}]
      BY <2>1 DEF TypeOK
    <2> QED
      BY <2>1, <2>2, <2>3, <2>4, PartialType
  <1> QED
    BY <1>1 DEF ReadsOf, ReadRows

LEMMA RequestFacts ==
  ASSUME TypeOK, NEW p \in Request
  PROVE  /\ request[p] \in Requests
         /\ request[p].reads \in ReadRows /\ request[p].writes \in WriteRows
         /\ request[p].caller \in User \cup {0}
  BY DEF TypeOK, Requests

------------------------------------------------------------------------------
(* Steps of one request that leave the tables alone *)

LEMMA InitInv == Init => IInv
  <1> SUFFICES ASSUME Init
               PROVE  IInv
    OBVIOUS
  <1>1. /\ user \in [User -> UserRows \cup {Absent}]
        /\ session \in [Session -> SessionRows \cup {Absent}]
        /\ link \in [Link -> LinkRows \cup {Absent}]
        /\ InUse(user) = {} /\ InUse(session) = {} /\ InUse(link) = {}
    BY DEF Init, InUse
  <1>2. \A p \in Request : request[p] = Idle
    BY DEF Init
  <1>3. request \in [Request -> Requests]
    BY IdleFacts DEF Init
  <1>4. /\ minted \in 0..MaxToken /\ served \in 0..MaxServed
        /\ overwrote \subseteq {"user", "session", "link"} /\ superseded \subseteq 1..MaxToken
    BY TimeAssumption DEF Init
  <1>5. TypeOK
    BY <1>1, <1>3, <1>4 DEF TypeOK, KeysHold, Addressed
  <1>6. Idle.phase = "idle" /\ DOMAIN Idle.writes.session = {}
    BY NothingFacts DEF Idle, NoRows
  <1>7. TokensApart
    BY <1>1, <1>2, <1>6 DEF TokensApart, Init
  <1> QED
    BY <1>1, <1>2, <1>5, <1>6, <1>7, IdleFacts
    DEF IInv, LocksApart, SessionsShut, ListsThem
\* What a request may carry for its sessions: rows as they are now, revoked, or
\* one row with a token of its own.
TokensFine(w) ==
  \A s \in DOMAIN w.session :
    \/ /\ IsRevoked(w.session[s]) /\ s \in InUse(session)
       /\ w.session[s].token = session[s].token
    \/ DOMAIN w.session = {s} /\ w.session[s].token = minted + 1 /\ minted' = minted + 1

LEMMA TokensMove ==
  ASSUME TypeOK, TokensApart, NEW p \in Request, request' \in [Request -> Requests],
         \A q \in Request \ {p} : request'[q] = request[q],
         TokensFine(request'[p].writes), minted' \in Nat, minted <= minted',
         UNCHANGED <<session, superseded>>
  PROVE  TokensApart'
  <1> DEFINE w == request'[p].writes.session
             x0(q) == request[q].writes.session
  <1>1. /\ \A s \in InUse(session) : session[s].token \in Nat
        /\ \A q \in Request : \A s \in DOMAIN x0(q) : x0(q)[s].token \in Nat
        /\ \A s \in DOMAIN w : w[s].token \in Nat
        /\ \A t \in superseded : t \in Nat
        /\ minted \in Nat
    <2>1. \A s \in InUse(session) : session[s] \in SessionRows
      BY TableFacts
    <2>2. \A q \in Request : \A s \in DOMAIN x0(q) : x0(q)[s] \in SessionRows
      BY RequestFacts, WritesFacts
    <2>3. request'[p].writes \in WriteRows
      BY DEF Requests
    <2>4. \A s \in DOMAIN w : w[s] \in SessionRows
      BY <2>3, WritesFacts
    <2>5. minted \in Nat /\ \A t \in superseded : t \in Nat
      BY DEF TypeOK
    <2> QED
      BY <2>1, <2>2, <2>4, <2>5 DEF SessionRows
  <1>2. \A q \in Request \ {p} : request'[q].writes.session = x0(q)
    OBVIOUS
  <1>3. \A s \in DOMAIN w :
          \/ /\ IsRevoked(w[s]) /\ s \in InUse(session) /\ w[s].token = session[s].token
          \/ DOMAIN w = {s} /\ w[s].token = minted + 1 /\ minted' = minted + 1
    BY DEF TokensFine
  <1>4. /\ \A s, x \in InUse(session) : session[s].token = session[x].token => s = x
        /\ \A s \in InUse(session) :
             /\ session[s].token <= minted
             /\ ~IsRevoked(session[s]) => session[s].token \notin superseded
        /\ \A t \in superseded : t <= minted
    BY DEF TokensApart
  <1>5. \A q \in Request : \A s \in DOMAIN x0(q) :
          /\ x0(q)[s].token <= minted
          /\ ~IsRevoked(x0(q)[s]) => x0(q)[s].token \notin superseded
          /\ \A x \in InUse(session) :
               x0(q)[s].token = session[x].token => s = x /\ IsRevoked(x0(q)[s])
          /\ \A o \in Request : \A x \in DOMAIN x0(o) :
               x0(q)[s].token = x0(o)[x].token => s = x /\ (q = o \/ IsRevoked(x0(q)[s]))
    BY DEF TokensApart
  <1>6. InUse(session)' = InUse(session)
    BY DEF InUse
  <1> HIDE DEF w, x0
  <1>7. \A s \in DOMAIN w :
          /\ w[s].token <= minted'
          /\ ~IsRevoked(w[s]) => w[s].token \notin superseded
          /\ \A x \in InUse(session) :
               w[s].token = session[x].token => s = x /\ IsRevoked(w[s])
          /\ \A x \in DOMAIN w : w[s].token = w[x].token => s = x
          /\ \A q \in Request \ {p} : \A x \in DOMAIN x0(q) :
               w[s].token = x0(q)[x].token => s = x /\ IsRevoked(w[s]) /\ IsRevoked(x0(q)[x])
    <2> SUFFICES ASSUME NEW s \in DOMAIN w
                 PROVE  /\ w[s].token <= minted'
                        /\ ~IsRevoked(w[s]) => w[s].token \notin superseded
                        /\ \A x \in InUse(session) :
                             w[s].token = session[x].token => s = x /\ IsRevoked(w[s])
                        /\ \A x \in DOMAIN w : w[s].token = w[x].token => s = x
                        /\ \A q \in Request \ {p} : \A x \in DOMAIN x0(q) :
                             w[s].token = x0(q)[x].token =>
                               s = x /\ IsRevoked(w[s]) /\ IsRevoked(x0(q)[x])
      OBVIOUS
    <2>1. CASE IsRevoked(w[s]) /\ s \in InUse(session) /\ w[s].token = session[s].token
      <3>1. w[s].token <= minted'
        BY <1>1, <1>4, <2>1
      <3>2. \A x \in InUse(session) : w[s].token = session[x].token => s = x
        BY <1>4, <2>1
      <3>3. \A x \in DOMAIN w : w[s].token = w[x].token => s = x
        BY <1>1, <1>3, <1>4, <2>1
      <3>4. \A q \in Request : \A x \in DOMAIN x0(q) :
              w[s].token = x0(q)[x].token => s = x /\ IsRevoked(x0(q)[x])
        BY <1>5, <2>1
      <3> QED
        BY <2>1, <3>1, <3>2, <3>3, <3>4
    <2>2. CASE DOMAIN w = {s} /\ w[s].token = minted + 1 /\ minted' = minted + 1
      <3>1. w[s].token <= minted' /\ w[s].token \notin superseded
        BY <1>1, <1>4, <2>2
      <3>2. \A x \in InUse(session) : w[s].token # session[x].token
        BY <1>1, <1>4, <2>2
      <3>3. \A q \in Request : \A x \in DOMAIN x0(q) : w[s].token # x0(q)[x].token
        BY <1>1, <1>5, <2>2
      <3> QED
        BY <2>2, <3>1, <3>2, <3>3
    <2> QED
      BY <1>3, <2>1, <2>2
  <1>8. ASSUME NEW q \in Request, NEW s \in DOMAIN request'[q].writes.session
        PROVE  LET row == request'[q].writes.session[s] IN
               /\ row.token <= minted'
               /\ ~IsRevoked(row) => row.token \notin superseded
               /\ \A x \in InUse(session) :
                    row.token = session[x].token => s = x /\ IsRevoked(row)
               /\ \A o \in Request : \A x \in DOMAIN request'[o].writes.session :
                    row.token = request'[o].writes.session[x].token =>
                      s = x /\ (q = o \/ IsRevoked(row))
    <2>1. CASE q = p
      BY <1>2, <1>7, <2>1 DEF w
    <2>2. CASE q # p
      <3>1. request'[q].writes.session = x0(q)
        BY <1>2, <2>2
      <3>2. x0(q)[s].token <= minted'
        BY <1>1, <1>5, <3>1
      <3>3. \A x \in DOMAIN w :
              x0(q)[s].token = w[x].token => s = x /\ IsRevoked(x0(q)[s])
        BY <1>7, <2>2, <3>1
      <3>4. ASSUME NEW o \in Request, NEW x \in DOMAIN request'[o].writes.session,
                   x0(q)[s].token = request'[o].writes.session[x].token
            PROVE  s = x /\ (q = o \/ IsRevoked(x0(q)[s]))
        <4>1. CASE o = p
          BY <3>3, <3>4, <4>1 DEF w
        <4>2. CASE o # p
          BY <1>2, <1>5, <3>1, <3>4, <4>2
        <4> QED
          BY <4>1, <4>2
      <3> QED
        BY <1>5, <3>1, <3>2, <3>4
    <2> QED
      BY <2>1, <2>2
  <1>9. /\ \A s \in InUse(session) : session[s].token <= minted'
        /\ \A t \in superseded : t <= minted'
    BY <1>1, <1>4
  <1> QED
    BY <1>4, <1>6, <1>8, <1>9 DEF TokensApart

LEMMA RequestMoves ==
  ASSUME IInv, NEW p \in Request, Reading, request' \in [Request -> Requests],
         \A q \in Request \ {p} : request'[q] = request[q],
         minted' \in 0..MaxToken, minted <= minted', served' \in 0..MaxServed,
         OwnFine(request'[p]), TokensFine(request'[p].writes),
         request'[p].phase = "locked" => ~Locked(request'[p].caller),
         ListsThem(request'[p])
  PROVE  IInv'
  <1>1. UNCHANGED <<user, session, link, overwrote, superseded>>
    BY DEF Reading, tables
  <1>2. TypeOK'
    BY <1>1 DEF IInv, TypeOK, KeysHold, InUse
  <1>3. TokensApart'
    BY <1>1, TokensMove DEF IInv, TypeOK
  <1>4. LocksApart'
    BY DEF IInv, LocksApart, Locked
  <1>5. ASSUME NEW q \in Request
        PROVE  OwnFine(request'[q])
    BY DEF IInv
  <1>6. SessionsShut' = SessionsShut
    BY <1>1 DEF SessionsShut, SessionsOf, InUse
  <1>7. overwrote' = {} => \A q \in Request : ListsThem(request[q])'
    BY <1>1 DEF IInv, ListsThem, SessionsOf, InUse
  <1> QED
    BY <1>1, <1>2, <1>3, <1>4, <1>5, <1>6, <1>7 DEF IInv
\* What a command may save of a user row it has read.
MaySaveUser(u, new) ==
  /\ user[u] # Absent =>
       /\ user[u].status = "deletion_requested" => new.status = "deletion_requested"
       /\ new.lock >= user[u].lock
  /\ new.status = "deletion_requested" =>
       user[u] # Absent /\ user[u].status = "deletion_requested"

\* What it may save of a session, with the rows it saves of users.
MaySaveSession(s, new, users) ==
  /\ session[s] # Absent /\ IsRevoked(session[s]) => IsRevoked(new)
  /\ ~IsRevoked(new) =>
       \/ new.user \in DOMAIN users /\ users[new.user].status = "active"
       \/ /\ users = Nothing /\ session[s] # Absent /\ ~IsRevoked(session[s])
          /\ session[s].user = new.user /\ session[s].left = new.left

LEMMA DecideInv ==
  ASSUME IInv, NEW p \in Request, NEW w \in WriteRows, Decide(p, w), Reading,
         minted' \in 0..MaxToken, minted <= minted', served' \in 0..MaxServed,
         TokensFine(w),
         \A u \in DOMAIN w.user : MaySaveUser(u, w.user[u]),
         \A s \in DOMAIN w.session : MaySaveSession(s, w.session[s], w.user)
  PROVE  IInv'
  <1>1. /\ request[p] \in Requests /\ ReadsOf(w) \in ReadRows
        /\ request \in [Request -> Requests]
    BY ReadsType DEF IInv, TypeOK
  <1> DEFINE r == [request[p] EXCEPT !.phase = "decided", !.reads = ReadsOf(w), !.writes = w]
  <1>2. request' = [request EXCEPT ![p] = r]
    BY DEF Decide
  <1>3. /\ r \in Requests
        /\ r.phase = "decided" /\ r.reads = ReadsOf(w) /\ r.writes = w
    BY <1>1 DEF Requests
  <1> HIDE DEF r
  <1>4. /\ request'[p] = r /\ request' \in [Request -> Requests]
        /\ \A q \in Request \ {p} : request'[q] = request[q]
    BY <1>1, <1>2, <1>3
  <1>5. /\ \A u \in DOMAIN w.user :
             u \in DOMAIN r.reads.user /\ r.reads.user[u] = user[u]
        /\ \A s \in DOMAIN w.session :
             s \in DOMAIN r.reads.session /\ r.reads.session[s] = session[s]
    BY <1>3 DEF ReadsOf
  <1>6. \A u \in DOMAIN r.writes.user : UserSaved(r, u)
    BY <1>3, <1>5 DEF UserSaved, MaySaveUser
  <1>7. \A s \in DOMAIN r.writes.session : SessionSaved(r, s)
    BY <1>3, <1>5 DEF SessionSaved, MaySaveSession
  <1>8. OwnFine(r) /\ TokensFine(r.writes) /\ ListsThem(r) /\ r.phase # "locked"
    BY <1>3, <1>6, <1>7 DEF OwnFine, ListsThem
  <1> QED
    BY <1>4, <1>8, RequestMoves

LEMMA StartFacts ==
  ASSUME IInv, NEW p \in Request, Start(p)
  PROVE  served' \in 0..MaxServed
  BY TimeAssumption DEF Start, IInv, TypeOK

LEMMA Keeps ==
  ASSUME IInv, UNCHANGED minted
  PROVE  minted' \in 0..MaxToken /\ minted <= minted'
  BY DEF IInv, TypeOK

LEMMA Mints ==
  ASSUME IInv, NEW t \in 1..MaxToken, Mint(t)
  PROVE  /\ minted' \in 0..MaxToken /\ minted <= minted'
         /\ t = minted + 1 /\ minted' = minted + 1
  BY DEF IInv, TypeOK, Mint

\* The rows commands save.
LEMMA RowFacts ==
  /\ \A e \in Email : Registered(e) \in UserRows
  /\ \A u \in User : Issued(u) \in LinkRows
  /\ \A u \in User, t \in 1..MaxToken : Opened(u, t) \in SessionRows
  /\ \A row \in UserRows : /\ Verified(row) \in UserRows /\ Missed(row) \in UserRows
                           /\ Cleared(row) \in UserRows /\ Leaving(row) \in UserRows
  /\ \A row \in SessionRows :
       Revoked(row) \in SessionRows /\ \A t \in 1..MaxToken : Rotated(row, t) \in SessionRows
  <1>1. /\ MaxAttempts \in Nat \ {0} /\ Lockout \in Nat \ {0} /\ Lifetime \in Nat \ {0}
        /\ LinkLife \in Nat \ {0} /\ Keep \in Nat \ {0} /\ MaxToken \in Nat
    BY TimeAssumption
  <1>2. \A e \in Email : Registered(e) \in UserRows
    BY <1>1 DEF Registered, UserRows
  <1>3. \A u \in User : Issued(u) \in LinkRows
    BY <1>1 DEF Issued, LinkRows
  <1>4. \A u \in User, t \in 1..MaxToken : Opened(u, t) \in SessionRows
    BY <1>1 DEF Opened, SessionRows, NoToken, Never
  <1>5. ASSUME NEW row \in UserRows
        PROVE  /\ Verified(row) \in UserRows /\ Missed(row) \in UserRows
               /\ Cleared(row) \in UserRows /\ Leaving(row) \in UserRows
    <2> 0 \in 0..Keep /\ 0 \in 0..Lockout /\ 0 \in 0..MaxAttempts
      BY <1>1
    <2>1. Verified(row) \in UserRows
      BY DEF Verified, UserRows
    <2>2. Cleared(row) \in UserRows
      BY DEF Cleared, UserRows
    <2>3. Leaving(row) \in UserRows
      BY DEF Leaving, UserRows
    <2>4. Missed(row) \in UserRows
      <3> DEFINE failed == IF row.failed < MaxAttempts THEN row.failed + 1 ELSE row.failed
                 lock == IF row.failed + 1 >= MaxAttempts THEN Lockout ELSE row.lock
      <3>1. failed \in 0..MaxAttempts /\ lock \in 0..Lockout
        BY <1>1 DEF UserRows
      <3>2. Missed(row) = [row EXCEPT !.failed = failed, !.lock = lock]
        BY DEF Missed
      <3> HIDE DEF failed, lock
      <3> QED
        BY <3>1, <3>2 DEF UserRows
    <2> QED
      BY <2>1, <2>2, <2>3, <2>4
  <1>6. ASSUME NEW row \in SessionRows
        PROVE  Revoked(row) \in SessionRows
               /\ \A t \in 1..MaxToken : Rotated(row, t) \in SessionRows
    <2>1. Revoked(row) \in SessionRows
      BY <1>1 DEF Revoked, SessionRows, Never
    <2>2. ASSUME NEW t \in 1..MaxToken
          PROVE  Rotated(row, t) \in SessionRows
      <3>1. row.token \in 0..MaxToken
        BY <1>1 DEF SessionRows
      <3> QED
        BY <3>1 DEF Rotated, SessionRows
    <2> QED
      BY <2>1, <2>2
  <1> QED
    BY <1>2, <1>3, <1>4, <1>5, <1>6
LEMMA FreshFacts ==
  /\ \A u : Fresh(u, "user") => u \in DOMAIN user /\ user[u] = Absent
  /\ \A s : Fresh(s, "session") => s \in DOMAIN session /\ session[s] = Absent
  /\ \A v : Fresh(v, "link") => v \in DOMAIN link /\ link[v] = Absent
  BY DEF Fresh, Table

LEMMA AccountFacts ==
  ASSUME TypeOK, NEW e, NEW u \in AccountsAt(e)
  PROVE  u \in User /\ user[u] \in UserRows /\ user[u] # Absent
  BY TableFacts DEF AccountsAt

\* Links only.
LEMMA LinkSaveInv ==
  ASSUME IInv, NEW p \in Request, NEW c \in SomeOf(Link, LinkRows), Start(p),
         Decide(p, [NoRows EXCEPT !.link = c]), Reading, UNCHANGED minted
  PROVE  IInv'
  <1> DEFINE w == [NoRows EXCEPT !.link = c]
  <1>1. w \in WriteRows /\ DOMAIN w.user = {} /\ DOMAIN w.session = {}
    BY NothingFacts DEF NoRows, WriteRows
  <1>2. TokensFine(w)
    BY <1>1 DEF TokensFine
  <1> QED
    BY <1>1, <1>2, DecideInv, StartFacts, Keeps

\* A user row, and no session.
LEMMA UserSaveInv ==
  ASSUME IInv, NEW p \in Request, NEW u \in User, NEW new \in UserRows, NEW w \in WriteRows,
         w.user = One(u, new), w.session = Nothing, MaySaveUser(u, new), Start(p),
         Decide(p, w), Reading, UNCHANGED minted
  PROVE  IInv'
  <1>1. DOMAIN w.user = {u} /\ w.user[u] = new /\ DOMAIN w.session = {}
    BY NothingFacts DEF One
  <1>2. TokensFine(w)
    BY <1>1 DEF TokensFine
  <1> QED
    BY <1>1, <1>2, DecideInv, StartFacts, Keeps

\* A session that is revoked.
LEMMA RevokeInv ==
  ASSUME IInv, NEW p \in Request, NEW s \in Session, session[s] # Absent,
         Decide(p, [NoRows EXCEPT !.session = One(s, Revoked(session[s]))]),
         Reading, UNCHANGED minted, served' \in 0..MaxServed
  PROVE  IInv'
  <1> DEFINE w == [NoRows EXCEPT !.session = One(s, Revoked(session[s]))]
  <1>1. session[s] \in SessionRows /\ s \in InUse(session)
    BY TableFacts DEF IInv
  <1>2. Revoked(session[s]) \in SessionRows
    BY <1>1, RowFacts
  <1>3. One(s, Revoked(session[s])) \in SomeOf(Session, SessionRows)
    BY <1>2, OneFacts
  <1>4. Nothing \in SomeOf(User, UserRows) /\ Nothing \in SomeOf(Link, LinkRows)
    BY NothingFacts
  <1>5. /\ w \in WriteRows /\ DOMAIN w.user = {}
        /\ DOMAIN w.session = {s} /\ w.session[s] = Revoked(session[s])
    <2>1. w \in WriteRows
      BY <1>3, <1>4 DEF NoRows, WriteRows
    <2>2. w.user = Nothing /\ w.session = One(s, Revoked(session[s]))
      BY DEF NoRows
    <2> QED
      BY <2>1, <2>2, NothingFacts DEF One
  <1>6. /\ IsRevoked(Revoked(session[s])) /\ Revoked(session[s]).token = session[s].token
    BY <1>1 DEF Revoked, IsRevoked, Never, SessionRows
  <1>7. TokensFine(w)
    BY <1>1, <1>5, <1>6 DEF TokensFine
  <1>8. MaySaveSession(s, w.session[s], w.user)
    BY <1>5, <1>6 DEF MaySaveSession
  <1> HIDE DEF w
  <1> QED
    BY <1>5, <1>7, <1>8, DecideInv, Keeps DEF w

LEMMA RegisterUserInv ==
  ASSUME IInv, NEW p \in Request, NEW e \in Email, RegisterUser(p, e)
  PROVE  IInv'
  <1>1. PICK u \in User, v \in Link :
          /\ Fresh(u, "user") /\ Fresh(v, "link")
          /\ Decide(p, [NoRows EXCEPT !.user = One(u, Registered(e)),
                                      !.link = One(v, Issued(u))])
    BY DEF RegisterUser
  <1> DEFINE w == [NoRows EXCEPT !.user = One(u, Registered(e)), !.link = One(v, Issued(u))]
  <1>2. Registered(e) \in UserRows /\ Issued(u) \in LinkRows
    BY RowFacts
  <1>3. w \in WriteRows /\ w.user = One(u, Registered(e)) /\ w.session = Nothing
    BY <1>2, OneFacts, NothingFacts DEF NoRows, WriteRows
  <1>4. MaySaveUser(u, Registered(e))
    BY <1>1, FreshFacts DEF MaySaveUser, Registered
  <1>5. Start(p) /\ Reading /\ UNCHANGED minted /\ Decide(p, w)
    BY <1>1 DEF RegisterUser
  <1> HIDE DEF w
  <1> QED
    BY <1>2, <1>3, <1>4, <1>5, UserSaveInv

LEMMA VerifyEmailInv ==
  ASSUME IInv, NEW p \in Request, NEW v \in Link, VerifyEmail(p, v)
  PROVE  IInv'
  <1> DEFINE u == link[v].user
             spent == [link[v] EXCEPT !.spent = "consumed"]
             w == [NoRows EXCEPT !.user = One(u, Verified(user[u])), !.link = One(v, spent)]
  <1>1. /\ Start(p) /\ Reading /\ UNCHANGED minted /\ Decide(p, w)
        /\ link[v] # Absent /\ user[u] # Absent /\ user[u].status = "pending_verification"
    BY DEF VerifyEmail
  <1>2. link[v] \in LinkRows
    BY <1>1, TableFacts DEF IInv
  <1>3. u \in User /\ spent \in LinkRows
    BY <1>2 DEF LinkRows
  <1>4. user[u] \in UserRows
    BY <1>1, <1>3, TableFacts DEF IInv
  <1>5. Verified(user[u]) \in UserRows
    BY <1>4, RowFacts
  <1>6. MaySaveUser(u, Verified(user[u]))
    BY <1>1, <1>4 DEF MaySaveUser, Verified, UserRows
  <1> HIDE DEF u, spent
  <1>7. w \in WriteRows /\ w.user = One(u, Verified(user[u])) /\ w.session = Nothing
    BY <1>3, <1>5, OneFacts, NothingFacts DEF NoRows, WriteRows
  <1> HIDE DEF w
  <1> QED
    BY <1>1, <1>3, <1>5, <1>6, <1>7, UserSaveInv

LEMMA ResendVerificationInv ==
  ASSUME IInv, NEW p \in Request, NEW e \in Email, ResendVerification(p, e)
  PROVE  IInv'
  <1>1. /\ Start(p) /\ Reading /\ UNCHANGED minted
    BY DEF ResendVerification
  <1>2. PICK u \in AccountsAt(e), v \in Link, old \in SUBSET InUse(link) :
          Decide(p, [NoRows EXCEPT !.link =
            [w \in old \cup {v} |->
               IF w = v THEN Issued(u) ELSE [link[w] EXCEPT !.spent = "superseded"]]])
    BY DEF ResendVerification
  <1> DEFINE c == [w \in old \cup {v} |->
                     IF w = v THEN Issued(u) ELSE [link[w] EXCEPT !.spent = "superseded"]]
  <1>3. c \in SomeOf(Link, LinkRows)
    <2>1. u \in User
      BY AccountFacts DEF IInv
    <2>2. Issued(u) \in LinkRows
      BY <2>1, RowFacts
    <2>3. \A x \in old : x \in Link /\ link[x] \in LinkRows
      BY TableFacts DEF IInv
    <2>4. \A x \in old : [link[x] EXCEPT !.spent = "superseded"] \in LinkRows
      BY <2>3 DEF LinkRows
    <2>5. c \in [old \cup {v} -> LinkRows]
      BY <2>2, <2>4
    <2>6. old \cup {v} \in SUBSET Link
      BY <2>3
    <2> QED
      BY <2>5, <2>6, PartialType
  <1> HIDE DEF c
  <1> QED
    BY <1>1, <1>2, <1>3, LinkSaveInv DEF c

LEMMA SignInFailsInv ==
  ASSUME IInv, NEW p \in Request, NEW e \in Email, SignInFails(p, e)
  PROVE  IInv'
  <1>1. PICK u \in AccountsAt(e) :
          /\ user[u].lock = 0
          /\ Decide(p, [NoRows EXCEPT !.user = One(u, Missed(user[u]))])
    BY DEF SignInFails
  <1> DEFINE w == [NoRows EXCEPT !.user = One(u, Missed(user[u]))]
  <1>2. u \in User /\ user[u] \in UserRows /\ user[u] # Absent
    BY AccountFacts DEF IInv
  <1>3. Missed(user[u]) \in UserRows
    BY <1>2, RowFacts
  <1>4. w \in WriteRows /\ w.user = One(u, Missed(user[u])) /\ w.session = Nothing
    BY <1>2, <1>3, OneFacts, NothingFacts DEF NoRows, WriteRows
  <1>5. Missed(user[u]).status = user[u].status
    BY <1>2 DEF Missed, UserRows
  <1>6. Missed(user[u]).lock >= 0
    BY <1>3, TimeAssumption DEF UserRows
  <1>7. MaySaveUser(u, Missed(user[u]))
    BY <1>1, <1>2, <1>5, <1>6 DEF MaySaveUser
  <1>8. Start(p) /\ Reading /\ UNCHANGED minted /\ Decide(p, w)
    BY <1>1 DEF SignInFails
  <1> HIDE DEF w
  <1> QED
    BY <1>2, <1>3, <1>4, <1>7, <1>8, UserSaveInv
LEMMA SignInInv ==
  ASSUME IInv, NEW p \in Request, NEW e \in Email, SignIn(p, e)
  PROVE  IInv'
  <1>1. PICK u \in AccountsAt(e), s \in Session, t \in 1..MaxToken :
          /\ user[u].lock = 0 /\ user[u].status = "active"
          /\ Fresh(s, "session") /\ Mint(t)
          /\ Decide(p, [NoRows EXCEPT !.user = One(u, Cleared(user[u])),
                                      !.session = One(s, Opened(u, t))])
    BY DEF SignIn
  <1> DEFINE w == [NoRows EXCEPT !.user = One(u, Cleared(user[u])),
                                 !.session = One(s, Opened(u, t))]
  <1>2. u \in User /\ user[u] \in UserRows /\ user[u] # Absent
    BY AccountFacts DEF IInv
  <1>3. Cleared(user[u]) \in UserRows /\ Opened(u, t) \in SessionRows
    BY <1>2, RowFacts
  <1>4. w \in WriteRows
    BY <1>2, <1>3, OneFacts, NothingFacts DEF NoRows, WriteRows
  <1>5. /\ DOMAIN w.user = {u} /\ w.user[u] = Cleared(user[u])
        /\ DOMAIN w.session = {s} /\ w.session[s] = Opened(u, t)
    BY DEF NoRows, One
  <1>6. /\ Cleared(user[u]).status = "active" /\ Cleared(user[u]).lock = 0
        /\ Opened(u, t).token = t /\ Opened(u, t).user = u
    BY <1>1, <1>2 DEF Cleared, Opened, UserRows
  <1>7. minted' \in 0..MaxToken /\ minted <= minted' /\ TokensFine(w)
    BY <1>1, <1>5, <1>6, Mints DEF TokensFine
  <1>8. MaySaveUser(u, w.user[u])
    BY <1>1, <1>5, <1>6 DEF MaySaveUser
  <1>9. MaySaveSession(s, w.session[s], w.user)
    BY <1>1, <1>5, <1>6, FreshFacts DEF MaySaveSession
  <1>10. Start(p) /\ Reading /\ Decide(p, w)
    BY <1>1 DEF SignIn
  <1> HIDE DEF w
  <1> QED
    BY <1>4, <1>5, <1>7, <1>8, <1>9, <1>10, DecideInv, StartFacts

LEMMA ReplayInv ==
  ASSUME IInv, NEW p \in Request, NEW s \in Session, Replay(p, s)
  PROVE  IInv'
  BY RevokeInv, StartFacts DEF Replay

LEMMA RevokeSessionInv ==
  ASSUME IInv, NEW p \in Request, NEW s \in Session, RevokeSession(p, s)
  PROVE  IInv'
  <1>1. served' \in 0..MaxServed
    BY DEF RevokeSession, IInv, TypeOK
  <1> QED
    BY <1>1, RevokeInv DEF RevokeSession

LEMMA RenewSessionInv ==
  ASSUME IInv, NEW p \in Request, NEW s \in Session, RenewSession(p, s)
  PROVE  IInv'
  <1>1. PICK t \in 1..MaxToken :
          Mint(t) /\ Decide(p, [NoRows EXCEPT !.session = One(s, Rotated(session[s], t))])
    BY DEF RenewSession
  <1> DEFINE w == [NoRows EXCEPT !.session = One(s, Rotated(session[s], t))]
  <1>2. session[s] # Absent /\ session[s] \in SessionRows /\ ~IsRevoked(session[s])
    BY TableFacts DEF RenewSession, IInv, IsUsable
  <1>3. Rotated(session[s], t) \in SessionRows
    BY <1>2, RowFacts
  <1>4. w \in WriteRows
    BY <1>2, <1>3, OneFacts, NothingFacts DEF NoRows, WriteRows
  <1>5. w.user = Nothing /\ DOMAIN w.session = {s} /\ w.session[s] = Rotated(session[s], t)
    BY DEF NoRows, One
  <1>6. /\ Rotated(session[s], t).token = t
        /\ Rotated(session[s], t).user = session[s].user
        /\ Rotated(session[s], t).left = session[s].left
    BY <1>2 DEF Rotated, SessionRows
  <1>7. minted' \in 0..MaxToken /\ minted <= minted' /\ TokensFine(w)
    BY <1>1, <1>5, <1>6, Mints DEF TokensFine
  <1>8. MaySaveSession(s, w.session[s], w.user) /\ DOMAIN w.user = {}
    BY <1>2, <1>5, <1>6, NothingFacts DEF MaySaveSession
  <1>9. Start(p) /\ Reading /\ Decide(p, w)
    BY <1>1 DEF RenewSession
  <1> HIDE DEF w
  <1> QED
    BY <1>4, <1>5, <1>7, <1>8, <1>9, DecideInv, StartFacts

------------------------------------------------------------------------------
(* Steps of one request that are not a plain decision *)

LEMMA EmptyWrites ==
  ASSUME NEW w, w.session = Nothing
  PROVE  TokensFine(w)
  BY NothingFacts DEF TokensFine

LEMMA AuthenticateSessionInv ==
  ASSUME IInv, NEW p \in Request, NEW s \in Session, AuthenticateSession(p, s)
  PROVE  IInv'
  <1>1. request[p] \in Requests /\ request[p].phase = "idle" /\ OwnFine(request[p])
    BY DEF IInv, TypeOK, AuthenticateSession, Start, Ready
  <1>2. session[s].user \in User
    BY TableFacts DEF IInv, AuthenticateSession, SessionRows
  <1> DEFINE r == [request[p] EXCEPT !.phase = "admitted", !.caller = session[s].user]
  <1>3. request' = [request EXCEPT ![p] = r]
    BY DEF AuthenticateSession
  <1>4. /\ r \in Requests /\ r.phase = "admitted" /\ r.writes = request[p].writes
        /\ r.caller \in User
    BY <1>1, <1>2 DEF Requests
  <1>5. r.writes = NoRows /\ NoRows.user = Nothing /\ NoRows.session = Nothing
    BY <1>1, <1>4 DEF OwnFine, NoRows
  <1> HIDE DEF r
  <1>6. OwnFine(r) /\ TokensFine(r.writes) /\ ListsThem(r) /\ r.phase # "locked"
    BY <1>4, <1>5, NothingFacts, EmptyWrites DEF OwnFine, ListsThem
  <1>7. /\ request'[p] = r /\ request' \in [Request -> Requests]
        /\ \A q \in Request \ {p} : request'[q] = request[q]
    BY <1>3, <1>4 DEF IInv, TypeOK
  <1>8. Reading /\ UNCHANGED minted /\ served' \in 0..MaxServed
    BY StartFacts DEF AuthenticateSession
  <1> QED
    BY <1>6, <1>7, <1>8, RequestMoves, Keeps

LEMMA RequestAccountDeletionInv ==
  ASSUME IInv, NEW p \in Request, RequestAccountDeletion(p)
  PROVE  IInv'
  <1> DEFINE u == request[p].caller
             reads == [NoRows EXCEPT !.user = One(u, user[u])]
             writes == [NoRows EXCEPT !.user = One(u, Leaving(user[u]))]
             r == [request[p] EXCEPT !.phase = "leaving", !.reads = reads, !.writes = writes]
  <1>1. /\ user[u] # Absent /\ user[u].status # "pending_verification"
        /\ request' = [request EXCEPT ![p] = r]
        /\ Reading /\ UNCHANGED <<minted, served>>
    BY DEF RequestAccountDeletion
  <1>2. request[p] \in Requests /\ u \in User \cup {0}
    BY RequestFacts DEF IInv
  <1>3. u \in User /\ user[u] \in UserRows
    BY <1>1, TableFacts DEF RequestAccountDeletion, IInv, OwnFine
  <1>4. Leaving(user[u]) \in UserRows
    BY <1>3, RowFacts
  <1>5. reads \in ReadRows /\ writes \in WriteRows
    BY <1>3, <1>4, OneFacts, NothingFacts DEF NoRows, ReadRows, WriteRows
  <1>6. /\ DOMAIN writes.user = {u} /\ writes.user[u] = Leaving(user[u])
        /\ writes.session = Nothing
        /\ DOMAIN reads.user = {u} /\ reads.user[u] = user[u]
    BY DEF NoRows, One
  <1>7. /\ user[u].status = "deletion_requested" =>
             Leaving(user[u]).status = "deletion_requested"
        /\ Leaving(user[u]).lock = user[u].lock /\ user[u].lock \in Nat
    BY <1>3, TimeAssumption DEF Leaving, UserRows
  <1> HIDE DEF reads, writes
  <1>8. /\ r \in Requests /\ r.phase = "leaving" /\ r.caller = u
        /\ r.reads = reads /\ r.writes = writes
    BY <1>2, <1>5 DEF Requests
  <1> HIDE DEF r
  <1>9. UserSaved(r, u)
    BY <1>1, <1>6, <1>7, <1>8 DEF UserSaved
  <1>10. OwnFine(r) /\ TokensFine(r.writes) /\ ListsThem(r) /\ r.phase # "locked"
    BY <1>3, <1>6, <1>8, <1>9, NothingFacts, EmptyWrites DEF OwnFine, ListsThem
  <1>11. /\ request'[p] = r /\ request' \in [Request -> Requests]
         /\ \A q \in Request \ {p} : request'[q] = request[q]
    BY <1>1, <1>8 DEF IInv, TypeOK
  <1>12. served' \in 0..MaxServed
    BY <1>1 DEF IInv, TypeOK
  <1> QED
    BY <1>1, <1>10, <1>11, <1>12, RequestMoves, Keeps

LEMMA RevokeAllSessionsInv ==
  ASSUME IInv, NEW p \in Request, RevokeAllSessions(p)
  PROVE  IInv'
  <1> DEFINE u == request[p].caller
             old == [s \in SessionsOf(u) |-> session[s]]
             new == [s \in SessionsOf(u) |-> Revoked(session[s])]
             r == [request[p] EXCEPT !.phase = "locked",
                     !.reads = [request[p].reads EXCEPT !.session = old],
                     !.writes = [request[p].writes EXCEPT !.session = new]]
  <1>1. /\ request[p].phase = "leaving" /\ ~Locked(u)
        /\ Reading /\ UNCHANGED <<minted, served>>
        /\ request[p] \in Requests /\ OwnFine(request[p])
        /\ request[p].reads \in ReadRows /\ request[p].writes \in WriteRows
    BY RequestFacts DEF RevokeAllSessions, IInv
  <1>2. request' = [request EXCEPT ![p] = r]
    BY <1>1 DEF RevokeAllSessions, Requests, ReadRows, WriteRows, IInv, TypeOK
  <1>3. /\ SessionsOf(u) \in SUBSET Session
        /\ \A s \in SessionsOf(u) :
             s \in InUse(session) /\ session[s] \in SessionRows /\ session[s] # Absent
    BY TableFacts DEF IInv, SessionsOf
  <1>4. \A s \in SessionsOf(u) :
          /\ Revoked(session[s]) \in SessionRows /\ IsRevoked(Revoked(session[s]))
          /\ Revoked(session[s]).token = session[s].token
    <2>1. \A row \in SessionRows : IsRevoked(Revoked(row)) /\ Revoked(row).token = row.token
      BY DEF Revoked, IsRevoked, Never, SessionRows
    <2> QED
      BY <1>3, <2>1, RowFacts
  <1>5. /\ old \in SomeOf(Session, SessionRows \cup {Absent})
        /\ new \in SomeOf(Session, SessionRows)
    <2>1. /\ old \in [SessionsOf(u) -> SessionRows \cup {Absent}]
          /\ new \in [SessionsOf(u) -> SessionRows]
      BY <1>3, <1>4
    <2> QED
      BY <1>3, <2>1, PartialType
  <1>6. /\ DOMAIN new = SessionsOf(u) /\ DOMAIN old = SessionsOf(u)
        /\ \A s \in SessionsOf(u) : new[s] = Revoked(session[s])
    OBVIOUS
  <1> HIDE DEF old, new
  <1>7. /\ [request[p].reads EXCEPT !.session = old] \in ReadRows
        /\ [request[p].writes EXCEPT !.session = new] \in WriteRows
    BY <1>1, <1>5 DEF ReadRows, WriteRows
  <1>8. /\ r \in Requests /\ r.phase = "locked" /\ r.caller = u
        /\ r.reads.session = old /\ r.writes.session = new
        /\ r.reads.user = request[p].reads.user /\ r.writes.user = request[p].writes.user
    BY <1>1, <1>7 DEF Requests, ReadRows, WriteRows
  <1> HIDE DEF r
  <1>9. \A v \in DOMAIN r.writes.user : UserSaved(r, v)
    BY <1>1, <1>8 DEF OwnFine, UserSaved
  <1>10. \A s \in DOMAIN r.writes.session : SessionSaved(r, s)
    BY <1>4, <1>6, <1>8 DEF SessionSaved
  <1>11. OwnFine(r) /\ ListsThem(r)
    BY <1>1, <1>6, <1>8, <1>9, <1>10 DEF OwnFine, ListsThem
  <1>12. TokensFine(r.writes)
    BY <1>3, <1>4, <1>6, <1>8 DEF TokensFine
  <1>13. /\ request'[p] = r /\ request' \in [Request -> Requests]
         /\ \A q \in Request \ {p} : request'[q] = request[q]
    BY <1>2, <1>8 DEF IInv, TypeOK
  <1>14. served' \in 0..MaxServed
    BY <1>1 DEF IInv, TypeOK
  <1> QED
    BY <1>1, <1>8, <1>11, <1>12, <1>13, <1>14, RequestMoves, Keeps

LEMMA EndInv ==
  ASSUME IInv, NEW p \in Request, End(p)
  PROVE  IInv'
  <1>1. /\ request' = [request EXCEPT ![p] = Idle]
        /\ Reading /\ UNCHANGED <<minted, served>>
    BY DEF End
  <1>2. Idle.phase = "idle" /\ Idle.writes.session = Nothing
    BY DEF Idle, NoRows
  <1>3. TokensFine(Idle.writes) /\ ListsThem(Idle) /\ Idle.phase # "locked"
    BY <1>2, EmptyWrites DEF ListsThem
  <1>4. /\ request'[p] = Idle /\ request' \in [Request -> Requests]
        /\ \A q \in Request \ {p} : request'[q] = request[q]
        /\ served' \in 0..MaxServed
    BY <1>1, IdleFacts DEF IInv, TypeOK
  <1> QED
    BY <1>1, <1>3, <1>4, IdleFacts, RequestMoves, Keeps
------------------------------------------------------------------------------
(* Commit *)

LEMMA OverFacts ==
  ASSUME NEW S, NEW R, NEW table \in [S -> R \cup {Absent}], NEW new \in SomeOf(S, R)
  PROVE  /\ Over(new, table) \in [S -> R \cup {Absent}]
         /\ \A k \in S : Over(new, table)[k] =
              IF k \in DOMAIN new THEN new[k] ELSE table[k]
  BY PartialFacts DEF Over

\* What a commit writes; and who finds the rows of a table as they were read.
LEMMA CommitFacts ==
  ASSUME IInv, NEW p \in Request, Commit(p)
  PROVE  LET r == request[p] w == request[p].writes IN
         /\ w \in WriteRows /\ OwnFine(r)
         /\ user' \in [User -> UserRows \cup {Absent}]
         /\ session' \in [Session -> SessionRows \cup {Absent}]
         /\ link' \in [Link -> LinkRows \cup {Absent}]
         /\ \A u \in User : user'[u] = IF u \in DOMAIN w.user THEN w.user[u] ELSE user[u]
         /\ \A s \in Session :
              session'[s] = IF s \in DOMAIN w.session THEN w.session[s] ELSE session[s]
         /\ \A v \in Link : link'[v] = IF v \in DOMAIN w.link THEN w.link[v] ELSE link[v]
         /\ overwrote \subseteq overwrote' /\ overwrote' \subseteq {"user", "session", "link"}
         /\ "user" \notin overwrote' =>
              \A u \in DOMAIN w.user : r.reads.user[u] = user[u]
         /\ "session" \notin overwrote' =>
              \A s \in DOMAIN w.session : r.reads.session[s] = session[s]
         /\ request' \in [Request -> Requests] /\ request'[p] = Idle
         /\ \A q \in Request \ {p} : request'[q] = request[q]
  <1> DEFINE r == request[p] w == request[p].writes
  <1>1. w \in WriteRows /\ OwnFine(r)
    BY RequestFacts DEF IInv
  <1>2. /\ user' \in [User -> UserRows \cup {Absent}]
        /\ \A u \in User : user'[u] = IF u \in DOMAIN w.user THEN w.user[u] ELSE user[u]
    <2>1. user' = Over(w.user, user) /\ w.user \in SomeOf(User, UserRows)
          /\ user \in [User -> UserRows \cup {Absent}]
      BY <1>1 DEF Commit, WriteRows, IInv, TypeOK
    <2> QED
      BY <2>1, OverFacts
  <1>3. /\ session' \in [Session -> SessionRows \cup {Absent}]
        /\ \A s \in Session :
             session'[s] = IF s \in DOMAIN w.session THEN w.session[s] ELSE session[s]
    <2>1. session' = Over(w.session, session) /\ w.session \in SomeOf(Session, SessionRows)
          /\ session \in [Session -> SessionRows \cup {Absent}]
      BY <1>1 DEF Commit, WriteRows, IInv, TypeOK
    <2> QED
      BY <2>1, OverFacts
  <1>4. /\ link' \in [Link -> LinkRows \cup {Absent}]
        /\ \A v \in Link : link'[v] = IF v \in DOMAIN w.link THEN w.link[v] ELSE link[v]
    <2>1. link' = Over(w.link, link) /\ w.link \in SomeOf(Link, LinkRows)
          /\ link \in [Link -> LinkRows \cup {Absent}]
      BY <1>1 DEF Commit, WriteRows, IInv, TypeOK
    <2> QED
      BY <2>1, OverFacts
  <1>5. /\ DOMAIN Table = {"user", "session", "link"}
        /\ Table["user"] = user /\ Table["session"] = session
    BY DEF Table
  <1>6. overwrote' = overwrote \cup
          {t \in DOMAIN Table : \E k \in DOMAIN r.reads[t] : Table[t][k] # r.reads[t][k]}
    BY DEF Commit
  <1>7. overwrote \subseteq overwrote' /\ overwrote' \subseteq {"user", "session", "link"}
    BY <1>5, <1>6 DEF IInv, TypeOK
  <1>8. /\ \A u \in DOMAIN w.user : u \in DOMAIN r.reads.user
        /\ \A s \in DOMAIN w.session : s \in DOMAIN r.reads.session
    BY <1>1 DEF OwnFine, UserSaved, SessionSaved
  <1>9. "user" \notin overwrote' => \A u \in DOMAIN w.user : r.reads.user[u] = user[u]
    BY <1>5, <1>6, <1>8
  <1>10. "session" \notin overwrote' =>
           \A s \in DOMAIN w.session : r.reads.session[s] = session[s]
    BY <1>5, <1>6, <1>8
  <1>11. /\ request' \in [Request -> Requests] /\ request'[p] = Idle
         /\ \A q \in Request \ {p} : request'[q] = request[q]
    BY IdleFacts DEF Commit, IInv, TypeOK
  <1> QED
    BY <1>1, <1>2, <1>3, <1>4, <1>7, <1>9, <1>10, <1>11

LEMMA CommitTypes ==
  ASSUME IInv, NEW p \in Request, Commit(p)
  PROVE  TypeOK'
  <1> DEFINE w == request[p].writes
  <1>1. /\ w \in WriteRows
        /\ user' \in [User -> UserRows \cup {Absent}]
        /\ session' \in [Session -> SessionRows \cup {Absent}]
        /\ link' \in [Link -> LinkRows \cup {Absent}]
        /\ request' \in [Request -> Requests]
        /\ overwrote' \subseteq {"user", "session", "link"}
    BY CommitFacts
  <1>2. /\ \A u \in User : user'[u] = IF u \in DOMAIN w.user THEN w.user[u] ELSE user[u]
        /\ \A s \in Session :
             session'[s] = IF s \in DOMAIN w.session THEN w.session[s] ELSE session[s]
        /\ \A v \in Link : link'[v] = IF v \in DOMAIN w.link THEN w.link[v] ELSE link[v]
    BY CommitFacts
  <1>3. /\ Addressed(user')
        /\ \A s \in DOMAIN w.session : user'[w.session[s].user] # Absent
        /\ \A v \in DOMAIN w.link : user'[w.link[v].user] # Absent
        /\ superseded' = superseded \cup Changed(w.session, session)
        /\ UNCHANGED <<minted, served>>
    BY DEF Commit, References
  <1>4. /\ \A s \in DOMAIN w.session : s \in Session /\ w.session[s] \in SessionRows
        /\ \A v \in DOMAIN w.link : v \in Link /\ w.link[v] \in LinkRows
        /\ \A u \in DOMAIN w.user : u \in User /\ w.user[u] \in UserRows
    BY <1>1, WritesFacts
  <1>5. /\ \A s \in Session : session[s] # Absent => session[s] \in SessionRows
        /\ \A v \in Link : link[v] # Absent => link[v] \in LinkRows
    BY TableFacts DEF IInv
  <1> HIDE DEF w
  <1>6. \A u \in User : user[u] # Absent => user'[u] # Absent
    BY <1>2, <1>4, Present
  <1>7. \A s \in InUse(session) : user[session[s].user] # Absent /\ session[s].user \in User
    BY <1>5, TableFacts DEF IInv, TypeOK, KeysHold, SessionRows
  <1>8. \A v \in InUse(link) : user[link[v].user] # Absent /\ link[v].user \in User
    BY <1>5, TableFacts DEF IInv, TypeOK, KeysHold, LinkRows
  <1>9. InUse(session') = {s \in Session : session'[s] # Absent}
        /\ InUse(link') = {v \in Link : link'[v] # Absent}
        /\ InUse(session) = {s \in Session : session[s] # Absent}
        /\ InUse(link) = {v \in Link : link[v] # Absent}
    BY <1>1 DEF InUse, IInv, TypeOK
  <1>10. \A s \in InUse(session') : user'[session'[s].user] # Absent
    BY <1>2, <1>3, <1>6, <1>7, <1>9
  <1>11. \A v \in InUse(link') : user'[link'[v].user] # Absent
    BY <1>2, <1>3, <1>6, <1>8, <1>9
  <1>12. superseded' \subseteq 1..MaxToken
    <2>1. Changed(w.session, session) \subseteq 1..MaxToken
      BY <1>4, <1>5 DEF Changed, SessionRows
    <2> QED
      BY <1>3, <2>1 DEF IInv, TypeOK
  <1> QED
    BY <1>1, <1>3, <1>10, <1>11, <1>12 DEF IInv, TypeOK, KeysHold

LEMMA CommitTokens ==
  ASSUME IInv, NEW p \in Request, Commit(p)
  PROVE  TokensApart'
  <1> DEFINE w == request[p].writes.session
  <1>1. /\ \A s \in DOMAIN w : s \in Session
        /\ \A s \in Session :
             session'[s] = IF s \in DOMAIN w THEN w[s] ELSE session[s]
    BY CommitFacts, WritesFacts
  <1>2. /\ superseded' = superseded \cup Changed(w, session)
        /\ UNCHANGED minted
        /\ \A q \in Request \ {p} : request'[q] = request[q]
        /\ request'[p].writes.session = Nothing
    BY CommitFacts DEF Commit, Idle, NoRows
  <1>3. /\ InUse(session) = {s \in Session : session[s] # Absent}
        /\ InUse(session') = {s \in Session : session'[s] # Absent}
    BY CommitFacts DEF InUse, IInv, TypeOK
  <1>4. \A q \in Request : \A s \in DOMAIN request[q].writes.session : s \in Session
    BY RequestFacts, WritesFacts DEF IInv
  <1>5. /\ \A s, x \in InUse(session) : session[s].token = session[x].token => s = x
        /\ \A s \in InUse(session) :
             /\ session[s].token <= minted
             /\ ~IsRevoked(session[s]) => session[s].token \notin superseded
        /\ \A t \in superseded : t <= minted
    BY DEF IInv, TokensApart
  <1>6. \A q \in Request : \A s \in DOMAIN request[q].writes.session :
          LET row == request[q].writes.session[s] IN
          /\ row.token <= minted
          /\ ~IsRevoked(row) => row.token \notin superseded
          /\ \A x \in InUse(session) :
               row.token = session[x].token => s = x /\ IsRevoked(row)
          /\ \A o \in Request : \A x \in DOMAIN request[o].writes.session :
               row.token = request[o].writes.session[x].token =>
                 s = x /\ (q = o \/ IsRevoked(row))
    BY DEF IInv, TokensApart
  <1>7. \A t \in Changed(w, session) : \E x \in DOMAIN w :
          x \in InUse(session) /\ t = session[x].token /\ t # w[x].token
    BY <1>1, <1>3 DEF Changed
  <1>8. \A s \in InUse(session') :
          \/ s \in DOMAIN w /\ session'[s] = w[s]
          \/ s \notin DOMAIN w /\ s \in InUse(session) /\ session'[s] = session[s]
    BY <1>1, <1>3
  <1>9. \A s \in DOMAIN w :
          /\ w[s].token <= minted
          /\ ~IsRevoked(w[s]) => w[s].token \notin superseded
          /\ \A x \in InUse(session) :
               w[s].token = session[x].token => s = x /\ IsRevoked(w[s])
          /\ \A x \in DOMAIN w : w[s].token = w[x].token => s = x
    BY <1>6
  <1>10. \A q \in Request \ {p} : \A s \in DOMAIN request[q].writes.session : \A x \in DOMAIN w :
           request[q].writes.session[s].token = w[x].token =>
             s = x /\ IsRevoked(request[q].writes.session[s])
    BY <1>6
  <1> HIDE DEF w
  <1>11. \A s, x \in InUse(session') : session'[s].token = session'[x].token => s = x
    BY <1>5, <1>8, <1>9
  <1>12. \A s \in InUse(session') :
           /\ session'[s].token <= minted
           /\ ~IsRevoked(session'[s]) => session'[s].token \notin superseded'
    <2> SUFFICES ASSUME NEW s \in InUse(session')
                 PROVE  /\ session'[s].token <= minted
                        /\ ~IsRevoked(session'[s]) => session'[s].token \notin superseded'
      OBVIOUS
    <2>1. CASE s \in DOMAIN w /\ session'[s] = w[s]
      BY <1>2, <1>7, <1>9, <2>1
    <2>2. CASE s \notin DOMAIN w /\ s \in InUse(session) /\ session'[s] = session[s]
      BY <1>2, <1>5, <1>7, <2>2
    <2> QED
      BY <1>8, <2>1, <2>2
  <1>13. \A t \in superseded' : t <= minted
    BY <1>2, <1>5, <1>7
  <1>14. \A q \in Request \ {p} : \A s \in DOMAIN request[q].writes.session :
           LET row == request[q].writes.session[s] IN
           /\ ~IsRevoked(row) => row.token \notin superseded'
           /\ \A x \in InUse(session') :
                row.token = session'[x].token => s = x /\ IsRevoked(row)
    <2> SUFFICES ASSUME NEW q \in Request \ {p}, NEW s \in DOMAIN request[q].writes.session
                 PROVE  LET row == request[q].writes.session[s] IN
                        /\ ~IsRevoked(row) => row.token \notin superseded'
                        /\ \A x \in InUse(session') :
                             row.token = session'[x].token => s = x /\ IsRevoked(row)
      OBVIOUS
    <2>1. ~IsRevoked(request[q].writes.session[s]) =>
            request[q].writes.session[s].token \notin superseded'
      BY <1>2, <1>6, <1>7
    <2>2. \A x \in InUse(session') :
            request[q].writes.session[s].token = session'[x].token =>
              s = x /\ IsRevoked(request[q].writes.session[s])
      BY <1>6, <1>8, <1>10
    <2> QED
      BY <2>1, <2>2
  <1>15. ASSUME NEW q \in Request, NEW s \in DOMAIN request'[q].writes.session
         PROVE  LET row == request'[q].writes.session[s] IN
                /\ row.token <= minted'
                /\ ~IsRevoked(row) => row.token \notin superseded'
                /\ \A x \in InUse(session') :
                     row.token = session'[x].token => s = x /\ IsRevoked(row)
                /\ \A o \in Request : \A x \in DOMAIN request'[o].writes.session :
                     row.token = request'[o].writes.session[x].token =>
                       s = x /\ (q = o \/ IsRevoked(row))
    <2>1. q # p /\ request'[q] = request[q]
      BY <1>2, <1>15, NothingFacts
    <2>2. \A o \in Request : \A x \in DOMAIN request'[o].writes.session :
            request'[o] = request[o]
      BY <1>2, NothingFacts
    <2> QED
      BY <1>2, <1>6, <1>14, <2>1, <2>2
  <1> QED
    BY <1>2, <1>11, <1>12, <1>13, <1>15 DEF TokensApart
\* As long as no save has replaced what it had not read.
LEMMA CommitShuts ==
  ASSUME IInv, NEW p \in Request, Commit(p), overwrote' = {}
  PROVE  SessionsShut' /\ \A q \in Request : ListsThem(request[q])'
  <1> DEFINE r == request[p] w == request[p].writes
  <1>1. /\ OwnFine(r) /\ w \in WriteRows /\ overwrote = {}
        /\ \A u \in DOMAIN w.user : r.reads.user[u] = user[u]
        /\ \A s \in DOMAIN w.session : r.reads.session[s] = session[s]
        /\ request'[p] = Idle /\ \A q \in Request \ {p} : request'[q] = request[q]
    BY CommitFacts
  <1>2. /\ \A u \in User : user'[u] = IF u \in DOMAIN w.user THEN w.user[u] ELSE user[u]
        /\ \A s \in Session :
             session'[s] = IF s \in DOMAIN w.session THEN w.session[s] ELSE session[s]
        /\ DOMAIN w.user \subseteq User /\ DOMAIN w.session \subseteq Session
        /\ \A u \in DOMAIN w.user : w.user[u] # Absent
        /\ \A s \in DOMAIN w.session : w.session[s] # Absent
    BY <1>1, CommitFacts, WritesFacts, Present
  <1>3. /\ InUse(user) = {u \in User : user[u] # Absent}
        /\ InUse(user') = {u \in User : user'[u] # Absent}
        /\ InUse(session) = {s \in Session : session[s] # Absent}
        /\ InUse(session') = {s \in Session : session'[s] # Absent}
    BY CommitFacts DEF InUse, IInv, TypeOK
  <1>4. \/ r.phase = "locked"
        \/ r.phase = "decided" /\ \A u \in DOMAIN w.user : ~Locked(u)
    BY DEF Commit
  <1>5. SessionsShut /\ ListsThem(r) /\ \A q \in Request : ListsThem(request[q])
    BY <1>1 DEF IInv
  <1>6. \A s \in InUse(session) : session[s].user \in InUse(user)
    BY <1>3, TableFacts DEF IInv, TypeOK, KeysHold, SessionRows
  <1>7. Idle.phase = "idle"
    BY DEF Idle
  <1>8. \A u \in DOMAIN w.user : UserSaved(r, u)
    BY <1>1 DEF OwnFine
  <1>9. \A s \in DOMAIN w.session : SessionSaved(r, s)
    BY <1>1 DEF OwnFine
  <1>10. \A s \in DOMAIN w.session : ~IsRevoked(w.session[s]) =>
           /\ r.phase = "decided"
           /\ \/ /\ w.session[s].user \in DOMAIN w.user
                 /\ w.user[w.session[s].user].status = "active"
              \/ /\ w.user = Nothing /\ session[s] # Absent /\ ~IsRevoked(session[s])
                 /\ session[s].user = w.session[s].user /\ session[s].left = w.session[s].left
    BY <1>1, <1>9 DEF SessionSaved
  <1>11. \A u \in DOMAIN w.user : w.user[u].status = "deletion_requested" =>
           /\ user[u] # Absent
           /\ user[u].status = "deletion_requested" \/ (r.phase \in {"leaving", "locked"} /\ r.caller = u)
    BY <1>1, <1>8 DEF UserSaved
  <1> HIDE DEF w, r
  <1>12. ASSUME NEW u \in InUse(user'), user'[u].status = "deletion_requested",
                NEW s \in InUse(session'), session'[s].user = u
         PROVE  ~IsUsable(session'[s])
    <2> SUFFICES ASSUME IsUsable(session'[s])
                 PROVE  FALSE
      OBVIOUS
    <2>1. CASE s \in DOMAIN w.session
      <3>1. w.session[s] = session'[s] /\ ~IsRevoked(w.session[s])
        BY <1>2, <2>1 DEF IsUsable
      <3>2. CASE u \in DOMAIN w.user /\ w.user[u].status = "active"
        BY <1>2, <1>12, <3>2
      <3>3. CASE /\ w.user = Nothing /\ session[s] # Absent /\ ~IsRevoked(session[s])
                 /\ session[s].user = u /\ session[s].left = w.session[s].left
        <4>1. s \in InUse(session) /\ user'[u] = user[u] /\ u \in InUse(user)
          BY <1>2, <1>3, <1>6, <2>1, <3>3, NothingFacts
        <4>2. IsUsable(session[s])
          BY <3>1, <3>3 DEF IsUsable
        <4> QED
          BY <1>5, <1>12, <3>3, <4>1, <4>2 DEF SessionsShut, SessionsOf
      <3> QED
        BY <1>10, <1>12, <2>1, <3>1, <3>2, <3>3
    <2>2. CASE s \notin DOMAIN w.session
      <3>1. session'[s] = session[s] /\ s \in InUse(session) /\ u \in InUse(user)
        BY <1>2, <1>3, <1>6, <1>12, <2>2
      <3>2. s \in SessionsOf(u) /\ IsUsable(session[s])
        BY <1>12, <3>1 DEF SessionsOf
      <3>3. user[u].status # "deletion_requested"
        BY <1>5, <3>1, <3>2 DEF SessionsShut
      <3>4. u \in DOMAIN w.user /\ w.user[u].status = "deletion_requested"
        BY <1>2, <1>3, <1>12, <3>3
      <3>5. r.phase = "locked" /\ r.caller = u
        BY <1>4, <1>11, <3>3, <3>4
      <3> QED
        BY <1>5, <2>2, <3>2, <3>5 DEF ListsThem, w, r
    <2> QED
      BY <2>1, <2>2
  <1>13. ASSUME NEW q \in Request, request'[q].phase = "locked",
                NEW s \in InUse(session'), session'[s].user = request'[q].caller,
                IsUsable(session'[s])
         PROVE  s \in DOMAIN request'[q].writes.session
    <2>1. q # p /\ request'[q] = request[q]
      BY <1>1, <1>7, <1>13
    <2>2. Locked(request[q].caller)
      BY <1>13, <2>1 DEF Locked
    <2>3. CASE s \in DOMAIN w.session
      <3>1. w.session[s] = session'[s] /\ ~IsRevoked(w.session[s])
        BY <1>2, <1>13, <2>3 DEF IsUsable
      <3>2. /\ session[s] # Absent /\ ~IsRevoked(session[s])
            /\ session[s].user = w.session[s].user /\ session[s].left = w.session[s].left
        BY <1>4, <1>10, <1>13, <2>1, <2>2, <2>3, <3>1
      <3>3. s \in SessionsOf(request[q].caller) /\ IsUsable(session[s])
        BY <1>2, <1>3, <1>13, <2>1, <2>3, <3>1, <3>2 DEF SessionsOf, IsUsable
      <3> QED
        BY <1>5, <1>13, <2>1, <3>3 DEF ListsThem
    <2>4. CASE s \notin DOMAIN w.session
      <3>1. session'[s] = session[s] /\ s \in InUse(session)
        BY <1>2, <1>3, <2>4
      <3>2. s \in SessionsOf(request[q].caller) /\ IsUsable(session[s])
        BY <1>13, <2>1, <3>1 DEF SessionsOf
      <3> QED
        BY <1>5, <1>13, <2>1, <3>2 DEF ListsThem
    <2> QED
      BY <2>3, <2>4
  <1>14. SessionsShut'
    BY <1>12 DEF SessionsShut, SessionsOf
  <1>15. ASSUME NEW q \in Request
         PROVE  ListsThem(request[q])'
    BY <1>13 DEF ListsThem, SessionsOf
  <1> QED
    BY <1>14, <1>15

LEMMA CommitInv ==
  ASSUME IInv, NEW p \in Request, Commit(p)
  PROVE  IInv'
  <1>1. /\ request'[p] = Idle /\ Idle.phase = "idle"
        /\ \A q \in Request \ {p} : request'[q] = request[q]
    BY CommitFacts DEF Idle
  <1>2. LocksApart'
    BY <1>1 DEF IInv, LocksApart
  <1>3. ASSUME NEW q \in Request
        PROVE  OwnFine(request'[q])
    BY <1>1, IdleFacts DEF IInv
  <1> QED
    BY <1>2, <1>3, CommitTypes, CommitTokens, CommitShuts DEF IInv
------------------------------------------------------------------------------
(* Time and retention *)

LEMMA AgedUserFacts ==
  ASSUME NEW row \in UserRows
  PROVE  /\ AgedUser(row) \in UserRows
         /\ AgedUser(row).email = row.email /\ AgedUser(row).status = row.status
         /\ AgedUser(row).lock = Sooner(row.lock) /\ row.lock \in Nat
  <1>1. row # Absent /\ Lockout \in Nat /\ Keep \in Nat /\ row.lock \in Nat /\ row.age \in 0..Keep
    BY Present, TimeAssumption DEF UserRows
  <1>2. Sooner(row.lock) \in 0..Lockout /\ Older(row.age) \in 0..Keep
    BY <1>1, TimeAssumption DEF Sooner, Older, UserRows
  <1>3. AgedUser(row) = [row EXCEPT !.lock = Sooner(row.lock),
                           !.age = IF row.status = "active" THEN row.age ELSE Older(row.age)]
    BY <1>1 DEF AgedUser
  <1>4. (IF row.status = "active" THEN row.age ELSE Older(row.age)) \in 0..Keep
    BY <1>1, <1>2
  <1> QED
    BY <1>1, <1>2, <1>3, <1>4 DEF UserRows

LEMMA AgedSessionFacts ==
  ASSUME NEW row \in SessionRows
  PROVE  /\ AgedSession(row) \in SessionRows
         /\ AgedSession(row).user = row.user /\ AgedSession(row).token = row.token
         /\ AgedSession(row).left = IF row.left > -Keep THEN row.left - 1 ELSE row.left
         /\ IsRevoked(AgedSession(row)) <=> IsRevoked(row)
         /\ IsUsable(AgedSession(row)) => IsUsable(row)
  <1> DEFINE left == IF row.left > -Keep THEN row.left - 1 ELSE row.left
             revoked == IF row.revoked = Never THEN row.revoked ELSE Older(row.revoked)
  <1>1. /\ row # Absent /\ Lifetime \in Nat /\ Keep \in Nat \ {0} /\ Never = -1
        /\ row.left \in (-Keep)..Lifetime /\ row.revoked \in Never..Keep
    BY Present, TimeAssumption DEF SessionRows, Never
  <1>2. /\ left \in (-Keep)..Lifetime /\ (left > 0 => row.left > 0)
        /\ revoked \in Never..Keep /\ (revoked = Never <=> row.revoked = Never)
    BY <1>1 DEF Older
  <1>3. AgedSession(row) = [row EXCEPT !.left = left, !.revoked = revoked]
    BY <1>1 DEF AgedSession
  <1>4. left = IF row.left > -Keep THEN row.left - 1 ELSE row.left
    OBVIOUS
  <1> HIDE DEF left, revoked
  <1>5. /\ AgedSession(row) \in SessionRows
        /\ AgedSession(row).user = row.user /\ AgedSession(row).token = row.token
        /\ AgedSession(row).left = left /\ AgedSession(row).revoked = revoked
    BY <1>2, <1>3 DEF SessionRows
  <1> QED
    BY <1>2, <1>4, <1>5 DEF IsRevoked, IsUsable

LEMMA AgedLinkFacts ==
  ASSUME NEW row \in LinkRows
  PROVE  AgedLink(row) \in LinkRows /\ AgedLink(row).user = row.user
  <1>1. row # Absent /\ row.left \in 0..LinkLife /\ LinkLife \in Nat
    BY Present, TimeAssumption DEF LinkRows
  <1>2. Sooner(row.left) \in 0..LinkLife
    BY <1>1 DEF Sooner
  <1>3. AgedLink(row) = [row EXCEPT !.left = Sooner(row.left)]
    BY <1>1 DEF AgedLink
  <1> QED
    BY <1>2, <1>3 DEF LinkRows

LEMMA AbsentStays ==
  AgedUser(Absent) = Absent /\ AgedSession(Absent) = Absent /\ AgedLink(Absent) = Absent
  BY DEF AgedUser, AgedSession, AgedLink

LEMMA AgedRowsFacts ==
  ASSUME NEW rows
  PROVE  /\ DOMAIN AgedRows(rows).user = DOMAIN rows.user
         /\ \A u \in DOMAIN rows.user : AgedRows(rows).user[u] = AgedUser(rows.user[u])
         /\ DOMAIN AgedRows(rows).session = DOMAIN rows.session
         /\ \A s \in DOMAIN rows.session :
              AgedRows(rows).session[s] = AgedSession(rows.session[s])
         /\ DOMAIN AgedRows(rows).link = DOMAIN rows.link
         /\ \A v \in DOMAIN rows.link : AgedRows(rows).link[v] = AgedLink(rows.link[v])
  BY DEF AgedRows

LEMMA AgedTypes ==
  /\ \A rows \in ReadRows : AgedRows(rows) \in ReadRows
  /\ \A rows \in WriteRows : AgedRows(rows) \in WriteRows
  <1>1. ASSUME NEW rows \in WriteRows
        PROVE  AgedRows(rows) \in WriteRows
    <2>1. /\ DOMAIN rows.user \in SUBSET User /\ DOMAIN rows.session \in SUBSET Session
          /\ DOMAIN rows.link \in SUBSET Link
          /\ \A u \in DOMAIN rows.user : rows.user[u] \in UserRows
          /\ \A s \in DOMAIN rows.session : rows.session[s] \in SessionRows
          /\ \A v \in DOMAIN rows.link : rows.link[v] \in LinkRows
      BY WritesFacts
    <2>2. /\ [u \in DOMAIN rows.user |-> AgedUser(rows.user[u])]
               \in [DOMAIN rows.user -> UserRows]
          /\ [s \in DOMAIN rows.session |-> AgedSession(rows.session[s])]
               \in [DOMAIN rows.session -> SessionRows]
          /\ [v \in DOMAIN rows.link |-> AgedLink(rows.link[v])]
               \in [DOMAIN rows.link -> LinkRows]
      BY <2>1, AgedUserFacts, AgedSessionFacts, AgedLinkFacts
    <2>3. /\ [u \in DOMAIN rows.user |-> AgedUser(rows.user[u])] \in SomeOf(User, UserRows)
          /\ [s \in DOMAIN rows.session |-> AgedSession(rows.session[s])]
               \in SomeOf(Session, SessionRows)
          /\ [v \in DOMAIN rows.link |-> AgedLink(rows.link[v])] \in SomeOf(Link, LinkRows)
      BY <2>1, <2>2, PartialType
    <2> QED
      BY <2>3 DEF AgedRows, WriteRows
  <1>2. ASSUME NEW rows \in ReadRows
        PROVE  AgedRows(rows) \in ReadRows
    <2>1. /\ DOMAIN rows.user \in SUBSET User /\ DOMAIN rows.session \in SUBSET Session
          /\ DOMAIN rows.link \in SUBSET Link
          /\ \A u \in DOMAIN rows.user : rows.user[u] \in UserRows \cup {Absent}
          /\ \A s \in DOMAIN rows.session : rows.session[s] \in SessionRows \cup {Absent}
          /\ \A v \in DOMAIN rows.link : rows.link[v] \in LinkRows \cup {Absent}
      BY ReadsFacts
    <2>2. /\ [u \in DOMAIN rows.user |-> AgedUser(rows.user[u])]
               \in [DOMAIN rows.user -> UserRows \cup {Absent}]
          /\ [s \in DOMAIN rows.session |-> AgedSession(rows.session[s])]
               \in [DOMAIN rows.session -> SessionRows \cup {Absent}]
          /\ [v \in DOMAIN rows.link |-> AgedLink(rows.link[v])]
               \in [DOMAIN rows.link -> LinkRows \cup {Absent}]
      BY <2>1, AbsentStays, AgedUserFacts, AgedSessionFacts, AgedLinkFacts
    <2>3. /\ [u \in DOMAIN rows.user |-> AgedUser(rows.user[u])]
               \in SomeOf(User, UserRows \cup {Absent})
          /\ [s \in DOMAIN rows.session |-> AgedSession(rows.session[s])]
               \in SomeOf(Session, SessionRows \cup {Absent})
          /\ [v \in DOMAIN rows.link |-> AgedLink(rows.link[v])]
               \in SomeOf(Link, LinkRows \cup {Absent})
      BY <2>1, <2>2, PartialType
    <2> QED
      BY <2>3 DEF AgedRows, ReadRows
  <1> QED
    BY <1>1, <1>2
\* What time makes of the tables and of the requests.
LEMMA TickFacts ==
  ASSUME IInv, Tick
  PROVE  /\ user' \in [User -> UserRows \cup {Absent}]
         /\ session' \in [Session -> SessionRows \cup {Absent}]
         /\ link' \in [Link -> LinkRows \cup {Absent}]
         /\ InUse(user') = InUse(user) /\ InUse(session') = InUse(session)
         /\ InUse(link') = InUse(link)
         /\ \A u \in InUse(user) : user[u] \in UserRows /\ user'[u] = AgedUser(user[u])
         /\ \A s \in InUse(session) :
              session[s] \in SessionRows /\ session'[s] = AgedSession(session[s])
         /\ \A v \in InUse(link) : link[v] \in LinkRows /\ link'[v] = AgedLink(link[v])
         /\ UNCHANGED <<minted, served, overwrote, superseded>>
  <1>1. /\ user'    = [u \in User |-> AgedUser(user[u])]
        /\ session' = [s \in Session |-> AgedSession(session[s])]
        /\ link'    = [v \in Link |-> AgedLink(link[v])]
    BY DEF Tick, AgedRows, Table, IInv, TypeOK
  <1>2. /\ \A u \in User : user[u] = Absent \/ user[u] \in UserRows
        /\ \A s \in Session : session[s] = Absent \/ session[s] \in SessionRows
        /\ \A v \in Link : link[v] = Absent \/ link[v] \in LinkRows
    BY DEF IInv, TypeOK
  <1>3. \A u \in User : /\ user[u] = Absent => user'[u] = Absent
                        /\ user[u] \in UserRows => user'[u] \in UserRows
    BY <1>1, AbsentStays, AgedUserFacts
  <1>4. \A s \in Session : /\ session[s] = Absent => session'[s] = Absent
                           /\ session[s] \in SessionRows => session'[s] \in SessionRows
    BY <1>1, AbsentStays, AgedSessionFacts
  <1>5. \A v \in Link : /\ link[v] = Absent => link'[v] = Absent
                        /\ link[v] \in LinkRows => link'[v] \in LinkRows
    BY <1>1, AbsentStays, AgedLinkFacts
  <1>6. /\ user' \in [User -> UserRows \cup {Absent}] /\ InUse(user') = InUse(user)
        /\ \A u \in InUse(user) : user[u] \in UserRows /\ user'[u] = AgedUser(user[u])
    BY <1>1, <1>2, <1>3, Present DEF InUse, IInv, TypeOK
  <1>7. /\ session' \in [Session -> SessionRows \cup {Absent}]
        /\ InUse(session') = InUse(session)
        /\ \A s \in InUse(session) :
             session[s] \in SessionRows /\ session'[s] = AgedSession(session[s])
    BY <1>1, <1>2, <1>4, Present DEF InUse, IInv, TypeOK
  <1>8. /\ link' \in [Link -> LinkRows \cup {Absent}] /\ InUse(link') = InUse(link)
        /\ \A v \in InUse(link) : link[v] \in LinkRows /\ link'[v] = AgedLink(link[v])
    BY <1>1, <1>2, <1>5, Present DEF InUse, IInv, TypeOK
  <1> QED
    BY <1>6, <1>7, <1>8 DEF Tick

LEMMA TickRequests ==
  ASSUME IInv, Tick
  PROVE  /\ request' \in [Request -> Requests]
         /\ \A p \in Request :
              /\ request'[p].phase = request[p].phase
              /\ request'[p].caller = request[p].caller
              /\ \/ request[p].phase = "idle" /\ request'[p] = request[p]
                 \/ /\ request'[p].reads = AgedRows(request[p].reads)
                    /\ request'[p].writes = AgedRows(request[p].writes)
  <1>1. request' = [p \in Request |->
          IF request[p].phase = "idle" THEN request[p]
          ELSE [request[p] EXCEPT !.reads = AgedRows(@), !.writes = AgedRows(@),
                                  !.straddled = TRUE]]
    BY DEF Tick, Ready
  <1>2. ASSUME NEW p \in Request
        PROVE  /\ request'[p] \in Requests
               /\ request'[p].phase = request[p].phase
               /\ request'[p].caller = request[p].caller
               /\ \/ request[p].phase = "idle" /\ request'[p] = request[p]
                  \/ /\ request'[p].reads = AgedRows(request[p].reads)
                     /\ request'[p].writes = AgedRows(request[p].writes)
    <2>1. /\ request[p] \in Requests
          /\ AgedRows(request[p].reads) \in ReadRows
          /\ AgedRows(request[p].writes) \in WriteRows
      BY RequestFacts, AgedTypes DEF IInv
    <2>2. CASE request[p].phase = "idle"
      BY <1>1, <2>1, <2>2
    <2>3. CASE request[p].phase # "idle"
      <3>1. request'[p] = [request[p] EXCEPT !.reads = AgedRows(request[p].reads),
                             !.writes = AgedRows(request[p].writes), !.straddled = TRUE]
        BY <1>1, <2>3
      <3> QED
        BY <2>1, <3>1 DEF Requests
    <2> QED
      BY <2>2, <2>3
  <1> QED
    BY <1>1, <1>2

\* The session rows a request is about to save keep their tokens.
LEMMA TickWrites ==
  ASSUME IInv, Tick, NEW p \in Request
  PROVE  /\ DOMAIN request'[p].writes.session = DOMAIN request[p].writes.session
         /\ \A s \in DOMAIN request[p].writes.session :
              /\ request'[p].writes.session[s].token = request[p].writes.session[s].token
              /\ IsRevoked(request'[p].writes.session[s])
                   <=> IsRevoked(request[p].writes.session[s])
  <1>1. \A s \in DOMAIN request[p].writes.session :
          request[p].writes.session[s] \in SessionRows
    BY RequestFacts, WritesFacts DEF IInv
  <1>2. CASE request'[p] = request[p]
    BY <1>2
  <1>3. CASE request'[p].writes = AgedRows(request[p].writes)
    BY <1>1, <1>3, AgedRowsFacts, AgedSessionFacts
  <1> QED
    BY <1>2, <1>3, TickRequests

LEMMA TickOwn ==
  ASSUME IInv, Tick, NEW p \in Request
  PROVE  OwnFine(request'[p])
  <1> DEFINE r == request[p] new == request'[p]
  <1>1. /\ OwnFine(r) /\ r.reads \in ReadRows /\ r.writes \in WriteRows
    BY RequestFacts DEF IInv
  <1>2. CASE request'[p] = request[p]
    BY <1>1, <1>2
  <1>3. CASE /\ new.phase = r.phase /\ new.caller = r.caller
             /\ new.reads = AgedRows(r.reads) /\ new.writes = AgedRows(r.writes)
    <2> HIDE DEF r, new
    <2>1. /\ DOMAIN new.writes.user = DOMAIN r.writes.user
          /\ DOMAIN new.reads.user = DOMAIN r.reads.user
          /\ DOMAIN new.writes.session = DOMAIN r.writes.session
          /\ DOMAIN new.reads.session = DOMAIN r.reads.session
          /\ \A u \in DOMAIN r.writes.user :
               /\ r.writes.user[u] \in UserRows
               /\ new.writes.user[u] = AgedUser(r.writes.user[u])
          /\ \A u \in DOMAIN r.reads.user :
               /\ r.reads.user[u] \in UserRows \cup {Absent}
               /\ new.reads.user[u] = AgedUser(r.reads.user[u])
          /\ \A s \in DOMAIN r.writes.session :
               /\ r.writes.session[s] \in SessionRows
               /\ new.writes.session[s] = AgedSession(r.writes.session[s])
          /\ \A s \in DOMAIN r.reads.session :
               /\ r.reads.session[s] \in SessionRows \cup {Absent}
               /\ new.reads.session[s] = AgedSession(r.reads.session[s])
      BY <1>1, <1>3, AgedRowsFacts, WritesFacts, ReadsFacts
    <2>2. ASSUME NEW u \in DOMAIN new.writes.user
          PROVE  UserSaved(new, u)
      <3>1. UserSaved(r, u) /\ u \in DOMAIN r.writes.user /\ u \in DOMAIN r.reads.user
        BY <1>1, <2>1, <2>2 DEF OwnFine, UserSaved
      <3>2. /\ new.writes.user[u].status = r.writes.user[u].status
            /\ new.writes.user[u].lock = Sooner(r.writes.user[u].lock)
            /\ r.writes.user[u].lock \in Nat
        BY <2>1, <3>1, AgedUserFacts
      <3>3. CASE r.reads.user[u] = Absent
        BY <1>3, <2>1, <3>1, <3>2, <3>3, AbsentStays DEF UserSaved
      <3>4. CASE r.reads.user[u] \in UserRows
        <4>1. /\ r.reads.user[u] # Absent
              /\ new.reads.user[u] # Absent
              /\ new.reads.user[u].status = r.reads.user[u].status
              /\ new.reads.user[u].lock = Sooner(r.reads.user[u].lock)
              /\ r.reads.user[u].lock \in Nat
          BY <2>1, <3>1, <3>4, AgedUserFacts, Present
        <4>2. new.writes.user[u].lock >= new.reads.user[u].lock
          BY <3>1, <3>2, <4>1 DEF UserSaved, Sooner
        <4> QED
          BY <1>3, <2>1, <3>1, <3>2, <4>1, <4>2 DEF UserSaved
      <3> QED
        BY <2>1, <3>1, <3>3, <3>4
    <2>3. ASSUME NEW s \in DOMAIN new.writes.session
          PROVE  SessionSaved(new, s)
      <3>1. SessionSaved(r, s) /\ s \in DOMAIN r.writes.session /\ s \in DOMAIN r.reads.session
        BY <1>1, <2>1, <2>3 DEF OwnFine, SessionSaved
      <3>2. /\ new.writes.session[s].user = r.writes.session[s].user
            /\ new.writes.session[s].left =
                 IF r.writes.session[s].left > -Keep THEN r.writes.session[s].left - 1
                                                     ELSE r.writes.session[s].left
            /\ IsRevoked(new.writes.session[s]) <=> IsRevoked(r.writes.session[s])
        BY <2>1, <3>1, AgedSessionFacts
      <3>3. \A u \in DOMAIN r.writes.user :
              new.writes.user[u].status = r.writes.user[u].status
        BY <2>1, AgedUserFacts
      <3>4. r.writes.user = Nothing => new.writes.user = Nothing
        BY <1>3, NothingFacts DEF AgedRows, Nothing
      <3>5. CASE r.reads.session[s] = Absent
        BY <1>3, <2>1, <3>1, <3>2, <3>3, <3>5, AbsentStays DEF SessionSaved
      <3>6. CASE r.reads.session[s] \in SessionRows
        <4>1. /\ r.reads.session[s] # Absent
              /\ new.reads.session[s] # Absent
              /\ new.reads.session[s].user = r.reads.session[s].user
              /\ new.reads.session[s].left =
                   IF r.reads.session[s].left > -Keep THEN r.reads.session[s].left - 1
                                                      ELSE r.reads.session[s].left
              /\ IsRevoked(new.reads.session[s]) <=> IsRevoked(r.reads.session[s])
          BY <2>1, <3>1, <3>6, AgedSessionFacts, Present
        <4> QED
          BY <1>3, <2>1, <3>1, <3>2, <3>3, <3>4, <4>1 DEF SessionSaved
      <3> QED
        BY <2>1, <3>1, <3>5, <3>6
    <2>4. r.phase \in {"idle", "admitted"} => new.writes = NoRows
      <3>1. AgedRows(NoRows) = NoRows
        BY NothingFacts DEF AgedRows, NoRows, Nothing
      <3> QED
        BY <1>1, <1>3, <3>1 DEF OwnFine
    <2> QED
      BY <1>1, <1>3, <2>2, <2>3, <2>4 DEF OwnFine, new
  <1> QED
    BY <1>2, <1>3, TickRequests

LEMMA TickInv ==
  ASSUME IInv, Tick
  PROVE  IInv'
  <1>1. /\ InUse(user') = InUse(user) /\ InUse(session') = InUse(session)
        /\ InUse(link') = InUse(link)
        /\ UNCHANGED <<minted, served, overwrote, superseded>>
    BY TickFacts
  <1>2. \A u \in InUse(user) :
          /\ user[u] \in UserRows /\ user'[u] \in UserRows
          /\ user'[u].email = user[u].email /\ user'[u].status = user[u].status
    BY TickFacts, AgedUserFacts
  <1>3. \A s \in InUse(session) :
          /\ session'[s].user = session[s].user /\ session'[s].token = session[s].token
          /\ IsRevoked(session'[s]) <=> IsRevoked(session[s])
          /\ IsUsable(session'[s]) => IsUsable(session[s])
          /\ session[s].user \in InUse(user)
    <2>1. \A s \in InUse(session) : session[s].user \in InUse(user)
      BY TableFacts DEF IInv, TypeOK, KeysHold, SessionRows
    <2> QED
      BY <2>1, TickFacts, AgedSessionFacts
  <1>4. \A v \in InUse(link) :
          link'[v].user = link[v].user /\ link[v].user \in InUse(user)
    <2>1. \A v \in InUse(link) : link[v].user \in InUse(user)
      BY TableFacts DEF IInv, TypeOK, KeysHold, LinkRows
    <2> QED
      BY <2>1, TickFacts, AgedLinkFacts
  <1>5. KeysHold'
    <2>1. Addressed(user')
      BY <1>1, <1>2 DEF IInv, TypeOK, KeysHold, Addressed
    <2> QED
      BY <1>1, <1>2, <1>3, <1>4, <2>1, Present DEF KeysHold
  <1>6. TypeOK'
    BY <1>1, <1>5, TickFacts, TickRequests DEF IInv, TypeOK
  <1>7. TokensApart'
    <2>1. /\ \A s, x \in InUse(session) : session[s].token = session[x].token => s = x
          /\ \A s \in InUse(session) :
               /\ session[s].token <= minted
               /\ ~IsRevoked(session[s]) => session[s].token \notin superseded
          /\ \A t \in superseded : t <= minted
      BY DEF IInv, TokensApart
    <2>2. ASSUME NEW p \in Request, NEW s \in DOMAIN request'[p].writes.session
          PROVE  LET row == request'[p].writes.session[s] IN
                 /\ row.token <= minted
                 /\ ~IsRevoked(row) => row.token \notin superseded
                 /\ \A x \in InUse(session) :
                      row.token = session'[x].token => s = x /\ IsRevoked(row)
                 /\ \A q \in Request : \A x \in DOMAIN request'[q].writes.session :
                      row.token = request'[q].writes.session[x].token =>
                        s = x /\ (p = q \/ IsRevoked(row))
      <3> DEFINE old == request[p].writes.session[s]
      <3>1. /\ s \in DOMAIN request[p].writes.session
            /\ request'[p].writes.session[s].token = old.token
            /\ IsRevoked(request'[p].writes.session[s]) <=> IsRevoked(old)
        BY <2>2, TickWrites
      <3>2. /\ old.token <= minted
            /\ ~IsRevoked(old) => old.token \notin superseded
            /\ \A x \in InUse(session) : old.token = session[x].token => s = x /\ IsRevoked(old)
            /\ \A q \in Request : \A x \in DOMAIN request[q].writes.session :
                 old.token = request[q].writes.session[x].token =>
                   s = x /\ (p = q \/ IsRevoked(old))
        BY <3>1 DEF IInv, TokensApart
      <3> HIDE DEF old
      <3>3. \A q \in Request : \A x \in DOMAIN request'[q].writes.session :
              old.token = request'[q].writes.session[x].token =>
                s = x /\ (p = q \/ IsRevoked(old))
        BY <3>2, TickWrites
      <3> QED
        BY <1>3, <3>1, <3>2, <3>3
    <2> QED
      BY <1>1, <1>3, <2>1, <2>2 DEF TokensApart
  <1>8. LocksApart'
    BY TickRequests DEF IInv, LocksApart
  <1>9. ASSUME overwrote = {}
        PROVE  SessionsShut' /\ \A p \in Request : ListsThem(request[p])'
    <2>1. SessionsShut'
      BY <1>1, <1>2, <1>3, <1>9 DEF IInv, SessionsShut, SessionsOf
    <2>2. ASSUME NEW p \in Request
          PROVE  ListsThem(request[p])'
      <3>1. /\ ListsThem(request[p])
            /\ request'[p].phase = request[p].phase /\ request'[p].caller = request[p].caller
            /\ DOMAIN request'[p].writes.session = DOMAIN request[p].writes.session
        BY <1>9, TickRequests, TickWrites DEF IInv
      <3> QED
        BY <1>1, <1>3, <3>1 DEF ListsThem, SessionsOf
    <2> QED
      BY <2>1, <2>2
  <1> QED
    BY <1>1, <1>6, <1>7, <1>8, <1>9, TickOwn DEF IInv
\* Rows go, and the rows that point at them: nothing new can come of that.
LEMMA RowsGo ==
  ASSUME IInv, KeysHold',
         user' \in [User -> UserRows \cup {Absent}],
         session' \in [Session -> SessionRows \cup {Absent}],
         link' \in [Link -> LinkRows \cup {Absent}],
         \A u \in User : user'[u] = user[u] \/ user'[u] = Absent,
         \A s \in Session : session'[s] = session[s] \/ session'[s] = Absent,
         UNCHANGED <<request, minted, served, overwrote, superseded>>
  PROVE  IInv'
  <1>1. TypeOK'
    BY DEF IInv, TypeOK
  <1>2. /\ \A u \in InUse(user') : u \in InUse(user) /\ user'[u] = user[u]
        /\ \A s \in InUse(session') : s \in InUse(session) /\ session'[s] = session[s]
    BY DEF InUse, IInv, TypeOK
  <1>3. TokensApart'
    BY <1>2 DEF IInv, TokensApart
  <1>4. LocksApart' /\ \A p \in Request : OwnFine(request'[p])
    BY DEF IInv, LocksApart
  <1>5. ASSUME overwrote = {}
        PROVE  SessionsShut' /\ \A p \in Request : ListsThem(request[p])'
    BY <1>2, <1>5 DEF IInv, SessionsShut, ListsThem, SessionsOf
  <1> QED
    BY <1>1, <1>3, <1>4, <1>5 DEF IInv

LEMMA EraseInv ==
  ASSUME IInv, NEW gone \in SUBSET InUse(user), Erase(gone)
  PROVE  IInv'
  <1>1. /\ user'    = [u \in User |-> IF u \in gone THEN Absent ELSE user[u]]
        /\ session' = [s \in Session |->
             IF \E u \in gone : s \in SessionsOf(u) THEN Absent ELSE session[s]]
        /\ link'    = [v \in Link |->
             IF link[v] # Absent /\ link[v].user \in gone THEN Absent ELSE link[v]]
        /\ UNCHANGED <<request, minted, served, overwrote, superseded>>
    BY DEF Erase
  <1>2. /\ user' \in [User -> UserRows \cup {Absent}]
        /\ session' \in [Session -> SessionRows \cup {Absent}]
        /\ link' \in [Link -> LinkRows \cup {Absent}]
    BY <1>1 DEF IInv, TypeOK
  <1>3. KeysHold'
    <2>1. \A u \in InUse(user') : u \in InUse(user) /\ user'[u] = user[u]
      BY <1>1, TableFacts DEF InUse, IInv
    <2>2. Addressed(user')
      BY <2>1 DEF IInv, TypeOK, KeysHold, Addressed
    <2>3. ASSUME NEW s \in InUse(session')
          PROVE  user'[session'[s].user] # Absent
      <3>1. s \in InUse(session) /\ session'[s] = session[s] /\ s \in Session
        BY <1>1, <2>3, TableFacts DEF InUse, IInv
      <3>2. session[s].user \notin gone
        BY <1>1, <2>3, <3>1 DEF SessionsOf, InUse
      <3>3. session[s].user \in User /\ user[session[s].user] # Absent
        BY <3>1, TableFacts DEF IInv, TypeOK, KeysHold, SessionRows
      <3> QED
        BY <1>1, <3>1, <3>2, <3>3
    <2>4. ASSUME NEW v \in InUse(link')
          PROVE  user'[link'[v].user] # Absent
      <3>1. v \in InUse(link) /\ link'[v] = link[v] /\ v \in Link
        BY <1>1, <2>4, TableFacts DEF InUse, IInv
      <3>2. link[v].user \notin gone
        BY <1>1, <2>4, <3>1 DEF InUse
      <3>3. link[v].user \in User /\ user[link[v].user] # Absent
        BY <3>1, TableFacts DEF IInv, TypeOK, KeysHold, LinkRows
      <3> QED
        BY <1>1, <3>1, <3>2, <3>3
    <2> QED
      BY <2>2, <2>3, <2>4 DEF KeysHold
  <1> QED
    BY <1>1, <1>2, <1>3, RowsGo

LEMMA EraseStaleSessionsInv ==
  ASSUME IInv, EraseStaleSessions
  PROVE  IInv'
  <1> DEFINE stale == {s \in InUse(session) : session[s].revoked >= Keep \/ session[s].left <= -Keep}
  <1>1. /\ session' = [s \in Session |-> IF s \in stale THEN Absent ELSE session[s]]
        /\ UNCHANGED <<user, link, request, minted, served, overwrote, superseded>>
    BY DEF EraseStaleSessions
  <1> HIDE DEF stale
  <1>2. session' \in [Session -> SessionRows \cup {Absent}]
    BY <1>1 DEF IInv, TypeOK
  <1>3. \A s \in InUse(session') : s \in InUse(session) /\ session'[s] = session[s]
    BY <1>1, TableFacts DEF InUse, IInv
  <1>4. KeysHold'
    BY <1>1, <1>3 DEF IInv, TypeOK, KeysHold, InUse
  <1>5. /\ user' \in [User -> UserRows \cup {Absent}] /\ link' \in [Link -> LinkRows \cup {Absent}]
    BY <1>1 DEF IInv, TypeOK
  <1> QED
    BY <1>1, <1>2, <1>4, <1>5, RowsGo

------------------------------------------------------------------------------
LEMMA NextInv == IInv /\ [Next]_vars => IInv'
  <1> SUFFICES ASSUME IInv, [Next]_vars
               PROVE  IInv'
    OBVIOUS
  <1>1. CASE \E p \in Request : \E e \in Email :
               \/ RegisterUser(p, e) \/ ResendVerification(p, e)
               \/ SignInFails(p, e) \/ SignIn(p, e)
    BY <1>1, RegisterUserInv, ResendVerificationInv, SignInFailsInv, SignInInv
  <1>2. CASE \E p \in Request : \E v \in Link : VerifyEmail(p, v)
    BY <1>2, VerifyEmailInv
  <1>3. CASE \E p \in Request : \E s \in Session :
               \/ Replay(p, s) \/ RenewSession(p, s)
               \/ AuthenticateSession(p, s) \/ RevokeSession(p, s)
    BY <1>3, ReplayInv, RenewSessionInv, AuthenticateSessionInv, RevokeSessionInv
  <1>4. CASE \E p \in Request : RequestAccountDeletion(p) \/ RevokeAllSessions(p)
    BY <1>4, RequestAccountDeletionInv, RevokeAllSessionsInv
  <1>5. CASE \E p \in Request : Commit(p) \/ End(p)
    BY <1>5, CommitInv, EndInv
  <1>6. CASE Tick
    BY <1>6, TickInv
  <1>7. CASE EraseUnverified \/ EraseDeletedAccounts
    BY <1>7, EraseInv DEF EraseUnverified, EraseDeletedAccounts, Old
  <1>8. CASE EraseStaleSessions
    BY <1>8, EraseStaleSessionsInv
  <1>9. CASE UNCHANGED vars
    <2>1. UNCHANGED <<user, session, link, request, minted, served, overwrote, superseded>>
      BY <1>9 DEF vars, tables
    <2>2. KeysHold'
      BY <2>1 DEF IInv, TypeOK, KeysHold, InUse
    <2> QED
      BY <2>1, <2>2, RowsGo DEF IInv, TypeOK
  <1> QED
    BY <1>1, <1>2, <1>3, <1>4, <1>5, <1>6, <1>7, <1>8, <1>9 DEF Next

LEMMA Inductive == Spec => []IInv
  BY InitInv, NextInv, PTL DEF Spec

------------------------------------------------------------------------------
(* Theorems *)

\* The rows keep their types and the tables their keys: the unique address and
\* the foreign keys that cascade, through every upsert that brings a row back.
THEOREM TypeCorrect == Spec => []TypeOK
  <1>1. IInv => TypeOK
    BY DEF IInv
  <1> QED
    BY <1>1, Inductive, PTL

\* However saves overlap, an open session never carries a token that was
\* rotated away: a renewal brings a token nobody has seen, and every other save
\* of an old row revokes it (Session.rotate, Session.revoke,
\* PrismaSessionRepository.save).
THEOREM SupersededTokensOpenNothing == Spec => []SupersededStaysShut
  <1>1. IInv => SupersededStaysShut
    BY DEF IInv, TokensApart, SupersededStaysShut, IsUsable
  <1> QED
    BY <1>1, Inductive, PTL

\* requestAccountDeletion saves the user row before it lists the sessions, so
\* no sign-in can slip in between; until a save replaces what it had not read,
\* the account that is to be deleted has no open session.
THEOREM DeletionEndsSessions == Spec => []DeletedKeepsNoSession
  <1>1. IInv => DeletedKeepsNoSession
    BY DEF IInv, SessionsShut, DeletedKeepsNoSession
  <1> QED
    BY <1>1, Inductive, PTL

\* What a command makes of the row it read never takes back a revocation, a
\* request for deletion or a lock-out; only a save over a row that changed
\* since can (User.requestDeletion, User.recordFailedAttempt, Session.revoke).
THEOREM EndingsStay == Spec => EndsAreFinal
  <1> DEFINE Stays ==
        /\ \A u \in InUse(user) : user[u].status = "deletion_requested" =>
             \/ user'[u] = Absent \/ user'[u].status = "deletion_requested"
             \/ "user" \in overwrote'
        /\ \A s \in InUse(session) : IsRevoked(session[s]) =>
             session'[s] = Absent \/ IsRevoked(session'[s]) \/ "session" \in overwrote'
        /\ \A u \in InUse(user) : user[u].lock > 0 =>
             \/ user'[u] = Absent \/ user'[u].lock >= user[u].lock - 1
             \/ "user" \in overwrote'
  <1>1. ASSUME IInv
        PROVE  /\ \A u \in InUse(user) : u \in User /\ user[u] # Absent /\ user[u].lock \in Nat
               /\ \A s \in InUse(session) : s \in Session /\ session[s] # Absent
    BY <1>1, TableFacts, TimeAssumption DEF IInv, UserRows
  <1>2. ASSUME IInv, \A u \in User : user'[u] = user[u] \/ user'[u] = Absent,
               \A s \in Session : session'[s] = session[s] \/ session'[s] = Absent
        PROVE  Stays
    BY <1>1, <1>2
  <1>3. ASSUME IInv, NEW p \in Request, Commit(p)
        PROVE  Stays
    <2> DEFINE r == request[p] w == request[p].writes
    <2>1. /\ OwnFine(r)
          /\ \A u \in User : user'[u] = IF u \in DOMAIN w.user THEN w.user[u] ELSE user[u]
          /\ \A s \in Session :
               session'[s] = IF s \in DOMAIN w.session THEN w.session[s] ELSE session[s]
          /\ "user" \notin overwrote' =>
               \A u \in DOMAIN w.user : r.reads.user[u] = user[u]
          /\ "session" \notin overwrote' =>
               \A s \in DOMAIN w.session : r.reads.session[s] = session[s]
          /\ \A u \in DOMAIN w.user : w.user[u].lock \in Nat
      BY <1>3, CommitFacts, WritesFacts, TimeAssumption DEF UserRows
    <2>2. \A u \in DOMAIN w.user : UserSaved(r, u)
      BY <2>1 DEF OwnFine
    <2>3. \A s \in DOMAIN w.session : SessionSaved(r, s)
      BY <2>1 DEF OwnFine
    <2>4. "user" \notin overwrote' => \A u \in InUse(user) :
            /\ user[u].status = "deletion_requested" => user'[u].status = "deletion_requested"
            /\ user'[u].lock >= user[u].lock - 1
      <3> SUFFICES ASSUME "user" \notin overwrote', NEW u \in InUse(user)
                   PROVE  /\ user[u].status = "deletion_requested" =>
                               user'[u].status = "deletion_requested"
                          /\ user'[u].lock >= user[u].lock - 1
        OBVIOUS
      <3>1. u \in User /\ user[u] # Absent /\ user[u].lock \in Nat
        BY <1>1, <1>3
      <3>2. CASE u \in DOMAIN w.user
        <4>1. /\ user'[u] = w.user[u] /\ w.user[u].lock \in Nat
              /\ r.reads.user[u] = user[u] /\ UserSaved(r, u)
          BY <2>1, <2>2, <3>1, <3>2
        <4> QED
          BY <3>1, <4>1 DEF UserSaved
      <3>3. CASE u \notin DOMAIN w.user
        BY <2>1, <3>1, <3>3
      <3> QED
        BY <3>2, <3>3
    <2>5. "session" \notin overwrote' =>
            \A s \in InUse(session) : IsRevoked(session[s]) => IsRevoked(session'[s])
      BY <1>1, <1>3, <2>1, <2>3 DEF SessionSaved
    <2> QED
      BY <2>4, <2>5
  <1>4. ASSUME IInv, Tick
        PROVE  Stays
    <2>1. \A u \in InUse(user) :
            /\ user'[u].status = user[u].status
            /\ user'[u].lock = Sooner(user[u].lock) /\ user[u].lock \in Nat
      BY <1>4, TickFacts, AgedUserFacts
    <2>2. \A u \in InUse(user) : user'[u].lock >= user[u].lock - 1
      BY <2>1 DEF Sooner
    <2>3. \A s \in InUse(session) : IsRevoked(session[s]) => IsRevoked(session'[s])
      BY <1>4, TickFacts, AgedSessionFacts
    <2> QED
      BY <2>1, <2>2, <2>3
  <1>5. ASSUME IInv,
               Reading \/ EraseUnverified \/ EraseDeletedAccounts \/ EraseStaleSessions
        PROVE  Stays
    <2>1. CASE Reading
      BY <1>2, <1>5, <2>1 DEF Reading, tables
    <2>2. CASE EraseUnverified \/ EraseDeletedAccounts
      BY <1>2, <1>5, <2>2 DEF EraseUnverified, EraseDeletedAccounts, Erase
    <2>3. CASE EraseStaleSessions
      BY <1>2, <1>5, <2>3 DEF EraseStaleSessions
    <2> QED
      BY <1>5, <2>1, <2>2, <2>3
  <1>6. ASSUME IInv, [Next]_vars
        PROVE  Stays
    <2> HIDE DEF Stays
    <2>1. CASE Next
      <3>1. \/ \E p \in Request : Commit(p)
            \/ Tick \/ Reading
            \/ EraseUnverified \/ EraseDeletedAccounts \/ EraseStaleSessions
        BY <2>1
        DEF Next, RegisterUser, ResendVerification, SignInFails, SignIn, VerifyEmail,
            Replay, RenewSession, AuthenticateSession, RevokeSession,
            RequestAccountDeletion, RevokeAllSessions, End
      <3> QED
        BY <1>3, <1>4, <1>5, <1>6, <3>1
    <2>2. CASE UNCHANGED vars
      <3>1. Reading
        BY <2>2 DEF vars, Reading
      <3> QED
        BY <1>5, <1>6, <3>1
    <2> QED
      BY <1>6, <2>1, <2>2
  <1>7. IInv /\ [Next]_vars => [Stays]_vars
    BY <1>6
  <1> QED
    BY <1>7, Inductive, PTL DEF Spec, EndsAreFinal
==============================================================================
