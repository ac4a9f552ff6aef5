----------------------------- MODULE FamilyProofs -----------------------------
(***************************************************************************)
(* Proofs about Family, for every number of overlapping requests: types,   *)
(* one owner unless a row was overwritten, a guardian for every child      *)
(* unless requests raced, and after a request for deletion no change by    *)
(* any request but one it overtook and what such a request left behind.    *)
(***************************************************************************)
EXTENDS TLAPS, FiniteSetTheorems, Family

\* The writes of p leave the family an owner: either no row they replace, as
\* far as it is still the row p read, is the owner's, or they bring a new owner
\* with them.
KeepsOwner(p) ==
  LET w == request[p].writes.member IN
  \/ \A k \in DOMAIN w \ request[p].stale : k \notin Owners
  \/ \E k \in DOMAIN w : w[k].state = "active" /\ w[k].role = "owner"

\* Every child has a guardianship, and every guardianship a guardian who may
\* hold it.  The second half is what lets one guardian of two go.
AllCovered(mt, gt) ==
  /\ \A c \in Member : mt[c].state = "active" /\ mt[c].kind = "child" =>
       \E r \in Guardianship : gt[r].state = "active" /\ gt[r].child = c
  /\ \A r \in Guardianship : gt[r].state = "active" =>
       /\ gt[r].guardian \in Member
       /\ mt[gt[r].guardian].state = "active"
       /\ Eligible(mt[gt[r].guardian].kind, mt[gt[r].guardian].role)

KeepsCoverage(w) ==
  AllCovered(Over(w.member, member), Over(w.guardianship, guardianship))

ClosesInvitations(w) ==
  \A i \in Invitation : Over(w.invitation, invitation)[i].state # "pending"

\* The writes of an acceptance of an invitation that should be pending no more.
TakesLeftover(w) ==
  /\ DOMAIN w.invitation \cap stray # {}
  /\ \A i \in DOMAIN w.invitation : w.invitation[i].state # "pending"

\* A request that nothing has overtaken was admitted with no deletion requested,
\* and still finds it so, or accepts an invitation that was left over.
PromptFine(p) ==
  LET w == request[p].writes IN
  /\ request[p].phase = "admitted" => ~deletion
  /\ request[p].phase = "open" =>
       /\ deletion => TakesLeftover(w)
       /\ ~deletion /\ TRUE \in w.deletion => ClosesInvitations(w)

\* Nobody has read anything that changed since.
Current(p) == ~raced /\ ~request[p].behind

\* What a request is about to do to the tables is decided when it reads, and
\* holds for as long as what it read does.
RequestFine(p) ==
  /\ request[p].phase = "open" => KeepsOwner(p)
  /\ ~request[p].behind => PromptFine(p)
  /\ Current(p) =>
       /\ request[p].phase = "admitted" => Active(request[p].by)
       /\ request[p].phase = "open" => KeepsCoverage(request[p].writes)

TablesFine ==
  /\ family_one_owner(member)
  /\ guardianship_one_active_per_pair(guardianship)
  /\ overwrote \/ Owners # {}
  /\ ~raced => AllCovered(member, guardianship)
  /\ deletion => \A i \in Invitation : IsPending(i) => i \in stray

IInv ==
  /\ TypeOK
  /\ TablesFine
  /\ \A p \in Request : RequestFine(p)

------------------------------------------------------------------------------
(* Partial functions *)

LEMMA PartialFacts ==
  ASSUME NEW S, NEW R, NEW f \in SomeOf(S, R)
  PROVE  DOMAIN f \subseteq S /\ \A k \in DOMAIN f : f[k] \in R
  BY DEF SomeOf

LEMMA PartialType ==
  ASSUME NEW S, NEW R, NEW T \in SUBSET S, NEW f \in [T -> R]
  PROVE  f \in SomeOf(S, R)
  BY DEF SomeOf

LEMMA OverFacts ==
  ASSUME NEW S, NEW R, NEW table \in [S -> R], NEW new \in SomeOf(S, R)
  PROVE  /\ Over(new, table) \in [S -> R]
         /\ \A k \in S : Over(new, table)[k] =
              IF k \in DOMAIN new THEN new[k] ELSE table[k]
  BY PartialFacts DEF Over

Writing ==
  [member : SomeOf(Member, MemberRows),
   guardianship : SomeOf(Guardianship, GuardianshipRows),
   invitation : SomeOf(Invitation, InvitationRows),
   deletion : SUBSET BOOLEAN]

LEMMA RequestFacts ==
  ASSUME TypeOK, NEW p \in Request
  PROVE  /\ request[p] \in Requests
         /\ request[p].writes \in Writing
         /\ request[p].by \in Member \cup {NoMember}
         /\ request[p].stale \subseteq Member
         /\ request[p].behind \in BOOLEAN
         /\ request[p].phase \in {"idle", "admitted", "open"}
  BY DEF TypeOK, Requests, Writing

LEMMA NothingFacts ==
  /\ DOMAIN Nothing = {}
  /\ \A S, R : Nothing \in SomeOf(S, R)
  /\ \A table : Over(Nothing, table) = [k \in DOMAIN table |-> table[k]]
  <1>1. DOMAIN Nothing = {}
    BY DEF Nothing
  <1>2. ASSUME NEW S, NEW R
        PROVE  Nothing \in SomeOf(S, R)
    <2>1. Nothing \in [{} -> R] /\ {} \in SUBSET S
      BY DEF Nothing
    <2> QED
      BY <2>1, PartialType
  <1> QED
    BY <1>1, <1>2 DEF Over

LEMMA WritesType == Writes \in Writing
  BY NothingFacts DEF Writes, Writing

LEMMA IdleType == Idle \in Requests
  BY WritesType DEF Idle, Requests, Writing

------------------------------------------------------------------------------
(* Steps *)

LEMMA InitInv == Init => IInv
  <1> SUFFICES ASSUME Init
               PROVE  IInv
    OBVIOUS
  <1>1. OwnerRow(Founder) \in MemberRows /\ Unused \in MemberRows
    BY FounderAssumption DEF OwnerRow, MemberRow, Unused, MemberRows, Role
  <1>2. TypeOK
    <2>1. member \in [Member -> MemberRows]
      BY <1>1 DEF Init
    <2>2. guardianship \in [Guardianship -> GuardianshipRows]
      BY DEF Init, NoPair, GuardianshipRows
    <2>3. invitation \in [Invitation -> InvitationRows]
      BY DEF Init, NoOffer, InvitationRows, Role
    <2>4. request \in [Request -> Requests]
      BY IdleType DEF Init
    <2>5. served \in 0..MaxServed
      BY BoundAssumption DEF Init
    <2>6. /\ deletion \in BOOLEAN /\ raced \in BOOLEAN /\ overwrote \in BOOLEAN
          /\ late \subseteq Invitation /\ stray \subseteq Invitation
      BY DEF Init
    <2> QED
      BY <2>1, <2>2, <2>3, <2>4, <2>5, <2>6 DEF TypeOK
  <1>3. 1 \in Owners /\ \A m \in Owners : m = 1
    BY RowAssumption
    DEF Init, Owners, Active, ActiveIn, OwnerRow, MemberRow, Unused
  <1>4. TablesFine
    BY <1>3
    DEF Init, TablesFine, family_one_owner, guardianship_one_active_per_pair,
        Owners, Active, ActiveIn, AllCovered, NoPair, OwnerRow, MemberRow, Unused
  <1>5. \A p \in Request : RequestFine(p)
    BY DEF Init, RequestFine, PromptFine, Idle
  <1> QED
    BY <1>2, <1>4, <1>5 DEF IInv

\* A request that the step leaves alone stays fine while the tables do.
LEMMA RequestStays ==
  ASSUME NEW q \in Request, RequestFine(q), UNCHANGED <<tables, history>>,
         request'[q] = request[q]
  PROVE  RequestFine(q)'
  <1>1. /\ UNCHANGED <<member, guardianship, invitation, deletion, raced, stray>>
        /\ Owners' = Owners
    BY DEF tables, history, Owners, Active, ActiveIn
  <1>2. KeepsOwner(q)' <=> KeepsOwner(q)
    BY <1>1 DEF KeepsOwner
  <1>3. Current(q)' <=> Current(q)
    BY <1>1 DEF Current
  <1>4. Active(request[q].by)' <=> Active(request[q].by)
    BY <1>1 DEF Active
  <1> QED
    BY <1>1, <1>2, <1>3, <1>4
    DEF RequestFine, PromptFine, KeepsCoverage, ClosesInvitations, TakesLeftover

LEMMA TablesStay ==
  ASSUME TablesFine, UNCHANGED <<tables, history>>
  PROVE  TablesFine'
  BY DEF TablesFine, family_one_owner, guardianship_one_active_per_pair, Owners,
         Active, ActiveIn, AllCovered, IsPending, tables, history

\* A step of one request that touches neither the tables nor the others.
LEMMA RequestMoves ==
  ASSUME IInv, NEW p \in Request, NEW rq \in Requests,
         request' = [request EXCEPT ![p] = rq],
         UNCHANGED <<tables, late, history>>, served' \in 0..MaxServed,
         RequestFine(p)'
  PROVE  IInv'
  <1>1. TypeOK'
    <2>1. request' \in [Request -> Requests]
      BY DEF IInv, TypeOK
    <2> QED
      BY <2>1 DEF IInv, TypeOK, tables, history
  <1>2. \A q \in Request : RequestFine(q)'
    <2>1. \A q \in Request : q # p => request'[q] = request[q]
      BY DEF IInv, TypeOK
    <2> QED
      BY <2>1, RequestStays DEF IInv
  <1> QED
    BY <1>1, <1>2, TablesStay DEF IInv

LEMMA AdmitInv ==
  ASSUME IInv, NEW p \in Request, NEW m \in Member, Admit(p, m)
  PROVE  IInv'
  <1> DEFINE rq == [Idle EXCEPT !.phase = "admitted", !.by = m,
                                !.may = Capabilities(member[m].role)]
  <1>1. /\ request' = [request EXCEPT ![p] = rq] /\ ~deletion /\ Active(m)
        /\ UNCHANGED <<tables, late, history>>
    BY DEF Admit, HasStanding
  <1>2. Capabilities(member[m].role) \subseteq Capabilities("owner")
    <2>1. member[m].role \in Role
      BY DEF IInv, TypeOK, MemberRows
    <2> QED
      BY <2>1 DEF Capabilities, Role
  <1>3. /\ rq \in Requests /\ rq.phase = "admitted" /\ rq.by = m
        /\ rq.behind = FALSE
    BY <1>2, IdleType DEF Idle, Requests
  <1>4. served' \in 0..MaxServed
    BY BoundAssumption DEF Admit, Serve, IInv, TypeOK
  <1>5. request'[p] = rq
    BY <1>1 DEF IInv, TypeOK
  <1>6. RequestFine(p)'
    BY <1>1, <1>3, <1>5 DEF RequestFine, PromptFine, Active, ActiveIn, tables
  <1> QED
    BY <1>1, <1>3, <1>4, <1>6, RequestMoves

LEMMA FailInv ==
  ASSUME IInv, NEW p \in Request, Fail(p)
  PROVE  IInv'
  <1>1. /\ request' = [request EXCEPT ![p] = Idle]
        /\ UNCHANGED <<tables, late, served, history>>
    BY DEF Fail
  <1>2. request'[p].phase = "idle"
    BY <1>1 DEF IInv, TypeOK, Idle
  <1>3. RequestFine(p)'
    BY <1>2 DEF RequestFine, PromptFine
  <1> QED
    BY <1>1, <1>3, IdleType, RequestMoves DEF IInv, TypeOK

\* What every command has to show of its writes.
LEMMA OpenInv ==
  ASSUME IInv, NEW p \in Request, NEW capability, NEW w \in Writing,
         Open(p, capability, w),
         \/ \A k \in DOMAIN w.member : k \notin Owners
         \/ \E k \in DOMAIN w.member :
              w.member[k].state = "active" /\ w.member[k].role = "owner",
         ASSUME AllCovered(member, guardianship), Active(request[p].by)
         PROVE  KeepsCoverage(w),
         ~deletion /\ TRUE \in w.deletion => ClosesInvitations(w)
  PROVE  IInv'
  <1> DEFINE rq == [request[p] EXCEPT !.phase = "open", !.by = NoMember,
                                      !.may = {}, !.writes = w]
  <1>1. /\ request' = [request EXCEPT ![p] = rq]
        /\ UNCHANGED <<tables, late, served, history>>
        /\ request[p].phase = "admitted"
    BY DEF Open
  <1>2. request[p] \in Requests
    BY RequestFacts DEF IInv
  <1>3. /\ rq \in Requests /\ rq.phase = "open" /\ rq.writes = w
        /\ rq.behind = request[p].behind /\ rq.stale = request[p].stale
    BY <1>2 DEF Requests, Writing
  <1>4. request'[p] = rq
    BY <1>1 DEF IInv, TypeOK
  <1>a. /\ UNCHANGED <<member, guardianship, invitation, deletion, raced, stray>>
        /\ Owners' = Owners
    BY <1>1 DEF tables, history, Owners, Active, ActiveIn
  <1>5. KeepsOwner(p)'
    BY <1>3, <1>4, <1>a DEF KeepsOwner
  <1>6. RequestFine(p)
    BY DEF IInv
  <1>7. ASSUME ~request'[p].behind
        PROVE  /\ ~deletion'
               /\ ~deletion' /\ TRUE \in w.deletion => ClosesInvitations(w)'
    <2>1. ~request[p].behind
      BY <1>3, <1>4, <1>7
    <2>2. ~deletion
      BY <1>1, <1>6, <2>1 DEF RequestFine, PromptFine
    <2> QED
      BY <1>a, <2>2 DEF ClosesInvitations
  <1>8. ASSUME Current(p)'
        PROVE  KeepsCoverage(w)'
    <2>1. Current(p) /\ ~raced
      BY <1>3, <1>4, <1>8, <1>a DEF Current
    <2>2. AllCovered(member, guardianship) /\ Active(request[p].by)
      BY <1>1, <1>6, <2>1 DEF IInv, RequestFine, TablesFine
    <2>3. KeepsCoverage(w)
      BY <2>2
    <2> QED
      BY <1>a, <2>3 DEF KeepsCoverage
  <1>9. RequestFine(p)'
    <2>1. request'[p].phase = "open" /\ request'[p].writes = w
      BY <1>3, <1>4
    <2>2. ~request'[p].behind => PromptFine(p)'
      BY <1>7, <2>1 DEF PromptFine, ClosesInvitations
    <2> QED
      BY <1>5, <1>8, <2>1, <2>2 DEF RequestFine, KeepsCoverage
  <1> QED
    BY <1>1, <1>3, <1>9, RequestMoves DEF IInv, TypeOK

------------------------------------------------------------------------------
(* What the commands write *)

LEMMA OneFacts ==
  ASSUME NEW S, NEW R, NEW k \in S, NEW row \in R
  PROVE  /\ One(k, row) \in SomeOf(S, R)
         /\ DOMAIN One(k, row) = {k}
         /\ One(k, row)[k] = row
  <1>1. One(k, row) \in [{k} -> R] /\ {k} \in SUBSET S
    BY DEF One
  <1>2. DOMAIN One(k, row) = {k} /\ One(k, row)[k] = row
    BY DEF One
  <1> QED
    BY <1>1, <1>2, PartialType

LEMMA EndedFacts ==
  ASSUME TypeOK, NEW rows \in SUBSET Guardianship
  PROVE  /\ Ended(rows) \in SomeOf(Guardianship, GuardianshipRows)
         /\ DOMAIN Ended(rows) = rows
         /\ \A r \in rows : Ended(rows)[r].state = "ended"
  <1>1. \A r \in rows :
          /\ [guardianship[r] EXCEPT !.state = "ended"] \in GuardianshipRows
          /\ [guardianship[r] EXCEPT !.state = "ended"].state = "ended"
    BY DEF TypeOK, GuardianshipRows
  <1>2. Ended(rows) \in [rows -> GuardianshipRows]
    BY <1>1 DEF Ended
  <1>3. \A r \in rows : Ended(rows)[r].state = "ended"
    BY <1>1 DEF Ended
  <1> QED
    BY <1>2, <1>3, PartialType

LEMMA RevokedFacts ==
  ASSUME TypeOK, NEW rows \in SUBSET Invitation
  PROVE  /\ Revoked(rows) \in SomeOf(Invitation, InvitationRows)
         /\ DOMAIN Revoked(rows) = rows
         /\ \A i \in rows : Revoked(rows)[i].state = "revoked"
  <1>1. \A i \in rows :
          /\ [invitation[i] EXCEPT !.state = "revoked"] \in InvitationRows
          /\ [invitation[i] EXCEPT !.state = "revoked"].state = "revoked"
    BY DEF TypeOK, InvitationRows
  <1>2. Revoked(rows) \in [rows -> InvitationRows]
    BY <1>1 DEF Revoked
  <1>3. \A i \in rows : Revoked(rows)[i].state = "revoked"
    BY <1>1 DEF Revoked
  <1> QED
    BY <1>2, <1>3, PartialType

LEMMA OverNothing ==
  ASSUME NEW S, NEW R, NEW table \in [S -> R]
  PROVE  Over(Nothing, table) = table
  BY NothingFacts

LEMMA FreshFacts ==
  ASSUME NEW k, NEW table, NEW p, NEW name, IsFresh(k, table, p, name)
  PROVE  k \in DOMAIN table /\ table[k].state = "unused"
  BY DEF IsFresh

LEMMA OverOne ==
  ASSUME NEW S, NEW R, NEW table \in [S -> R], NEW k \in S, NEW row \in R
  PROVE  \A j \in S : Over(One(k, row), table)[j] =
                        IF j = k THEN row ELSE table[j]
  <1>1. /\ One(k, row) \in SomeOf(S, R) /\ DOMAIN One(k, row) = {k}
        /\ One(k, row)[k] = row
    BY OneFacts
  <1> QED
    BY <1>1, OverFacts

\* A set that keeps one element when it gives up another.
LEMMA AnotherOne ==
  ASSUME NEW S, IsFiniteSet(S), Cardinality(S) - 1 >= 1, NEW r
  PROVE  \E s \in S : s # r
  <1> SUFFICES ASSUME \A s \in S : s = r
               PROVE  FALSE
    OBVIOUS
  <1>1. S = {} \/ S = {r}
    OBVIOUS
  <1>2. Cardinality(S) = 0 \/ Cardinality(S) = 1
    BY <1>1, FS_EmptySet, FS_Singleton
  <1> QED
    BY <1>2

LEMMA CoveringFinite ==
  ASSUME NEW c
  PROVE  Covering(c) \subseteq Guardianship /\ IsFiniteSet(Covering(c))
  <1>1. Covering(c) \subseteq Guardianship
    BY DEF Covering
  <1> QED
    BY <1>1, RowAssumption, FS_Subset

\* Member rows that bring no new child, and leave every guardian one.
LEMMA MemberRowsKeepCoverage ==
  ASSUME TypeOK, AllCovered(member, guardianship),
         NEW f \in SomeOf(Member, MemberRows),
         \A k \in DOMAIN f :
           /\ f[k].state = "active" /\ f[k].kind = "child"
                => Active(k) /\ member[k].kind = "child"
           /\ Active(k) /\ Eligible(member[k].kind, member[k].role)
                => f[k].state = "active" /\ Eligible(f[k].kind, f[k].role)
  PROVE  AllCovered(Over(f, member), guardianship)
  <1>1. \A k \in Member : Over(f, member)[k] =
          IF k \in DOMAIN f THEN f[k] ELSE member[k]
    BY OverFacts DEF TypeOK
  <1> QED
    BY <1>1 DEF AllCovered, Active, ActiveIn

\* A guardian who gives up every guardianship leaves no child without one:
\* each has another row, and by the unique index of another guardian.
LEMMA GivingUpKeepsCoverage ==
  ASSUME TypeOK, AllCovered(member, guardianship),
         guardianship_one_active_per_pair(guardianship),
         NEW m \in Member, CoveredWithout(m),
         NEW row \in MemberRows,
         row.state = "active" /\ row.kind = "child"
           => Active(m) /\ member[m].kind = "child"
  PROVE  AllCovered(Over(One(m, row), member),
                    Over(Ended(HeldBy(m)), guardianship))
  <1> DEFINE mt == Over(One(m, row), member)
             gt == Over(Ended(HeldBy(m)), guardianship)
  <1>1. HeldBy(m) \in SUBSET Guardianship
    BY DEF HeldBy
  <1>2. \A k \in Member : mt[k] = IF k = m THEN row ELSE member[k]
    <2>1. member \in [Member -> MemberRows]
      BY DEF TypeOK
    <2> QED
      BY <2>1, OverOne
  <1>3. \A r \in Guardianship :
          /\ r \in HeldBy(m) => gt[r].state = "ended"
          /\ r \notin HeldBy(m) => gt[r] = guardianship[r]
    BY <1>1, EndedFacts, OverFacts DEF TypeOK
  <1>4. ASSUME NEW c \in Member, mt[c].state = "active", mt[c].kind = "child"
        PROVE  \E r \in Guardianship : gt[r].state = "active" /\ gt[r].child = c
    <2>1. Active(c) /\ member[c].kind = "child"
      BY <1>2, <1>4 DEF Active, ActiveIn
    <2>2. PICK r \in Covering(c) : TRUE
      BY <2>1 DEF AllCovered, Covering, Active, ActiveIn
    <2>3. CASE r \notin HeldBy(m)
      BY <1>3, <2>2, <2>3 DEF Covering
    <2>4. CASE r \in HeldBy(m)
      <3>1. Cardinality(Covering(c)) - 1 >= 1
        BY <2>2, <2>4 DEF CoveredWithout, Covering
      <3>2. PICK s \in Covering(c) : s # r
        BY <3>1, AnotherOne, CoveringFinite
      <3>3. s \notin HeldBy(m)
        BY <2>2, <2>4, <3>2
        DEF guardianship_one_active_per_pair, ActiveIn, Covering, HeldBy
      <3> QED
        BY <1>3, <3>2, <3>3 DEF Covering
    <2> QED
      BY <2>3, <2>4
  <1>5. ASSUME NEW r \in Guardianship, gt[r].state = "active"
        PROVE  /\ gt[r].guardian \in Member
               /\ mt[gt[r].guardian].state = "active"
               /\ Eligible(mt[gt[r].guardian].kind, mt[gt[r].guardian].role)
    <2>1. r \notin HeldBy(m) /\ gt[r] = guardianship[r]
      BY <1>3, <1>5
    <2>2. guardianship[r].guardian # m
      BY <1>5, <2>1 DEF HeldBy
    <2> QED
      BY <1>2, <1>5, <2>1, <2>2 DEF AllCovered
  <1> QED
    BY <1>4, <1>5 DEF AllCovered

------------------------------------------------------------------------------
(* The commands *)

LEMMA UpdateFamilyInv ==
  ASSUME IInv, NEW p \in Request, UpdateFamily(p)
  PROVE  IInv'
  <1> DEFINE w == [Writes EXCEPT !.deletion = {deletion}]
  <1>1. /\ w \in Writing /\ w.member = Nothing /\ w.guardianship = Nothing
        /\ w.deletion = {deletion}
    BY WritesType DEF Writes, Writing, IInv, TypeOK
  <1>2. \A k \in DOMAIN w.member : k \notin Owners
    BY <1>1, NothingFacts
  <1>3. ASSUME AllCovered(member, guardianship)
        PROVE  KeepsCoverage(w)
    BY <1>1, <1>3, OverNothing DEF KeepsCoverage, IInv, TypeOK
  <1>4. Open(p, "family:manage", w)
    BY DEF UpdateFamily
  <1> HIDE DEF w
  <1> QED
    BY <1>1, <1>2, <1>3, <1>4, OpenInv

LEMMA RequestFamilyDeletionInv ==
  ASSUME IInv, NEW p \in Request, RequestFamilyDeletion(p)
  PROVE  IInv'
  <1> DEFINE pending == {i \in Invitation : IsPending(i)}
             voided  == IF deletion THEN Nothing ELSE Revoked(pending)
             w == [Writes EXCEPT !.deletion = {TRUE}, !.invitation = voided]
  <1>1. voided \in SomeOf(Invitation, InvitationRows)
    BY NothingFacts, RevokedFacts DEF IInv
  <1>2. /\ w \in Writing /\ w.member = Nothing /\ w.guardianship = Nothing
        /\ w.invitation = voided
    BY <1>1, WritesType DEF Writes, Writing
  <1>3. \A k \in DOMAIN w.member : k \notin Owners
    BY <1>2, NothingFacts
  <1>4. ASSUME AllCovered(member, guardianship)
        PROVE  KeepsCoverage(w)
    BY <1>2, <1>4, OverNothing DEF KeepsCoverage, IInv, TypeOK
  <1>5. ASSUME ~deletion
        PROVE  ClosesInvitations(w)
    <2>1. /\ voided = Revoked(pending)
          /\ DOMAIN Revoked(pending) = pending
          /\ \A i \in pending : Revoked(pending)[i].state = "revoked"
          /\ Revoked(pending) \in SomeOf(Invitation, InvitationRows)
      BY <1>5, RevokedFacts DEF IInv
    <2>2. \A i \in Invitation : Over(Revoked(pending), invitation)[i] =
            IF i \in pending THEN Revoked(pending)[i] ELSE invitation[i]
      BY <2>1, OverFacts DEF IInv, TypeOK
    <2> QED
      BY <1>2, <2>1, <2>2 DEF ClosesInvitations, IsPending
  <1>6. Open(p, "family:delete", w)
    BY DEF RequestFamilyDeletion
  <1> HIDE DEF w
  <1> QED
    BY <1>2, <1>3, <1>4, <1>5, <1>6, OpenInv

LEMMA InvitationInv ==
  ASSUME IInv, NEW p \in Request, NEW i \in Invitation,
         \/ \E user \in User, role \in GivenRole :
              CreateInvitation(p, i, user, role)
         \/ RevokeInvitation(p, i)
  PROVE  IInv'
  <1>1. PICK f \in SomeOf(Invitation, InvitationRows) :
          Open(p, "members:manage", [Writes EXCEPT !.invitation = f])
    <2>1. ASSUME NEW user \in User, NEW role \in GivenRole,
                 CreateInvitation(p, i, user, role)
          PROVE  \E f \in SomeOf(Invitation, InvitationRows) :
                   Open(p, "members:manage", [Writes EXCEPT !.invitation = f])
      <3>1. Offer(user, role) \in InvitationRows
        BY RoleAssumption DEF Offer, InvitationRows, Role
      <3>2. One(i, Offer(user, role)) \in SomeOf(Invitation, InvitationRows)
        BY <3>1, OneFacts
      <3> QED
        BY <2>1, <3>2 DEF CreateInvitation
    <2>2. CASE RevokeInvitation(p, i)
      <3>1. Revoked({i}) \in SomeOf(Invitation, InvitationRows)
        BY RevokedFacts DEF IInv
      <3> QED
        BY <2>2, <3>1 DEF RevokeInvitation
    <2> QED
      BY <2>1, <2>2
  <1> DEFINE w == [Writes EXCEPT !.invitation = f]
  <1>2. /\ w \in Writing /\ w.member = Nothing /\ w.guardianship = Nothing
        /\ w.deletion = {}
    BY WritesType DEF Writes, Writing
  <1>3. \A k \in DOMAIN w.member : k \notin Owners
    BY <1>2, NothingFacts
  <1>4. ASSUME AllCovered(member, guardianship)
        PROVE  KeepsCoverage(w)
    BY <1>2, <1>4, OverNothing DEF KeepsCoverage, IInv, TypeOK
  <1>5. Open(p, "members:manage", w)
    BY <1>1
  <1> HIDE DEF w
  <1> QED
    BY <1>2, <1>3, <1>4, <1>5, OpenInv

\* A grant, and the guardianship a child is added with: the guardian may hold
\* it, and a child in a new row had none before.
LEMMA PairKeepsCoverage ==
  ASSUME TypeOK, AllCovered(member, guardianship),
         NEW r \in Guardianship, NEW g \in Member, NEW c \in Member,
         guardianship[r].state = "unused",
         Active(g), Eligible(member[g].kind, member[g].role),
         NEW mt \in [Member -> MemberRows],
         \A k \in Member : mt[k] = member[k] \/ (~Active(k) /\ k = c)
  PROVE  AllCovered(mt, Over(One(r, Pair(g, c)), guardianship))
  <1> DEFINE gt == Over(One(r, Pair(g, c)), guardianship)
  <1>1. Pair(g, c) \in GuardianshipRows
    BY DEF Pair, GuardianshipRows
  <1>2. \A s \in Guardianship : gt[s] = IF s = r THEN Pair(g, c) ELSE guardianship[s]
    <2>1. guardianship \in [Guardianship -> GuardianshipRows]
      BY DEF TypeOK
    <2> HIDE DEF gt
    <2>2. \A s \in Guardianship : Over(One(r, Pair(g, c)), guardianship)[s] =
            IF s = r THEN Pair(g, c) ELSE guardianship[s]
      BY <2>1 DEF Over, One
    <2> QED
      BY <2>2 DEF gt
  <1>3. /\ gt[r].state = "active" /\ gt[r].guardian = g /\ gt[r].child = c
        /\ \A s \in Guardianship : guardianship[s].state = "active" =>
             gt[s] = guardianship[s]
    BY <1>2 DEF Pair
  <1> HIDE DEF gt
  <1>4. ASSUME NEW k \in Member, mt[k].state = "active", mt[k].kind = "child"
        PROVE  \E s \in Guardianship : gt[s].state = "active" /\ gt[s].child = k
    BY <1>3, <1>4 DEF AllCovered
  <1>5. ASSUME NEW s \in Guardianship, gt[s].state = "active"
        PROVE  /\ gt[s].guardian \in Member
               /\ mt[gt[s].guardian].state = "active"
               /\ Eligible(mt[gt[s].guardian].kind, mt[gt[s].guardian].role)
    <2>1. /\ gt[s].guardian \in Member /\ Active(gt[s].guardian)
          /\ Eligible(member[gt[s].guardian].kind, member[gt[s].guardian].role)
      BY <1>2, <1>3, <1>5 DEF gt, AllCovered, Active, ActiveIn
    <2> QED
      BY <2>1 DEF Active, ActiveIn
  <1> QED
    BY <1>4, <1>5 DEF gt, AllCovered

LEMMA AddMemberInv ==
  ASSUME IInv, NEW p \in Request, NEW m \in Member,
         NEW kind \in {"adult", "child"}, AddMember(p, m, kind)
  PROVE  IInv'
  <1> DEFINE row == UnlinkedRow(kind)
             adder == request[p].by
  <1>1. row \in MemberRows /\ row.kind = kind
    BY DEF UnlinkedRow, MemberRow, MemberRows, Role
  <1>2. member \in [Member -> MemberRows] /\ ~Active(m)
    BY FreshFacts DEF AddMember, IInv, TypeOK, Active, ActiveIn
  <1>3. /\ One(m, row) \in SomeOf(Member, MemberRows)
        /\ DOMAIN One(m, row) = {m} /\ One(m, row)[m] = row
    BY <1>1, OneFacts
  <1>4. \A k \in DOMAIN One(m, row) : k \notin Owners
    BY <1>2, <1>3 DEF Owners
  <1>5. CASE kind = "adult"
    <2> DEFINE w == [Writes EXCEPT !.member = One(m, row)]
    <2>1. /\ w \in Writing /\ w.member = One(m, row)
          /\ w.guardianship = Nothing /\ w.deletion = {}
      BY <1>3, WritesType DEF Writes, Writing
    <2>2. ASSUME AllCovered(member, guardianship)
          PROVE  KeepsCoverage(w)
      <3>1. AllCovered(Over(One(m, row), member), guardianship)
        BY <1>1, <1>2, <1>3, <1>5, <2>2, MemberRowsKeepCoverage DEF IInv
      <3> QED
        BY <2>1, <3>1, OverNothing DEF KeepsCoverage, IInv, TypeOK
    <2>3. Open(p, "members:add", w)
      BY <1>5 DEF AddMember
    <2> HIDE DEF w
    <2> QED
      BY <1>4, <2>1, <2>2, <2>3, OpenInv
  <1>6. CASE kind = "child"
    <2>1. PICK r \in Guardianship :
            /\ IsFresh(r, guardianship, p, "guardianship")
            /\ Open(p, "members:add",
                 [Writes EXCEPT !.member = One(m, row),
                                !.guardianship = One(r, Pair(adder, m))])
      BY <1>6 DEF AddMember
    <2> DEFINE w == [Writes EXCEPT !.member = One(m, row),
                                   !.guardianship = One(r, Pair(adder, m))]
    <2>2. adder \in Member /\ Eligible(member[adder].kind, member[adder].role)
      BY <1>6 DEF AddMember
    <2>3. One(r, Pair(adder, m)) \in SomeOf(Guardianship, GuardianshipRows)
      <3>1. Pair(adder, m) \in GuardianshipRows
        BY <2>2 DEF Pair, GuardianshipRows
      <3> QED
        BY <3>1, OneFacts
    <2>4. /\ w \in Writing /\ w.member = One(m, row) /\ w.deletion = {}
          /\ w.guardianship = One(r, Pair(adder, m))
      BY <1>3, <2>3, WritesType DEF Writes, Writing
    <2>5. ASSUME AllCovered(member, guardianship), Active(adder)
          PROVE  KeepsCoverage(w)
      <3>1. guardianship[r].state = "unused"
        BY <2>1, FreshFacts
      <3>2. /\ Over(One(m, row), member) \in [Member -> MemberRows]
            /\ \A k \in Member : \/ Over(One(m, row), member)[k] = member[k]
                                 \/ ~Active(k) /\ k = m
        <4>1. \A k \in Member : Over(One(m, row), member)[k] =
                                IF k = m THEN row ELSE member[k]
          BY <1>2 DEF Over, One
        <4>2. Over(One(m, row), member) \in [Member -> MemberRows]
          BY <1>2, <1>3, OverFacts
        <4> QED
          BY <1>2, <4>1, <4>2
      <3>3. AllCovered(Over(One(m, row), member),
                       Over(One(r, Pair(adder, m)), guardianship))
        BY <2>2, <2>5, <3>1, <3>2, PairKeepsCoverage DEF IInv
      <3> QED
        BY <2>4, <3>3 DEF KeepsCoverage
    <2>6. Open(p, "members:add", w)
      BY <2>1
    <2> HIDE DEF w
    <2> QED
      BY <1>4, <2>4, <2>5, <2>6, OpenInv
  <1> QED
    BY <1>5, <1>6

LEMMA GrantGuardianshipInv ==
  ASSUME IInv, NEW p \in Request, NEW g \in Member, NEW c \in Member,
         GrantGuardianship(p, g, c)
  PROVE  IInv'
  <1>1. PICK r \in Guardianship :
          /\ IsFresh(r, guardianship, p, "guardianship")
          /\ Open(p, "guardianship:manage",
               [Writes EXCEPT !.guardianship = One(r, Pair(g, c))])
    BY DEF GrantGuardianship
  <1> DEFINE w == [Writes EXCEPT !.guardianship = One(r, Pair(g, c))]
  <1>2. One(r, Pair(g, c)) \in SomeOf(Guardianship, GuardianshipRows)
    <2>1. Pair(g, c) \in GuardianshipRows
      BY DEF Pair, GuardianshipRows
    <2> QED
      BY <2>1, OneFacts
  <1>3. /\ w \in Writing /\ w.member = Nothing /\ w.deletion = {}
        /\ w.guardianship = One(r, Pair(g, c))
    BY <1>2, WritesType DEF Writes, Writing
  <1>4. \A k \in DOMAIN w.member : k \notin Owners
    BY <1>3, NothingFacts
  <1>5. ASSUME AllCovered(member, guardianship)
        PROVE  KeepsCoverage(w)
    <2>1. Active(g) /\ Eligible(member[g].kind, member[g].role)
      BY DEF GrantGuardianship
    <2>2. guardianship[r].state = "unused"
      BY <1>1, FreshFacts
    <2>a. member \in [Member -> MemberRows]
      BY DEF IInv, TypeOK
    <2>3. AllCovered(member, Over(One(r, Pair(g, c)), guardianship))
      BY <1>5, <2>1, <2>2, <2>a, PairKeepsCoverage DEF IInv
    <2> QED
      BY <1>3, <2>3, OverNothing DEF KeepsCoverage, IInv, TypeOK
  <1>6. Open(p, "guardianship:manage", w)
    BY <1>1
  <1> HIDE DEF w
  <1> QED
    BY <1>3, <1>4, <1>5, <1>6, OpenInv

LEMMA EndGuardianshipInv ==
  ASSUME IInv, NEW p \in Request, NEW r \in Guardianship, EndGuardianship(p, r)
  PROVE  IInv'
  <1> DEFINE f == Ended({r})
             w == [Writes EXCEPT !.guardianship = f]
             gt == Over(f, guardianship)
  <1>1. /\ f \in SomeOf(Guardianship, GuardianshipRows) /\ DOMAIN f = {r}
        /\ f[r].state = "ended"
    BY EndedFacts DEF IInv
  <1> HIDE DEF f
  <1>2. /\ w \in Writing /\ w.member = Nothing /\ w.deletion = {}
        /\ w.guardianship = f
    BY <1>1, WritesType DEF Writes, Writing
  <1>3. \A k \in DOMAIN w.member : k \notin Owners
    BY <1>2, NothingFacts
  <1>4. ASSUME AllCovered(member, guardianship)
        PROVE  KeepsCoverage(w)
    <2>1. gt[r].state = "ended"
          /\ \A s \in Guardianship : s # r => gt[s] = guardianship[s]
      BY <1>1 DEF Over, IInv, TypeOK
    <2> HIDE DEF gt
    <2>2. ASSUME NEW c \in Member, member[c].state = "active",
                 member[c].kind = "child"
          PROVE  \E s \in Guardianship : gt[s].state = "active" /\ gt[s].child = c
      <3>1. PICK s \in Covering(c) : TRUE
        BY <1>4, <2>2 DEF AllCovered, Covering
      <3>2. CASE s # r
        BY <2>1, <3>1, <3>2 DEF Covering
      <3>3. CASE s = r
        <4>1. Cardinality(Covering(c)) - 1 >= 1
          BY <3>1, <3>3 DEF EndGuardianship, Covering
        <4>2. PICK x \in Covering(c) : x # r
          BY <4>1, AnotherOne, CoveringFinite
        <4> QED
          BY <2>1, <4>2 DEF Covering
      <3> QED
        BY <3>2, <3>3
    <2>3. ASSUME NEW s \in Guardianship, gt[s].state = "active"
          PROVE  /\ gt[s].guardian \in Member
                 /\ member[gt[s].guardian].state = "active"
                 /\ Eligible(member[gt[s].guardian].kind,
                             member[gt[s].guardian].role)
      BY <1>4, <2>1, <2>3 DEF AllCovered
    <2>4. AllCovered(member, gt)
      BY <2>2, <2>3 DEF AllCovered
    <2> QED
      BY <1>2, <2>4, OverNothing DEF gt, KeepsCoverage, IInv, TypeOK
  <1>5. Open(p, "guardianship:manage", w)
    BY DEF f, EndGuardianship
  <1> HIDE DEF w
  <1> QED
    BY <1>2, <1>3, <1>4, <1>5, OpenInv

\* One member row with the guardianships its member has to give up, if any.
LEMMA MemberChangeInv ==
  ASSUME IInv, NEW p \in Request, NEW m \in Member, NEW row \in MemberRows,
         NEW given \in {{}, HeldBy(m)},
         Open(p, "members:manage",
              [Writes EXCEPT !.member = One(m, row), !.guardianship = Ended(given)]),
         m \notin Owners, row.kind = "child" => member[m].kind = "child",
         row.state = "active" => Active(m),
         \/ given = HeldBy(m) /\ CoveredWithout(m)
         \/ /\ given = {} /\ row.state = "active"
            /\ Eligible(member[m].kind, member[m].role)
                 => Eligible(row.kind, row.role)
  PROVE  IInv'
  <1> DEFINE f == One(m, row)
             e == Ended(given)
             w == [Writes EXCEPT !.member = f, !.guardianship = e]
  <1>a. DOMAIN One(m, row) = {m} /\ One(m, row)[m] = row
    BY DEF One
  <1>b. One(m, row) \in SomeOf(Member, MemberRows)
    BY OneFacts
  <1>1. /\ f \in SomeOf(Member, MemberRows) /\ DOMAIN f = {m} /\ f[m] = row
    BY <1>a, <1>b
  <1>2. given \in SUBSET Guardianship
    BY DEF HeldBy
  <1>3. e \in SomeOf(Guardianship, GuardianshipRows) /\ DOMAIN e = given
    BY <1>2, EndedFacts DEF IInv
  <1>4. Open(p, "members:manage", w)
    OBVIOUS
  <1> HIDE DEF f, e
  <1>5. /\ w \in Writing /\ w.member = f /\ w.guardianship = e
        /\ w.deletion = {}
    BY <1>1, <1>3, WritesType DEF Writes, Writing
  <1>6. \A k \in DOMAIN w.member : k \notin Owners
    BY <1>1, <1>5
  <1>7. ASSUME AllCovered(member, guardianship)
        PROVE  KeepsCoverage(w)
    <2>1. CASE /\ given = {} /\ row.state = "active"
               /\ Eligible(member[m].kind, member[m].role)
                    => Eligible(row.kind, row.role)
      <3>1. AllCovered(Over(f, member), guardianship)
        BY <1>1, <1>7, <2>1, MemberRowsKeepCoverage DEF IInv
      <3>2. Over(e, guardianship) = guardianship
        BY <1>3, <2>1 DEF Over, IInv, TypeOK
      <3> QED
        BY <1>5, <3>1, <3>2 DEF KeepsCoverage
    <2>2. CASE given = HeldBy(m) /\ CoveredWithout(m)
      <3>1. AllCovered(Over(One(m, row), member),
                       Over(Ended(HeldBy(m)), guardianship))
        BY <1>7, <2>2, GivingUpKeepsCoverage DEF IInv, TablesFine
      <3> QED
        BY <1>5, <2>2, <3>1 DEF KeepsCoverage, f, e
    <2> QED
      BY <2>1, <2>2
  <1> HIDE DEF w
  <1> QED
    BY <1>4, <1>5, <1>6, <1>7, OpenInv

LEMMA ChangeMemberRoleInv ==
  ASSUME IInv, NEW p \in Request, NEW m \in Member, NEW role \in GivenRole,
         ChangeMemberRole(p, m, role)
  PROVE  IInv'
  <1> DEFINE row   == WithRole(m, role)
             given == IF LosesEligibility(m, role) THEN HeldBy(m) ELSE {}
  <1>1. /\ Active(m) /\ member[m].kind = "adult" /\ member[m].role # "owner"
        /\ LosesEligibility(m, role) => CoveredWithout(m)
        /\ Open(p, "members:manage",
             [Writes EXCEPT !.member = One(m, row), !.guardianship = Ended(given)])
    BY DEF ChangeMemberRole
  <1>2. row \in MemberRows /\ row.kind = "adult" /\ row.state = "active"
        /\ row.role = role
    BY <1>1, RoleAssumption
    DEF IInv, TypeOK, MemberRows, Role, WithRole, Active, ActiveIn
  <1>3. m \notin Owners
    BY <1>1 DEF Owners
  <1>4. CASE LosesEligibility(m, role)
    <2>1. given = HeldBy(m) /\ CoveredWithout(m)
      BY <1>1, <1>4
    <2> HIDE DEF row, given
    <2> QED
      BY <1>1, <1>2, <1>3, <2>1, MemberChangeInv
  <1>5. CASE ~LosesEligibility(m, role)
    <2>1. /\ given = {}
          /\ Eligible(member[m].kind, member[m].role) => Eligible(row.kind, row.role)
      BY <1>1, <1>2, <1>5 DEF LosesEligibility
    <2> HIDE DEF row, given
    <2> QED
      BY <1>1, <1>2, <1>3, <2>1, MemberChangeInv
  <1> QED
    BY <1>4, <1>5

LEMMA RemoveMemberInv ==
  ASSUME IInv, NEW p \in Request, NEW m \in Member, RemoveMember(p, m)
  PROVE  IInv'
  <1> DEFINE row == Tombstone(m)
  <1>1. /\ Active(m) /\ member[m].role # "owner" /\ CoveredWithout(m)
        /\ Open(p, "members:manage",
             [Writes EXCEPT !.member = One(m, row), !.guardianship = Ended(HeldBy(m))])
    BY DEF RemoveMember, Removable
  <1>2. row \in MemberRows /\ row.kind = member[m].kind /\ row.state = "removed"
    BY <1>1 DEF IInv, TypeOK, MemberRows, Tombstone
  <1>3. m \notin Owners
    BY <1>1 DEF Owners
  <1> HIDE DEF row
  <1> QED
    BY <1>1, <1>2, <1>3, MemberChangeInv

\* The one command that replaces the owner's row, with the new owner's.
LEMMA TransferOwnershipInv ==
  ASSUME IInv, NEW p \in Request, NEW m \in Member, TransferOwnership(p, m)
  PROVE  IInv'
  <1>1. PICK o \in Member :
          /\ Active(o) /\ member[o].role = "owner"
          /\ Active(m) /\ m # o /\ MayOwn(m)
          /\ Open(p, "members:manage",
               [Writes EXCEPT !.member =
                  [k \in {o, m} |-> IF k = m THEN AsOwner(m) ELSE Demoted(o)]])
    BY DEF TransferOwnership
  <1> DEFINE f == [k \in {o, m} |-> IF k = m THEN AsOwner(m) ELSE Demoted(o)]
             w == [Writes EXCEPT !.member = f]
  <1>2. /\ AsOwner(m) \in MemberRows /\ AsOwner(m).state = "active"
        /\ AsOwner(m).role = "owner" /\ AsOwner(m).kind = "adult"
    BY <1>1 DEF IInv, TypeOK, MemberRows, Role, AsOwner, MayOwn, Active, ActiveIn
  <1>3. /\ Demoted(o) \in MemberRows /\ Demoted(o).state = "active"
        /\ Demoted(o).role = "adult" /\ Demoted(o).kind = "adult"
    BY <1>1 DEF IInv, TypeOK, MemberRows, Role, Demoted, Active, ActiveIn
  <1>4. DOMAIN f = {o, m} /\ f[m] = AsOwner(m) /\ f[o] = Demoted(o)
    BY <1>1
  <1>5. f \in SomeOf(Member, MemberRows)
    <2>1. f \in [{o, m} -> MemberRows] /\ {o, m} \in SUBSET Member
      BY <1>2, <1>3
    <2> HIDE DEF f
    <2> QED
      BY <2>1, PartialType
  <1>6. Open(p, "members:manage", w)
    BY <1>1
  <1> HIDE DEF f
  <1>7. /\ w \in Writing /\ w.member = f /\ w.guardianship = Nothing
        /\ w.deletion = {}
    BY <1>5, WritesType DEF Writes, Writing
  <1>8. ASSUME AllCovered(member, guardianship)
        PROVE  KeepsCoverage(w)
    <2>1. \A k \in DOMAIN f : /\ f[k].state = "active" /\ f[k].kind = "adult"
                              /\ Eligible(f[k].kind, f[k].role)
      BY <1>2, <1>3, <1>4 DEF Eligible
    <2>2. AllCovered(Over(f, member), guardianship)
      BY <1>5, <1>8, <2>1, MemberRowsKeepCoverage DEF IInv
    <2> QED
      BY <1>7, <2>2, OverNothing DEF KeepsCoverage, IInv, TypeOK
  <1>9. m \in DOMAIN f /\ f[m].state = "active" /\ f[m].role = "owner"
    BY <1>2, <1>4
  <1> HIDE DEF w
  <1> QED
    BY <1>6, <1>7, <1>8, <1>9, OpenInv

LEMMA CommandInv ==
  ASSUME IInv, NEW p \in Request, Command(p)
  PROVE  IInv'
  BY UpdateFamilyInv, RequestFamilyDeletionInv, AddMemberInv, ChangeMemberRoleInv,
     RemoveMemberInv, TransferOwnershipInv, GrantGuardianshipInv,
     EndGuardianshipInv, InvitationInv
  DEF Command

\* An invitation is accepted with one look at its row and a new member row.
LEMMA AcceptInvitationInv ==
  ASSUME IInv, NEW p \in Request, NEW i \in Invitation, NEW m \in Member,
         AcceptInvitation(p, i, m)
  PROVE  IInv'
  <1> DEFINE row == InvitedRow(invitation[i].role, invitation[i].email)
             f  == One(m, row)
             g  == One(i, Accepted(i, m))
             w  == [Writes EXCEPT !.member = f, !.invitation = g]
             rq == [Idle EXCEPT !.phase = "open", !.writes = w]
  <1>1. /\ IsPending(i) /\ IsFresh(m, member, p, "member")
        /\ request' = [request EXCEPT ![p] = rq]
        /\ UNCHANGED <<tables, late, history>>
    BY DEF AcceptInvitation, IsAcceptable
  <1>2. served' \in 0..MaxServed
    BY BoundAssumption DEF AcceptInvitation, Serve, IInv, TypeOK
  <1>3. invitation[i] \in InvitationRows
    BY DEF IInv, TypeOK
  <1>4. row \in MemberRows /\ row.kind = "adult"
    BY <1>3 DEF InvitedRow, MemberRow, MemberRows, InvitationRows, Role
  <1>5. Accepted(i, m) \in InvitationRows
    BY <1>3 DEF Accepted, InvitationRows
  <1>6. ~Active(m)
    BY <1>1, FreshFacts DEF Active, ActiveIn
  <1> HIDE DEF row
  <1>7. f \in SomeOf(Member, MemberRows) /\ DOMAIN f = {m} /\ f[m] = row
    BY <1>4, OneFacts
  <1>8. /\ g \in SomeOf(Invitation, InvitationRows) /\ DOMAIN g = {i}
        /\ g[i] = Accepted(i, m)
    BY <1>5, OneFacts
  <1> HIDE DEF f, g
  <1>9. /\ w \in Writing /\ w.member = f /\ w.guardianship = Nothing
        /\ w.invitation = g /\ w.deletion = {}
    BY <1>7, <1>8, WritesType DEF Writes, Writing
  <1> HIDE DEF w
  <1>10. /\ rq \in Requests /\ rq.phase = "open" /\ rq.writes = w
         /\ rq.stale = {} /\ rq.behind = FALSE
    BY <1>9, IdleType DEF Idle, Requests, Writing
  <1> HIDE DEF rq
  <1>11. request'[p] = rq
    BY <1>1 DEF IInv, TypeOK
  <1>12. /\ UNCHANGED <<member, guardianship, invitation, deletion, raced, stray>>
         /\ Owners' = Owners
    BY <1>1 DEF tables, history, Owners, Active, ActiveIn
  <1>13. m \notin Owners
    BY <1>6 DEF Owners
  <1>14. ASSUME ~raced
         PROVE  KeepsCoverage(w)
    <2>1. AllCovered(member, guardianship)
      BY <1>14 DEF IInv, TablesFine
    <2>2. AllCovered(Over(f, member), guardianship)
      BY <1>4, <1>6, <1>7, <2>1, MemberRowsKeepCoverage DEF IInv
    <2> QED
      BY <1>9, <2>2, OverNothing DEF KeepsCoverage, IInv, TypeOK
  <1>15. deletion => TakesLeftover(w)
    <2>1. deletion => i \in stray
      BY <1>1 DEF IInv, TablesFine
    <2>2. Accepted(i, m).state = "accepted"
      BY <1>3 DEF Accepted, InvitationRows
    <2> QED
      BY <1>8, <1>9, <2>1, <2>2 DEF TakesLeftover
  <1>16. RequestFine(p)'
    <2>1. KeepsOwner(p)'
      BY <1>7, <1>9, <1>10, <1>11, <1>12, <1>13 DEF KeepsOwner
    <2>2. request'[p].phase = "open" /\ request'[p].writes = w
      BY <1>10, <1>11
    <2>3. Current(p)' => ~raced
      BY <1>12 DEF Current
    <2>4. PromptFine(p)'
      BY <1>9, <1>12, <1>15, <2>2 DEF PromptFine, TakesLeftover
    <2> QED
      BY <1>12, <1>14, <2>1, <2>2, <2>3, <2>4 DEF RequestFine, KeepsCoverage
  <1> QED
    BY <1>1, <1>2, <1>10, <1>16, RequestMoves

------------------------------------------------------------------------------
(* Steps that change the tables *)

\* A request that another one's writes overtake is behind; all it still has to
\* show is that it does not take the owner away without knowing.
LEMMA OvertakenFine ==
  ASSUME TypeOK, NEW q \in Request, RequestFine(q), NEW rows \in SUBSET Member,
         \A k \in Member \ rows : member'[k] = member[k],
         \/ request[q].phase = "idle" /\ request'[q] = request[q]
         \/ /\ request'[q].behind
            /\ request'[q].phase = request[q].phase
            /\ request'[q].writes = request[q].writes
            /\ request[q].phase = "open" =>
                 request'[q].stale = request[q].stale \cup rows
  PROVE  RequestFine(q)'
  <1>1. CASE request'[q].phase = "idle"
    BY <1>1 DEF RequestFine, PromptFine
  <1>2. CASE request[q].phase # "idle" /\ request'[q].behind
    <2>1. ~Current(q)'
      BY <1>2 DEF Current
    <2>2. ASSUME request'[q].phase = "open"
          PROVE  KeepsOwner(q)'
      <3>1. /\ request[q].phase = "open" /\ KeepsOwner(q)
            /\ request'[q].writes = request[q].writes
            /\ request'[q].stale = request[q].stale \cup rows
        BY <1>2, <2>2 DEF RequestFine
      <3>2. DOMAIN request[q].writes.member \subseteq Member
        BY RequestFacts, PartialFacts DEF Writing
      <3>3. \A k \in Member \ rows : k \in Owners' => k \in Owners
        BY DEF Owners, Active, ActiveIn
      <3> QED
        BY <3>1, <3>2, <3>3 DEF KeepsOwner
    <2> QED
      BY <1>2, <2>1, <2>2 DEF RequestFine
  <1> QED
    BY <1>1, <1>2

LEMMA CommitInv ==
  ASSUME IInv, NEW p \in Request, Commit(p)
  PROVE  IInv'
  <1> DEFINE w == request[p].writes
             rows == DOMAIN w.member
  <1>1. /\ request[p].phase = "open"
        /\ member'       = Over(w.member, member)
        /\ guardianship' = Over(w.guardianship, guardianship)
        /\ invitation'   = Over(w.invitation, invitation)
        /\ deletion'     = SavedDeletion(w)
        /\ family_one_owner(member')
        /\ guardianship_one_active_per_pair(guardianship')
        /\ raced'     = (raced \/ request[p].behind)
        /\ overwrote' = (overwrote \/ rows \cap request[p].stale # {})
        /\ stray'     = IF deletion' /\ request[p].behind
                           THEN stray \cup {i \in Invitation : invitation'[i].state = "pending"}
                           ELSE stray
        /\ request'   = [FallBehind(p, rows) EXCEPT ![p] = Idle]
        /\ UNCHANGED <<late, served>>
    BY DEF Commit
  <1>2. w \in Writing /\ request[p].stale \subseteq Member
        /\ request[p].behind \in BOOLEAN
    BY RequestFacts DEF IInv
  <1>3. /\ w.member \in SomeOf(Member, MemberRows)
        /\ w.guardianship \in SomeOf(Guardianship, GuardianshipRows)
        /\ w.invitation \in SomeOf(Invitation, InvitationRows)
        /\ w.deletion \in SUBSET BOOLEAN
    BY <1>2 DEF Writing
  <1>4. /\ member \in [Member -> MemberRows]
        /\ guardianship \in [Guardianship -> GuardianshipRows]
        /\ invitation \in [Invitation -> InvitationRows]
        /\ request \in [Request -> Requests]
    BY DEF IInv, TypeOK
  <1>5. rows \subseteq Member
    BY <1>3, PartialFacts
  <1>6. RequestFine(p)
    BY DEF IInv
  <1> HIDE DEF w
  <1>7. \A q \in Request \ {p} :
          request'[q] =
            IF request[q].phase = "idle" THEN request[q]
            ELSE [request[q] EXCEPT
                    !.behind = TRUE,
                    !.stale = IF request[q].phase = "open" THEN @ \cup rows ELSE @]
    BY <1>1, <1>4 DEF FallBehind
  <1>8. request'[p] = Idle
    BY <1>1 DEF FallBehind
  <1>9. TypeOK'
    <2>1. request' \in [Request -> Requests]
      <3>1. \A q \in Request : request'[q] \in Requests
        <4>1. ASSUME NEW q \in Request, q # p
              PROVE  request'[q] \in Requests
          <5>1. request[q] \in Requests /\ request[q].stale \cup rows \subseteq Member
            BY <1>4, <1>5 DEF Requests
          <5>2. CASE request[q].phase = "idle"
            BY <1>7, <4>1, <5>1, <5>2
          <5>3. CASE request[q].phase = "admitted"
            <6>1. request'[q] = [request[q] EXCEPT !.behind = TRUE,
                                                   !.stale = request[q].stale]
              BY <1>7, <4>1, <5>3
            <6> QED
              BY <5>1, <6>1 DEF Requests
          <5>4. CASE request[q].phase = "open"
            <6>1. request'[q] = [request[q] EXCEPT !.behind = TRUE,
                                                   !.stale = request[q].stale \cup rows]
              BY <1>7, <4>1, <5>4
            <6> QED
              BY <5>1, <6>1 DEF Requests
          <5> QED
            BY <5>1, <5>2, <5>3, <5>4 DEF Requests
        <4> QED
          BY <1>8, <4>1, IdleType
      <3>2. request' = [q \in Request |-> request'[q]]
        BY <1>1 DEF FallBehind
      <3> QED
        BY <3>1, <3>2
    <2>2. member' \in [Member -> MemberRows]
      BY <1>1, <1>3, <1>4, OverFacts
    <2>3. guardianship' \in [Guardianship -> GuardianshipRows]
      BY <1>1, <1>3, <1>4, OverFacts
    <2>4. invitation' \in [Invitation -> InvitationRows]
      BY <1>1, <1>3, <1>4, OverFacts
    <2>5. deletion' \in BOOLEAN /\ raced' \in BOOLEAN /\ overwrote' \in BOOLEAN
      <3>1. deletion \in BOOLEAN /\ raced \in BOOLEAN /\ overwrote \in BOOLEAN
        BY DEF IInv, TypeOK
      <3>2. deletion' \in BOOLEAN
        <4>1. deletion' = IF w.deletion = {} THEN deletion ELSE TRUE \in w.deletion
          BY <1>1 DEF SavedDeletion
        <4>2. CASE w.deletion = {}
          <5>1. deletion' = deletion
            BY <4>1, <4>2
          <5> QED
            BY <3>1, <5>1
        <4>3. CASE w.deletion # {}
          <5>1. deletion' = (TRUE \in w.deletion)
            BY <4>1, <4>3, Zenon
          <5> QED
            BY <5>1
        <4> QED
          BY <4>2, <4>3
      <3>3. raced' \in BOOLEAN
        BY <1>1
      <3>4. overwrote' \in BOOLEAN
        BY <1>1
      <3> QED
        BY <3>2, <3>3, <3>4
    <2>6. late' \subseteq Invitation /\ served' \in 0..MaxServed
      BY <1>1 DEF IInv, TypeOK
    <2>7. stray' \subseteq Invitation
      BY <1>1 DEF IInv, TypeOK
    <2> QED
      BY <2>1, <2>2, <2>3, <2>4, <2>5, <2>6, <2>7 DEF TypeOK
  <1>10. \A k \in Member : member'[k] = IF k \in rows THEN w.member[k] ELSE member[k]
    BY <1>1, <1>4 DEF Over
  <1>11. TablesFine'
    <2>1. ASSUME ~overwrote'
          PROVE  Owners' # {}
      <3>1. rows \cap request[p].stale = {} /\ Owners # {}
        BY <1>1, <2>1 DEF IInv, TablesFine
      <3>2. CASE \A k \in rows \ request[p].stale : k \notin Owners
        <4>1. PICK o \in Owners : TRUE
          BY <3>1
        <4>2. o \in Member /\ o \notin rows
          BY <3>1, <3>2 DEF Owners
        <4> QED
          BY <1>10, <4>1, <4>2 DEF Owners, Active, ActiveIn
      <3>3. CASE \E k \in rows :
                   w.member[k].state = "active" /\ w.member[k].role = "owner"
        BY <1>5, <1>10, <3>3 DEF Owners, Active, ActiveIn
      <3> QED
        BY <1>1, <1>6, <3>2, <3>3 DEF RequestFine, KeepsOwner, w
    <2>2. ASSUME ~raced'
          PROVE  AllCovered(member', guardianship')
      <3>1. Current(p)
        BY <1>1, <2>2 DEF Current
      <3>2. KeepsCoverage(w)
        BY <1>1, <1>6, <3>1 DEF RequestFine, w
      <3> QED
        BY <1>1, <3>2 DEF KeepsCoverage
    <2>3. ASSUME deletion', NEW i \in Invitation, invitation'[i].state = "pending"
          PROVE  i \in stray'
      <3>1. CASE request[p].behind
        BY <1>1, <2>3, <3>1
      <3>2. CASE ~request[p].behind /\ deletion
        <4>1. TakesLeftover(w) /\ stray' = stray
          BY <1>1, <1>6, <3>2 DEF RequestFine, PromptFine, w
        <4>2. invitation'[i] = IF i \in DOMAIN w.invitation
                               THEN w.invitation[i] ELSE invitation[i]
          BY <1>1, <1>3, <1>4, OverFacts
        <4>3. IsPending(i)
          BY <2>3, <4>1, <4>2 DEF TakesLeftover, IsPending
        <4> QED
          BY <3>2, <4>1, <4>3 DEF IInv, TablesFine
      <3>3. CASE ~request[p].behind /\ ~deletion
        <4>1. TRUE \in w.deletion
          BY <1>1, <2>3, <3>3 DEF SavedDeletion
        <4>2. ClosesInvitations(w)
          BY <1>1, <1>6, <3>3, <4>1 DEF RequestFine, PromptFine, w
        <4> QED
          BY <1>1, <2>3, <4>2 DEF ClosesInvitations
      <3> QED
        BY <3>1, <3>2, <3>3
    <2> QED
      BY <1>1, <2>1, <2>2, <2>3 DEF TablesFine, IsPending
  <1>12. ASSUME NEW q \in Request
         PROVE  RequestFine(q)'
    <2>1. CASE q = p
      <3>1. request'[q].phase = "idle"
        BY <1>8, <2>1 DEF Idle
      <3> QED
        BY <3>1 DEF RequestFine, PromptFine
    <2>2. CASE q # p /\ request[q].phase = "idle"
      <3>1. request'[q].phase = "idle"
        BY <1>7, <2>2
      <3> QED
        BY <3>1 DEF RequestFine, PromptFine
    <2>3. CASE q # p /\ request[q].phase # "idle"
      <3>1. request[q] \in Requests
        BY <1>4
      <3>2. /\ request'[q].behind
            /\ request'[q].phase = request[q].phase
            /\ request'[q].writes = request[q].writes
            /\ request[q].phase = "open" =>
                 request'[q].stale = request[q].stale \cup rows
        <4>1. CASE request[q].phase = "open"
          <5>1. request'[q] = [request[q] EXCEPT !.behind = TRUE,
                                                 !.stale = request[q].stale \cup rows]
            BY <1>7, <2>3, <4>1
          <5> QED
            BY <3>1, <5>1 DEF Requests
        <4>2. CASE request[q].phase # "open"
          <5>1. request'[q] = [request[q] EXCEPT !.behind = TRUE,
                                                 !.stale = request[q].stale]
            BY <1>7, <2>3, <4>2
          <5> QED
            BY <3>1, <4>2, <5>1 DEF Requests
        <4> QED
          BY <4>1, <4>2
      <3>3. \A k \in Member \ rows : member'[k] = member[k]
        BY <1>10
      <3> QED
        BY <1>5, <3>2, <3>3, OvertakenFine DEF IInv
    <2> QED
      BY <2>1, <2>2, <2>3
  <1> QED
    BY <1>9, <1>11, <1>12 DEF IInv

LEMMA ExpireInvitationsInv ==
  ASSUME IInv, ExpireInvitations
  PROVE  IInv'
  <1> DEFINE overdue == {i \in late : IsExpired(i)}
  <1>1. /\ invitation' = [i \in Invitation |->
             IF i \in overdue THEN [invitation[i] EXCEPT !.state = "expired"]
                              ELSE invitation[i]]
        /\ request' = [p \in Request |->
             IF request[p].phase = "idle" THEN request[p]
             ELSE [request[p] EXCEPT !.behind = TRUE]]
        /\ UNCHANGED <<member, guardianship, deletion, late, served, history>>
    BY DEF ExpireInvitations
  <1>2. invitation' \in [Invitation -> InvitationRows]
    <2>1. \A i \in Invitation : invitation[i] \in InvitationRows
      BY DEF IInv, TypeOK
    <2>2. \A i \in Invitation :
            [invitation[i] EXCEPT !.state = "expired"] \in InvitationRows
      BY <2>1 DEF InvitationRows
    <2> QED
      BY <1>1, <2>1, <2>2
  <1>3. request' \in [Request -> Requests]
    <2>1. \A q \in Request : request[q] \in Requests
      BY DEF IInv, TypeOK
    <2>2. \A q \in Request : [request[q] EXCEPT !.behind = TRUE] \in Requests
      BY <2>1 DEF Requests
    <2> QED
      BY <1>1, <2>1, <2>2
  <1>4. TypeOK'
    BY <1>1, <1>2, <1>3 DEF IInv, TypeOK, history
  <1>5. \A i \in Invitation :
          invitation'[i].state = "pending" => invitation[i].state = "pending"
    BY <1>1 DEF IInv, TypeOK, InvitationRows
  <1>6. Owners' = Owners
    BY <1>1 DEF Owners, Active, ActiveIn
  <1>7. TablesFine'
    BY <1>1, <1>5, <1>6
    DEF IInv, TablesFine, IsPending, family_one_owner,
        guardianship_one_active_per_pair, ActiveIn, history
  <1>8. ASSUME NEW q \in Request
        PROVE  RequestFine(q)'
    <2>1. request[q] \in Requests
      BY DEF IInv, TypeOK
    <2>2. CASE request[q].phase = "idle"
      <3>1. request'[q].phase = "idle"
        BY <1>1, <2>2
      <3> QED
        BY <3>1 DEF RequestFine, PromptFine
    <2>3. CASE request[q].phase # "idle"
      <3>1. /\ request'[q].behind
            /\ request'[q].phase = request[q].phase
            /\ request'[q].writes = request[q].writes
            /\ request'[q].stale = request[q].stale \cup {}
        BY <1>1, <2>1, <2>3 DEF Requests
      <3>2. \A k \in Member \ {} : member'[k] = member[k]
        BY <1>1
      <3>3. {} \in SUBSET Member /\ TypeOK /\ RequestFine(q)
        BY DEF IInv
      <3> QED
        BY <3>1, <3>2, <3>3, OvertakenFine
    <2> QED
      BY <2>2, <2>3
  <1> QED
    BY <1>4, <1>7, <1>8 DEF IInv

LEMMA TimePassesInv ==
  ASSUME IInv, NEW i \in Invitation, TimePasses(i)
  PROVE  IInv'
  <1>1. UNCHANGED <<tables, request, served, history>> /\ late' \subseteq Invitation
    BY DEF TimePasses, IInv, TypeOK
  <1>2. TypeOK'
    BY <1>1 DEF IInv, TypeOK, tables, history
  <1> QED
    BY <1>1, <1>2, TablesStay, RequestStays DEF IInv

LEMMA NextInv == IInv /\ [Next]_vars => IInv'
  <1> SUFFICES ASSUME IInv, [Next]_vars
               PROVE  IInv'
    OBVIOUS
  <1>1. ASSUME NEW p \in Request, RequestStep(p)
        PROVE  IInv'
    BY <1>1, AdmitInv, AcceptInvitationInv, CommandInv, CommitInv, FailInv
    DEF RequestStep
  <1>2. ASSUME NEW i \in Invitation, TimePasses(i)
        PROVE  IInv'
    BY <1>2, TimePassesInv
  <1>3. CASE ExpireInvitations
    BY <1>3, ExpireInvitationsInv
  <1>4. CASE UNCHANGED vars
    <2>1. TypeOK'
      BY <1>4 DEF vars, IInv, TypeOK, tables, history
    <2> QED
      BY <1>4, <2>1, TablesStay, RequestStays DEF vars, IInv
  <1> QED
    BY <1>1, <1>2, <1>3, <1>4 DEF Next

LEMMA Inductive == Spec => []IInv
  BY InitInv, NextInv, PTL DEF Spec

------------------------------------------------------------------------------
(* Theorems *)

\* The rows keep the CHECKs of family_member, and a request holds what the
\* guards and its command gave it.
THEOREM TypeCorrect == Spec => []TypeOK
  <1>1. IInv => TypeOK
    BY DEF IInv
  <1> QED
    BY <1>1, Inductive, PTL

\* SC-007: family_one_owner keeps a second owner out, and no command that
\* read its rows as they still are takes the only one away: transferOwnership
\* writes both rows at once, changeMemberRole and removeMember refuse the
\* owner (family-member.repository.ts:30 saves whole rows).
THEOREM OneOwner == Spec => []OwnedUnlessOverwritten
  <1>1. IInv => OwnedUnlessOverwritten
    <2> SUFFICES ASSUME IInv, ~overwrote
                 PROVE  Cardinality(Owners) = 1
      BY DEF OwnedUnlessOverwritten
    <2>1. PICK o : o \in Owners
      BY DEF IInv, TablesFine
    <2>2. Owners = {o}
      BY <2>1 DEF Owners, Active, IInv, TablesFine, family_one_owner
    <2> QED
      BY <2>2, FS_Singleton
  <1> QED
    BY <1>1, Inductive, PTL

\* SC-006, FR-006: as long as no request commits after one it overlapped,
\* FR-008's checks are enough: every child has an active, eligible guardian
\* (addMember, endGuardianship, changeMemberRole, removeMember).
THEOREM EveryChildGuarded == Spec => []GuardedUnlessRaced
  <1>1. IInv => GuardedUnlessRaced
    <2> SUFFICES ASSUME IInv, ~raced
                 PROVE  /\ Uncovered = {}
                        /\ \A c \in Member : ActiveChild(c) => Guarded(c)
      BY DEF GuardedUnlessRaced
    <2>1. AllCovered(member, guardianship)
      BY DEF IInv, TablesFine
    <2>2. ASSUME NEW c \in Member, ActiveChild(c)
          PROVE  Guarded(c)
      BY <2>1, <2>2 DEF AllCovered, ActiveChild, Active, ActiveIn, Guarded, Covering
    <2> QED
      BY <2>2 DEF Uncovered, Guarded
  <1> QED
    BY <1>1, Inductive, PTL

\* FR-023, FR-025: after requestFamilyDeletion the guards admit nobody and no
\* invitation is pending, so that only a request that was under way, and was
\* overtaken, still changes the family, or the acceptance or the expiry of an
\* invitation such a request has left pending (resolveFamilyContext, request-
\* family-deletion.command.ts).
THEOREM DeletionIsFinal == Spec => DeletionFreezes
  <1> DEFINE Overtaken ==
               \E p \in Request :
                 /\ Closes(p)
                 /\ \/ request[p].behind
                    \/ \E i \in DOMAIN request[p].writes.invitation : i \in stray
             Expiry ==
               /\ UNCHANGED <<member, guardianship, deletion>>
               /\ \A i \in Invitation : invitation'[i] # invitation[i] => i \in stray
  <1>1. ASSUME IInv, [Next]_vars, deletion
        PROVE  UNCHANGED tables \/ Overtaken \/ Expiry
    <2>1. ASSUME NEW p \in Request, Commit(p)
          PROVE  Overtaken
      <3>1. request[p].phase = "open" /\ RequestFine(p)
        BY <1>1, <2>1 DEF Commit, IInv
      <3>2. request'[p] = Idle
        BY <2>1 DEF Commit, FallBehind
      <3>3. ~request[p].behind => DOMAIN request[p].writes.invitation \cap stray # {}
        BY <1>1, <3>1 DEF RequestFine, PromptFine, TakesLeftover
      <3> QED
        BY <3>1, <3>2, <3>3 DEF Closes
    <2>2. ASSUME ExpireInvitations
          PROVE  Expiry
      <3>1. \A i \in Invitation : invitation'[i] # invitation[i] => IsPending(i)
        BY <2>2 DEF ExpireInvitations, IsExpired
      <3>2. UNCHANGED <<member, guardianship, deletion>>
        BY <2>2 DEF ExpireInvitations
      <3> QED
        BY <1>1, <3>1, <3>2 DEF IInv, TablesFine
    <2>3. ASSUME NEW p \in Request, Command(p)
          PROVE  UNCHANGED tables
      BY <2>3
      DEF Command, UpdateFamily, RequestFamilyDeletion, AddMember, ChangeMemberRole,
          RemoveMember, TransferOwnership, GrantGuardianship, EndGuardianship,
          CreateInvitation, RevokeInvitation, Open
    <2>4. ASSUME NEW p \in Request, RequestStep(p)
          PROVE  UNCHANGED tables \/ Overtaken
      BY <2>1, <2>3, <2>4 DEF RequestStep, Admit, AcceptInvitation, Fail
    <2> QED
      BY <1>1, <2>2, <2>4 DEF Next, TimePasses, vars
  <1>2. IInv /\ [Next]_vars =>
          [deletion => UNCHANGED tables \/ Overtaken \/ Expiry]_vars
    BY <1>1
  <1> QED
    BY <1>2, Inductive, PTL DEF Spec, DeletionFreezes
==============================================================================
