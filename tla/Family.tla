-------------------------------- MODULE Family --------------------------------
(***************************************************************************)
(* The Family and Membership context (packages/core/src/family): one       *)
(* family, its members, guardianships and invitations, under requests that *)
(* overlap.                                                                *)
(*                                                                         *)
(* A request is served in steps.  The guards resolve the caller's standing *)
(* in a transaction of their own; the command reads its rows; it writes    *)
(* them and commits.  Transactions are READ COMMITTED and lock nothing     *)
(* they read, and a repository saves a whole row: what a command writes is *)
(* decided by what it read, however old that is by then.  The reads of a   *)
(* command are one step here, and so are its writes with the commit, which *)
(* the unique indexes may refuse.                                          *)
(*                                                                         *)
(* Row-level security confines a transaction to the family it names, so    *)
(* one family stands for all.                                              *)
(***************************************************************************)
EXTENDS Naturals, FiniteSets

CONSTANTS
  Member,       \* family_member rows, in the order they are allocated
  User,         \* accounts, which stand for their e-mail addresses as well
  Founder,      \* the account that created the family
  Guardianship, \* guardianship rows, in the order they are allocated
  Invitation,   \* invitation rows, in the order they are allocated
  GivenRole,    \* roles the owner gives or offers
  Request,      \* requests that can be under way at once
  MaxServed     \* bound: requests admitted

NoMember == 0
NoUser   == "no user"

ASSUME RowAssumption ==
  /\ Member \subseteq Nat \ {NoMember} /\ Guardianship \subseteq Nat
  /\ Invitation \subseteq Nat /\ 1 \in Member
  /\ IsFiniteSet(Guardianship)
ASSUME FounderAssumption == Founder \in User /\ NoUser \notin User
ASSUME RoleAssumption    == GivenRole \subseteq {"adult", "extended", "viewer"}
ASSUME BoundAssumption   == MaxServed \in Nat

Role == {"owner", "adult", "extended", "viewer"}

VARIABLES
  member,        \* family_member
  guardianship,  \* guardianship
  invitation,    \* invitation
  deletion,      \* is deletion_requested_at set?
  late,          \* invitations past their expiry
  request,       \* where each request is
  served,        \* requests admitted so far
  raced,         \* history: a request committed after one it overlapped
  overwrote,     \* history: a request wrote a member row changed since it read
  stray          \* history: invitations that a request overtaken by another has
                 \* left pending beside a request for deletion

tables  == <<member, guardianship, invitation, deletion>>
history == <<raced, overwrote, stray>>
vars    == <<tables, late, request, served, history>>

------------------------------------------------------------------------------
(* Rows *)

MemberRow(kind, role, user) ==
  [state |-> "active", kind |-> kind, role |-> role, user |-> user]
OwnerRow(user)         == MemberRow("adult", "owner", user)
UnlinkedRow(kind)      == MemberRow(kind, IF kind = "child" THEN "viewer" ELSE "extended", NoUser)
InvitedRow(role, user) == MemberRow("adult", role, user)

Pair(g, c) == [state |-> "active", guardian |-> g, child |-> c]
Offer(user, role) ==
  [state |-> "pending", email |-> user, role |-> role, by |-> NoMember]

Unused == [state |-> "unused", kind |-> "adult", role |-> "viewer", user |-> NoUser]
NoPair == [state |-> "unused", guardian |-> NoMember, child |-> NoMember]
NoOffer == [state |-> "unused", email |-> NoUser, role |-> "viewer", by |-> NoMember]

ActiveIn(m, table) == table[m].state = "active"
Active(m)          == ActiveIn(m, member)
ActiveChild(m)     == Active(m) /\ member[m].kind = "child"
HasStanding(m)     == Active(m) /\ member[m].user # NoUser

\* What becomes of a member's row; the guards of each stand with its command.
WithRole(m, role) == [member[m] EXCEPT !.role = role]
AsOwner(m)        == [member[m] EXCEPT !.role = "owner"]
Demoted(m)        == [member[m] EXCEPT !.role = "adult"]
Tombstone(m)      == [member[m] EXCEPT !.state = "removed", !.user = NoUser]
MayOwn(m)         == member[m].kind = "adult" /\ member[m].user # NoUser

\* isEligibleGuardian.
Eligible(kind, role) == kind = "adult" /\ role \in {"owner", "adult"}

\* capabilitiesFor, of the capabilities that guard a change.
Capabilities(role) ==
  CASE role = "owner" -> {"family:manage", "members:add", "members:manage",
                          "guardianship:manage", "family:delete"}
    [] role = "adult" -> {"family:manage", "members:add"}
    [] OTHER          -> {}

\* Active guardianships of a guardian, and of a child.
HeldBy(g) == {r \in Guardianship :
                guardianship[r].state = "active" /\ guardianship[r].guardian = g}
Covering(c) == {r \in Guardianship :
                  guardianship[r].state = "active" /\ guardianship[r].child = c}

\* findChildrenWithoutGuardian, for the nightly alert: it looks at the
\* guardianships alone, not at who holds them.
Uncovered == {c \in Member : ActiveChild(c) /\ Covering(c) = {}}

\* assertGuardianCoverage for every child a guardian would give up.
CoveredWithout(g) ==
  \A r \in HeldBy(g) : Cardinality(Covering(guardianship[r].child)) - 1 >= 1

------------------------------------------------------------------------------
(* What a request writes: new rows over the old ones. *)

Nothing == [x \in {} |-> x]
Writes  == [member |-> Nothing, guardianship |-> Nothing, invitation |-> Nothing,
            deletion |-> {}]

One(key, row) == [k \in {key} |-> row]

Over(new, table) ==
  [k \in DOMAIN table |-> IF k \in DOMAIN new THEN new[k] ELSE table[k]]

Ended(rows)   == [r \in rows |-> [guardianship[r] EXCEPT !.state = "ended"]]
Revoked(rows) == [i \in rows |-> [invitation[i] EXCEPT !.state = "revoked"]]
Accepted(i, m) == [invitation[i] EXCEPT !.state = "accepted", !.by = m]

IsPending(i)    == invitation[i].state = "pending"
IsAcceptable(i) == IsPending(i) /\ i \notin late
IsExpired(i)    == IsPending(i) /\ i \in late

\* Ids are generated: no row and no other request has this one.
Taken(p, name) ==
  UNION {DOMAIN request[q].writes[name] : q \in Request \ {p}}
IsFresh(k, table, p, name) ==
  LET free == {j \in DOMAIN table : table[j].state = "unused"} \ Taken(p, name)
  IN k \in free /\ \A j \in free : k <= j

------------------------------------------------------------------------------
(* Requests *)

Idle == [phase |-> "idle", by |-> NoMember, may |-> {}, writes |-> Writes,
         behind |-> FALSE, stale |-> {}]

Init ==  \* createFamily has committed the family and its owner together
  /\ member = [m \in Member |-> IF m = 1 THEN OwnerRow(Founder)
                                ELSE Unused]
  /\ guardianship = [r \in Guardianship |-> NoPair]
  /\ invitation   = [i \in Invitation |-> NoOffer]
  /\ deletion     = FALSE
  /\ late         = {}
  /\ request      = [p \in Request |-> Idle]
  /\ served       = 0
  /\ raced        = FALSE
  /\ overwrote    = FALSE
  /\ stray        = {}

Serve == served < MaxServed /\ served' = served + 1

(* The guards: resolveFamilyContext, then the capabilities it returned. *)
Admit(p, m) ==
  /\ request[p].phase = "idle"
  /\ ~deletion
  /\ HasStanding(m)
  /\ Serve
  /\ request' = [request EXCEPT ![p] =
       [Idle EXCEPT !.phase = "admitted", !.by = m,
                    !.may = Capabilities(member[m].role)]]
  /\ UNCHANGED <<tables, late, history>>

\* A command with its capability has read its rows and decided what to write.
Open(p, capability, writes) ==
  /\ request[p].phase = "admitted"
  /\ capability \in request[p].may
  /\ request' = [request EXCEPT ![p].phase = "open", ![p].by = NoMember,
                                ![p].may = {}, ![p].writes = writes]
  /\ UNCHANGED <<tables, late, served, history>>

(* updateFamily saves the whole family row. *)
UpdateFamily(p) ==
  Open(p, "family:manage", [Writes EXCEPT !.deletion = {deletion}])

(* addMember: an unlinked adult; or a child, and its adder as guardian.    *)
(* The adder's row is read for its kind and role only.                     *)
AddMember(p, m, kind) ==
  LET adder == request[p].by IN
  /\ IsFresh(m, member, p, "member")
  /\ \/ /\ kind = "adult"
        /\ Open(p, "members:add",
             [Writes EXCEPT !.member = One(m, UnlinkedRow(kind))])
     \/ /\ kind = "child"
        /\ adder \in Member
        /\ Eligible(member[adder].kind, member[adder].role)
        /\ \E r \in Guardianship :
             /\ IsFresh(r, guardianship, p, "guardianship")
             /\ Open(p, "members:add",
                  [Writes EXCEPT
                     !.member = One(m, UnlinkedRow(kind)),
                     !.guardianship = One(r, Pair(adder, m))])

(* grantGuardianship; a pair that exists already is left as it is. *)
GrantGuardianship(p, g, c) ==
  /\ ActiveChild(c) /\ Active(g)
  /\ HeldBy(g) \cap Covering(c) = {}
  /\ Eligible(member[g].kind, member[g].role)
  /\ \E r \in Guardianship :
       /\ IsFresh(r, guardianship, p, "guardianship")
       /\ Open(p, "guardianship:manage",
            [Writes EXCEPT !.guardianship = One(r, Pair(g, c))])

(* endGuardianship. *)
EndGuardianship(p, r) ==
  /\ guardianship[r].state = "active"
  /\ Cardinality(Covering(guardianship[r].child)) - 1 >= 1
  /\ Open(p, "guardianship:manage", [Writes EXCEPT !.guardianship = Ended({r})])

(* createInvitation: not to a member, and not a second pending one. *)
CreateInvitation(p, i, user, role) ==
  /\ IsFresh(i, invitation, p, "invitation")
  /\ ~\E m \in Member : Active(m) /\ member[m].user = user
  /\ ~\E j \in Invitation : IsPending(j) /\ invitation[j].email = user
  /\ Open(p, "members:manage", [Writes EXCEPT !.invitation = One(i, Offer(user, role))])

(* revokeInvitation. *)
RevokeInvitation(p, i) ==
  /\ IsPending(i)
  /\ Open(p, "members:manage", [Writes EXCEPT !.invitation = Revoked({i})])

LosesEligibility(m, role) ==
  Eligible(member[m].kind, member[m].role) /\ ~Eligible(member[m].kind, role)

(* Mutant of ChangeMemberRole: the coverage of the children is not asked. *)
ChangeMemberRoleUnchecked(p, m, role) ==
  /\ Active(m) /\ member[m].kind = "adult" /\ member[m].role # "owner"
  /\ Open(p, "members:manage",
       [Writes EXCEPT
          !.member = One(m, WithRole(m, role)),
          !.guardianship = Ended(IF LosesEligibility(m, role) THEN HeldBy(m) ELSE {})])

(* changeMemberRole: a member who may no longer be a guardian gives up the *)
(* guardianships held.                                                     *)
ChangeMemberRole(p, m, role) ==
  /\ Active(m) /\ member[m].kind = "adult" /\ member[m].role # "owner"
  /\ LosesEligibility(m, role) => CoveredWithout(m)
  /\ Open(p, "members:manage",
       [Writes EXCEPT
          !.member = One(m, WithRole(m, role)),
          !.guardianship = Ended(IF LosesEligibility(m, role) THEN HeldBy(m) ELSE {})])

\* removeMember would go through for m.
Removable(m) == Active(m) /\ member[m].role # "owner" /\ CoveredWithout(m)

(* removeMember: a tombstone without its account; the guardianships m holds *)
(* end.                                                                     *)
RemoveMember(p, m) ==
  /\ Removable(m)
  /\ Open(p, "members:manage",
       [Writes EXCEPT
          !.member = One(m, Tombstone(m)),
          !.guardianship = Ended(HeldBy(m))])

(* Mutant of TransferOwnership: the old owner is not demoted in the same   *)
(* transaction, but the new one still has to wait for it.                  *)
TransferOwnershipInTwo(p, m) ==
  \E o \in Member :
    /\ Active(o) /\ member[o].role = "owner"
    /\ Active(m) /\ m # o /\ MayOwn(m)
    /\ Open(p, "members:manage",
         [Writes EXCEPT !.member = One(o, Demoted(o))])

(* transferOwnership: both rows in one transaction. *)
TransferOwnership(p, m) ==
  \E o \in Member :
    /\ Active(o) /\ member[o].role = "owner"
    /\ Active(m) /\ m # o /\ MayOwn(m)
    /\ Open(p, "members:manage",
         [Writes EXCEPT !.member =
            [k \in {o, m} |-> IF k = m THEN AsOwner(m) ELSE Demoted(o)]])

(* Mutant of RequestFamilyDeletion: pending invitations stay open. *)
RequestFamilyDeletionOnly(p) ==
  Open(p, "family:delete", [Writes EXCEPT !.deletion = {TRUE}])

(* requestFamilyDeletion voids the pending invitations, the first time. *)
RequestFamilyDeletion(p) ==
  Open(p, "family:delete",
    [Writes EXCEPT
       !.deletion = {TRUE},
       !.invitation =
          IF deletion THEN Nothing
          ELSE Revoked({i \in Invitation : IsPending(i)})])

(* acceptInvitation: the token is looked up before, and outside, the       *)
(* transaction that writes the membership, and that one reads nothing.  An *)
(* invitation accepted before gives the same membership again.             *)
AcceptInvitation(p, i, m) ==
  LET offer == invitation[i] IN
  /\ request[p].phase = "idle"
  /\ IsAcceptable(i)
  /\ IsFresh(m, member, p, "member")
  /\ Serve
  /\ request' = [request EXCEPT ![p] =
       [Idle EXCEPT
          !.phase = "open",
          !.writes = [Writes EXCEPT
             !.member = One(m, InvitedRow(offer.role, offer.email)),
             !.invitation = One(i, Accepted(i, m))]]]
  /\ UNCHANGED <<tables, late, history>>

------------------------------------------------------------------------------
(* The unique indexes *)

family_one_owner(table) ==
  \A m, n \in Member :
    ActiveIn(m, table) /\ ActiveIn(n, table)
    /\ table[m].role = "owner" /\ table[n].role = "owner" => m = n

family_member_one_per_user(table) ==
  \A m, n \in Member :
    ActiveIn(m, table) /\ ActiveIn(n, table)
    /\ table[m].user = table[n].user /\ table[m].user # NoUser => m = n

invitation_one_pending_per_email(table) ==
  \A i, j \in Invitation :
    table[i].state = "pending" /\ table[j].state = "pending"
    /\ table[i].email = table[j].email => i = j

guardianship_one_active_per_pair(table) ==
  \A r, s \in Guardianship :
    ActiveIn(r, table) /\ ActiveIn(s, table)
    /\ table[r].guardian = table[s].guardian /\ table[r].child = table[s].child
    => r = s

\* The other requests under way fall behind, and what they read of the rows
\* written is stale.
FallBehind(p, rows) ==
  [q \in Request |->
     IF q = p \/ request[q].phase = "idle" THEN request[q]
     ELSE [request[q] EXCEPT
             !.behind = TRUE,
             !.stale  = IF request[q].phase = "open" THEN @ \cup rows ELSE @]]

\* A family row is saved whole, with the request for deletion as it was read.
SavedDeletion(w) == IF w.deletion = {} THEN deletion ELSE TRUE \in w.deletion

(* The writes of a command and its commit. *)
Commit(p) ==
  LET w == request[p].writes IN
  /\ request[p].phase = "open"
  /\ member'       = Over(w.member, member)
  /\ guardianship' = Over(w.guardianship, guardianship)
  /\ invitation'   = Over(w.invitation, invitation)
  /\ deletion'     = SavedDeletion(w)
  /\ family_one_owner(member') /\ family_member_one_per_user(member')
  /\ invitation_one_pending_per_email(invitation')
  /\ guardianship_one_active_per_pair(guardianship')
  /\ raced'     = (raced \/ request[p].behind)
  /\ overwrote' = (overwrote \/ DOMAIN w.member \cap request[p].stale # {})
  /\ stray'     = IF deletion' /\ request[p].behind
                    THEN stray \cup {i \in Invitation : invitation'[i].state = "pending"}
                    ELSE stray
  /\ request'   = [FallBehind(p, DOMAIN w.member) EXCEPT ![p] = Idle]
  /\ UNCHANGED <<late, served>>

(* A refusal, an index in the way, a connection that drops. *)
Fail(p) ==
  /\ request[p].phase # "idle"
  /\ request' = [request EXCEPT ![p] = Idle]
  /\ UNCHANGED <<tables, late, served, history>>

------------------------------------------------------------------------------
(* The sweep of expired invitations *)

(* An invitation reaches its expiry. *)
TimePasses(i) ==
  /\ IsAcceptable(i)
  /\ late' = late \cup {i}
  /\ UNCHANGED <<tables, request, served, history>>

(* expireOverdueInvitations: one UPDATE. *)
ExpireInvitations ==
  LET overdue == {i \in late : IsExpired(i)} IN
  /\ overdue # {}
  /\ invitation' = [i \in Invitation |-> IF i \in overdue
                                         THEN [invitation[i] EXCEPT !.state = "expired"]
                                         ELSE invitation[i]]
  /\ request' = [p \in Request |->
       IF request[p].phase = "idle" THEN request[p]
       ELSE [request[p] EXCEPT !.behind = TRUE]]
  /\ UNCHANGED <<member, guardianship, deletion, late, served, history>>

------------------------------------------------------------------------------
Command(p) ==
  \/ UpdateFamily(p) \/ RequestFamilyDeletion(p)
  \/ \E m \in Member :
       \/ \E kind \in {"adult", "child"} : AddMember(p, m, kind)
       \/ \E role \in GivenRole : ChangeMemberRole(p, m, role)
       \/ RemoveMember(p, m) \/ TransferOwnership(p, m)
       \/ \E c \in Member : GrantGuardianship(p, m, c)
  \/ \E r \in Guardianship : EndGuardianship(p, r)
  \/ \E i \in Invitation :
       \/ \E user \in User, role \in GivenRole : CreateInvitation(p, i, user, role)
       \/ RevokeInvitation(p, i)

RequestStep(p) ==
  \/ \E m \in Member : Admit(p, m)
  \/ \E i \in Invitation, m \in Member : AcceptInvitation(p, i, m)
  \/ Command(p) \/ Commit(p) \/ Fail(p)

Next ==
  \/ \E p \in Request : RequestStep(p)
  \/ \E i \in Invitation : TimePasses(i)
  \/ ExpireInvitations

Spec == Init /\ [][Next]_vars

------------------------------------------------------------------------------
(* Properties *)

\* The rows of the tables, with the CHECKs of family_member: a child is a
\* viewer without an account, and an owner is a linked adult (an owner's
\* tombstone cannot be written).
MemberRows ==
  {row \in [state : {"unused", "active", "removed"}, kind : {"adult", "child"},
            role : Role, user : User \cup {NoUser}] :
     /\ row.kind = "child" => row.role = "viewer" /\ row.user = NoUser
     /\ row.role = "owner" => row.kind = "adult" /\ row.user # NoUser}
GuardianshipRows ==
  [state : {"unused", "active", "ended"}, guardian : Member \cup {NoMember},
   child : Member \cup {NoMember}]
InvitationRows ==
  [state : {"unused", "pending", "accepted", "revoked", "expired"},
   email : User \cup {NoUser}, role : Role \ {"owner"}, by : Member \cup {NoMember}]

SomeOf(keys, rows) == UNION {[S -> rows] : S \in SUBSET keys}
Requests ==
  [phase : {"idle", "admitted", "open"}, by : Member \cup {NoMember},
   may : SUBSET Capabilities("owner"), behind : BOOLEAN, stale : SUBSET Member,
   writes : [member : SomeOf(Member, MemberRows),
             guardianship : SomeOf(Guardianship, GuardianshipRows),
             invitation : SomeOf(Invitation, InvitationRows),
             deletion : SUBSET BOOLEAN]]

\* Types.
TypeOK ==
  /\ member \in [Member -> MemberRows]
  /\ guardianship \in [Guardianship -> GuardianshipRows]
  /\ invitation \in [Invitation -> InvitationRows]
  /\ deletion \in BOOLEAN
  /\ late \subseteq Invitation
  /\ request \in [Request -> Requests]
  /\ served \in 0..MaxServed
  /\ raced \in BOOLEAN
  /\ overwrote \in BOOLEAN
  /\ stray \subseteq Invitation

Owners == {m \in Member : Active(m) /\ member[m].role = "owner"}

\* SC-007, as far as the code keeps it: the family has one owner through every
\* transfer, removal and role change, also when requests overlap, until one of
\* them saves a member row that another changed after it was read
\* (family-member.repository.ts:30).
OwnedUnlessOverwritten == overwrote \/ Cardinality(Owners) = 1

\* SC-006, FR-006: every child has a guardian who is an active, eligible
\* member, until a request commits that overlapped another (FR-008's checks
\* count rows nobody has locked, guardianship.repository.ts:36); so the nightly
\* sweep finds nobody.
Guarded(c) ==
  \E r \in Covering(c) :
    LET g == guardianship[r].guardian IN
    Active(g) /\ Eligible(member[g].kind, member[g].role)

GuardedUnlessRaced ==
  \/ raced
  \/ Uncovered = {} /\ \A c \in Member : ActiveChild(c) => Guarded(c)

\* FR-023, FR-025: once deletion was requested the family changes only by a
\* request that was under way already and was overtaken, and by what such a
\* request has left behind: an invitation still pending, which may be accepted
\* and expires.  Whatever raced before, no request that comes later changes it.
Closes(p)   == request[p].phase = "open" /\ request'[p] = Idle

DeletionFreezes ==
  [][deletion =>
       \/ UNCHANGED tables
       \/ \E p \in Request :
            /\ Closes(p)
            /\ \/ request[p].behind
               \/ \E i \in DOMAIN request[p].writes.invitation : i \in stray
       \/ /\ UNCHANGED <<member, guardianship, deletion>>
          /\ \A i \in Invitation : invitation'[i] # invitation[i] => i \in stray]_vars

\* SC-007 (specs/008-family-membership/spec.md:164): "At every point in time,
\* every family has exactly one owner".
ExactlyOneOwner == Cardinality(Owners) = 1
==============================================================================
