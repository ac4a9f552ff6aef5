--------------------------------- MODULE Api ---------------------------------
(***************************************************************************)
(* A request on its way through the API (apps/api): the rate limits, the   *)
(* session, the caller's standing and capability, then the handler, which  *)
(* looks for a stored answer, runs its command and stores what it answers. *)
(* Whom the guards of a family turn away is written to the audit log first.*)
(*                                                                         *)
(* A call is what the client wants done once, under one Idempotency-Key.   *)
(* It sends the call again whenever it has no answer to keep, also while   *)
(* the request before is still on its way.                                 *)
(***************************************************************************)
EXTENDS Integers, FiniteSets, ApiContracts

CONSTANTS
  Call,         \* calls: [name, user, family, route, key]; key "" for none
  Plans,        \* which of them a client may want done: sets of calls
  Change,       \* what a member's standing can become: roles, or "none"
  Attempt,      \* requests that can be under way at once
  Limit,        \* requests a window of a rate limit admits
  MaxFaults,    \* bound: crashes, answers lost, sessions ended and roles changed
  MaxEffects    \* bound: the effects of one call are counted so far and no further

ASSUME CallAssumption ==
  Call \subseteq [name : STRING, user : STRING, family : STRING,
                  route : DOMAIN Routes, key : STRING]
ASSUME PlanAssumption == Plans \subseteq SUBSET Call
ASSUME ChangeAssumption == Change \subseteq Role \cup {"none"}
ASSUME NumberAssumption == Limit \in Nat \ {0} /\ MaxFaults \in Nat /\ MaxEffects \in Nat \ {0}

VARIABLES
  plan,      \* the calls the client wants done
  signedIn,  \* users whose session is good
  standing,  \* the role of each <<user, family>>, "none" without standing
  audited,   \* audit_log: the calls a guard of a family denied
  stored,    \* idempotency_key: the scoped key of a user, with the answer
  effects,   \* how often the command of a call took effect
  hits,      \* requests counted by each rate limit in its present window
  attempt,   \* where each request is
  answered,  \* the answers the client has received to a call and keeps
  faults,    \* crashes, lost answers, ended sessions and changed roles so far
  blind      \* history: calls looked up while their answer was unstored work

vars == <<plan, signedIn, standing, audited, stored, effects, hits, attempt, answered, faults,
          blind>>
world == <<plan, signedIn, standing>>
access == <<plan, signedIn, standing, audited>>

------------------------------------------------------------------------------
RouteOf(c) == Routes[c.route]
Work(c)    == RouteOf(c).work
IsKeyed(c) == RouteOf(c).key # "none" /\ c.key # ""
Member(c)  == <<c.user, c.family>>
MaySession(c)  == NeedsSession(c.route) => c.user \in signedIn
IsKnown(c)     == NeedsStanding(c.route) => standing[Member(c)] # "none"
Allows(role, c) ==
  NeedsStanding(c.route) => role # "none" /\ HasCapability(role, RouteOf(c).needs)
IsAllowed(c)   == Allows(standing[Member(c)], c)

\* Mutant of ScopedKey: every controller leaves the route out.
ScopedKeyOfFamily(c) ==
  IF RouteOf(c).key = "bare" THEN <<c.key>> ELSE <<c.family, c.key>>

\* What an answer is filed under besides the user.
ScopedKey(c) ==
  CASE RouteOf(c).key = "bare"   -> <<c.key>>
    [] RouteOf(c).key = "family" -> <<c.family, c.key>>
    [] OTHER                     -> <<c.family, c.route, c.key>>

\* findByKey: the rows of the caller and the scoped key; there is at most one.
Found(c) == {r \in stored : r.user = c.user /\ r.key = ScopedKey(c)}

\* The bucket of each limit that counts the call; a household is one source.
Bucket(c, limit) ==
  CASE limit = "source" -> <<c.route, "source">>
    [] limit = "family" -> <<c.route, "family", c.family>>
    [] OTHER            -> <<c.route, limit, c.user>>
Scoped  == {"user", "family", "account", "session"}
Counted(c, limits) == {Bucket(c, l) : l \in limits \cap RouteOf(c).limits}
Buckets == UNION {Counted(c, Scoped \cup Source) : c \in Call}

\* Answers: a problem, or success with the thing the command made or settled.
Refusal(problem) == [problem |-> problem, of |-> "", nth |-> 0]
Success(c, nth)  == [problem |-> "none", of |-> c.name, nth |-> nth]
GuardProblems == {"rate_limited", "session_invalid", "not_found", "capability_required"}
Results == [problem : {"none"}, of : {c.name : c \in Call}, nth : 0 .. MaxEffects]
Answers(c) ==
  {Refusal(p) : p \in GuardProblems \cup Refusals(c.route) \cup {"internal"}} \cup Results
NoAnswer == Refusal("")

Members == {Member(c) : c \in Call}
Idle == [phase |-> "idle"]
Requests == UNION
  {[phase : {"sent", "known", "admitted", "new", "done", "answering"}, call : {c},
    answer : Answers(c) \cup {NoAnswer}, welcome : BOOLEAN] : c \in Call}
Rows == [user : STRING, key : {ScopedKey(c) : c \in Call}, answer : Results]
Deliveries(c) == [answer : Answers(c), welcome : BOOLEAN]

TypeOK ==
  /\ plan \in Plans
  /\ signedIn \subseteq {c.user : c \in Call}
  /\ standing \in [Members -> Role \cup {"none"}]
  /\ audited \subseteq Call
  /\ stored \subseteq Rows
  /\ \A r \in stored, q \in stored : r.user = q.user /\ r.key = q.key => r = q
  /\ effects \in [Call -> 0 .. MaxEffects]
  /\ hits \in [Buckets -> 0 .. Limit]
  /\ attempt \in [Attempt -> Requests \cup {Idle}]
  /\ DOMAIN answered = Call /\ \A c \in Call : answered[c] \subseteq Deliveries(c)
  /\ faults \in 0 .. MaxFaults
  /\ blind \subseteq Call

Init ==
  /\ plan     \in Plans
  /\ signedIn = {c.user : c \in Call}
  /\ standing = [m \in Members |-> "owner"]
  /\ audited  = {}
  /\ stored   = {}
  /\ effects  = [c \in Call |-> 0]
  /\ hits     = [b \in Buckets |-> 0]
  /\ attempt  = [a \in Attempt |-> Idle]
  /\ answered = [c \in Call |-> {}]
  /\ faults   = 0
  /\ blind    = {}

UnderWay(c) == {a \in Attempt : attempt[a] # Idle /\ attempt[a].call = c}
Moves(a, phase) == attempt' = [attempt EXCEPT ![a].phase = phase]
Responds(a, answer) ==
  attempt' = [attempt EXCEPT ![a].phase = "answering", ![a].answer = answer]

------------------------------------------------------------------------------
(* The client and the guards in front of a handler. *)

\* The call is sent, or sent again with no answer to keep.
Send(a, c) ==
  /\ c \in plan /\ answered[c] = {}
  /\ attempt[a] = Idle
  /\ attempt' = [attempt EXCEPT ![a] =
       [phase |-> "sent", call |-> c, answer |-> NoAnswer,
        welcome |-> MaySession(c) /\ IsAllowed(c)]]
  /\ UNCHANGED <<access, stored, effects, hits, answered, faults, blind>>

\* ThrottlerGuard: the request is counted, or refused when the window is full.
Throttled(c, limits) == \E b \in Counted(c, limits) : hits[b] >= Limit
Count(c, limits) ==
  hits' = [b \in Buckets |-> IF b \in Counted(c, limits) THEN hits[b] + 1 ELSE hits[b]]

\* GlobalRateLimitGuard before every guard of the route; SessionGuard is the
\* first of those wherever it is named.
Authenticate(a) ==
  /\ attempt[a].phase = "sent"
  /\ LET c == attempt[a].call
     IN \/ /\ Throttled(c, Source)
           /\ Responds(a, Refusal("rate_limited")) /\ UNCHANGED hits
        \/ /\ ~Throttled(c, Source) /\ Count(c, Source)
           /\ IF MaySession(c)
                THEN Moves(a, "known")
                ELSE Responds(a, Refusal("session_invalid"))
  /\ UNCHANGED <<access, stored, effects, answered, faults, blind>>

\* Mutant of Turned: a request whose answer is stored is let through to it.
TurnedUnlessStored(c) ==
  IF Found(c) # {} THEN {}
  ELSE IF ~IsKnown(c) THEN {"not_found"}
  ELSE IF ~IsAllowed(c) THEN {"capability_required"} ELSE {}

\* FamilyMembershipGuard, then CapabilityGuard, which checks what the first has
\* read: the problem they turn the caller away with, if any.
Turned(c) ==
  IF ~IsKnown(c) THEN {"not_found"}
  ELSE IF ~IsAllowed(c) THEN {"capability_required"} ELSE {}

\* The limits of the route, then the guards of the family; a denial is in the
\* audit log before the caller is told.
Admit(a) ==
  /\ attempt[a].phase = "known"
  /\ LET c == attempt[a].call
     IN \/ /\ Throttled(c, Scoped)
           /\ Responds(a, Refusal("rate_limited")) /\ UNCHANGED <<hits, audited>>
        \/ /\ ~Throttled(c, Scoped) /\ Count(c, Scoped)
           /\ \/ /\ Turned(c) = {} /\ UNCHANGED audited
                 /\ Moves(a, IF IsKeyed(c) THEN "admitted" ELSE "new")
              \/ /\ Turned(c) # {} /\ audited' = audited \cup {c}
                 /\ \E p \in Turned(c) : Responds(a, Refusal(p))
  /\ UNCHANGED <<world, stored, effects, answered, faults, blind>>

------------------------------------------------------------------------------
(* The handler. *)

\* Mutant of LookUp: the answers are stored and never looked for.
LookUpNothing(a) ==
  /\ attempt[a].phase = "admitted"
  /\ Moves(a, "new")
  /\ UNCHANGED <<access, stored, effects, hits, answered, faults, blind>>

\* An answer that is stored is the answer, whatever the request says now.
LookUp(a) ==
  /\ attempt[a].phase = "admitted"
  /\ LET found == Found(attempt[a].call)
     IN \/ /\ found = {} /\ Moves(a, "new")
           /\ blind' = IF \E b \in UnderWay(attempt[a].call) : attempt[b].phase \in {"new", "done"}
                THEN blind \cup {attempt[a].call} ELSE blind
        \/ \E r \in found : Responds(a, r.answer) /\ UNCHANGED blind
  /\ UNCHANGED <<access, stored, effects, hits, answered, faults>>

\* Mutant of Refuses: the version a request expects is not compared.
RefusesNothing(c) == effects[c] > 0 /\ Work(c) = "refuse"

\* Run again, a command makes another thing, finds its work done, or is refused
\* by the version it moved or by what it used up.
Refuses(c) == effects[c] > 0 /\ Work(c) \in {"version", "refuse"}
Acts(c)    == Work(c) # "read" /\ (Work(c) = "settle" => effects[c] = 0)

\* The transaction of the command, on its own and after the look-up.
RunCommand(a) ==
  /\ attempt[a].phase = "new"
  /\ LET c == attempt[a].call
         n == IF effects[c] < MaxEffects THEN effects[c] + 1 ELSE MaxEffects
     IN \/ /\ Refuses(c) /\ UNCHANGED effects
           /\ \E p \in Refusals(c.route) : Responds(a, Refusal(p))
        \/ /\ ~Refuses(c)
           /\ effects' = IF Acts(c) THEN [effects EXCEPT ![c] = n] ELSE effects
           /\ attempt' = [attempt EXCEPT
                ![a].phase  = IF IsKeyed(c) THEN "done" ELSE "answering",
                ![a].answer = Success(c, effects'[c])]
  /\ UNCHANGED <<access, stored, hits, answered, faults, blind>>

\* The request is invalid or the world has moved: nothing is done or stored,
\* and the handler tells what the command returned.
CommandRefuses(a) ==
  /\ attempt[a].phase = "new"
  /\ \E p \in Refusals(attempt[a].call.route) : Responds(a, Refusal(p))
  /\ UNCHANGED <<access, stored, effects, hits, answered, faults, blind>>

\* Mutant of Save: a row that is there already is left, and the answer goes out.
SaveOrLeave(a) ==
  /\ attempt[a].phase = "done"
  /\ LET c == attempt[a].call
         row == [user |-> c.user, key |-> ScopedKey(c), answer |-> attempt[a].answer]
     IN stored' = IF Found(c) = {} THEN stored \cup {row} ELSE stored
  /\ Moves(a, "answering")
  /\ UNCHANGED <<access, effects, hits, answered, faults, blind>>

\* save: the row is inserted, or its insertion fails on the primary key and the
\* answer is lost with it.
Save(a) ==
  /\ attempt[a].phase = "done"
  /\ LET c == attempt[a].call
         row == [user |-> c.user, key |-> ScopedKey(c), answer |-> attempt[a].answer]
     IN \/ /\ Found(c) = {}
           /\ stored' = stored \cup {row} /\ Moves(a, "answering")
        \/ /\ Found(c) # {}
           /\ Responds(a, Refusal("internal")) /\ UNCHANGED stored
  /\ UNCHANGED <<access, effects, hits, answered, faults, blind>>

\* The client keeps an answer unless it is about the moment.
Deliver(a) ==
  /\ attempt[a].phase = "answering"
  /\ attempt' = [attempt EXCEPT ![a] = Idle]
  /\ LET r == attempt[a]
     IN answered' = IF r.answer.problem \in {"rate_limited", "internal"} THEN answered
          ELSE [answered EXCEPT ![r.call] = @ \cup {[answer |-> r.answer, welcome |-> r.welcome]}]
  /\ UNCHANGED <<access, stored, effects, hits, faults, blind>>

Handle(a) ==
  Authenticate(a) \/ Admit(a) \/ LookUp(a) \/ RunCommand(a) \/ Save(a) \/ Deliver(a)

------------------------------------------------------------------------------
(* The surroundings. *)

\* The answer does not reach the client.
LoseAnswer(a) ==
  /\ faults < MaxFaults /\ faults' = faults + 1
  /\ attempt[a].phase = "answering"
  /\ attempt' = [attempt EXCEPT ![a] = Idle]
  /\ UNCHANGED <<access, stored, effects, hits, answered, blind>>

\* The process dies: the requests under way are gone, and the counts of the
\* rate limits, which are kept in memory.
Crash ==
  /\ faults < MaxFaults /\ faults' = faults + 1
  /\ \E a \in Attempt : attempt[a] # Idle
  /\ attempt' = [a \in Attempt |-> Idle]
  /\ hits' = [b \in Buckets |-> 0]
  /\ blind' = blind \cup {attempt[a].call : a \in {b \in Attempt : attempt[b].phase = "done"}}
  /\ UNCHANGED <<access, stored, effects, answered>>

\* The window of the limits ends.
WindowPasses ==
  /\ \E b \in Buckets : hits[b] > 0
  /\ hits' = [b \in Buckets |-> 0]
  /\ UNCHANGED <<access, stored, effects, attempt, answered, faults, blind>>

\* A session ends; a member gets another role, or none.  Who gains by it what
\* a request still on its way to the guards asks for is welcome from then on.
SignedOut(u) ==
  /\ faults < MaxFaults /\ faults' = faults + 1
  /\ u \in signedIn /\ signedIn' = signedIn \ {u}
  /\ UNCHANGED <<plan, standing, audited, stored, effects, hits, attempt, answered, blind>>
RoleChanged(m, role) ==
  /\ faults < MaxFaults /\ faults' = faults + 1
  /\ standing[m] \notin {role, "none"} /\ standing' = [standing EXCEPT ![m] = role]
  /\ attempt' = [a \in Attempt |->
       IF attempt[a] = Idle THEN Idle
       ELSE [attempt[a] EXCEPT !.welcome = @ \/
               /\ attempt[a].phase = "known" \/ MaySession(attempt[a].call)
               /\ Allows(standing'[Member(attempt[a].call)], attempt[a].call)]]
  /\ UNCHANGED <<plan, signedIn, audited, stored, effects, hits, answered, blind>>

Next ==
  \/ \E a \in Attempt, c \in Call : Send(a, c)
  \/ \E a \in Attempt : Handle(a) \/ CommandRefuses(a) \/ LoseAnswer(a)
  \/ Crash \/ WindowPasses
  \/ \E u \in signedIn : SignedOut(u)
  \/ \E m \in Members, role \in Change : RoleChanged(m, role)

\* The client keeps asking, a request that arrived is handled to its end, and
\* the windows of rate limits pass.
Fairness ==
  /\ \A c \in Call : WF_vars(\E a \in Attempt : Send(a, c))
  /\ \A a \in Attempt : WF_vars(Handle(a))
  /\ WF_vars(WindowPasses)

Spec == Init /\ [][Next]_vars /\ Fairness

------------------------------------------------------------------------------
(* What the client can rely on. *)

Received(c)  == {r.answer : r \in answered[c]}
Successes(c) == {r \in Received(c) : r.problem = "none"}

\* SC-009: however often a call is sent, its command takes effect once, unless
\* the key was looked for while an earlier request was between its look-up and
\* its stored answer, or the API died there.  A command that moves a version,
\* settles a fact or uses something up takes effect once in any case.
DoneOnce ==
  \A c \in Call : effects[c] > 1 =>
    Work(c) = "create" /\ (~IsKeyed(c) \/ c \in blind)

\* Even then the client is never told of two things made under one key: the
\* second request cannot store its answer and does not get to give it (the
\* primary key of idempotency_key, save inside the handler).
OneAnswerAKey ==
  \A c \in Call : IsKeyed(c) => Cardinality(Successes(c)) <= 1

\* Two calls under one key that the API cannot tell apart: on one route in one
\* family (of no family, for createFamily), whatever thing they are about; and
\* the two routes that add to a family, which common/idempotency.ts takes to
\* "never collide on a key a client happened to reuse across both".
Adding == {"addMember", "createInvitation"}
SharesScope(c, d) ==
  /\ IsKeyed(c) /\ IsKeyed(d) /\ c.user = d.user /\ c.key = d.key
  /\ c.family = d.family \/ c.route = "createFamily"
  /\ c.route = d.route \/ {c.route, d.route} \subseteq Adding

IsOwn(c, name) == \E d \in Call : name = d.name /\ (d = c \/ SharesScope(c, d))

\* A success is told to nobody but the caller it was stored for, and never on
\* another route or in another family, though the client used one key for both,
\* but for the two routes above (scopedKey of the tasks, calendar and family
\* controllers).
AnswersAreOnesOwn ==
  \A c \in Call : \A r \in Successes(c) : IsOwn(c, r.of)

\* Whoever had no session when the request was sent, or lacked the standing or
\* the capability from then on, is told nothing of what it asks for, not even by
\* an answer stored while they had it; and whom the family turned away is in its
\* audit log (the guards run before the handler looks for an answer).
GoneAreToldNothing ==
  \A c \in Call : \A r \in answered[c] : ~r.welcome =>
    \/ r.answer.problem = "session_invalid"
    \/ r.answer.problem \in {"not_found", "capability_required"} /\ c \in audited

\* A call that is sent until it has an answer gets one to keep, through full
\* windows, lost answers, crashes and its own earlier requests.
EveryCallIsAnswered == <>(\A c \in plan : answered[c] # {})
==============================================================================
