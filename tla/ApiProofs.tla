------------------------------ MODULE ApiProofs ------------------------------
(***************************************************************************)
(* Proofs about Api, for every set of calls, number of overlapping         *)
(* requests and bound: a command is done once, one key has one answer, an  *)
(* answer is that of its call, and who may not know is told nothing.       *)
(***************************************************************************)
EXTENDS TLAPS, FiniteSetTheorems, Sequences, Api

\* A request that is about to run its command, or has run it and has not
\* stored its answer.
Unstored(c) == {a \in UnderWay(c) : attempt[a].phase \in {"new", "done"}}

\* Done at most once: who runs the command alone has found it not done, and
\* what was done is stored or about to be.
OnceFine(c) ==
  IF Work(c) = "create"
    THEN IsKeyed(c) /\ c \notin blind =>
           /\ effects[c] <= 1
           /\ \A a, b \in Unstored(c) : a = b
           /\ \A a \in Unstored(c) : attempt[a].phase = "new" => effects[c] = 0
           /\ effects[c] > 0 =>
                Found(c) # {} \/ \E a \in Unstored(c) : attempt[a].phase = "done"
    ELSE effects[c] <= 1

Done(r)   == r.phase \in {"done", "answering"} /\ r.answer.problem = "none"
Stored(c) == {r.answer : r \in Found(c)}

\* An answer of success that goes out under a key is the stored one.
AnswerFine(r) ==
  /\ r.phase \in {"admitted", "done"} => IsKeyed(r.call)
  /\ r.phase = "done" => r.answer.problem = "none"
  /\ r.phase = "answering" => r.answer \in Answers(r.call)
  /\ r.phase = "answering" /\ r.answer.problem = "none" /\ IsKeyed(r.call)
       => r.answer \in Stored(r.call)
StoredFine == \A c \in Call : IsKeyed(c) => Successes(c) \subseteq Stored(c)

\* Every success is of a call; a stored one is filed under that call's key, and
\* one that is not stored yet is of the call itself.
OwnFine ==
  /\ \A r \in stored : \E d \in Call :
       IsKeyed(d) /\ r.user = d.user /\ r.key = ScopedKey(d) /\ r.answer.of = d.name
  /\ \A a \in Attempt : attempt[a] # Idle /\ Done(attempt[a]) =>
       /\ attempt[a].phase = "done" => attempt[a].answer.of = attempt[a].call.name
       /\ IsOwn(attempt[a].call, attempt[a].answer.of)

\* Who is not welcome has not come past the guard that turns them away.
Denied(c, problem) ==
  \/ problem = "session_invalid"
  \/ problem \in {"not_found", "capability_required"} /\ c \in audited
WelcomeFine(r) ==
  LET c == r.call IN
  ~r.welcome =>
    /\ r.phase = "sent" => ~MaySession(c) \/ ~IsAllowed(c)
    /\ r.phase = "known" => ~IsAllowed(c)
    /\ r.phase \notin {"admitted", "new", "done"}
    /\ r.phase = "answering" => r.answer.problem = "rate_limited" \/ Denied(c, r.answer.problem)

IInv ==
  /\ TypeOK
  /\ \A c \in Call : OnceFine(c)
  /\ StoredFine
  /\ \A a \in Attempt :
       attempt[a] # Idle => AnswerFine(attempt[a]) /\ WelcomeFine(attempt[a])
  /\ GoneAreToldNothing

------------------------------------------------------------------------------
(* Facts about requests and answers. *)

\* A request under way is not the mark of an idle one.
LEMMA Busy == Idle \notin Requests
  BY DEF Idle, Requests

\* No route's refusal reads like a success, and every refusal is a problem.
LEMMA RefusalsAreProblems ==
  \A c \in Call : Refusals(c.route) \subseteq STRING \ {"none"}
  BY HandlersKeepTheContract, CallAssumption

\* The fields of a request, and of what it is answered.
LEMMA RequestFields ==
  ASSUME NEW r \in Requests
  PROVE  /\ r.phase \in {"sent", "known", "admitted", "new", "done", "answering"}
         /\ r.call \in Call /\ r.welcome \in BOOLEAN
         /\ r.answer \in Answers(r.call) \cup {NoAnswer}
  BY DEF Requests

\* A guard's or a handler's problem is a refusal of the call.
LEMMA RefusalIsAnswer ==
  ASSUME NEW c \in Call, NEW p \in GuardProblems \cup Refusals(c.route) \cup {"internal"}
  PROVE  Refusal(p) \in Answers(c) /\ Refusal(p).problem = p /\ p # "none"
<1>1. p # "none"
  BY RefusalsAreProblems DEF GuardProblems
<1>2. Refusal(p) \in Answers(c)
  BY DEF Answers
<1> QED
  BY <1>1, <1>2 DEF Refusal

\* So is a success, whosever it is.
LEMMA SuccessIsAnswer ==
  ASSUME NEW c \in Call, NEW d \in Call, NEW n \in 0 .. MaxEffects
  PROVE  /\ Success(d, n) \in Answers(c) /\ Success(d, n).problem = "none"
         /\ Success(d, n).of = d.name
  BY DEF Answers, Results, Success

\* An answer without a problem is a success of some call.
LEMMA NoProblemIsSuccess ==
  ASSUME NEW c \in Call, NEW r \in Answers(c) \cup {NoAnswer}, r.problem = "none"
  PROVE  r \in Results
<1>1. ASSUME NEW p \in GuardProblems \cup Refusals(c.route) \cup {"internal", ""},
             r = Refusal(p)
      PROVE  FALSE
  <2>1. p # "none"
    BY RefusalsAreProblems DEF GuardProblems
  <2> QED
    BY <1>1, <2>1 DEF Refusal
<1> QED
  BY <1>1 DEF Answers, NoAnswer

\* What is found for a call is its answer, a success.
LEMMA FoundIsAnswer ==
  ASSUME TypeOK, NEW c \in Call, NEW r \in Found(c)
  PROVE  r \in stored /\ r.answer \in Answers(c) /\ r.answer.problem = "none"
  BY DEF TypeOK, Found, Rows, Answers, Results

\* A request that moves on keeps all but its phase.
LEMMA MovesTo ==
  ASSUME TypeOK, NEW a \in Attempt, attempt[a] # Idle, NEW phase, Moves(a, phase),
         phase \in {"sent", "known", "admitted", "new", "done", "answering"}
  PROVE  /\ attempt[a] \in Requests /\ attempt'[a] \in Requests
         /\ attempt'[a] # Idle /\ attempt'[a].phase = phase
         /\ attempt'[a].call = attempt[a].call /\ attempt'[a].answer = attempt[a].answer
         /\ attempt'[a].welcome = attempt[a].welcome
         /\ \A b \in Attempt \ {a} : attempt'[b] = attempt[b]
         /\ attempt' \in [Attempt -> Requests \cup {Idle}]
<1>1. attempt[a] \in Requests /\ attempt \in [Attempt -> Requests \cup {Idle}]
  BY DEF TypeOK
<1> DEFINE r == [attempt[a] EXCEPT !.phase = phase]
<1>2. attempt' = [attempt EXCEPT ![a] = r]
  BY DEF Moves
<1>3. /\ r \in Requests /\ r.phase = phase
      /\ r.call = attempt[a].call /\ r.answer = attempt[a].answer
      /\ r.welcome = attempt[a].welcome
  BY <1>1 DEF Requests
<1> HIDE DEF r
<1> QED
  BY <1>1, <1>2, <1>3, Busy

\* A request that is answered keeps its call.
LEMMA RespondsWith ==
  ASSUME TypeOK, NEW a \in Attempt, attempt[a] # Idle, NEW answer, Responds(a, answer),
         answer \in Answers(attempt[a].call)
  PROVE  /\ attempt[a] \in Requests /\ attempt'[a] \in Requests
         /\ attempt'[a] # Idle /\ attempt'[a].phase = "answering"
         /\ attempt'[a].call = attempt[a].call /\ attempt'[a].answer = answer
         /\ attempt'[a].welcome = attempt[a].welcome
         /\ \A b \in Attempt \ {a} : attempt'[b] = attempt[b]
         /\ attempt' \in [Attempt -> Requests \cup {Idle}]
<1>1. attempt[a] \in Requests /\ attempt \in [Attempt -> Requests \cup {Idle}]
  BY DEF TypeOK
<1> DEFINE r == [attempt[a] EXCEPT !.phase = "answering", !.answer = answer]
<1>2. attempt' = [attempt EXCEPT ![a] = r]
  BY DEF Responds
<1>3. PICK c \in Call : attempt[a] \in
        [phase : {"sent", "known", "admitted", "new", "done", "answering"}, call : {c},
         answer : Answers(c) \cup {NoAnswer}, welcome : BOOLEAN]
  BY <1>1 DEF Requests
<1>4. /\ r.phase = "answering" /\ r.call = c /\ attempt[a].call = c /\ r.answer = answer
      /\ r.welcome = attempt[a].welcome
  BY <1>3
<1>5. r \in [phase : {"sent", "known", "admitted", "new", "done", "answering"}, call : {c},
              answer : Answers(c) \cup {NoAnswer}, welcome : BOOLEAN]
  BY <1>3, <1>4
<1>6. r \in Requests
  BY <1>5 DEF Requests
<1> HIDE DEF r
<1> QED
  BY <1>1, <1>2, <1>4, <1>6, Busy


------------------------------------------------------------------------------
(* What does not change when a step leaves it alone. *)

\* A call's work is as far as it was when its requests that matter are.
LEMMA OnceKept ==
  ASSUME NEW c \in Call, OnceFine(c), effects'[c] = effects[c], blind \subseteq blind',
         stored \subseteq stored',
         Unstored(c)' = Unstored(c),
         \A b \in Unstored(c) : attempt'[b].phase = attempt[b].phase
  PROVE  OnceFine(c)'
  BY DEF OnceFine, Found

\* What is stored for a call stays stored.
LEMMA StoredGrows ==
  ASSUME NEW c, stored \subseteq stored'
  PROVE  Stored(c) \subseteq Stored(c)'
  BY DEF Stored, Found

\* A request that a step leaves alone is as fine as it was.
LEMMA RequestKept ==
  ASSUME NEW r \in Requests, AnswerFine(r), stored \subseteq stored', audited \subseteq audited'
  PROVE  AnswerFine(r)'
  BY StoredGrows DEF AnswerFine

LEMMA WelcomeKept ==
  ASSUME NEW r, WelcomeFine(r), signedIn' = signedIn, standing' = standing,
         audited \subseteq audited'
  PROVE  WelcomeFine(r)'
  BY DEF WelcomeFine, Denied, MaySession, IsAllowed

\* What the clients have is as fine as it was.
LEMMA DeliveredKept ==
  ASSUME answered' = answered, stored \subseteq stored', audited \subseteq audited'
  PROVE  /\ StoredFine => StoredFine'
         /\ GoneAreToldNothing => GoneAreToldNothing'
<1>1. ASSUME StoredFine PROVE StoredFine'
  BY <1>1, StoredGrows DEF StoredFine, Successes, Received
<1>2. ASSUME GoneAreToldNothing PROVE GoneAreToldNothing'
  BY <1>2 DEF GoneAreToldNothing
<1> QED
  BY <1>1, <1>2


\* The variables that a request's step can change keep their types.
LEMMA RequestTypes ==
  ASSUME TypeOK, attempt' \in [Attempt -> Requests \cup {Idle}],
         hits' \in [Buckets -> 0 .. Limit], audited' \subseteq Call,
         UNCHANGED <<world, stored, effects, answered, faults, blind>>
  PROVE  TypeOK'
  BY DEF TypeOK, world

\* A request that neither runs a command nor stores its answer leaves every
\* call's work as far as it was.
LEMMA OnceUntouched ==
  ASSUME \A c \in Call : OnceFine(c), NEW a \in Attempt,
         \A b \in Attempt \ {a} : attempt'[b] = attempt[b],
         attempt[a] = Idle \/ attempt[a].phase \notin {"new", "done"},
         \/ attempt'[a] = Idle \/ attempt'[a].phase \notin {"new", "done"}
         \/ ~IsKeyed(attempt'[a].call),
         UNCHANGED <<effects, stored, blind>>
  PROVE  \A c \in Call : OnceFine(c)'
<1> SUFFICES ASSUME NEW c \in Call PROVE OnceFine(c)'
  OBVIOUS
<1>1. OnceFine(c)
  OBVIOUS
<1>2. CASE a \in Unstored(c)'
  <2>1. ~IsKeyed(c)
    BY <1>2 DEF Unstored, UnderWay
  <2> QED
    BY <1>1, <2>1 DEF OnceFine
<1>3. CASE a \notin Unstored(c)'
  <2>1. Unstored(c)' = Unstored(c)
    BY <1>3 DEF Unstored, UnderWay
  <2>2. \A b \in Unstored(c) : attempt'[b].phase = attempt[b].phase
    BY <1>3, <2>1 DEF Unstored, UnderWay
  <2> QED
    BY <1>1, <2>1, <2>2, OnceKept
<1> QED
  BY <1>2, <1>3

\* What a step of one request has to show: the others are as they were.
LEMMA RequestSteps ==
  ASSUME IInv, TypeOK', NEW a \in Attempt,
         \A b \in Attempt \ {a} : attempt'[b] = attempt[b],
         attempt'[a] # Idle => AnswerFine(attempt[a])' /\ WelcomeFine(attempt[a])',
         stored \subseteq stored', audited \subseteq audited',
         UNCHANGED <<world, answered>>, \A c \in Call : OnceFine(c)'
  PROVE  IInv'
<1>1. StoredFine' /\ GoneAreToldNothing'
  BY DeliveredKept DEF IInv
<1>2. ASSUME NEW b \in Attempt, attempt'[b] # Idle
      PROVE  AnswerFine(attempt[b])' /\ WelcomeFine(attempt[b])'
  <2>1. CASE b = a
    BY <1>2, <2>1
  <2>2. CASE b # a
    <3>1. attempt'[b] = attempt[b] /\ attempt[b] \in Requests
      BY <1>2, <2>2 DEF IInv, TypeOK
    <3>2. AnswerFine(attempt[b]) /\ WelcomeFine(attempt[b])
      BY <1>2, <3>1 DEF IInv
    <3> DEFINE r == attempt[b]
    <3>3. \A q \in Requests : q = r => AnswerFine(q)' /\ WelcomeFine(q)'
      BY <3>2, RequestKept, WelcomeKept DEF world
    <3> QED
      BY <3>1, <3>3 DEF AnswerFine, WelcomeFine
  <2> QED
    BY <2>1, <2>2
<1> QED
  BY <1>1, <1>2 DEF IInv

------------------------------------------------------------------------------
(* The invariant holds at first and every step keeps it. *)

LEMMA InitInv == Init => IInv
<1> SUFFICES ASSUME Init PROVE IInv
  OBVIOUS
<1>1. \A a \in Attempt : attempt[a] = Idle
  BY DEF Init
<1>2. TypeOK
  BY NumberAssumption DEF Init, TypeOK, Members, Role
<1>3. \A c \in Call : OnceFine(c)
  BY <1>1 DEF Init, OnceFine, Unstored, UnderWay
<1>4. StoredFine /\ GoneAreToldNothing
  BY DEF Init, StoredFine, GoneAreToldNothing, Successes, Received
<1> QED
  BY <1>1, <1>2, <1>3, <1>4 DEF IInv

LEMMA SendInv ==
  ASSUME IInv, NEW a \in Attempt, NEW c \in Call, Send(a, c)
  PROVE  IInv'
<1>1. PICK r \in Requests :
        r = [phase |-> "sent", call |-> c, answer |-> NoAnswer,
             welcome |-> MaySession(c) /\ IsAllowed(c)]
  <2> DEFINE w == MaySession(c) /\ IsAllowed(c)
  <2>1. w \in BOOLEAN
    OBVIOUS
  <2> HIDE DEF w
  <2>2. [phase |-> "sent", call |-> c, answer |-> NoAnswer, welcome |-> w] \in Requests
    BY <2>1 DEF Requests
  <2> QED
    BY <2>2 DEF w
<1>2. AnswerFine(r)' /\ WelcomeFine(r)'
  BY <1>1 DEF AnswerFine, WelcomeFine, Send, access, MaySession, IsAllowed
<1>3. attempt' = [attempt EXCEPT ![a] = r] /\ attempt[a] = Idle
  BY <1>1 DEF Send
<1>4. r.phase = "sent"
  BY <1>1
<1>5. attempt \in [Attempt -> Requests \cup {Idle}]
  BY DEF IInv, TypeOK
<1>6. TypeOK'
  <2>1. attempt' \in [Attempt -> Requests \cup {Idle}]
    BY <1>1, <1>3, <1>5
  <2> QED
    BY <2>1, RequestTypes DEF IInv, TypeOK, Send, access, world
<1>7. \A d \in Call : OnceFine(d)'
  BY <1>3, <1>4, <1>5, OnceUntouched DEF IInv, Send
<1>8. attempt'[a] = r /\ \A b \in Attempt \ {a} : attempt'[b] = attempt[b]
  BY <1>3, <1>5
<1>9. AnswerFine(attempt[a])' /\ WelcomeFine(attempt[a])'
  BY <1>2, <1>8 DEF AnswerFine, WelcomeFine
<1> QED
  BY <1>6, <1>7, <1>8, <1>9, RequestSteps DEF Send, access, world


\* A limit counts a request only while there is room for it.
LEMMA CountTypes ==
  ASSUME TypeOK, NEW c, NEW limits, ~Throttled(c, limits), Count(c, limits)
  PROVE  hits' \in [Buckets -> 0 .. Limit]
<1>1. ASSUME NEW b \in Buckets, b \in Counted(c, limits)
      PROVE  hits[b] + 1 \in 0 .. Limit
  <2>1. hits[b] \in 0 .. Limit /\ ~(hits[b] >= Limit) /\ Limit \in Nat
    BY <1>1, NumberAssumption DEF TypeOK, Throttled
  <2> QED
    BY <2>1
<1>2. \A b \in Buckets : hits[b] \in 0 .. Limit
  BY DEF TypeOK
<1> QED
  BY <1>1, <1>2 DEF Count

\* A guard that answers a request, and one that lets it through.
LEMMA GuardRefuses ==
  ASSUME IInv, NEW a \in Attempt, attempt[a].phase \in {"sent", "known"},
         NEW p \in GuardProblems, Responds(a, Refusal(p)),
         hits' \in [Buckets -> 0 .. Limit], audited \subseteq audited', audited' \subseteq Call,
         UNCHANGED <<world, stored, effects, answered, faults, blind>>,
         ~attempt[a].welcome =>
           \/ p \in {"rate_limited", "session_invalid"}
           \/ p \in {"not_found", "capability_required"} /\ attempt[a].call \in audited'
  PROVE  IInv'
<1> DEFINE c == attempt[a].call
<1>1. attempt[a] # Idle /\ TypeOK
  BY DEF Idle, IInv
<1>2. attempt[a] \in Requests /\ c \in Call
  BY <1>1, RequestFields DEF TypeOK
<1>3. Refusal(p) \in Answers(c) /\ Refusal(p).problem = p /\ p # "none"
  BY <1>2, RefusalIsAnswer
<1>4. /\ attempt'[a] \in Requests /\ attempt'[a] # Idle /\ attempt'[a].phase = "answering"
      /\ attempt'[a].call = c /\ attempt'[a].answer = Refusal(p)
      /\ attempt'[a].welcome = attempt[a].welcome
      /\ \A b \in Attempt \ {a} : attempt'[b] = attempt[b]
      /\ attempt' \in [Attempt -> Requests \cup {Idle}]
  BY <1>1, <1>3, RespondsWith
<1>5. TypeOK'
  BY <1>1, <1>4, RequestTypes
<1>6. \A d \in Call : OnceFine(d)'
  BY <1>4, OnceUntouched DEF IInv
<1>7. AnswerFine(attempt[a])' /\ WelcomeFine(attempt[a])'
  BY <1>3, <1>4 DEF AnswerFine, WelcomeFine, Denied
<1> QED
  BY <1>4, <1>5, <1>6, <1>7, RequestSteps

LEMMA GuardAdmits ==
  ASSUME IInv, NEW a \in Attempt, attempt[a].phase \in {"sent", "known"},
         NEW phase \in {"known", "admitted", "new"}, Moves(a, phase),
         phase = "admitted" => IsKeyed(attempt[a].call),
         phase = "new" => ~IsKeyed(attempt[a].call),
         hits' \in [Buckets -> 0 .. Limit], audited' = audited,
         UNCHANGED <<world, stored, effects, answered, faults, blind>>,
         ~attempt[a].welcome => phase = "known" /\ ~IsAllowed(attempt[a].call)
  PROVE  IInv'
<1> DEFINE c == attempt[a].call
<1>1. attempt[a] # Idle /\ TypeOK
  BY DEF Idle, IInv
<1>2. attempt[a] \in Requests /\ c \in Call
  BY <1>1, RequestFields DEF TypeOK
<1>4. /\ attempt'[a] \in Requests /\ attempt'[a] # Idle /\ attempt'[a].phase = phase
      /\ attempt'[a].call = c
      /\ attempt'[a].welcome = attempt[a].welcome
      /\ \A b \in Attempt \ {a} : attempt'[b] = attempt[b]
      /\ attempt' \in [Attempt -> Requests \cup {Idle}]
  BY <1>1, MovesTo
<1>5. TypeOK'
  BY <1>1, <1>4, RequestTypes DEF TypeOK
<1>6. \A d \in Call : OnceFine(d)'
  BY <1>4, OnceUntouched DEF IInv
<1>7. AnswerFine(attempt[a])' /\ WelcomeFine(attempt[a])'
  BY <1>4 DEF AnswerFine, WelcomeFine, IsAllowed, world
<1> QED
  BY <1>4, <1>5, <1>6, <1>7, RequestSteps

LEMMA AuthenticateInv ==
  ASSUME IInv, NEW a \in Attempt, Authenticate(a)
  PROVE  IInv'
<1> DEFINE c == attempt[a].call
<1>1. attempt[a] # Idle /\ attempt[a].phase = "sent" /\ TypeOK
  BY DEF Authenticate, Idle, IInv
<1>2. UNCHANGED <<world, stored, effects, answered, faults, blind, audited>>
  BY DEF Authenticate, access, world
<1>3. hits' \in [Buckets -> 0 .. Limit] /\ audited' \subseteq Call
  BY <1>1, <1>2, CountTypes DEF Authenticate, TypeOK
<1>4. CASE Responds(a, Refusal("rate_limited"))
  BY <1>1, <1>2, <1>3, <1>4, GuardRefuses DEF GuardProblems
<1>5. CASE ~MaySession(c) /\ Responds(a, Refusal("session_invalid"))
  BY <1>1, <1>2, <1>3, <1>5, GuardRefuses DEF GuardProblems, Denied
<1>6. CASE MaySession(c) /\ Moves(a, "known")
  <2>1. ~attempt[a].welcome => ~IsAllowed(c)
    BY <1>1, <1>6 DEF IInv, WelcomeFine
  <2> QED
    BY <1>1, <1>2, <1>3, <1>6, <2>1, GuardAdmits
<1> QED
  BY <1>4, <1>5, <1>6 DEF Authenticate

LEMMA AdmitInv ==
  ASSUME IInv, NEW a \in Attempt, Admit(a)
  PROVE  IInv'
<1> DEFINE c == attempt[a].call
<1>1. attempt[a] # Idle /\ attempt[a].phase = "known" /\ TypeOK
  BY DEF Admit, Idle, IInv
<1>2. c \in Call
  BY <1>1, RequestFields DEF TypeOK
<1>3. UNCHANGED <<world, stored, effects, answered, faults, blind>>
  BY DEF Admit
<1>4. CASE Throttled(c, Scoped)
  <2>1. Responds(a, Refusal("rate_limited")) /\ UNCHANGED <<hits, audited>>
    BY <1>4 DEF Admit
  <2> QED
    BY <1>1, <1>3, <2>1, GuardRefuses DEF GuardProblems, TypeOK
<1>5. CASE ~Throttled(c, Scoped)
  <2>1. Count(c, Scoped)
    BY <1>5 DEF Admit
  <2>2. hits' \in [Buckets -> 0 .. Limit]
    BY <1>1, <1>5, <2>1, CountTypes
  <2>3. CASE Turned(c) = {}
    <3>1. Moves(a, IF IsKeyed(c) THEN "admitted" ELSE "new") /\ UNCHANGED audited
      BY <1>5, <2>3 DEF Admit
    <3>2. IsAllowed(c)
      BY <2>3 DEF Turned
    <3>3. attempt[a].welcome
      BY <1>1, <3>2 DEF IInv, WelcomeFine
    <3>4. CASE IsKeyed(c)
      BY <1>1, <1>3, <2>2, <3>1, <3>3, <3>4, GuardAdmits
    <3>5. CASE ~IsKeyed(c)
      BY <1>1, <1>3, <2>2, <3>1, <3>3, <3>5, GuardAdmits
    <3> QED
      BY <3>4, <3>5
  <2>4. CASE Turned(c) # {}
    <3>1. audited' = audited \cup {c}
      BY <1>5, <2>4 DEF Admit
    <3>2. PICK p \in Turned(c) : Responds(a, Refusal(p))
      BY <1>5, <2>4 DEF Admit
    <3>3. p \in {"not_found", "capability_required"}
      BY <3>2 DEF Turned
    <3>4. p \in GuardProblems /\ c \in audited'
      BY <3>1, <3>3 DEF GuardProblems
    <3>5. audited \subseteq audited' /\ audited' \subseteq Call
      BY <1>1, <1>2, <3>1 DEF TypeOK
    <3> QED
      BY <1>1, <1>3, <2>2, <3>2, <3>3, <3>4, <3>5, GuardRefuses
  <2> QED
    BY <2>3, <2>4
<1> QED
  BY <1>4, <1>5


LEMMA LookUpInv ==
  ASSUME IInv, NEW a \in Attempt, LookUp(a)
  PROVE  IInv'
<1>1. attempt[a] # Idle /\ attempt[a].phase = "admitted" /\ TypeOK
  BY DEF LookUp, Idle, IInv
<1>2. PICK c \in Call : attempt[a] \in Requests /\ c = attempt[a].call
  BY <1>1, RequestFields DEF TypeOK
<1>3. UNCHANGED <<world, audited, stored, effects, hits, answered, faults>>
  BY DEF LookUp, access, world
<1>4. attempt[a].welcome /\ IsKeyed(c)
  BY <1>1, <1>2, RequestFields DEF IInv, WelcomeFine, AnswerFine
<1>5. CASE Found(c) = {}
  <2>1. Moves(a, "new")
    BY <1>2, <1>5 DEF LookUp
  <2>2. /\ attempt'[a] \in Requests /\ attempt'[a] # Idle /\ attempt'[a].phase = "new"
        /\ attempt'[a].call = c
        /\ attempt'[a].welcome = attempt[a].welcome
        /\ \A b \in Attempt \ {a} : attempt'[b] = attempt[b]
        /\ attempt' \in [Attempt -> Requests \cup {Idle}]
    BY <1>1, <1>2, <2>1, MovesTo
  <2>3. blind' = IF Unstored(c) # {} THEN blind \cup {c} ELSE blind
    BY <1>2, <1>5 DEF LookUp, Unstored
  <2>4. TypeOK'
    BY <1>1, <1>2, <1>3, <2>2, <2>3 DEF TypeOK, world
  <2>5. ASSUME NEW d \in Call PROVE OnceFine(d)'
    <3>1. OnceFine(d) /\ blind \subseteq blind'
      BY <2>3 DEF IInv
    <3>2. CASE d # c
      <4>1. /\ Unstored(d)' = Unstored(d)
            /\ \A b \in Unstored(d) : attempt'[b].phase = attempt[b].phase
        BY <1>2, <2>2, <3>2 DEF Unstored, UnderWay
      <4> QED
        BY <1>3, <3>1, <4>1, OnceKept
    <3>3. CASE d = c
      <4>1. ASSUME d \notin blind', Work(d) = "create" PROVE OnceFine(d)'
        <5>1. Unstored(c) = {}
          BY <2>3, <3>3, <4>1
        <5>2. Unstored(c)' = {a}
          BY <1>1, <1>2, <2>2, <5>1 DEF Unstored, UnderWay
        <5>3. effects[c] = 0
          <6>1. ~(effects[c] > 0)
            BY <1>4, <1>5, <3>1, <3>3, <4>1, <5>1 DEF OnceFine
          <6>2. effects[c] \in 0 .. MaxEffects
            BY <1>1, <1>2 DEF TypeOK
          <6> QED
            BY <6>1, <6>2
        <5> QED
          BY <1>3, <3>3, <5>2, <5>3 DEF OnceFine
      <4>2. ASSUME d \in blind' \/ Work(d) # "create" PROVE OnceFine(d)'
        BY <1>3, <3>1, <4>2 DEF OnceFine
      <4> QED
        BY <4>1, <4>2
    <3> QED
      BY <3>2, <3>3
  <2>6. AnswerFine(attempt[a])' /\ WelcomeFine(attempt[a])'
    BY <1>4, <2>2 DEF AnswerFine, WelcomeFine
  <2> QED
    BY <1>3, <2>2, <2>4, <2>5, <2>6, RequestSteps
<1>6. CASE Found(c) # {}
  <2>1. PICK r \in Found(c) : Responds(a, r.answer) /\ UNCHANGED blind
    BY <1>2, <1>6 DEF LookUp
  <2>2. r.answer \in Answers(c) /\ r.answer \in Stored(c)
    BY <1>1, <1>2, FoundIsAnswer DEF Stored
  <2>3. /\ attempt'[a] \in Requests /\ attempt'[a] # Idle /\ attempt'[a].phase = "answering"
        /\ attempt'[a].call = c /\ attempt'[a].answer = r.answer
        /\ attempt'[a].welcome = attempt[a].welcome
        /\ \A b \in Attempt \ {a} : attempt'[b] = attempt[b]
        /\ attempt' \in [Attempt -> Requests \cup {Idle}]
    BY <1>1, <1>2, <2>1, <2>2, RespondsWith
  <2>4. TypeOK'
    BY <1>1, <1>3, <2>1, <2>3, RequestTypes DEF TypeOK
  <2>5. \A d \in Call : OnceFine(d)'
    BY <1>1, <1>3, <2>1, <2>3, OnceUntouched DEF IInv
  <2>7. AnswerFine(attempt[a])' /\ WelcomeFine(attempt[a])'
    BY <1>3, <1>4, <2>2, <2>3 DEF AnswerFine, WelcomeFine, Stored, Found
  <2> QED
    BY <1>3, <2>3, <2>4, <2>5, <2>7, RequestSteps
<1> QED
  BY <1>5, <1>6




\* A request that leaves what is not stored, undone or stored by now, leaves
\* its call's work as far as it was.
LEMMA OnceLeft ==
  ASSUME NEW c \in Call, OnceFine(c), NEW a \in Unstored(c),
         attempt[a].phase = "new" \/ Found(c)' # {},
         Unstored(c)' = Unstored(c) \ {a}, \A b \in Attempt \ {a} : attempt'[b] = attempt[b],
         effects'[c] = effects[c], blind \subseteq blind', stored \subseteq stored'
  PROVE  OnceFine(c)'
<1>1. CASE Work(c) = "create" /\ IsKeyed(c) /\ c \notin blind'
  <2>1. /\ effects[c] <= 1 /\ \A x, y \in Unstored(c) : x = y
        /\ attempt[a].phase = "new" => effects[c] = 0
    BY <1>1 DEF OnceFine
  <2>2. Unstored(c)' = {}
    BY <2>1
  <2>3. effects[c] > 0 => Found(c)' # {}
    BY <2>1
  <2> QED
    BY <1>1, <2>1, <2>2, <2>3 DEF OnceFine
<1>2. CASE ~(Work(c) = "create" /\ IsKeyed(c) /\ c \notin blind')
  BY <1>2 DEF OnceFine
<1> QED
  BY <1>1, <1>2

\* What a command refuses is not done.
LEMMA RefusedInv ==
  ASSUME IInv, NEW a \in Attempt, attempt[a].phase = "new",
         NEW p \in Refusals(attempt[a].call.route), Responds(a, Refusal(p)),
         UNCHANGED <<access, stored, effects, hits, answered, faults, blind>>
  PROVE  IInv'
<1>1. attempt[a] # Idle /\ TypeOK
  BY DEF Idle, IInv
<1>2. PICK c \in Call : attempt[a] \in Requests /\ c = attempt[a].call
  BY <1>1, RequestFields DEF TypeOK
<1>3. attempt[a].welcome
  BY <1>1, <1>2, RequestFields DEF IInv, WelcomeFine
<1>4. Refusal(p) \in Answers(c) /\ Refusal(p).problem # "none"
  BY <1>2, RefusalIsAnswer
<1>5. /\ attempt'[a] \in Requests /\ attempt'[a] # Idle /\ attempt'[a].phase = "answering"
      /\ attempt'[a].call = c /\ attempt'[a].answer = Refusal(p)
      /\ attempt'[a].welcome = attempt[a].welcome
      /\ \A b \in Attempt \ {a} : attempt'[b] = attempt[b]
      /\ attempt' \in [Attempt -> Requests \cup {Idle}]
  BY <1>1, <1>2, <1>4, RespondsWith
<1>6. TypeOK'
  BY <1>1, <1>5, RequestTypes DEF TypeOK, access, world
<1>7. ASSUME NEW d \in Call PROVE OnceFine(d)'
  <2>1. OnceFine(d)
    BY DEF IInv
  <2>2. CASE d = c
    <3>1. a \in Unstored(c) /\ Unstored(c)' = Unstored(c) \ {a}
      BY <1>1, <1>2, <1>5 DEF Unstored, UnderWay
    <3> QED
      BY <1>5, <2>1, <2>2, <3>1, OnceLeft
  <2>3. CASE d # c
    <3>1. /\ Unstored(d)' = Unstored(d)
          /\ \A b \in Unstored(d) : attempt'[b].phase = attempt[b].phase
      BY <1>2, <1>5, <2>3 DEF Unstored, UnderWay
    <3> QED
      BY <2>1, <3>1, OnceKept
  <2> QED
    BY <2>2, <2>3
<1>8. AnswerFine(attempt[a])' /\ WelcomeFine(attempt[a])'
  BY <1>3, <1>4, <1>5 DEF AnswerFine, WelcomeFine
<1> QED
  BY <1>5, <1>6, <1>7, <1>8, RequestSteps DEF access, world

LEMMA RunCommandInv ==
  ASSUME IInv, NEW a \in Attempt, RunCommand(a)
  PROVE  IInv'
<1>1. attempt[a] # Idle /\ attempt[a].phase = "new" /\ TypeOK
  BY DEF RunCommand, Idle, IInv
<1>2. PICK c \in Call : attempt[a] \in Requests /\ c = attempt[a].call
  BY <1>1, RequestFields DEF TypeOK
<1>3. UNCHANGED <<access, stored, hits, answered, faults, blind>>
  BY DEF RunCommand
<1>4. attempt[a].welcome
  BY <1>1, <1>2, RequestFields DEF IInv, WelcomeFine
<1>5. CASE UNCHANGED effects /\ \E p \in Refusals(c.route) : Responds(a, Refusal(p))
  BY <1>1, <1>2, <1>3, <1>5, RefusedInv
<1>6. CASE ~Refuses(c)
  <2>1. PICK n \in 0 .. MaxEffects :
          /\ n = IF effects[c] < MaxEffects THEN effects[c] + 1 ELSE MaxEffects
          /\ effects' = IF Acts(c) THEN [effects EXCEPT ![c] = n] ELSE effects
    <3>1. effects[c] \in 0 .. MaxEffects /\ MaxEffects \in Nat
      BY <1>1, NumberAssumption DEF TypeOK
    <3>2. (IF effects[c] < MaxEffects THEN effects[c] + 1 ELSE MaxEffects) \in 0 .. MaxEffects
      BY <3>1
    <3> QED
      BY <1>2, <1>6, <3>2 DEF RunCommand
  <2>2. effects' \in [Call -> 0 .. MaxEffects]
    BY <1>1, <2>1 DEF TypeOK
  <2>3. PICK answer \in Answers(c) : answer = Success(c, effects'[c]) /\ answer.problem = "none"
    BY <2>2, SuccessIsAnswer
  <2>4. PICK phase \in {"done", "answering"} :
          phase = IF IsKeyed(c) THEN "done" ELSE "answering"
    OBVIOUS
  <2>5. PICK r \in Requests :
          /\ r = [attempt[a] EXCEPT !.phase = phase, !.answer = answer]
          /\ r.phase = phase /\ r.call = c /\ r.answer = answer
          /\ r.welcome = attempt[a].welcome
    <3> DEFINE q == [attempt[a] EXCEPT !.phase = phase, !.answer = answer]
    <3>1. attempt[a] \in
            [phase : {"sent", "known", "admitted", "new", "done", "answering"}, call : {c},
             answer : Answers(c) \cup {NoAnswer}, welcome : BOOLEAN]
      BY <1>2 DEF Requests
    <3>2. /\ q.phase = phase /\ q.call = c /\ q.answer = answer
          /\ q.welcome = attempt[a].welcome
      BY <3>1
    <3>3. q \in
            [phase : {"sent", "known", "admitted", "new", "done", "answering"}, call : {c},
             answer : Answers(c) \cup {NoAnswer}, welcome : BOOLEAN]
      BY <3>1, <3>2
    <3>4. q \in Requests
      BY <3>3 DEF Requests
    <3> QED
      BY <3>2, <3>4
  <2>6. attempt' = [attempt EXCEPT ![a] = r]
    BY <1>2, <1>6, <2>3, <2>4, <2>5 DEF RunCommand
  <2>7. /\ attempt'[a] = r /\ \A b \in Attempt \ {a} : attempt'[b] = attempt[b]
        /\ attempt' \in [Attempt -> Requests \cup {Idle}]
    BY <1>1, <2>5, <2>6 DEF TypeOK
  <2>8. TypeOK'
    BY <1>1, <1>3, <2>2, <2>7 DEF TypeOK, access
  <2>9. ASSUME NEW d \in Call PROVE OnceFine(d)'
    <3>1. OnceFine(d)
      BY DEF IInv
    <3>2. CASE d # c
      <4>1. /\ Unstored(d)' = Unstored(d)
            /\ \A b \in Unstored(d) : attempt'[b].phase = attempt[b].phase
        <5>1. attempt'[a].call = c /\ attempt[a].call = c
          BY <1>2, <2>5, <2>7
        <5> QED
          BY <2>7, <3>2, <5>1 DEF Unstored, UnderWay
      <4>2. effects'[d] = effects[d]
        BY <1>1, <2>1, <3>2 DEF TypeOK
      <4> QED
        BY <1>3, <3>1, <4>1, <4>2, OnceKept
    <3>3. CASE d = c /\ Work(c) = "create" /\ IsKeyed(c) /\ c \notin blind
      <4>1. a \in Unstored(c)
        BY <1>1, <1>2 DEF Unstored, UnderWay
      <4>2. effects[c] = 0 /\ \A b \in Unstored(c) : b = a
        BY <1>1, <3>1, <3>3, <4>1 DEF OnceFine
      <4>3. effects'[c] = 1
        <5>1. Acts(c) /\ effects[c] < MaxEffects
          BY <3>3, <4>2, NumberAssumption DEF Acts
        <5>2. n = 1
          BY <2>1, <4>2, <5>1
        <5> QED
          BY <1>1, <2>1, <5>1, <5>2 DEF TypeOK
      <4>4. r.phase = "done" /\ r.call = c /\ r # Idle
        BY <2>4, <2>5, <3>3, Busy
      <4>5. Unstored(c)' = {a}
        BY <2>7, <4>2, <4>4 DEF Unstored, UnderWay
      <4>6. attempt'[a].phase = "done"
        BY <2>7, <4>4
      <4> QED
        BY <3>3, <4>3, <4>5, <4>6 DEF OnceFine
    <3>4. CASE d = c /\ Work(c) = "create" /\ ~(IsKeyed(c) /\ c \notin blind)
      BY <1>3, <3>4 DEF OnceFine
    <3>5. CASE d = c /\ Work(c) # "create"
      <4>1. effects[c] <= 1 /\ effects[c] \in 0 .. MaxEffects
        BY <1>1, <3>1, <3>5 DEF OnceFine, TypeOK
      <4>2. CASE ~Acts(c)
        BY <2>1, <3>5, <4>1, <4>2 DEF OnceFine
      <4>3. CASE Acts(c)
        <5>1. Work(c) \in {"version", "settle", "refuse", "read"}
          BY <3>5, RouteKinds, CallAssumption DEF Work, RouteOf
        <5>2. effects[c] = 0
          BY <1>6, <4>1, <4>3, <5>1 DEF Acts, Refuses
        <5>3. n = 1
          BY <2>1, <5>2, NumberAssumption
        <5>4. effects'[c] <= 1
          BY <1>1, <2>1, <5>3 DEF TypeOK
        <5> QED
          BY <3>5, <5>4 DEF OnceFine
      <4> QED
        BY <4>2, <4>3
    <3> QED
      BY <3>2, <3>3, <3>4, <3>5
  <2>10. AnswerFine(attempt[a])' /\ WelcomeFine(attempt[a])'
    BY <1>4, <2>3, <2>4, <2>5, <2>7 DEF AnswerFine, WelcomeFine
  <2> QED
    BY <1>3, <2>7, <2>8, <2>9, <2>10, RequestSteps DEF access, world
<1> QED
  BY <1>2, <1>5, <1>6 DEF RunCommand


LEMMA SaveInv ==
  ASSUME IInv, NEW a \in Attempt, Save(a)
  PROVE  IInv'
<1>1. attempt[a] # Idle /\ attempt[a].phase = "done" /\ TypeOK
  BY DEF Save, Idle, IInv
<1>2. PICK c \in Call : attempt[a] \in Requests /\ c = attempt[a].call
  BY <1>1, RequestFields DEF TypeOK
<1>3. UNCHANGED <<access, effects, hits, answered, faults, blind>>
  BY DEF Save
<1>4. /\ attempt[a].welcome /\ IsKeyed(c)
      /\ attempt[a].answer \in Results /\ attempt[a].answer.problem = "none"
  BY <1>1, <1>2, RequestFields, NoProblemIsSuccess DEF IInv, WelcomeFine, AnswerFine
<1>5. PICK answer \in Answers(c) :
        /\ attempt' = [attempt EXCEPT ![a].phase = "answering", ![a].answer = answer]
        /\ \/ /\ Found(c) = {} /\ answer = attempt[a].answer
              /\ stored' = stored \cup
                   {[user |-> c.user, key |-> ScopedKey(c), answer |-> attempt[a].answer]}
           \/ Found(c) # {} /\ answer.problem # "none" /\ UNCHANGED stored
  <2>1. CASE Found(c) = {} /\ Moves(a, "answering")
    <3>1. attempt[a].answer \in Answers(c)
      BY <1>4 DEF Answers
    <3>2. attempt' = [attempt EXCEPT ![a].phase = "answering", ![a].answer = attempt[a].answer]
      BY <1>1, <1>2, <2>1 DEF Moves, TypeOK, Requests
    <3> QED
      BY <1>2, <2>1, <3>1, <3>2 DEF Save
  <2>2. CASE Found(c) # {}
    BY <1>2, <2>2, RefusalIsAnswer DEF Save, Responds
  <2> QED
    BY <1>2, <2>1, <2>2 DEF Save
<1>6. Responds(a, answer)
  BY <1>5 DEF Responds
<1>7. /\ attempt'[a] \in Requests /\ attempt'[a] # Idle /\ attempt'[a].phase = "answering"
      /\ attempt'[a].call = c /\ attempt'[a].answer = answer
      /\ attempt'[a].welcome = attempt[a].welcome
      /\ \A b \in Attempt \ {a} : attempt'[b] = attempt[b]
      /\ attempt' \in [Attempt -> Requests \cup {Idle}]
  BY <1>1, <1>2, <1>6, RespondsWith
<1>8. stored \subseteq stored' /\ Found(c)' # {}
  <2>1. CASE Found(c) = {}
    <3> DEFINE row == [user |-> c.user, key |-> ScopedKey(c), answer |-> attempt[a].answer]
    <3>1. stored' = stored \cup {row} /\ row.user = c.user /\ row.key = ScopedKey(c)
      BY <1>5, <2>1
    <3> HIDE DEF row
    <3> QED
      BY <3>1 DEF Found
  <2>2. CASE Found(c) # {}
    BY <1>5, <2>2 DEF Found
  <2> QED
    BY <2>1, <2>2
<1>9. /\ stored' \subseteq Rows
      /\ \A x \in stored', y \in stored' : x.user = y.user /\ x.key = y.key => x = y
  <2> DEFINE row == [user |-> c.user, key |-> ScopedKey(c), answer |-> attempt[a].answer]
  <2>1. row \in Rows /\ row.user = c.user /\ row.key = ScopedKey(c)
    BY <1>4, CallAssumption DEF Rows
  <2>2. CASE Found(c) = {}
    <3>1. stored' = stored \cup {row}
      BY <1>5, <2>2
    <3>2. \A x \in stored : ~(x.user = c.user /\ x.key = ScopedKey(c))
      BY <2>2 DEF Found
    <3> HIDE DEF row
    <3> QED
      BY <1>1, <2>1, <3>1, <3>2 DEF TypeOK
  <2>3. CASE Found(c) # {}
    BY <1>1, <1>5, <2>3 DEF TypeOK
  <2> QED
    BY <2>2, <2>3
<1>10. TypeOK'
  BY <1>1, <1>3, <1>7, <1>9 DEF TypeOK, access
<1>11. ASSUME NEW d \in Call PROVE OnceFine(d)'
  <2>1. OnceFine(d)
    BY DEF IInv
  <2>2. CASE d = c
    <3>1. a \in Unstored(c) /\ Unstored(c)' = Unstored(c) \ {a}
      BY <1>1, <1>2, <1>7 DEF Unstored, UnderWay
    <3> QED
      BY <1>3, <1>7, <1>8, <2>1, <2>2, <3>1, OnceLeft
  <2>3. CASE d # c
    <3>1. /\ Unstored(d)' = Unstored(d)
          /\ \A b \in Unstored(d) : attempt'[b].phase = attempt[b].phase
      BY <1>2, <1>7, <2>3 DEF Unstored, UnderWay
    <3> QED
      BY <1>3, <1>8, <2>1, <3>1, OnceKept
  <2> QED
    BY <2>2, <2>3
<1>12. answer.problem = "none" => answer \in Stored(c)'
  <2>1. CASE Found(c) = {}
    BY <1>5, <2>1 DEF Stored, Found
  <2>2. CASE Found(c) # {}
    BY <1>5, <2>2
  <2> QED
    BY <2>1, <2>2
<1>13. AnswerFine(attempt[a])' /\ WelcomeFine(attempt[a])'
  BY <1>4, <1>5, <1>7, <1>12 DEF AnswerFine, WelcomeFine
<1> QED
  BY <1>3, <1>7, <1>8, <1>10, <1>11, <1>13, RequestSteps DEF access, world


\* A request that is over leaves its call's work as far as it was.
LEMMA DeliverInv ==
  ASSUME IInv, NEW a \in Attempt, Deliver(a)
  PROVE  IInv'
<1>1. attempt[a] # Idle /\ attempt[a].phase = "answering" /\ TypeOK
  BY DEF Deliver, Idle, IInv
<1>2. PICK c \in Call : attempt[a] \in Requests /\ c = attempt[a].call
  BY <1>1, RequestFields DEF TypeOK
<1>3. UNCHANGED <<access, stored, effects, hits, faults, blind>>
  BY DEF Deliver
<1>4. PICK delivery \in Deliveries(c) :
        delivery = [answer |-> attempt[a].answer, welcome |-> attempt[a].welcome]
  BY <1>1, <1>2, RequestFields DEF IInv, AnswerFine, Deliveries
<1>5. AnswerFine(attempt[a]) /\ WelcomeFine(attempt[a])
  BY <1>1 DEF IInv
<1>6. /\ attempt'[a] = Idle /\ \A b \in Attempt \ {a} : attempt'[b] = attempt[b]
      /\ attempt' \in [Attempt -> Requests \cup {Idle}]
  BY <1>1 DEF Deliver, TypeOK
<1>7. /\ DOMAIN answered' = Call
      /\ \A d \in Call \ {c} : answered'[d] = answered[d]
      /\ \A r \in answered'[c] :
           \/ r \in answered[c]
           \/ r = delivery /\ r.answer.problem # "rate_limited"
  <2>1. \/ answered' = answered
        \/ /\ answered' = [answered EXCEPT ![c] = @ \cup {delivery}]
           /\ delivery.answer.problem # "rate_limited"
    BY <1>2, <1>4 DEF Deliver
  <2> QED
    BY <1>1, <2>1 DEF TypeOK
<1>8. TypeOK'
  BY <1>1, <1>3, <1>4, <1>6, <1>7 DEF TypeOK, access
<1>9. \A d \in Call : OnceFine(d)'
  BY <1>1, <1>3, <1>6, OnceUntouched DEF IInv
<1>10. StoredFine'
  <2> SUFFICES ASSUME NEW d \in Call, IsKeyed(d), NEW r \in answered'[d],
                      r.answer.problem = "none"
               PROVE  r.answer \in Stored(d)'
    BY DEF StoredFine, Successes, Received
  <2>1. Stored(d) = Stored(d)'
    BY <1>3 DEF Stored, Found
  <2>2. CASE r \in answered[d]
    BY <2>1, <2>2 DEF IInv, StoredFine, Successes, Received
  <2>3. CASE r \notin answered[d]
    BY <1>1, <1>2, <1>4, <1>5, <1>7, <2>1, <2>3 DEF AnswerFine
  <2> QED
    BY <2>2, <2>3
<1>11. GoneAreToldNothing'
  <2> SUFFICES ASSUME NEW d \in Call, NEW r \in answered'[d], ~r.welcome
               PROVE  Denied(d, r.answer.problem)'
    BY DEF GoneAreToldNothing, Denied
  <2>1. CASE r \in answered[d]
    BY <1>3, <2>1 DEF IInv, GoneAreToldNothing, Denied, access
  <2>2. CASE r \notin answered[d]
    BY <1>1, <1>2, <1>3, <1>4, <1>5, <1>7, <2>2 DEF WelcomeFine, Denied, access
  <2> QED
    BY <2>1, <2>2
<1>12. ASSUME NEW b \in Attempt, attempt'[b] # Idle
       PROVE  AnswerFine(attempt[b])' /\ WelcomeFine(attempt[b])'
  <2>1. attempt'[b] = attempt[b] /\ attempt[b] \in Requests /\ attempt[b] # Idle
    BY <1>1, <1>6, <1>12 DEF TypeOK
  <2>2. AnswerFine(attempt[b]) /\ WelcomeFine(attempt[b])
    BY <2>1 DEF IInv
  <2>3. \A q \in Requests : q = attempt[b] => AnswerFine(q)' /\ WelcomeFine(q)'
    BY <1>3, <2>2, RequestKept, WelcomeKept DEF access
  <2> QED
    BY <2>1, <2>3 DEF AnswerFine, WelcomeFine
<1> QED
  BY <1>8, <1>9, <1>10, <1>11, <1>12 DEF IInv

LEMMA LoseAnswerInv ==
  ASSUME IInv, NEW a \in Attempt, LoseAnswer(a)
  PROVE  IInv'
<1>1. attempt[a] # Idle /\ attempt[a].phase = "answering" /\ TypeOK
  BY DEF LoseAnswer, Idle, IInv
<1>2. UNCHANGED <<access, stored, effects, hits, answered, blind>>
  BY DEF LoseAnswer
<1>3. /\ attempt'[a] = Idle /\ \A b \in Attempt \ {a} : attempt'[b] = attempt[b]
      /\ attempt' \in [Attempt -> Requests \cup {Idle}]
  BY <1>1 DEF LoseAnswer, TypeOK
<1>4. faults' \in 0 .. MaxFaults
  BY <1>1, NumberAssumption DEF LoseAnswer, TypeOK
<1>5. TypeOK'
  BY <1>1, <1>2, <1>3, <1>4 DEF TypeOK, access
<1>6. \A d \in Call : OnceFine(d)'
  BY <1>1, <1>2, <1>3, OnceUntouched DEF IInv
<1> QED
  BY <1>2, <1>3, <1>5, <1>6, RequestSteps DEF access, world

LEMMA CrashInv ==
  ASSUME IInv, Crash
  PROVE  IInv'
<1>1. TypeOK
  BY DEF IInv
<1>2. UNCHANGED <<access, stored, effects, answered>>
  BY DEF Crash
<1>3. \A a \in Attempt : attempt'[a] = Idle
  BY DEF Crash
<1>4. blind' = blind \cup {attempt[a].call : a \in {b \in Attempt : attempt[b].phase = "done"}}
  BY DEF Crash
<1>5. \A a \in Attempt : attempt[a].phase = "done" => attempt[a] # Idle /\ attempt[a].call \in Call
  BY <1>1, RequestFields DEF TypeOK, Idle
<1>6. blind' \subseteq Call
  BY <1>1, <1>4, <1>5 DEF TypeOK
<1>7. faults' \in 0 .. MaxFaults /\ hits' \in [Buckets -> 0 .. Limit]
  BY <1>1, NumberAssumption DEF Crash, TypeOK
<1>8. attempt' \in [Attempt -> Requests \cup {Idle}]
  BY DEF Crash
<1>9. TypeOK'
  BY <1>1, <1>2, <1>6, <1>7, <1>8 DEF TypeOK, access
<1>10. ASSUME NEW c \in Call PROVE OnceFine(c)'
  <2>1. Unstored(c)' = {}
    BY <1>3 DEF Unstored, UnderWay
  <2>2. OnceFine(c)
    BY DEF IInv
  <2>3. ASSUME c \notin blind'
        PROVE  c \notin blind /\ ~\E a \in Unstored(c) : attempt[a].phase = "done"
    BY <1>4, <2>3 DEF Unstored, UnderWay
  <2> QED
    BY <1>2, <2>1, <2>2, <2>3 DEF OnceFine, Found
<1>11. StoredFine' /\ GoneAreToldNothing'
  BY <1>2, DeliveredKept DEF IInv, access
<1> QED
  BY <1>3, <1>9, <1>10, <1>11 DEF IInv


\* Steps that change no request: the requests and the calls are as they were.
LEMMA WorldSteps ==
  ASSUME IInv, TypeOK', UNCHANGED <<audited, stored, effects, attempt, answered, blind>>,
         signedIn' \subseteq signedIn, standing' = standing
  PROVE  IInv'
<1>1. \A c \in Call : OnceFine(c)'
  <2>1. \A c \in Call : Unstored(c)' = Unstored(c)
    BY DEF Unstored, UnderWay
  <2> QED
    BY <2>1, OnceKept DEF IInv
<1>2. StoredFine' /\ GoneAreToldNothing'
  BY DeliveredKept DEF IInv
<1>3. ASSUME NEW a \in Attempt, attempt'[a] # Idle
      PROVE  AnswerFine(attempt[a])' /\ WelcomeFine(attempt[a])'
  <2>1. AnswerFine(attempt[a]) /\ WelcomeFine(attempt[a])
    BY <1>3 DEF IInv
  <2>2. AnswerFine(attempt[a])'
    BY <2>1 DEF AnswerFine, Stored, Found
  <2>3. WelcomeFine(attempt[a])'
    BY <2>1 DEF WelcomeFine, MaySession, IsAllowed, Denied
  <2> QED
    BY <2>2, <2>3
<1> QED
  BY <1>1, <1>2, <1>3 DEF IInv

LEMMA WindowPassesInv ==
  ASSUME IInv, WindowPasses
  PROVE  IInv'
<1>1. hits' \in [Buckets -> 0 .. Limit]
  BY NumberAssumption DEF WindowPasses
<1>2. TypeOK'
  BY <1>1 DEF IInv, TypeOK, WindowPasses, access
<1> QED
  BY <1>2, WorldSteps DEF WindowPasses, access

LEMMA SignedOutInv ==
  ASSUME IInv, NEW u \in signedIn, SignedOut(u)
  PROVE  IInv'
<1>1. faults' \in 0 .. MaxFaults
  BY NumberAssumption DEF SignedOut, IInv, TypeOK
<1>2. TypeOK'
  BY <1>1 DEF IInv, TypeOK, SignedOut
<1> QED
  BY <1>2, WorldSteps DEF SignedOut

LEMMA RoleChangedInv ==
  ASSUME IInv, NEW m \in Members, NEW role \in Change, RoleChanged(m, role)
  PROVE  IInv'
<1>1. TypeOK
  BY DEF IInv
<1>2. UNCHANGED <<signedIn, audited, stored, effects, hits, answered, blind>>
  BY DEF RoleChanged
<1>3. ASSUME NEW a \in Attempt
      PROVE  \/ attempt[a] = Idle /\ attempt'[a] = Idle
             \/ \E c \in Call :
                  /\ attempt[a] \in Requests /\ attempt[a] # Idle /\ attempt[a].call = c
                  /\ attempt'[a] \in Requests /\ attempt'[a] # Idle /\ attempt'[a].call = c
                  /\ attempt'[a].phase = attempt[a].phase
                  /\ attempt'[a].answer = attempt[a].answer
                  /\ ~attempt'[a].welcome =>
                       /\ ~attempt[a].welcome
                       /\ \/ attempt[a].phase # "known" /\ ~MaySession(c)
                          \/ ~Allows(standing'[Member(c)], c)
  <2>1. CASE attempt[a] = Idle
    BY <2>1 DEF RoleChanged
  <2>2. CASE attempt[a] # Idle
    <3>1. attempt[a] \in Requests
      BY <1>1, <2>2 DEF TypeOK
    <3>2. PICK c \in Call : attempt[a] \in
            [phase : {"sent", "known", "admitted", "new", "done", "answering"}, call : {c},
             answer : Answers(c) \cup {NoAnswer}, welcome : BOOLEAN]
      BY <3>1 DEF Requests
    <3>3. attempt[a].call = c
      BY <3>2
    <3> DEFINE gains == /\ attempt[a].phase = "known" \/ MaySession(c)
                        /\ Allows(standing'[Member(c)], c)
               w == attempt[a].welcome \/ gains
               r == [attempt[a] EXCEPT !.welcome = w]
    <3>4. attempt'[a] = r
      BY <2>2, <3>3 DEF RoleChanged
    <3>5. w \in BOOLEAN
      OBVIOUS
    <3>6. ~w => ~attempt[a].welcome /\ ~gains
      OBVIOUS
    <3> HIDE DEF w
    <3>7. /\ r.phase = attempt[a].phase /\ r.call = c /\ r.answer = attempt[a].answer
          /\ r.welcome = w
      BY <3>2
    <3>8. r \in [phase : {"sent", "known", "admitted", "new", "done", "answering"}, call : {c},
                 answer : Answers(c) \cup {NoAnswer}, welcome : BOOLEAN]
      BY <3>2, <3>5, <3>7
    <3>9. r \in Requests
      BY <3>8 DEF Requests
    <3> HIDE DEF r
    <3>10. r # Idle
      BY <3>9, Busy
    <3> QED
      BY <2>2, <3>1, <3>3, <3>4, <3>6, <3>7, <3>9, <3>10
  <2> QED
    BY <2>1, <2>2
<1>4. attempt' \in [Attempt -> Requests \cup {Idle}]
  <2>1. \A a \in Attempt : attempt'[a] \in Requests \cup {Idle}
    BY <1>3
  <2>2. attempt' = [a \in Attempt |-> attempt'[a]]
    BY DEF RoleChanged
  <2> QED
    BY <2>1, <2>2
<1>5. /\ faults' \in 0 .. MaxFaults /\ plan' \in Plans
      /\ standing' \in [Members -> Role \cup {"none"}]
  BY <1>1, NumberAssumption, ChangeAssumption DEF RoleChanged, TypeOK
<1>6. TypeOK'
  BY <1>1, <1>2, <1>4, <1>5 DEF TypeOK
<1>7. ASSUME NEW c \in Call PROVE OnceFine(c)'
  <2>1. /\ Unstored(c)' = Unstored(c)
        /\ \A b \in Unstored(c) : attempt'[b].phase = attempt[b].phase
    BY <1>3 DEF Unstored, UnderWay
  <2> QED
    BY <1>2, <2>1, OnceKept DEF IInv
<1>8. StoredFine' /\ GoneAreToldNothing'
  BY <1>2, DeliveredKept DEF IInv
<1>9. ASSUME NEW a \in Attempt, attempt'[a] # Idle
      PROVE  AnswerFine(attempt[a])' /\ WelcomeFine(attempt[a])'
  <2>1. PICK c \in Call :
          /\ attempt[a] \in Requests /\ attempt[a] # Idle /\ attempt[a].call = c
          /\ attempt'[a] \in Requests /\ attempt'[a] # Idle /\ attempt'[a].call = c
          /\ attempt'[a].phase = attempt[a].phase
          /\ attempt'[a].answer = attempt[a].answer
          /\ ~attempt'[a].welcome =>
               /\ ~attempt[a].welcome
               /\ \/ attempt[a].phase # "known" /\ ~MaySession(c)
                  \/ ~Allows(standing'[Member(c)], c)
    BY <1>3, <1>9
  <2>2. AnswerFine(attempt[a]) /\ WelcomeFine(attempt[a])
    BY <2>1 DEF IInv
  <2>3. AnswerFine(attempt[a])'
    BY <1>2, <2>1, <2>2 DEF AnswerFine, Stored, Found
  <2>4. WelcomeFine(attempt[a])'
    BY <1>2, <2>1, <2>2 DEF WelcomeFine, MaySession, IsAllowed, Denied
  <2> QED
    BY <2>3, <2>4
<1> QED
  BY <1>6, <1>7, <1>8, <1>9 DEF IInv


LEMMA NextInv == IInv /\ [Next]_vars => IInv'
<1> SUFFICES ASSUME IInv, [Next]_vars PROVE IInv'
  OBVIOUS
<1>1. CASE UNCHANGED vars
  BY <1>1, WorldSteps DEF vars, IInv, TypeOK
<1>2. ASSUME NEW a \in Attempt, NEW c \in Call, Send(a, c) PROVE IInv'
  BY <1>2, SendInv
<1>3. ASSUME NEW a \in Attempt, Handle(a) PROVE IInv'
  BY <1>3, AuthenticateInv, AdmitInv, LookUpInv, RunCommandInv, SaveInv, DeliverInv DEF Handle
<1>4. ASSUME NEW a \in Attempt, CommandRefuses(a) PROVE IInv'
  BY <1>4, RefusedInv DEF CommandRefuses
<1>5. ASSUME NEW a \in Attempt, LoseAnswer(a) PROVE IInv'
  BY <1>5, LoseAnswerInv
<1>6. CASE Crash \/ WindowPasses
  BY <1>6, CrashInv, WindowPassesInv
<1>7. ASSUME NEW u \in signedIn, SignedOut(u) PROVE IInv'
  BY <1>7, SignedOutInv
<1>8. ASSUME NEW m \in Members, NEW role \in Change, RoleChanged(m, role) PROVE IInv'
  BY <1>8, RoleChangedInv
<1> QED
  BY <1>1, <1>2, <1>3, <1>4, <1>5, <1>6, <1>7, <1>8 DEF Next

LEMMA Inductive == Spec => []IInv
<1> QED
  BY InitInv, NextInv, PTL DEF Spec

------------------------------------------------------------------------------
(* What the client can rely on, for any calls, requests and bounds. *)

\* Every variable keeps its type; a user has one stored answer under a key (the
\* primary key of idempotency_key).
THEOREM TypeCorrect == Spec => []TypeOK
<1>1. IInv => TypeOK
  BY DEF IInv
<1> QED
  BY <1>1, Inductive, PTL

\* SC-009: however often a call is sent, its command takes effect once, unless
\* the key was looked for while an earlier request was between its look-up and
\* its stored answer, or the API died there (run-idempotently).
THEOREM EffectsHappenOnce == Spec => []DoneOnce
<1>1. IInv => DoneOnce
  <2> SUFFICES ASSUME IInv, NEW c \in Call, effects[c] > 1
               PROVE  Work(c) = "create" /\ (~IsKeyed(c) \/ c \in blind)
    BY DEF DoneOnce
  <2>1. effects[c] \in 0 .. MaxEffects /\ OnceFine(c) /\ ~(effects[c] <= 1)
    BY DEF IInv, TypeOK
  <2> QED
    BY <2>1 DEF OnceFine
<1> QED
  BY <1>1, Inductive, PTL

\* A client is told of one thing at most under one key, even when its command
\* ran twice: the second answer cannot be stored and does not go out.
THEOREM AKeyHasOneAnswer == Spec => []OneAnswerAKey
<1>1. IInv => OneAnswerAKey
  <2> SUFFICES ASSUME IInv, NEW c \in Call, IsKeyed(c)
               PROVE  Cardinality(Successes(c)) <= 1
    BY DEF OneAnswerAKey
  <2>1. \A x, y \in Found(c) : x = y
    BY DEF IInv, TypeOK, Found
  <2>2. \A x, y \in Successes(c) : x = y
    BY <2>1 DEF IInv, StoredFine, Stored
  <2>3. CASE Successes(c) = {}
    BY <2>3, FS_EmptySet
  <2>4. CASE Successes(c) # {}
    <3>1. PICK x \in Successes(c) : Successes(c) = {x}
      BY <2>2, <2>4
    <3> QED
      BY <3>1, FS_Singleton
  <2> QED
    BY <2>3, <2>4
<1> QED
  BY <1>1, Inductive, PTL

\* Who had no session when the request was sent, or lacks the standing or the
\* capability, is told nothing, and a denial by the family is in its audit log
\* before it is told (SessionGuard, FamilyMembershipGuard, CapabilityGuard).
THEOREM TheGoneLearnNothing == Spec => []GoneAreToldNothing
<1>1. IInv => GoneAreToldNothing
  BY DEF IInv
<1> QED
  BY <1>1, Inductive, PTL


------------------------------------------------------------------------------
(* An answer is that of its call, or of one that shares its scope. *)

\* What the kinds of keys are filed under is told apart by its parts, so that
\* calls whose answers are filed under one key share its scope.
LEMMA OneKeyOneScope ==
  ASSUME NEW c \in Call, NEW d \in Call, IsKeyed(c), IsKeyed(d),
         c.user = d.user, ScopedKey(c) = ScopedKey(d)
  PROVE  SharesScope(c, d)
<1>1. /\ RouteOf(c).key \in {"bare", "family", "route"}
      /\ RouteOf(d).key \in {"bare", "family", "route"}
  BY RouteKinds, CallAssumption DEF IsKeyed, RouteOf
<1>2. ASSUME NEW e \in Call, RouteOf(e).key \in {"bare", "family", "route"}
      PROVE  /\ RouteOf(e).key = "bare" => ScopedKey(e) = <<e.key>>
             /\ RouteOf(e).key = "family" => ScopedKey(e) = <<e.family, e.key>>
             /\ RouteOf(e).key = "route" => ScopedKey(e) = <<e.family, e.route, e.key>>
  BY <1>2 DEF ScopedKey
<1>3. ASSUME NEW e \in Call, RouteOf(e).key \in {"bare", "family", "route"}
      PROVE  /\ RouteOf(e).key = "bare" => Len(ScopedKey(e)) = 1
             /\ RouteOf(e).key = "family" => Len(ScopedKey(e)) = 2
             /\ RouteOf(e).key = "route" => Len(ScopedKey(e)) = 3
  BY <1>2, <1>3
<1>4. RouteOf(c).key = RouteOf(d).key
  BY <1>1, <1>3
<1>5. c.key = d.key
  BY <1>1, <1>2, <1>4
<1>6. RouteOf(c).key # "bare" => c.family = d.family
  BY <1>1, <1>2, <1>4
<1>7. ASSUME RouteOf(c).key = "route" PROVE c.route = d.route
  <2>1. ScopedKey(c) = <<c.family, c.route, c.key>>
    BY <1>2, <1>7
  <2>2. ScopedKey(d) = <<d.family, d.route, d.key>>
    BY <1>2, <1>4, <1>7
  <2>3. ScopedKey(c)[2] = c.route
    BY <2>1
  <2>4. ScopedKey(d)[2] = d.route
    BY <2>2
  <2> QED
    BY <2>3, <2>4
<1>8. /\ RouteOf(c).key = "bare" => c.route = "createFamily" /\ d.route = "createFamily"
      /\ RouteOf(c).key = "family" => {c.route, d.route} \subseteq Adding
  BY <1>4, KeyKinds, CallAssumption DEF RouteOf, Adding
<1>9. c.family = d.family \/ c.route = "createFamily"
  BY <1>6, <1>8
<1>10. c.route = d.route \/ {c.route, d.route} \subseteq Adding
  BY <1>1, <1>7, <1>8
<1> QED
  BY <1>5, <1>9, <1>10 DEF SharesScope

\* What a step has to show that stores nothing and delivers nothing.
LEMMA OwnSteps ==
  ASSUME OwnFine, AnswersAreOnesOwn, UNCHANGED <<stored, answered>>,
         \A a \in Attempt :
           \/ attempt'[a] = attempt[a] \/ attempt'[a] = Idle
           \/ ~Done(attempt[a])'
           \/ /\ attempt[a] # Idle /\ attempt'[a].phase = attempt[a].phase
              /\ attempt'[a].answer = attempt[a].answer
              /\ attempt'[a].call = attempt[a].call
           \/ /\ attempt'[a].phase = "done"
                   => attempt'[a].answer.of = attempt'[a].call.name
              /\ IsOwn(attempt'[a].call, attempt'[a].answer.of)
  PROVE  OwnFine' /\ AnswersAreOnesOwn'
<1>1. AnswersAreOnesOwn'
  BY DEF AnswersAreOnesOwn, Successes, Received
<1>2. ASSUME NEW a \in Attempt, attempt'[a] # Idle, Done(attempt[a])'
      PROVE  /\ attempt'[a].phase = "done"
                  => attempt'[a].answer.of = attempt'[a].call.name
             /\ IsOwn(attempt'[a].call, attempt'[a].answer.of)
  BY <1>2 DEF OwnFine, Done
<1> QED
  BY <1>1, <1>2 DEF OwnFine

LEMMA OfItself ==
  ASSUME NEW c \in Call
  PROVE  IsOwn(c, c.name)
  BY DEF IsOwn

\* The steps of a request: a new success is of its call, stored under its key.
LEMMA HandleOwn ==
  ASSUME IInv, OwnFine, AnswersAreOnesOwn, NEW a \in Attempt, Handle(a)
  PROVE  OwnFine' /\ AnswersAreOnesOwn'
<1>1. attempt[a] # Idle /\ TypeOK
  BY DEF Handle, Authenticate, Admit, LookUp, RunCommand, Save, Deliver, Idle, IInv
<1>2. PICK c \in Call : attempt[a] \in Requests /\ c = attempt[a].call
  BY <1>1, RequestFields DEF TypeOK
<1>3. AnswerFine(attempt[a])
  BY <1>1 DEF IInv
<1>4. Done(attempt[a]) =>
        /\ attempt[a].phase = "done" => attempt[a].answer.of = c.name
        /\ IsOwn(c, attempt[a].answer.of)
  BY <1>1, <1>2 DEF OwnFine
<1>5. ASSUME NEW p \in GuardProblems \cup Refusals(c.route), Responds(a, Refusal(p)),
             UNCHANGED <<stored, answered>>
      PROVE  OwnFine' /\ AnswersAreOnesOwn'
  <2>1. Refusal(p) \in Answers(c) /\ Refusal(p).problem # "none"
    BY RefusalIsAnswer
  <2>2. /\ attempt'[a].answer = Refusal(p)
        /\ \A b \in Attempt \ {a} : attempt'[b] = attempt[b]
    BY <1>1, <1>2, <1>5, <2>1, RespondsWith
  <2> QED
    BY <1>5, <2>1, <2>2, OwnSteps DEF Done
<1>6. ASSUME NEW phase \in {"known", "admitted", "new"}, Moves(a, phase),
             UNCHANGED <<stored, answered>>
      PROVE  OwnFine' /\ AnswersAreOnesOwn'
  <2>1. /\ attempt'[a].phase = phase
        /\ \A b \in Attempt \ {a} : attempt'[b] = attempt[b]
    BY <1>1, <1>6, MovesTo
  <2> QED
    BY <1>6, <2>1, OwnSteps DEF Done
<1>7. ASSUME Authenticate(a) PROVE OwnFine' /\ AnswersAreOnesOwn'
  BY <1>5, <1>6, <1>7 DEF Authenticate, GuardProblems
<1>8. ASSUME Admit(a) PROVE OwnFine' /\ AnswersAreOnesOwn'
  <2>1. Turned(c) \subseteq GuardProblems
    BY DEF Turned, GuardProblems
  <2>2. (IF IsKeyed(c) THEN "admitted" ELSE "new") \in {"known", "admitted", "new"}
    OBVIOUS
  <2>3. UNCHANGED <<stored, answered>>
    BY <1>8 DEF Admit
  <2>4. \/ Responds(a, Refusal("rate_limited"))
        \/ Moves(a, IF IsKeyed(c) THEN "admitted" ELSE "new")
        \/ \E p \in Turned(c) : Responds(a, Refusal(p))
    BY <1>2, <1>8 DEF Admit
  <2>5. "rate_limited" \in GuardProblems
    BY DEF GuardProblems
  <2> QED
    BY <1>5, <1>6, <2>1, <2>2, <2>3, <2>4, <2>5
<1>9. ASSUME LookUp(a) PROVE OwnFine' /\ AnswersAreOnesOwn'
  <2>1. CASE Moves(a, "new")
    BY <1>6, <1>9, <2>1 DEF LookUp
  <2>2. CASE \E r \in Found(c) : Responds(a, r.answer)
    <3>1. PICK r \in Found(c) : Responds(a, r.answer)
      BY <2>2
    <3>2. r \in stored /\ r.answer \in Answers(c) /\ r.user = c.user /\ r.key = ScopedKey(c)
      BY <1>1, FoundIsAnswer DEF Found
    <3>3. PICK d \in Call :
            IsKeyed(d) /\ r.user = d.user /\ r.key = ScopedKey(d) /\ r.answer.of = d.name
      BY <3>2 DEF OwnFine
    <3>4. IsKeyed(c)
      BY <1>2, <1>3, <1>9 DEF AnswerFine, LookUp
    <3>5. IsOwn(c, r.answer.of)
      BY <3>2, <3>3, <3>4, OneKeyOneScope DEF IsOwn
    <3>6. /\ attempt'[a].answer = r.answer /\ attempt'[a].call = c
          /\ attempt'[a].phase = "answering"
          /\ \A b \in Attempt \ {a} : attempt'[b] = attempt[b]
      BY <1>1, <1>2, <3>1, <3>2, RespondsWith
    <3> QED
      BY <1>9, <3>5, <3>6, OwnSteps DEF LookUp
  <2> QED
    BY <1>2, <1>9, <2>1, <2>2 DEF LookUp
<1>10. ASSUME RunCommand(a) PROVE OwnFine' /\ AnswersAreOnesOwn'
  <2>1. CASE \E p \in Refusals(c.route) : Responds(a, Refusal(p))
    BY <1>5, <1>10, <2>1 DEF RunCommand
  <2>2. CASE attempt' = [attempt EXCEPT
               ![a].phase  = IF IsKeyed(c) THEN "done" ELSE "answering",
               ![a].answer = Success(c, effects'[c])]
    <3>1. PICK phase : phase = IF IsKeyed(c) THEN "done" ELSE "answering"
      OBVIOUS
    <3>2. PICK answer : answer = Success(c, effects'[c]) /\ answer.of = c.name
      <4>1. Success(c, effects'[c]).of = c.name
        BY DEF Success
      <4> QED
        BY <4>1
    <3>3. attempt' = [attempt EXCEPT ![a].phase = phase, ![a].answer = answer]
      BY <2>2, <3>1, <3>2
    <3>4. /\ attempt'[a].answer = answer /\ attempt'[a].call = c
          /\ \A b \in Attempt \ {a} : attempt'[b] = attempt[b]
      BY <1>1, <1>2, <3>3 DEF TypeOK, Requests
    <3>5. IsOwn(c, answer.of)
      BY <3>2, OfItself
    <3> QED
      BY <1>10, <3>2, <3>4, <3>5, OwnSteps DEF RunCommand
  <2> QED
    BY <1>2, <1>10, <2>1, <2>2 DEF RunCommand
<1>11. ASSUME Save(a) PROVE OwnFine' /\ AnswersAreOnesOwn'
  <2>1. CASE Responds(a, Refusal("internal")) /\ UNCHANGED stored
    <3>1. Refusal("internal") \in Answers(c) /\ Refusal("internal").problem # "none"
      BY RefusalIsAnswer
    <3>2. /\ attempt'[a].answer = Refusal("internal")
          /\ \A b \in Attempt \ {a} : attempt'[b] = attempt[b]
      BY <1>1, <1>2, <2>1, <3>1, RespondsWith
    <3> QED
      BY <1>11, <2>1, <3>1, <3>2, OwnSteps DEF Save, Done
  <2>2. CASE Moves(a, "answering")
    <3> DEFINE row == [user |-> c.user, key |-> ScopedKey(c), answer |-> attempt[a].answer]
    <3>1. attempt[a].phase = "done" /\ IsKeyed(c) /\ attempt[a].answer.of = c.name
      BY <1>2, <1>3, <1>4, <1>11 DEF Save, AnswerFine, Done
    <3>2. stored' \subseteq stored \cup {row}
      BY <1>2, <1>11 DEF Save
    <3>3. row.user = c.user /\ row.key = ScopedKey(c) /\ row.answer.of = c.name
      BY <3>1
    <3> HIDE DEF row
    <3>4. \A r \in stored' : \E d \in Call :
            IsKeyed(d) /\ r.user = d.user /\ r.key = ScopedKey(d) /\ r.answer.of = d.name
      BY <3>1, <3>2, <3>3 DEF OwnFine
    <3>5. /\ attempt'[a].answer = attempt[a].answer /\ attempt'[a].call = c
          /\ attempt'[a].phase = "answering"
          /\ \A b \in Attempt \ {a} : attempt'[b] = attempt[b]
      BY <1>1, <1>2, <2>2, MovesTo
    <3>6. ASSUME NEW b \in Attempt, attempt'[b] # Idle, Done(attempt[b])'
          PROVE  /\ attempt'[b].phase = "done"
                      => attempt'[b].answer.of = attempt'[b].call.name
                 /\ IsOwn(attempt'[b].call, attempt'[b].answer.of)
      <4>1. CASE b = a
        BY <3>1, <3>5, <4>1, OfItself
      <4>2. CASE b # a
        BY <3>5, <3>6, <4>2 DEF OwnFine, Done
      <4> QED
        BY <4>1, <4>2
    <3>7. AnswersAreOnesOwn'
      BY <1>11 DEF Save, AnswersAreOnesOwn, Successes, Received
    <3> QED
      BY <3>4, <3>6, <3>7 DEF OwnFine
  <2> QED
    BY <1>2, <1>11, <2>1, <2>2 DEF Save
<1>12. ASSUME Deliver(a) PROVE OwnFine' /\ AnswersAreOnesOwn'
  <2>1. attempt[a].phase = "answering" /\ stored' = stored
    BY <1>12 DEF Deliver
  <2>2. attempt'[a] = Idle /\ \A b \in Attempt \ {a} : attempt'[b] = attempt[b]
    BY <1>1, <1>12 DEF Deliver, TypeOK
  <2>3. OwnFine'
    <3>1. ASSUME NEW b \in Attempt, attempt'[b] # Idle, Done(attempt[b])'
          PROVE  /\ attempt'[b].phase = "done"
                      => attempt'[b].answer.of = attempt'[b].call.name
                 /\ IsOwn(attempt'[b].call, attempt'[b].answer.of)
      BY <2>2, <3>1 DEF OwnFine, Done
    <3> QED
      BY <2>1, <3>1 DEF OwnFine
  <2>4. PICK delivery :
          /\ delivery = [answer |-> attempt[a].answer, welcome |-> attempt[a].welcome]
          /\ delivery.answer = attempt[a].answer
    <3> DEFINE d == [answer |-> attempt[a].answer, welcome |-> attempt[a].welcome]
    <3>1. d.answer = attempt[a].answer
      OBVIOUS
    <3> QED
      BY <3>1
  <2>5. answered' = answered \/ answered' = [answered EXCEPT ![c] = @ \cup {delivery}]
    BY <1>2, <1>12, <2>4 DEF Deliver
  <2>6. AnswersAreOnesOwn'
    <3> SUFFICES ASSUME NEW d \in Call, NEW r \in answered'[d], r.answer.problem = "none"
                 PROVE  IsOwn(d, r.answer.of)
      BY DEF AnswersAreOnesOwn, Successes, Received
    <3>1. r \in answered[d] \/ (d = c /\ r = delivery)
      BY <1>1, <2>5 DEF TypeOK
    <3>2. CASE r \in answered[d]
      BY <3>2 DEF AnswersAreOnesOwn, Successes, Received
    <3>3. CASE d = c /\ r = delivery
      BY <1>4, <2>1, <2>4, <3>3 DEF Done
    <3> QED
      BY <3>1, <3>2, <3>3
  <2> QED
    BY <2>3, <2>6
<1> QED
  BY <1>7, <1>8, <1>9, <1>10, <1>11, <1>12 DEF Handle


LEMMA OwnNext ==
  IInv /\ OwnFine /\ AnswersAreOnesOwn /\ [Next]_vars
    => OwnFine' /\ AnswersAreOnesOwn'
<1> SUFFICES ASSUME IInv, OwnFine, AnswersAreOnesOwn, [Next]_vars
             PROVE  OwnFine' /\ AnswersAreOnesOwn'
  OBVIOUS
<1>1. TypeOK
  BY DEF IInv
<1>2. CASE UNCHANGED vars
  BY <1>2, OwnSteps DEF vars
<1>3. ASSUME NEW a \in Attempt, NEW c \in Call, Send(a, c)
      PROVE  OwnFine' /\ AnswersAreOnesOwn'
  <2>1. /\ attempt'[a].phase = "sent"
        /\ \A b \in Attempt \ {a} : attempt'[b] = attempt[b]
    BY <1>1, <1>3 DEF Send, TypeOK
  <2> QED
    BY <1>3, <2>1, OwnSteps DEF Send, Done
<1>4. ASSUME NEW a \in Attempt, Handle(a) PROVE OwnFine' /\ AnswersAreOnesOwn'
  BY <1>4, HandleOwn
<1>5. ASSUME NEW a \in Attempt, CommandRefuses(a) PROVE OwnFine' /\ AnswersAreOnesOwn'
  <2>1. attempt[a] # Idle
    BY <1>5 DEF CommandRefuses, Idle
  <2>2. PICK c \in Call : attempt[a] \in Requests /\ c = attempt[a].call
    BY <1>1, <2>1, RequestFields DEF TypeOK
  <2>3. PICK p \in Refusals(c.route) : Responds(a, Refusal(p))
    BY <1>5, <2>2 DEF CommandRefuses
  <2>4. Refusal(p) \in Answers(c) /\ Refusal(p).problem # "none"
    BY RefusalIsAnswer
  <2>5. /\ attempt'[a].answer = Refusal(p)
        /\ \A b \in Attempt \ {a} : attempt'[b] = attempt[b]
    BY <1>1, <2>1, <2>2, <2>3, <2>4, RespondsWith
  <2> QED
    BY <1>5, <2>4, <2>5, OwnSteps DEF CommandRefuses, Done
<1>6. ASSUME NEW a \in Attempt, LoseAnswer(a) PROVE OwnFine' /\ AnswersAreOnesOwn'
  <2>1. attempt'[a] = Idle /\ \A b \in Attempt \ {a} : attempt'[b] = attempt[b]
    BY <1>1, <1>6 DEF LoseAnswer, TypeOK
  <2> QED
    BY <1>6, <2>1, OwnSteps DEF LoseAnswer
<1>7. CASE Crash
  <2>1. \A a \in Attempt : attempt'[a] = Idle
    BY <1>7 DEF Crash
  <2> QED
    BY <1>7, <2>1, OwnSteps DEF Crash
<1>8. CASE WindowPasses
  BY <1>8, OwnSteps DEF WindowPasses
<1>9. ASSUME NEW u \in signedIn, SignedOut(u) PROVE OwnFine' /\ AnswersAreOnesOwn'
  BY <1>9, OwnSteps DEF SignedOut
<1>10. ASSUME NEW m \in Members, NEW role \in Change, RoleChanged(m, role)
       PROVE  OwnFine' /\ AnswersAreOnesOwn'
  <2>1. UNCHANGED <<stored, answered>>
    BY <1>10 DEF RoleChanged
  <2>2. ASSUME NEW a \in Attempt
        PROVE  \/ attempt'[a] = Idle
               \/ /\ attempt'[a].phase = attempt[a].phase /\ attempt[a] # Idle
                  /\ attempt'[a].answer = attempt[a].answer
                  /\ attempt'[a].call = attempt[a].call
    <3>1. CASE attempt[a] = Idle
      BY <1>10, <3>1 DEF RoleChanged
    <3>2. CASE attempt[a] # Idle
      BY <1>1, <1>10, <3>2 DEF RoleChanged, TypeOK, Requests
    <3> QED
      BY <3>1, <3>2
  <2> QED
    BY <2>1, <2>2, OwnSteps
<1> QED
  BY <1>2, <1>3, <1>4, <1>5, <1>6, <1>7, <1>8, <1>9, <1>10 DEF Next

\* A success is never told on another route, in another family or to another
\* user than it was stored for, whatever keys the clients use, but for the two
\* routes that add to a family (scopedKey of the tasks, calendar and family
\* controllers).
THEOREM AnswersAreOfTheirCall == Spec => []AnswersAreOnesOwn
<1>1. Init => OwnFine /\ AnswersAreOnesOwn
  BY DEF Init, OwnFine, AnswersAreOnesOwn, Successes, Received
<1>2. IInv /\ OwnFine /\ AnswersAreOnesOwn /\ [Next]_vars => OwnFine' /\ AnswersAreOnesOwn'
  BY OwnNext
<1> QED
  BY <1>1, <1>2, Inductive, PTL DEF Spec

==============================================================================
