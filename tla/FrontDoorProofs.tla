---------------------------- MODULE FrontDoorProofs ----------------------------
(* What callers of the hosted API read is what the engine measured, and the     *)
(* engine builds one scout and is asked for no more than the ceiling, for every  *)
(* set of callers, requests and limits.                                          *)
EXTENDS FrontDoor, FiniteSetTheorems, TLAPS

\* An answer the engine gave to a question it asks.
Measures(a, ans) == ans.status = 200 /\ ans.body = Question(a) /\ ans.body \in measured

\* A request with this key is answered by this.
Answers(key, ans) == \E a \in Ask : Key(a) = key /\ Measures(a, ans)

\* The edge cache holds answers to the requests it takes for each other.
KeptAnswersAreMeasured ==
  /\ \A k \in DOMAIN cached : Answers(k, cached[k])
  /\ \A p \in puts : Answers(p[1], p[2])

\* What comes back from the engine under a 200 is an answer, and to the Worker
\* no other status is ok.
EngineAnswersAreMeasured ==
  \A c \in Caller : stage[c] = "answered" =>
    /\ answer[c].status = 200 => Measures(asked[c], answer[c])
    /\ c \notin Direct /\ IsOk(answer[c]) => answer[c].status = 200

\* Past the refusals every request the Worker handles is admissible, and only
\* requests that need the scout wait for it.
WorkerAdmits ==
  \A c \in Caller :
    /\ c \notin Direct /\ stage[c] \in Stages \ {"new", "done"} => Admissible(asked[c])
    /\ stage[c] \in {"waiting", "working"} => NeedsScout(asked[c])

\* The scout is built at most once in the life of a process.
OneScout == builds <= 1 /\ (scout = "none" <=> builds = 0)

IInv ==
  /\ TypeOK
  /\ KeptAnswersAreMeasured
  /\ EngineAnswersAreMeasured
  /\ WorkerAdmits
  /\ OneScout
  /\ AnswersAreMeasured

-----------------------------------------------------------------------------
(* Requests, keys and answers.                                                 *)

\* Requests the cache takes for the same ask the engine the same.
LEMMA SameKeySameQuestion ==
  ASSUME NEW a \in Ask, NEW b \in Ask, Key(a) = Key(b)
  PROVE  Question(a) = Question(b)
BY NoneAssumption DEF Key, Question, Ask

\* Questions and keys are what the types say.
LEMMA QuestionTypes == \A a \in Ask : Question(a) \in Questions /\ Key(a) \in Questions
BY DEF Ask, Question, Key, Questions

LEMMA OwnType == \A s \in Nat : Own(s) \in Answer
BY DEF Own, Answer

LEMMA AtOnceType == \A a \in Ask : AtOnce(a) \in Answer
<1> SUFFICES ASSUME NEW a \in Ask PROVE AtOnce(a) \in Answer
  OBVIOUS
<1>1. Question(a) \in Questions
  BY QuestionTypes
<1>2. [status |-> 200, body |-> Question(a)] \in Answer
  BY <1>1 DEF Answer
<1>3. Own(204) \in Answer /\ Own(202) \in Answer /\ Own(400) \in Answer /\ Own(404) \in Answer
  BY OwnType
<1> QED BY <1>2, <1>3 DEF AtOnce

\* Answered at once, a 200 is the answer to the question; of what the Worker lets
\* through, nothing else answered at once is ok.
LEMMA AtOnceAnswers ==
  ASSUME NEW a \in Ask, ~NeedsScout(a)
  PROVE  /\ AtOnce(a).status = 200 => AtOnce(a).body = Question(a)
         /\ Admissible(a) /\ IsOk(AtOnce(a)) => AtOnce(a).status = 200
<1>1. CASE a.method = "OPTIONS"
  BY <1>1 DEF AtOnce, Own, Admissible
<1>2. CASE a.method # "OPTIONS" /\ a.path \in {"/healthz", "/v1/status", "/v1/presets"}
  <2>1. AtOnce(a) = [status |-> 200, body |-> Question(a)]
    BY <1>2 DEF AtOnce, Works
  <2> QED BY <2>1
<1>3. CASE a.method = "POST" /\ a.path \in Works \cup {"/v1/play"}
  <2>1. AtOnce(a) = IF Readable(a.body) /\ ~Nameless(a.body) THEN Own(202) ELSE Own(400)
    BY <1>3 DEF AtOnce, Works
  <2>2. CASE a.path = "/v1/play"
    BY <2>1, <2>2 DEF Own, Admissible, Blocked
  <2>3. CASE a.path # "/v1/play"
    BY <1>3, <2>1, <2>3 DEF Own, IsOk, NeedsScout
  <2> QED BY <2>2, <2>3
<1>4. CASE /\ a.method # "OPTIONS"
           /\ a.path \notin {"/healthz", "/v1/status", "/v1/presets"}
           /\ ~(a.method = "POST" /\ a.path \in Works \cup {"/v1/play"})
  <2>1. AtOnce(a) = Own(404)
    BY <1>4 DEF AtOnce
  <2> QED BY <2>1 DEF Own, IsOk
<1> QED BY <1>1, <1>2, <1>3, <1>4

\* The Worker answers 200 on its own only for itself.
LEMMA RefusalsAreRefusals ==
  \A a \in Ask : \A s \in Refusals(a) : s \in Nat /\ (s = 200 => OwnAnswer(a))
BY DEF Refusals, OwnAnswer, Ask
-----------------------------------------------------------------------------
(* Types.                                                                      *)

\* A caller that gets a reply is done, and the reply has a reply's type.
LEMMA RepliedTypes ==
  ASSUME TypeOK, NEW c \in Caller, NEW a \in Answer, NEW hit \in BOOLEAN,
         Replied(c, a, hit), asked'[c] # NoAsk, UNCHANGED answer,
         \/ UNCHANGED asked
         \/ \E b \in Asks[c] : asked' = [asked EXCEPT ![c] = b]
  PROVE  /\ asked' \in [Caller -> Ask \cup {NoAsk}]
         /\ stage' \in [Caller -> Stages]
         /\ answer' \in [Caller -> Answer]
         /\ reply' \in [Caller -> Reply \cup {NoReply}]
         /\ \A d \in Caller :
              /\ asked'[d] \in Asks[d] \cup {NoAsk}
              /\ asked'[d] = NoAsk <=> stage'[d] = "new"
              /\ reply'[d] # NoReply <=> stage'[d] = "done"
<1> DEFINE r == [status |-> a.status, body |-> a.body, hit |-> hit]
<1>1. r \in Reply /\ r # NoReply
  BY NoneAssumption DEF Reply, Answer
<1>2. stage' = [stage EXCEPT ![c] = "done"] /\ reply' = [reply EXCEPT ![c] = r]
  BY DEF Replied, Goes
<1>3. /\ stage'[c] = "done" /\ reply'[c] = r
      /\ \A d \in Caller \ {c} : stage'[d] = stage[d] /\ reply'[d] = reply[d] /\ asked'[d] = asked[d]
      /\ asked'[c] \in Asks[c] \cup {NoAsk}
  BY <1>2 DEF TypeOK
<1>4. asked' \in [Caller -> Ask \cup {NoAsk}]
  BY AsksAssumption DEF TypeOK
<1>5. stage' \in [Caller -> Stages] /\ reply' \in [Caller -> Reply \cup {NoReply}]
  BY <1>1, <1>2 DEF TypeOK, Stages
<1>6. ASSUME NEW d \in Caller
      PROVE  /\ asked'[d] \in Asks[d] \cup {NoAsk}
             /\ asked'[d] = NoAsk <=> stage'[d] = "new"
             /\ reply'[d] # NoReply <=> stage'[d] = "done"
  BY <1>1, <1>3 DEF TypeOK
<1> QED BY <1>4, <1>5, <1>6 DEF TypeOK

\* A caller whose request moves on has asked something and has no reply.
LEMMA GoesTypes ==
  ASSUME TypeOK, NEW c \in Caller, NEW where \in Stages \ {"new", "done"},
         Goes(c, where), stage[c] # "done", asked'[c] # NoAsk, UNCHANGED reply,
         answer' \in [Caller -> Answer],
         \/ UNCHANGED asked
         \/ \E b \in Asks[c] : asked' = [asked EXCEPT ![c] = b]
  PROVE  /\ asked' \in [Caller -> Ask \cup {NoAsk}]
         /\ stage' \in [Caller -> Stages]
         /\ answer' \in [Caller -> Answer]
         /\ reply' \in [Caller -> Reply \cup {NoReply}]
         /\ \A d \in Caller :
              /\ asked'[d] \in Asks[d] \cup {NoAsk}
              /\ asked'[d] = NoAsk <=> stage'[d] = "new"
              /\ reply'[d] # NoReply <=> stage'[d] = "done"
<1>1. stage' = [stage EXCEPT ![c] = where]
  BY DEF Goes
<1>2. /\ stage'[c] = where
      /\ \A d \in Caller \ {c} : stage'[d] = stage[d] /\ asked'[d] = asked[d]
      /\ asked'[c] \in Asks[c] \cup {NoAsk}
  BY <1>1 DEF TypeOK
<1>3. asked' \in [Caller -> Ask \cup {NoAsk}]
  BY AsksAssumption DEF TypeOK
<1>4. stage' \in [Caller -> Stages]
  BY <1>1 DEF TypeOK
<1>5. ASSUME NEW d \in Caller
      PROVE  /\ asked'[d] \in Asks[d] \cup {NoAsk}
             /\ asked'[d] = NoAsk <=> stage'[d] = "new"
             /\ reply'[d] # NoReply <=> stage'[d] = "done"
  BY <1>2 DEF TypeOK
<1> QED BY <1>3, <1>4, <1>5 DEF TypeOK

\* What a caller past "new" asked is a request.
LEMMA AskedIsAsk ==
  ASSUME TypeOK, NEW c \in Caller, stage[c] # "new"
  PROVE  asked[c] \in Ask /\ asked[c] # NoAsk
BY DEF TypeOK

LEMMA InitTypes == Init => TypeOK
<1> SUFFICES ASSUME Init PROVE TypeOK
  OBVIOUS
<1>1. Own(0) \in Answer
  BY OwnType
<1>2. asked \in [Caller -> Ask \cup {NoAsk}] /\ stage \in [Caller -> Stages]
      /\ answer \in [Caller -> Answer] /\ reply \in [Caller -> Reply \cup {NoReply}]
  BY <1>1 DEF Init, Stages
<1>3. /\ DOMAIN cached = {} /\ cached = [k \in DOMAIN cached |-> cached[k]]
      /\ puts = {} /\ measured = {} /\ builds \in Nat /\ configured \in BOOLEAN
      /\ process = "up" /\ scout = "none"
  BY DEF Init, EmptyCache
<1>4. \A c \in Caller : asked[c] = NoAsk /\ stage[c] = "new" /\ reply[c] = NoReply
  BY DEF Init
<1> QED BY <1>2, <1>3, <1>4 DEF TypeOK

LEMMA TypeStep == TypeOK /\ [Next]_vars => TypeOK'
<1> SUFFICES ASSUME TypeOK, [Next]_vars PROVE TypeOK'
  OBVIOUS
<1> DEFINE Callers ==
      /\ asked \in [Caller -> Ask \cup {NoAsk}]
      /\ stage \in [Caller -> Stages]
      /\ answer \in [Caller -> Answer]
      /\ reply \in [Caller -> Reply \cup {NoReply}]
      /\ \A d \in Caller :
           /\ asked[d] \in Asks[d] \cup {NoAsk}
           /\ asked[d] = NoAsk <=> stage[d] = "new"
           /\ reply[d] # NoReply <=> stage[d] = "done"
<1> DEFINE Door ==
      /\ configured \in BOOLEAN
      /\ cached = [k \in DOMAIN cached |-> cached[k]]
      /\ \A k \in DOMAIN cached : k \in Questions /\ cached[k] \in Answer
      /\ puts \subseteq Questions \X Answer
<1> DEFINE Engine ==
      /\ measured \subseteq Questions
      /\ process \in {"up", "closing", "down"}
      /\ scout \in {"none", "building", "ready", "failed"}
      /\ builds \in Nat
<1>0. Callers' /\ Door' /\ Engine' => TypeOK'
  BY DEF TypeOK
<1>a. Callers /\ Door /\ Engine
  BY DEF TypeOK
<1>b. UNCHANGED <<asked, stage, answer, reply>> => Callers'
  BY <1>a
<1>c. UNCHANGED door => Door'
  BY <1>a DEF door
<1>d. UNCHANGED engine => Engine'
  BY <1>a DEF engine
<1> HIDE DEF Callers, Door, Engine
<1>1. ASSUME NEW c \in Caller, NEW a \in Asks[c], Receive(c, a) PROVE TypeOK'
  <2>1. a \in Ask /\ a # NoAsk /\ asked'[c] = a
    BY <1>1, AsksAssumption, NoneAssumption DEF Receive, TypeOK
  <2>2. Door' /\ Engine'
    BY <1>1, <1>c, <1>d DEF Receive
  <2>3. \E b \in Asks[c] : asked' = [asked EXCEPT ![c] = b]
    BY <1>1 DEF Receive
  <2>4. stage[c] = "new" /\ UNCHANGED answer /\ answer' \in [Caller -> Answer]
    BY <1>1 DEF Receive, TypeOK
  <2>5. ASSUME NEW w \in {"sent", "looking"}, Goes(c, w), UNCHANGED reply PROVE Callers'
    BY <2>1, <2>3, <2>4, <2>5, GoesTypes DEF Stages, Callers
  <2>6. ASSUME NEW s \in Refusals(a), Replied(c, Own(s), FALSE) PROVE Callers'
    <3>1. Own(s) \in Answer
      BY <2>1, OwnType, RefusalsAreRefusals
    <3> QED BY <2>1, <2>3, <2>4, <2>6, <3>1, RepliedTypes DEF Callers
  <2> QED BY <1>0, <1>1, <2>2, <2>5, <2>6 DEF Receive
<1>2. ASSUME NEW c \in Caller, Look(c) PROVE TypeOK'
  <2>1. stage[c] = "looking" /\ UNCHANGED <<door, engine, asked, answer>>
    BY <1>2 DEF Look
  <2>2. asked'[c] # NoAsk /\ answer' \in [Caller -> Answer]
    BY <2>1, AskedIsAsk DEF TypeOK
  <2>3. CASE Key(asked[c]) \in DOMAIN cached
    <3>1. Replied(c, cached[Key(asked[c])], TRUE) /\ cached[Key(asked[c])] \in Answer
      BY <1>2, <2>3 DEF Look, TypeOK
    <3> QED BY <1>0, <1>c, <1>d, <2>1, <2>2, <3>1, RepliedTypes DEF Callers
  <2>4. CASE Key(asked[c]) \notin DOMAIN cached
    <3>1. Goes(c, "sent") /\ UNCHANGED reply
      BY <1>2, <2>4 DEF Look
    <3> QED BY <1>0, <1>c, <1>d, <2>1, <2>2, <3>1, GoesTypes DEF Callers, Stages
  <2> QED BY <2>3, <2>4
<1>3. ASSUME NEW c \in Caller, Arrive(c) PROVE TypeOK'
  <2>1. stage[c] = "sent" /\ UNCHANGED <<door, process, asked, reply>>
    BY <1>3 DEF Arrive
  <2>2. asked'[c] # NoAsk /\ asked[c] \in Ask
    BY <2>1, AskedIsAsk
  <2>3. /\ measured' \subseteq Questions
        /\ UNCHANGED <<scout, builds>> \/ GetScout
    BY <1>3, <2>2, QuestionTypes DEF Arrive, TypeOK
  <2>4. Engine'
    BY <1>a, <2>1, <2>3 DEF Engine, GetScout
  <2>5. \/ Goes(c, "waiting") /\ UNCHANGED answer
        \/ /\ Goes(c, "cut") \/ Goes(c, "answered")
           /\ answer' = [answer EXCEPT ![c] = AtOnce(asked[c])]
    BY <1>3 DEF Arrive
  <2>6. answer' \in [Caller -> Answer]
    BY <2>2, <2>5, AtOnceType DEF TypeOK
  <2>7. \E w \in Stages \ {"new", "done"} : Goes(c, w)
    BY <2>5 DEF Stages
  <2> QED BY <1>0, <1>c, <2>1, <2>2, <2>4, <2>6, <2>7, GoesTypes DEF Callers
<1>4. ASSUME NEW c \in Caller, GotScout(c) PROVE TypeOK'
  <2>1. stage[c] = "waiting" /\ UNCHANGED <<door, engine, asked, reply>>
    BY <1>4 DEF GotScout
  <2>2. asked'[c] # NoAsk
    BY <2>1, AskedIsAsk
  <2>3. answer' \in [Caller -> Answer]
    BY <1>4, OwnType DEF GotScout, TypeOK
  <2>4. \E w \in Stages \ {"new", "done"} : Goes(c, w)
    BY <1>4 DEF GotScout, Stages
  <2> QED BY <1>0, <1>c, <1>d, <2>1, <2>2, <2>3, <2>4, GoesTypes DEF Callers
<1>5. ASSUME NEW c \in Caller, Work(c) PROVE TypeOK'
  <2>1. /\ stage[c] = "working" /\ Goes(c, "answered")
        /\ UNCHANGED <<door, process, scout, builds, asked, reply>>
    BY <1>5 DEF Work
  <2>2. asked'[c] # NoAsk /\ Question(asked[c]) \in Questions
    BY <2>1, AskedIsAsk, QuestionTypes
  <2>3. [status |-> 200, body |-> Question(asked[c])] \in Answer /\ Own(400) \in Answer
    BY <2>2, OwnType DEF Answer
  <2>4. answer' \in [Caller -> Answer] /\ measured' \subseteq Questions
    BY <1>5, <2>2, <2>3 DEF Work, TypeOK
  <2>5. Engine'
    BY <1>a, <2>1, <2>4 DEF Engine
  <2> QED BY <1>0, <1>c, <2>1, <2>2, <2>4, <2>5, GoesTypes DEF Callers, Stages
<1>6. ASSUME NEW c \in Caller, Forward(c) PROVE TypeOK'
  <2>1. /\ stage[c] = "answered" /\ Replied(c, answer[c], FALSE)
        /\ UNCHANGED <<configured, cached, engine, asked, answer>>
    BY <1>6 DEF Forward
  <2>2. asked'[c] # NoAsk /\ Key(asked[c]) \in Questions /\ answer[c] \in Answer
    BY <2>1, AskedIsAsk, QuestionTypes DEF TypeOK
  <2>3. puts' \subseteq Questions \X Answer
    BY <1>6, <2>2 DEF Forward, TypeOK
  <2>4. Door'
    BY <1>a, <2>1, <2>3 DEF Door
  <2> QED BY <1>0, <1>d, <2>1, <2>2, <2>4, RepliedTypes DEF Callers
<1>7. ASSUME NEW c \in Caller, Unreachable(c) \/ Broken(c) PROVE TypeOK'
  <2>1. stage[c] # "new" /\ UNCHANGED <<door, engine, asked, answer>>
    BY <1>7 DEF Unreachable, Broken
  <2>2. \E s \in Nat : Replied(c, Own(s), FALSE)
    <3>1. CASE c \in Direct
      BY <1>7, <3>1 DEF Unreachable, Broken
    <3>2. CASE c \notin Direct
      <4>1. Replied(c, Own(502), FALSE) \/ Replied(c, Own(500), FALSE)
        BY <1>7, <3>2 DEF Unreachable, Broken
      <4>2. 502 \in Nat /\ 500 \in Nat
        OBVIOUS
      <4> QED BY <4>1, <4>2
    <3> QED BY <3>1, <3>2
  <2>3. asked'[c] # NoAsk
    BY <2>1, AskedIsAsk
  <2> QED BY <1>0, <1>c, <1>d, <2>1, <2>2, <2>3, OwnType, RepliedTypes DEF Callers
<1>8. ASSUME Built \/ Shutdown \/ Start PROVE TypeOK'
  <2>1. UNCHANGED <<door, asked, stage, answer, reply>>
    BY <1>8 DEF Built, Shutdown, Start
  <2>2. Engine'
    BY <1>8, <1>a DEF Built, Shutdown, Start, Engine
  <2> QED BY <1>0, <1>b, <1>c, <2>1, <2>2
<1>9. ASSUME NEW p \in puts, PutEnds(p) PROVE TypeOK'
  <2>1. p[1] \in Questions /\ p[2] \in Answer
    BY DEF TypeOK
  <2>2. Door'
    BY <1>9, <1>a, <2>1 DEF PutEnds, Door
  <2> QED BY <1>0, <1>9, <1>b, <1>d, <2>2 DEF PutEnds
<1>10. ASSUME NEW k \in DOMAIN cached, Expire(k) PROVE TypeOK'
  <2>1. Door'
    BY <1>10, <1>a DEF Expire, Door
  <2> QED BY <1>0, <1>10, <1>b, <1>d, <2>1 DEF Expire
<1>11. ASSUME Exit PROVE TypeOK'
  <2>1. Callers'
    BY <1>11, <1>a DEF Exit, Callers, Stages
  <2>2. Engine'
    BY <1>11, <1>a DEF Exit, Engine
  <2> QED BY <1>0, <1>11, <1>c, <2>1, <2>2 DEF Exit
<1>12. ASSUME UNCHANGED vars PROVE TypeOK'
  BY <1>0, <1>12, <1>b, <1>c, <1>d DEF vars
<1> QED BY <1>1, <1>2, <1>3, <1>4, <1>5, <1>6, <1>7, <1>8, <1>9, <1>10, <1>11, <1>12 DEF Next, Progress

\* Every request, answer and cache entry is of its type, and a caller has a reply
\* exactly when it is done.
THEOREM TypeCorrect == Spec => []TypeOK
BY InitTypes, TypeStep, PTL DEF Spec
-----------------------------------------------------------------------------
(* Answers.                                                                    *)

\* The engine forgets no answer it gave.
LEMMA MeasuredGrows == [Next]_vars => measured \subseteq measured'
<1>1. \A c \in Caller : Arrive(c) => measured \subseteq measured'
  BY DEF Arrive
<1>2. \A c \in Caller : Work(c) => measured \subseteq measured'
  BY DEF Work
<1>3. [Next]_vars => \/ UNCHANGED measured
                    \/ \E c \in Caller : Arrive(c) \/ Work(c)
  BY DEF Next, Progress, Receive, Look, GotScout, Forward, Unreachable, Broken,
         Built, PutEnds, Expire, Shutdown, Exit, Start, engine, vars
<1> QED BY <1>1, <1>2, <1>3

\* What a caller past "new" asked stays what it asked.
LEMMA AskedStays ==
  ASSUME TypeOK, [Next]_vars, NEW d \in Caller, stage[d] # "new"
  PROVE  asked'[d] = asked[d]
<1>1. ASSUME NEW c \in Caller, NEW a \in Asks[c], Receive(c, a) PROVE asked'[d] = asked[d]
  BY <1>1 DEF Receive, TypeOK
<1>2. \/ UNCHANGED asked
      \/ \E c \in Caller : \E a \in Asks[c] : Receive(c, a)
  BY DEF Next, Progress, Look, Arrive, GotScout, Work, Forward, Unreachable,
         Broken, Built, PutEnds, Expire, Shutdown, Exit, Start, vars
<1> QED BY <1>1, <1>2

\* An answer stays an answer.
LEMMA AnswersStay ==
  ASSUME [Next]_vars
  PROVE  /\ \A a, ans : Measures(a, ans) => Measures(a, ans)'
         /\ \A k, ans : Answers(k, ans) => Answers(k, ans)'
<1>1. \A a, ans : Measures(a, ans) => Measures(a, ans)'
  BY MeasuredGrows DEF Measures
<1> QED BY <1>1 DEF Answers

\* An answer kept for a request answers every request with its key.
LEMMA AnswersAnyone ==
  ASSUME NEW a \in Ask, NEW ans, Answers(Key(a), ans)
  PROVE  Measures(a, ans)
BY SameKeySameQuestion DEF Answers, Measures

\* The cache takes in what the Worker forwards when it is ok, and nothing else.
LEMMA KeptStep == IInv /\ [Next]_vars => KeptAnswersAreMeasured'
<1> SUFFICES ASSUME IInv, [Next]_vars PROVE KeptAnswersAreMeasured'
  OBVIOUS
<1>a. /\ \A k \in DOMAIN cached : Answers(k, cached[k])
      /\ \A p \in puts : Answers(p[1], p[2])
  BY DEF IInv, KeptAnswersAreMeasured
<1>b. \A k, ans : Answers(k, ans) => Answers(k, ans)'
  BY AnswersStay
<1>c. CASE UNCHANGED <<cached, puts>>
  <2>1. /\ \A k \in DOMAIN cached' : Answers(k, cached'[k])
        /\ \A p \in puts' : Answers(p[1], p[2])
    BY <1>a, <1>c
  <2> QED BY <1>b, <2>1 DEF KeptAnswersAreMeasured
<1>1. ASSUME NEW c \in Caller, Forward(c) PROVE KeptAnswersAreMeasured'
  <2>1. UNCHANGED cached /\ stage[c] = "answered"
    BY <1>1 DEF Forward
  <2>2. asked[c] \in Ask
    BY <2>1, AskedIsAsk DEF IInv
  <2>3. ASSUME c \notin Direct, Kept(answer[c]) PROVE Answers(Key(asked[c]), answer[c])
    <3>1. Measures(asked[c], answer[c])
      BY <2>1, <2>3 DEF IInv, EngineAnswersAreMeasured, Kept
    <3> QED BY <2>2, <3>1 DEF Answers
  <2>4. puts' = IF c \notin Direct /\ Kept(answer[c])
                THEN puts \cup {<<Key(asked[c]), answer[c]>>} ELSE puts
    BY <1>1 DEF Forward
  <2>5. \A p \in puts' : Answers(p[1], p[2])
    BY <1>a, <2>3, <2>4
  <2>6. \A k \in DOMAIN cached' : Answers(k, cached'[k])
    BY <1>a, <2>1
  <2> QED BY <1>b, <2>5, <2>6 DEF KeptAnswersAreMeasured
<1>2. ASSUME NEW p \in puts, PutEnds(p) PROVE KeptAnswersAreMeasured'
  <2>1. \A q \in puts' : Answers(q[1], q[2])
    BY <1>2, <1>a DEF PutEnds
  <2>2. \A k \in DOMAIN cached' : Answers(k, cached'[k])
    <3>1. CASE UNCHANGED cached
      BY <1>a, <3>1
    <3>2. CASE cached' = [k \in DOMAIN cached \cup {p[1]} |-> IF k = p[1] THEN p[2] ELSE cached[k]]
      BY <1>a, <3>2
    <3> QED BY <1>2, <3>1, <3>2 DEF PutEnds
  <2> QED BY <1>b, <2>1, <2>2 DEF KeptAnswersAreMeasured
<1>3. ASSUME NEW k \in DOMAIN cached, Expire(k) PROVE KeptAnswersAreMeasured'
  <2>1. /\ \A j \in DOMAIN cached' : Answers(j, cached'[j])
        /\ \A q \in puts' : Answers(q[1], q[2])
    BY <1>3, <1>a DEF Expire
  <2> QED BY <1>b, <2>1 DEF KeptAnswersAreMeasured
<1>4. \/ UNCHANGED <<cached, puts>>
      \/ \E c \in Caller : Forward(c)
      \/ \E p \in puts : PutEnds(p)
      \/ \E k \in DOMAIN cached : Expire(k)
  BY DEF Next, Progress, Receive, Look, Arrive, GotScout, Work, Unreachable, Broken,
         Built, Shutdown, Exit, Start, engine, door, vars
<1> QED BY <1>c, <1>1, <1>2, <1>3, <1>4

\* The Worker lets a request through, or it is no longer the Worker's.
LEMMA AdmitStep == IInv /\ [Next]_vars => WorkerAdmits'
<1> SUFFICES ASSUME IInv, [Next]_vars, NEW d \in Caller
             PROVE  /\ d \notin Direct /\ stage'[d] \in Stages \ {"new", "done"} => Admissible(asked[d])'
                    /\ stage'[d] \in {"waiting", "working"} => NeedsScout(asked[d])'
  BY DEF WorkerAdmits
<1>a. UNCHANGED configured
  BY DEF Next, Progress, Receive, Look, Arrive, GotScout, Work, Forward, Unreachable, Broken,
         Built, PutEnds, Expire, Shutdown, Exit, Start, door, vars
<1>b. ASSUME asked'[d] = asked[d]
      PROVE  /\ Admissible(asked[d]) => Admissible(asked[d])'
             /\ NeedsScout(asked[d]) => NeedsScout(asked[d])'
  BY <1>a, <1>b DEF Admissible, NeedsScout, TooLarge, Counted, Readable, Candidates
<1>c. /\ stage \in [Caller -> Stages]
      /\ d \notin Direct /\ stage[d] \in Stages \ {"new", "done"} => Admissible(asked[d])
      /\ stage[d] \in {"waiting", "working"} => NeedsScout(asked[d])
  BY DEF IInv, TypeOK, WorkerAdmits
<1>1. CASE /\ asked'[d] = asked[d]
           /\ \/ stage'[d] \in {stage[d], "done"}
              \/ stage[d] \notin {"new", "done"} /\ stage'[d] \notin {"waiting", "working"}
              \/ stage[d] = "waiting"
  BY <1>b, <1>c, <1>1
<1>2. ASSUME NEW a \in Asks[d], Receive(d, a)
      PROVE  /\ d \notin Direct /\ stage'[d] \in Stages \ {"new", "done"} => Admissible(asked[d])'
             /\ stage'[d] \in {"waiting", "working"} => NeedsScout(asked[d])'
  <2>1. asked'[d] = a
    BY <1>2 DEF Receive, IInv, TypeOK
  <2>2. \/ stage'[d] = "done"
        \/ d \in Direct /\ stage'[d] = "sent"
        \/ Admissible(a) /\ stage'[d] = "looking"
    BY <1>2, <1>c DEF Receive, Replied, Goes
  <2>3. Admissible(a) => Admissible(asked[d])'
    BY <1>a, <2>1 DEF Admissible, TooLarge, Counted
  <2> QED BY <2>2, <2>3
<1>3. ASSUME Arrive(d)
      PROVE  /\ d \notin Direct /\ stage'[d] \in Stages \ {"new", "done"} => Admissible(asked[d])'
             /\ stage'[d] \in {"waiting", "working"} => NeedsScout(asked[d])'
  <2>1. stage[d] = "sent" /\ asked'[d] = asked[d]
    BY <1>3 DEF Arrive
  <2>2. stage'[d] \in {"waiting", "working"} => NeedsScout(asked[d])
    BY <1>3, <1>c DEF Arrive, Goes
  <2> QED BY <1>b, <1>c, <2>1, <2>2 DEF Stages
<1>4. \/ \E a \in Asks[d] : Receive(d, a)
      \/ Arrive(d)
      \/ /\ asked'[d] = asked[d]
         /\ \/ stage'[d] \in {stage[d], "done"}
            \/ stage[d] \notin {"new", "done"} /\ stage'[d] \notin {"waiting", "working"}
            \/ stage[d] = "waiting"
  <2>1. CASE Exit
    BY <2>1, <1>c DEF Exit
  <2>2. CASE Built \/ Shutdown \/ Start \/ (\E p \in puts : PutEnds(p))
             \/ (\E k \in DOMAIN cached : Expire(k)) \/ UNCHANGED vars
    BY <2>2 DEF Built, Shutdown, Start, PutEnds, Expire, vars
  <2>3. ASSUME NEW c \in Caller \ {d}, Progress(c)
        PROVE  stage'[d] = stage[d] /\ asked'[d] = asked[d]
    BY <2>3 DEF Progress, Receive, Look, Arrive, GotScout, Work, Forward, Unreachable, Broken,
                Replied, Goes, IInv, TypeOK
  <2>4. CASE Look(d) \/ GotScout(d) \/ Work(d) \/ Forward(d) \/ Unreachable(d) \/ Broken(d)
    BY <2>4, <1>c DEF Look, GotScout, Work, Forward, Unreachable, Broken, Replied, Goes
  <2> QED BY <2>1, <2>2, <2>3, <2>4 DEF Next, Progress
<1> QED BY <1>1, <1>2, <1>3, <1>4

\* A second scout would need scoutPromise to be reset in a running process.
LEMMA ScoutStep == IInv /\ [Next]_vars => OneScout'
<1> SUFFICES ASSUME IInv, [Next]_vars PROVE OneScout'
  OBVIOUS
<1>1. builds \in Nat /\ builds <= 1 /\ (scout = "none" <=> builds = 0)
  BY DEF IInv, TypeOK, OneScout
<1>2. \/ UNCHANGED <<scout, builds>>
      \/ GetScout
      \/ scout = "building" /\ scout' # "none" /\ UNCHANGED builds
      \/ scout' = "none" /\ builds' = 0
  BY DEF Next, Progress, Receive, Look, Arrive, GotScout, Work, Forward, Unreachable, Broken,
         Built, PutEnds, Expire, Shutdown, Exit, Start, engine, vars
<1> QED BY <1>1, <1>2 DEF GetScout, OneScout

\* The engine answers a question with that question's answer, or says it failed.
LEMMA EngineAnswersStep == IInv /\ [Next]_vars => EngineAnswersAreMeasured'
<1> SUFFICES ASSUME IInv, [Next]_vars, NEW d \in Caller, stage'[d] = "answered"
             PROVE  /\ answer'[d].status = 200 => Measures(asked[d], answer[d])'
                    /\ d \notin Direct /\ IsOk(answer'[d]) => answer'[d].status = 200
  BY DEF EngineAnswersAreMeasured
<1>a. stage \in [Caller -> Stages] /\ answer \in [Caller -> Answer]
  BY DEF IInv, TypeOK
<1>b. Own(400).status = 400 /\ ~IsOk(Own(400))
  BY DEF Own, IsOk
<1>1. CASE stage[d] = "answered" /\ answer'[d] = answer[d]
  <2>1. asked'[d] = asked[d]
    BY <1>1, AskedStays DEF IInv
  <2>2. /\ answer[d].status = 200 => Measures(asked[d], answer[d])
        /\ d \notin Direct /\ IsOk(answer[d]) => answer[d].status = 200
    BY <1>1 DEF IInv, EngineAnswersAreMeasured
  <2>3. Measures(asked[d], answer[d]) => asked[d] \in Ask
    BY <1>1, AskedIsAsk DEF IInv
  <2>4. \A a, ans : Measures(a, ans) => Measures(a, ans)'
    BY AnswersStay
  <2>5. answer[d].status = 200 => answer[d].body = Question(asked[d]) /\ answer[d].body \in measured'
    BY <2>2, MeasuredGrows DEF Measures
  <2> QED BY <1>1, <2>1, <2>2, <2>5 DEF Measures
<1>2. CASE Arrive(d)
  <2> DEFINE a == asked[d]
  <2>1. asked[d] \in Ask /\ stage[d] = "sent" /\ asked'[d] = asked[d]
    BY <1>2, AskedIsAsk DEF Arrive, IInv
  <2>2. /\ ~NeedsScout(a)
        /\ answer'[d] = AtOnce(a)
        /\ AtOnce(a).status = 200 => Question(a) \in measured'
    BY <1>2, <1>a DEF Arrive, Goes
  <2>3. /\ AtOnce(a).status = 200 => AtOnce(a).body = Question(a)
        /\ Admissible(a) /\ IsOk(AtOnce(a)) => AtOnce(a).status = 200
    BY <2>1, <2>2, AtOnceAnswers
  <2>4. d \notin Direct => Admissible(a)
    BY <2>1 DEF IInv, WorkerAdmits, Stages
  <2> QED BY <2>1, <2>2, <2>3, <2>4 DEF Measures
<1>3. CASE GotScout(d)
  <2>1. answer'[d] = Own(400)
    BY <1>3, <1>a DEF GotScout, Goes
  <2> QED BY <1>b, <2>1
<1>4. CASE Work(d)
  <2>1. asked'[d] = asked[d]
    BY <1>4 DEF Work
  <2>2. \/ /\ answer'[d] = [status |-> 200, body |-> Question(asked[d])]
           /\ Question(asked[d]) \in measured'
        \/ answer'[d] = Own(400)
    BY <1>4, <1>a DEF Work
  <2>3. CASE answer'[d] = Own(400)
    BY <1>b, <2>3
  <2>4. CASE /\ answer'[d] = [status |-> 200, body |-> Question(asked[d])]
             /\ Question(asked[d]) \in measured'
    BY <2>1, <2>4 DEF Measures
  <2> QED BY <2>2, <2>3, <2>4
<1>5. \/ stage[d] = "answered" /\ answer'[d] = answer[d]
      \/ Arrive(d) \/ GotScout(d) \/ Work(d)
  <2>1. CASE Exit
    BY <2>1, <1>a DEF Exit
  <2>2. CASE Built \/ Shutdown \/ Start \/ (\E p \in puts : PutEnds(p))
             \/ (\E k \in DOMAIN cached : Expire(k)) \/ UNCHANGED vars
    BY <2>2 DEF Built, Shutdown, Start, PutEnds, Expire, vars
  <2>3. ASSUME NEW c \in Caller \ {d}, Progress(c)
        PROVE  stage'[d] = stage[d] /\ answer'[d] = answer[d]
    BY <2>3 DEF Progress, Receive, Look, Arrive, GotScout, Work, Forward, Unreachable, Broken,
                Replied, Goes, IInv, TypeOK
  <2>4. ~(Look(d) \/ Forward(d) \/ Unreachable(d) \/ Broken(d))
    BY <1>a DEF Look, Forward, Unreachable, Broken, Replied, Goes
  <2>5. \A x \in Asks[d] : ~Receive(d, x)
    BY <1>a DEF Receive, Replied, Goes
  <2> QED BY <2>1, <2>2, <2>3, <2>4, <2>5 DEF Next, Progress
<1> QED BY <1>1, <1>2, <1>3, <1>4, <1>5

\* A reply that reads as an answer is one that was kept, or came from the engine.
LEMMA ReadStep == IInv /\ [Next]_vars => AnswersAreMeasured'
<1> DEFINE Reads(d) == (reply[d].hit \/ reply[d].status = 200) /\ ~OwnAnswer(asked[d])
<1> SUFFICES ASSUME IInv, [Next]_vars, NEW d \in Caller, stage'[d] = "done", Reads(d)'
             PROVE  Measures(asked[d], reply[d])'
  BY DEF AnswersAreMeasured, Measures
<1>a. stage \in [Caller -> Stages] /\ reply \in [Caller -> Reply \cup {NoReply}]
  BY DEF IInv, TypeOK
<1>1. CASE stage[d] = "done" /\ reply'[d] = reply[d]
  <2>1. asked'[d] = asked[d]
    BY <1>1, AskedStays DEF IInv
  <2>2. /\ reply[d].status = 200 /\ reply[d].body = Question(asked[d])
        /\ reply[d].body \in measured
    BY <1>1, <2>1 DEF IInv, AnswersAreMeasured, OwnAnswer
  <2> QED BY <1>1, <2>1, <2>2, MeasuredGrows DEF Measures
<1>2. ASSUME stage[d] # "done", NEW x, NEW hit, Replied(d, x, hit), asked'[d] = asked[d],
             hit \/ x.status = 200 => Measures(asked[d], x)
      PROVE  Measures(asked[d], reply[d])'
  <2>1. reply'[d] = [status |-> x.status, body |-> x.body, hit |-> hit]
    BY <1>2, <1>a DEF Replied
  <2>2. x.status = 200 /\ x.body = Question(asked[d]) /\ x.body \in measured
    BY <1>2, <2>1 DEF Measures
  <2> QED BY <1>2, <2>1, <2>2, MeasuredGrows DEF Measures
<1>3. CASE Look(d)
  <2>1. asked[d] \in Ask /\ asked'[d] = asked[d] /\ stage[d] = "looking"
    BY <1>3, AskedIsAsk DEF Look, IInv
  <2>2. Key(asked[d]) \in DOMAIN cached /\ Replied(d, cached[Key(asked[d])], TRUE)
    <3>1. ~Goes(d, "sent")
      BY <1>a DEF Goes
    <3> QED BY <1>3, <3>1 DEF Look
  <2>3. Measures(asked[d], cached[Key(asked[d])])
    BY <2>1, <2>2, AnswersAnyone DEF IInv, KeptAnswersAreMeasured
  <2> QED BY <1>2, <2>1, <2>2, <2>3
<1>4. CASE Forward(d)
  <2>1. stage[d] = "answered" /\ asked'[d] = asked[d] /\ Replied(d, answer[d], FALSE)
    BY <1>4 DEF Forward
  <2>2. answer[d].status = 200 => Measures(asked[d], answer[d])
    BY <2>1 DEF IInv, EngineAnswersAreMeasured
  <2> QED BY <1>2, <2>1, <2>2
<1>5. CASE Unreachable(d) \/ Broken(d)
  <2>1. stage[d] # "done" /\ asked'[d] = asked[d]
    BY <1>5 DEF Unreachable, Broken
  <2>2. \E n \in {0, 500, 502} : Replied(d, Own(n), FALSE)
    <3>1. CASE d \in Direct
      <4>1. Replied(d, Own(0), FALSE)
        BY <1>5, <3>1 DEF Unreachable, Broken
      <4> WITNESS 0 \in {0, 500, 502}
      <4> QED BY <4>1
    <3>2. CASE d \notin Direct /\ Unreachable(d)
      <4>1. Replied(d, Own(502), FALSE)
        BY <3>2 DEF Unreachable
      <4> WITNESS 502 \in {0, 500, 502}
      <4> QED BY <4>1
    <3>3. CASE d \notin Direct /\ Broken(d)
      <4>1. Replied(d, Own(500), FALSE)
        BY <3>3 DEF Broken
      <4> WITNESS 500 \in {0, 500, 502}
      <4> QED BY <4>1
    <3> QED BY <1>5, <3>1, <3>2, <3>3
  <2>3. PICK n \in {0, 500, 502} : Replied(d, Own(n), FALSE)
    BY <2>2
  <2>4. FALSE \/ Own(n).status = 200 => Measures(asked[d], Own(n))
    BY DEF Own
  <2> QED BY <1>2, <2>1, <2>3, <2>4
<1>6. ASSUME NEW a \in Asks[d], Receive(d, a) PROVE FALSE
  <2>1. a \in Ask /\ asked'[d] = a
    <3>1. asked \in [Caller -> Ask \cup {NoAsk}]
      BY DEF IInv, TypeOK
    <3> QED BY <1>6, <3>1, AsksAssumption DEF Receive
  <2>2. PICK n \in Refusals(a) : Replied(d, Own(n), FALSE)
    <3>1. ~Goes(d, "sent") /\ ~Goes(d, "looking")
      BY <1>a DEF Goes
    <3> QED BY <1>6, <3>1 DEF Receive
  <2>3. reply'[d] = [status |-> n, body |-> NoBody, hit |-> FALSE]
    BY <2>2, <1>a DEF Replied, Own
  <2>4. n = 200 /\ ~OwnAnswer(a)
    BY <2>1, <2>3
  <2> QED BY <2>1, <2>2, <2>4, RefusalsAreRefusals
<1>7. \/ stage[d] = "done" /\ reply'[d] = reply[d]
      \/ Look(d) \/ Forward(d) \/ Unreachable(d) \/ Broken(d)
      \/ \E a \in Asks[d] : Receive(d, a)
  <2>1. CASE Exit
    BY <2>1, <1>a DEF Exit
  <2>2. CASE Built \/ Shutdown \/ Start \/ (\E p \in puts : PutEnds(p))
             \/ (\E k \in DOMAIN cached : Expire(k)) \/ UNCHANGED vars
    BY <2>2 DEF Built, Shutdown, Start, PutEnds, Expire, vars
  <2>3. ASSUME NEW c \in Caller \ {d}, Progress(c)
        PROVE  stage'[d] = stage[d] /\ reply'[d] = reply[d]
    BY <2>3 DEF Progress, Receive, Look, Arrive, GotScout, Work, Forward, Unreachable, Broken,
                Replied, Goes, IInv, TypeOK
  <2>4. ~(Arrive(d) \/ GotScout(d) \/ Work(d))
    BY <1>a DEF Arrive, GotScout, Work, Goes
  <2> QED BY <2>1, <2>2, <2>3, <2>4 DEF Next, Progress
<1> QED BY <1>1, <1>3, <1>4, <1>5, <1>6, <1>7

-----------------------------------------------------------------------------
LEMMA Invariance == Spec => []IInv
<1>1. Init => IInv
  <2> SUFFICES ASSUME Init PROVE IInv
    OBVIOUS
  <2>1. TypeOK
    BY InitTypes
  <2>2. KeptAnswersAreMeasured
    BY DEF Init, EmptyCache, KeptAnswersAreMeasured
  <2>3. EngineAnswersAreMeasured /\ WorkerAdmits /\ AnswersAreMeasured
    BY DEF Init, EngineAnswersAreMeasured, WorkerAdmits, AnswersAreMeasured
  <2>4. OneScout
    BY DEF Init, OneScout
  <2> QED BY <2>1, <2>2, <2>3, <2>4 DEF IInv
<1>2. IInv /\ [Next]_vars => IInv'
  BY TypeStep, KeptStep, EngineAnswersStep, AdmitStep, ScoutStep, ReadStep DEF IInv
<1> QED BY <1>1, <1>2, PTL DEF Spec

\* Whatever is cached, expires, crashes and starts again, what a caller reads as
\* an answer is one the engine gave to that very question.
THEOREM CallersReadMeasurements == Spec => []AnswersAreMeasured
BY Invariance, PTL DEF IInv

\* A process builds one scout, and the Worker lets through none of the routes it
\* does not relay and, of bodies with one shape and a string for `input`, no more
\* candidates than its ceiling.
THEOREM TheEngineIsSpared == Spec => []EngineIsSpared
<1>1. IInv => EngineIsSpared
  <2> SUFFICES ASSUME IInv PROVE EngineIsSpared
    OBVIOUS
  <2>1. builds <= 1
    BY DEF IInv, OneScout
  <2>2. ASSUME NEW c \in Caller \ Direct, stage[c] \in {"sent", "waiting", "working"}
        PROVE  asked[c].path \notin Blocked
    BY <2>2 DEF IInv, WorkerAdmits, Admissible, Stages
  <2>3. ASSUME NEW c \in Caller \ Direct, stage[c] = "working", OneShape(asked[c].body),
               asked[c].body.text
        PROVE  Candidates(asked[c].body) <= MaxCandidates
    <3> DEFINE b == asked[c].body
    <3>1. NeedsScout(asked[c]) /\ Admissible(asked[c]) /\ asked[c] \in Ask
      BY <2>3, AskedIsAsk DEF IInv, WorkerAdmits, Stages
    <3>2. b \in Body /\ ~(Counted(b) > MaxCandidates) /\ ~b.greedy
      BY <3>1 DEF NeedsScout, Admissible, Ask, TooLarge
    <3>3. CASE b.presets
      BY <3>3, LimitsAssumption DEF Candidates
    <3>4. CASE ~b.presets /\ b.candidates # NoArray /\ b.candidates > 0
      BY <3>2, <3>4, LimitsAssumption DEF Candidates, Counted, Body
    <3>5. CASE ~b.presets /\ ~(b.candidates # NoArray /\ b.candidates > 0)
      <4>1. CASE b.candidates = NoArray
        BY <2>3, <3>2, <3>5, <4>1, LimitsAssumption DEF Candidates, Counted, Body
      <4>2. CASE b.candidates # NoArray
        <5> DEFINE S == {s \in {"presets", "candidates", "input"} :
                           \/ s = "presets" /\ b.presets
                           \/ s = "candidates" /\ b.candidates # NoArray
                           \/ s = "input" /\ b.lines > 0}
        <5>1. PICK x : S = {x}
          <6>1. S \subseteq {"presets", "candidates", "input"} /\ Cardinality(S) = 1
            BY <2>3 DEF OneShape
          <6>2. IsFiniteSet({"presets", "candidates", "input"})
            <7>1. IsFiniteSet({"presets"})
              BY FS_Singleton
            <7>2. IsFiniteSet({"presets"} \cup {"candidates"})
              BY <7>1, FS_AddElement
            <7>3. IsFiniteSet(({"presets"} \cup {"candidates"}) \cup {"input"})
              BY <7>2, FS_AddElement
            <7>4. ({"presets"} \cup {"candidates"}) \cup {"input"} = {"presets", "candidates", "input"}
              OBVIOUS
            <7> QED BY <7>3, <7>4
          <6> QED BY <6>1, <6>2, FS_Singleton, FS_Subset
        <5>2. "candidates" \in S
          BY <4>2
        <5>3. "input" \notin S
          BY <5>1, <5>2
        <5> QED BY <3>2, <3>5, <5>3, LimitsAssumption DEF Candidates, Body
      <4> QED BY <4>1, <4>2
    <3> QED BY <3>3, <3>4, <3>5
  <2> QED BY <2>1, <2>2, <2>3 DEF EngineIsSpared
<1> QED BY <1>1, Invariance, PTL
-----------------------------------------------------------------------------
(* Nobody waits for nothing.                                                   *)

\* A handler that awaits getScout() or a ranking runs in a live process: one that
\* is gone has cut its requests off. What it awaits is a scout that process is
\* building or has, or a rejection it is about to be told of.
SomebodyBuilds ==
  \A c \in Caller :
    /\ stage[c] = "waiting" => process # "down" /\ scout # "none"
    /\ stage[c] = "working" => process # "down" /\ scout = "ready"

LEMMA BuildStep == IInv /\ SomebodyBuilds /\ [Next]_vars => SomebodyBuilds'
<1> SUFFICES ASSUME IInv, SomebodyBuilds, [Next]_vars, NEW d \in Caller
             PROVE  /\ stage'[d] = "waiting" => process' # "down" /\ scout' # "none"
                    /\ stage'[d] = "working" => process' # "down" /\ scout' = "ready"
  BY DEF SomebodyBuilds
<1>a. stage \in [Caller -> Stages]
  BY DEF IInv, TypeOK
<1>b. /\ stage[d] = "waiting" => process # "down" /\ scout # "none"
      /\ stage[d] = "working" => process # "down" /\ scout = "ready"
  BY DEF SomebodyBuilds
<1>1. CASE Arrive(d)
  <2>1. stage'[d] \in {"waiting", "answered", "cut"} /\ process = "up" /\ process' = process
    BY <1>1, <1>a DEF Arrive, Goes
  <2>2. stage'[d] = "waiting" => GetScout
    BY <1>1, <1>a DEF Arrive, Goes
  <2> QED BY <2>1, <2>2 DEF GetScout
<1>2. CASE GotScout(d)
  BY <1>2, <1>a, <1>b DEF GotScout, Goes, engine
<1>3. CASE Built
  BY <1>3, <1>b DEF Built
<1>4. CASE Exit
  BY <1>4, <1>a DEF Exit
<1>5. CASE Shutdown \/ Start \/ (\E p \in puts : PutEnds(p))
           \/ (\E k \in DOMAIN cached : Expire(k)) \/ UNCHANGED vars
  BY <1>5, <1>b DEF Shutdown, Start, PutEnds, Expire, engine, vars
<1>6. CASE Look(d) \/ Work(d) \/ Forward(d) \/ Unreachable(d) \/ Broken(d)
           \/ (\E a \in Asks[d] : Receive(d, a))
  BY <1>6, <1>a DEF Look, Work, Forward, Unreachable, Broken, Receive, Replied, Goes
<1>7. ASSUME NEW c \in Caller \ {d}, Progress(c)
      PROVE  /\ stage'[d] = "waiting" => process' # "down" /\ scout' # "none"
             /\ stage'[d] = "working" => process' # "down" /\ scout' = "ready"
  <2>1. stage'[d] = stage[d] /\ process' = process
    BY <1>7, <1>a DEF Progress, Receive, Look, Arrive, GotScout, Work, Forward, Unreachable,
                      Broken, Replied, Goes, engine
  <2>2. UNCHANGED scout \/ GetScout
    BY <1>7 DEF Progress, Receive, Look, Arrive, GotScout, Work, Forward, Unreachable,
                Broken, engine
  <2> QED BY <1>b, <2>1, <2>2 DEF GetScout
<1> QED BY <1>1, <1>2, <1>3, <1>4, <1>5, <1>6, <1>7 DEF Next, Progress

\* Whatever crashes and restarts, a request in the engine waits for a scout that
\* its own process builds or has built, never for one that died with the last.
THEOREM NobodyWaitsForNothing == Spec => []SomebodyBuilds
<1>1. Init => SomebodyBuilds
  BY DEF Init, SomebodyBuilds
<1> QED BY <1>1, BuildStep, Invariance, PTL DEF Spec
=============================================================================
