------------------------------- MODULE FrontDoor -------------------------------
(* The hosted API, worker-api/src/index.js in front of the routes of server.js. *)
(* The Worker bounds what a caller may ask and answers repeats from the edge    *)
(* cache; the engine shapes the request and hands it to its one SwarmScout.     *)
(* Some callers reach the engine directly, as on the machine it runs on.        *)
(*                                                                              *)
(* Every await of either handler ends an action: the cache lookup, the fetch of *)
(* the origin, getScout(), the ranking, the text of the answer. The engine may  *)
(* shut down, crash and start again between any two of them. What SwarmScout    *)
(* does with the candidates is the module Verification.                         *)
EXTENDS Integers, FiniteSets

CONSTANTS
  Caller,         \* requests, one per caller
  Direct,         \* the callers that reach the engine without the Worker
  Asks,           \* [Caller -> what each may ask]
  MaxCandidates,  \* MAX_CANDIDATES
  Presets,        \* PRESETS.length
  NoArray,        \* `candidates` is not an array
  NoBody,         \* an answer that is not about a question
  NoAsk, NoReply

Paths == {"/healthz", "/v1/assess", "/v1/probe", "/v1/play", "/v1/stream",
          "/v1/status", "/v1/presets", "/other"}

\* A request body by what either side tells apart: its length against the two
\* limits, whether it parses, the three input shapes, whether one of `candidates`
\* is null, whether what `input` holds is a string, how many lines it makes once
\* it is one, whether one of them is no magnet and no infohash, and whether
\* deadlineMs or maxPeers is beyond the hosted ceiling.
Body == [size : {"small", "large", "huge"}, json : BOOLEAN, presets : BOOLEAN,
         candidates : Nat \cup {NoArray}, nulls : BOOLEAN, text : BOOLEAN,
         lines : Nat, badLine : BOOLEAN, greedy : BOOLEAN]
Ask == [method : {"GET", "POST", "OPTIONS"}, path : Paths, body : Body]
Questions == Paths \X (Body \cup {NoBody})
Answer == [status : Nat, body : {NoBody} \cup Questions]
Reply == [status : Nat, body : {NoBody} \cup Questions, hit : BOOLEAN]
EmptyCache == [k \in {} |-> {}]

\* A direct request for the bytes themselves is the module Playback's.
ASSUME AsksAssumption ==
  /\ Asks \in [Caller -> SUBSET Ask]
  /\ \A c \in Direct : \A a \in Asks[c] : a.path # "/v1/stream"
ASSUME CallerAssumption == Direct \subseteq Caller
ASSUME LimitsAssumption == MaxCandidates \in Nat \ {0} /\ Presets \in 1..MaxCandidates
ASSUME NoneAssumption ==
  NoArray \notin Nat /\ NoBody \notin Body /\ NoAsk \notin Ask /\ NoReply \notin Reply

VARIABLES
  configured, \* ORIGIN_SECRET and ORIGIN_URL are set
  asked,      \* what each caller asked
  stage,      \* where its request is
  answer,     \* the engine's answer on its way to the Worker or the caller
  reply,      \* what the caller got
  cached,     \* caches.default: key -> answer
  puts,       \* cache.put calls under waitUntil
  process,    \* the engine: "up", "closing", "down"
  scout,      \* scoutPromise: "none", "building", "ready", "failed"
  \* history: nothing reads these
  builds,     \* SwarmScouts built by this process of the engine
  measured    \* questions the engine gave an answer to

door == <<configured, cached, puts>>
engine == <<process, scout, builds, measured>>
vars == <<door, engine, asked, stage, answer, reply>>

Stages == {"new", "looking", "sent", "waiting", "working", "answered", "cut", "done"}
Blocked == {"/v1/stream", "/v1/play"}
Works == {"/v1/assess", "/v1/probe"}

Own(status) == [status |-> status, body |-> NoBody]
IsOk(a) == a.status \in 200..299

-----------------------------------------------------------------------------
(* What the Worker does before it looks anything up.                           *)

\* tooLarge's count: of an `input` that is no string, and of presets, it is 0.
Counted(b) ==
  IF b.candidates # NoArray THEN b.candidates ELSE IF b.text THEN b.lines ELSE 0

TooLarge(b) == Counted(b) > MaxCandidates \/ b.greedy

\* The answers the Worker gives on its own; {} lets the request through. The rate
\* limiter is external and may refuse any request that reaches it.
Refusals(a) ==
  CASE a.method = "OPTIONS" -> {204}
    [] a.method # "OPTIONS" /\ a.path = "/healthz" -> {200}
    [] a.method # "OPTIONS" /\ a.path # "/healthz" /\ ~configured -> {503}
    [] a.method # "OPTIONS" /\ a.path # "/healthz" /\ configured ->
         IF a.path \in Blocked THEN {501}
         ELSE IF a.method = "POST" /\ a.body.size # "small" THEN {429, 413}
         ELSE IF a.method = "POST" /\ (~a.body.json \/ TooLarge(a.body)) THEN {429, 400}
         ELSE {429}

\* Nothing but the limiter stands between the request and the cache.
Admissible(a) ==
  /\ configured
  /\ a.method # "OPTIONS"
  /\ a.path \notin Blocked \cup {"/healthz"}
  /\ a.method = "POST" => a.body.size = "small" /\ a.body.json /\ ~TooLarge(a.body)

\* Mutant: the route is left out of the digest.
KeyByBody(a) == IF a.method = "POST" THEN <<"post", a.body>> ELSE <<a.path, NoBody>>

\* The cache key: the URL, with a digest of the text for a POST.
Key(a) == <<a.path, IF a.method = "POST" THEN a.body ELSE NoBody>>

-----------------------------------------------------------------------------
(* What the engine does with a request, up to the scout.                       *)

\* toCandidates: how many candidates a body names; 0 when it throws. Whatever
\* `input` holds is made a string and split into lines.
Candidates(b) ==
  IF b.presets THEN Presets
  ELSE IF b.candidates # NoArray /\ b.candidates > 0 THEN b.candidates
  ELSE IF b.badLine THEN 0 ELSE b.lines

\* readBody and toCandidates accept the body.
Readable(b) == b.size # "huge" /\ b.json /\ Candidates(b) > 0

\* The candidates are the caller's own, unchecked, and one is null: its label
\* cannot be read.
Nameless(b) == ~b.presets /\ b.candidates \notin {NoArray, 0} /\ b.nulls

\* What a request asks of the engine: only these routes read a body.
Question(a) == <<a.path, IF a.method = "POST" /\ a.path \in Works THEN a.body ELSE NoBody>>

\* The body is refused before it is read to its end.
CutOff(a) == a.method = "POST" /\ a.path \in Works \cup {"/v1/play"} /\ a.body.size = "huge"

\* The route runs candidates through the scout.
NeedsScout(a) == a.method = "POST" /\ a.path \in Works /\ Readable(a.body)

\* A refused body destroys the connection or is answered 400, and so is a play()
\* that throws on its candidates before it asks for the scout; every other route
\* is answered at once.
AtOnce(a) ==
  CASE a.method = "OPTIONS" -> Own(204)
    [] a.method # "OPTIONS" /\ a.path \in {"/healthz", "/v1/status", "/v1/presets"} ->
         [status |-> 200, body |-> Question(a)]
    [] a.method = "POST" /\ a.path \in Works \cup {"/v1/play"} ->
         IF Readable(a.body) /\ ~Nameless(a.body) THEN Own(202) ELSE Own(400)
    [] OTHER -> Own(404)

\* Mutant: every request without a scout builds one.
ScoutPerRequest ==
  /\ scout' = IF scout = "ready" THEN scout ELSE "building"
  /\ builds' = IF scout = "ready" THEN builds ELSE builds + 1

\* getScout(): the first caller builds, the others share its promise, and a
\* promise that was rejected stays.
GetScout ==
  /\ scout' = IF scout = "none" THEN "building" ELSE scout
  /\ builds' = IF scout = "none" THEN builds + 1 ELSE builds

-----------------------------------------------------------------------------
Init ==
  /\ configured \in BOOLEAN
  /\ asked = [c \in Caller |-> NoAsk]
  /\ stage = [c \in Caller |-> "new"]
  /\ answer = [c \in Caller |-> Own(0)]
  /\ reply = [c \in Caller |-> NoReply]
  /\ cached = EmptyCache
  /\ puts = {}
  /\ process = "up"
  /\ scout = "none"
  /\ builds = 0
  /\ measured = {}

Goes(c, where) == stage' = [stage EXCEPT ![c] = where]
Replied(c, a, hit) ==
  /\ Goes(c, "done")
  /\ reply' = [reply EXCEPT ![c] = [status |-> a.status, body |-> a.body, hit |-> hit]]

\* The request arrives at the Worker and is answered there, or goes on to the
\* cache; a direct one is on its way to the engine.
Receive(c, a) ==
  /\ stage[c] = "new"
  /\ asked' = [asked EXCEPT ![c] = a]
  /\ \/ /\ c \in Direct
        /\ Goes(c, "sent")
        /\ UNCHANGED reply
     \/ /\ c \notin Direct
        /\ \E s \in Refusals(a) : Replied(c, Own(s), FALSE)
     \/ /\ c \notin Direct
        /\ Admissible(a)
        /\ Goes(c, "looking")
        /\ UNCHANGED reply
  /\ UNCHANGED <<door, engine, answer>>

\* cache.match: the entry, or the request goes to the origin.
Look(c) ==
  /\ stage[c] = "looking"
  /\ LET key == Key(asked[c])
     IN IF key \in DOMAIN cached
        THEN Replied(c, cached[key], TRUE)
        ELSE Goes(c, "sent") /\ UNCHANGED reply
  /\ UNCHANGED <<door, engine, asked, answer>>

\* The origin accepts the connection and routes the request.
Arrive(c) ==
  LET a == asked[c]
  IN /\ stage[c] = "sent"
     /\ process = "up"
     /\ IF NeedsScout(a) THEN Goes(c, "waiting") /\ GetScout /\ UNCHANGED answer
        ELSE /\ Goes(c, IF CutOff(a) THEN "cut" ELSE "answered")
             /\ answer' = [answer EXCEPT ![c] = AtOnce(a)]
             /\ IF AtOnce(a).status = 202 THEN GetScout ELSE UNCHANGED <<scout, builds>>
     /\ measured' = IF NeedsScout(a) \/ AtOnce(a).status # 200
                    THEN measured ELSE measured \cup {Question(a)}
     /\ UNCHANGED <<door, process, asked, reply>>

\* SwarmScout.create() resolves, or rejects: the cache's file does not open.
Built ==
  /\ scout = "building"
  /\ scout' \in {"ready", "failed"}
  /\ UNCHANGED <<door, process, builds, measured, asked, stage, answer, reply>>

\* Mutant: the waiting requests are told of success only.
GotScoutOrWait(c) ==
  /\ stage[c] = "waiting"
  /\ scout = "ready"
  /\ Goes(c, "working")
  /\ UNCHANGED <<door, engine, asked, answer, reply>>

\* The handler's await of getScout() ends.
GotScout(c) ==
  /\ stage[c] = "waiting"
  /\ \/ /\ scout = "ready"
        /\ Goes(c, "working")
        /\ UNCHANGED answer
     \/ /\ scout = "failed"
        /\ Goes(c, "answered")
        /\ answer' = [answer EXCEPT ![c] = Own(400)]
  /\ UNCHANGED <<door, engine, asked, reply>>

\* rank() or assess() ends, or throws on candidates it cannot read.
Work(c) ==
  LET question == Question(asked[c])
  IN /\ stage[c] = "working"
     /\ Goes(c, "answered")
     /\ \/ /\ answer' = [answer EXCEPT ![c] = [status |-> 200, body |-> question]]
           /\ measured' = measured \cup {question}
        \/ /\ answer' = [answer EXCEPT ![c] = Own(400)]
           /\ UNCHANGED measured
     /\ UNCHANGED <<door, process, scout, builds, asked, reply>>

Kept(a) == IsOk(a)

\* The text of the answer is in: it goes to the caller, and a good one to the
\* edge cache in the background.
Forward(c) ==
  /\ stage[c] = "answered"
  /\ Replied(c, answer[c], FALSE)
  /\ puts' = IF c \notin Direct /\ Kept(answer[c])
             THEN puts \cup {<<Key(asked[c]), answer[c]>>} ELSE puts
  /\ UNCHANGED <<configured, cached, engine, asked, answer>>

\* The fetch of the origin rejects. A direct caller has no connection.
Unreachable(c) ==
  /\ \/ stage[c] = "sent" /\ process # "up"
     \/ stage[c] = "cut"
  /\ Replied(c, IF c \in Direct THEN Own(0) ELSE Own(502), FALSE)
  /\ UNCHANGED <<door, engine, asked, answer>>

\* The body breaks off after the headers: upstream.text() throws outside the
\* handler's try, and the Worker's runtime answers.
Broken(c) ==
  /\ stage[c] = "answered"
  /\ process = "down"
  /\ Replied(c, IF c \in Direct THEN Own(0) ELSE Own(500), FALSE)
  /\ UNCHANGED <<door, engine, asked, answer>>

-----------------------------------------------------------------------------
(* The edge cache and the engine's life, which no request controls.            *)

PutEnds(p) ==
  /\ p \in puts
  /\ puts' = puts \ {p}
  /\ \/ cached' = [k \in DOMAIN cached \cup {p[1]} |-> IF k = p[1] THEN p[2] ELSE cached[k]]
     \/ UNCHANGED cached
  /\ UNCHANGED <<configured, engine, asked, stage, answer, reply>>

\* max-age=60 has passed, or the edge evicts the entry.
Expire(k) ==
  /\ k \in DOMAIN cached
  /\ cached' = [j \in DOMAIN cached \ {k} |-> cached[j]]
  /\ UNCHANGED <<configured, puts, engine, asked, stage, answer, reply>>

\* SIGINT or SIGTERM: server.close(), then the stream server is torn down.
Shutdown ==
  /\ process = "up"
  /\ process' = "closing"
  /\ UNCHANGED <<door, scout, builds, measured, asked, stage, answer, reply>>

\* process.exit(0), or a crash: what the handlers were doing is gone.
Exit ==
  /\ process \in {"up", "closing"}
  /\ process' = "down"
  /\ scout' = "none"
  /\ builds' = 0
  /\ stage' = [c \in Caller |-> IF stage[c] \in {"waiting", "working"} THEN "cut" ELSE stage[c]]
  /\ UNCHANGED <<door, measured, asked, answer, reply>>

Start ==
  /\ process = "down"
  /\ process' = "up"
  /\ UNCHANGED <<door, scout, builds, measured, asked, stage, answer, reply>>

Progress(c) ==
  \/ \E a \in Asks[c] : Receive(c, a)
  \/ Look(c) \/ Arrive(c) \/ GotScout(c) \/ Work(c)
  \/ Forward(c) \/ Unreachable(c) \/ Broken(c)

Next ==
  \/ \E c \in Caller : Progress(c)
  \/ Built
  \/ \E p \in puts : PutEnds(p)
  \/ \E k \in DOMAIN cached : Expire(k)
  \/ Shutdown \/ Exit \/ Start

Spec == Init /\ [][Next]_vars

\* Every await of a handler ends: the scout's promise settles, a ranking is
\* bounded by its budgets, and a connection to an engine that is gone fails.
FairSpec == Spec /\ (\A c \in Caller : WF_vars(Progress(c))) /\ WF_vars(Built)

-----------------------------------------------------------------------------
TypeOK ==
  /\ configured \in BOOLEAN
  /\ asked \in [Caller -> Ask \cup {NoAsk}]
  /\ stage \in [Caller -> Stages]
  /\ answer \in [Caller -> Answer]
  /\ reply \in [Caller -> Reply \cup {NoReply}]
  /\ \A c \in Caller :
       /\ asked[c] \in Asks[c] \cup {NoAsk}
       /\ asked[c] = NoAsk <=> stage[c] = "new"
       /\ reply[c] # NoReply <=> stage[c] = "done"
  /\ cached = [k \in DOMAIN cached |-> cached[k]]
  /\ \A k \in DOMAIN cached : k \in Questions /\ cached[k] \in Answer
  /\ puts \subseteq Questions \X Answer
  /\ measured \subseteq Questions
  /\ process \in {"up", "closing", "down"}
  /\ scout \in {"none", "building", "ready", "failed"}
  /\ builds \in Nat

\* The Worker's own liveness answer.
OwnAnswer(a) == a.method = "OPTIONS" \/ a.path = "/healthz"

\* What a caller reads as an answer is one the engine gave to that very
\* question, whether it comes from the engine or from the edge; an engine that
\* failed, refused or could not be reached never reads as one, now or for the
\* next caller who asks.
AnswersAreMeasured ==
  \A c \in Caller :
    stage[c] = "done" /\ (reply[c].hit \/ reply[c].status = 200) /\ ~OwnAnswer(asked[c]) =>
      /\ reply[c].status = 200
      /\ reply[c].body = Question(asked[c])
      /\ reply[c].body \in measured

\* A body as the API's documentation asks for: exactly one of the three shapes.
OneShape(b) ==
  Cardinality({s \in {"presets", "candidates", "input"} :
    \/ s = "presets" /\ b.presets
    \/ s = "candidates" /\ b.candidates # NoArray
    \/ s = "input" /\ b.lines > 0}) = 1

\* However callers and restarts interleave, a process of the engine builds one
\* scout, and the Worker lets through none of the routes it does not relay and no
\* more candidates than the ceiling, in one shape and with an `input` that is a
\* string. An `input` that is no string passes the count as 0 while the engine
\* makes it a string and takes every line for a candidate, and so does an `input`
\* beside an empty `candidates`: the ceiling does not hold for those.
EngineIsSpared ==
  /\ builds <= 1
  /\ \A c \in Caller \ Direct :
       /\ stage[c] \in {"sent", "waiting", "working"} => asked[c].path \notin Blocked
       /\ stage[c] = "working" /\ OneShape(asked[c].body) /\ asked[c].body.text =>
            Candidates(asked[c].body) <= MaxCandidates

\* Every request is answered, with whatever restarts of the engine in between.
EveryCallerIsAnswered == \A c \in Caller : stage[c] = "new" ~> stage[c] = "done"
=============================================================================
