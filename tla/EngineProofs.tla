----------------------------- MODULE EngineProofs -----------------------------
(* Theorems about the stream server, for every set of infohashes, every family *)
(* of candidate lists and every MaxRacers, StallStrikes, GraceChecks and       *)
(* MaxPlays; and about the engine and its playback, for every set of requests, *)
(* every torrent's files and every range: the engine runs its stream server as *)
(* StreamServer specifies it, its status settles, ranges are answered to the   *)
(* byte and what a player waits for is urgent.                                 *)
EXTENDS Engine, FiniteSetTheorems, SequenceTheorems, WellFoundedInduction, TLAPS

(* The stream server: its steps are those of its own specification.            *)


\* What is alive in the client, by where the advance in flight is.
ClientByPhase ==
  ~closed =>
    /\ phase = "idle" => client = {torrent} \ {NoTorrent}
    /\ phase = "teardown" => client = {} /\ torrent = NoTorrent
    /\ phase = "racing" => client \subseteq racers /\ torrent = NoTorrent

\* Only racers race, and only in a race.
RaceShape ==
  /\ racing \subseteq racers
  /\ racing # {} => phase = "racing"

\* No line-up is longer than MAX_RACERS.
FewRacers == IsFiniteSet(racers) /\ Cardinality(racers) <= MaxRacers

\* What the stall timer may rely on when it fires.
WatchShape ==
  watching =>
    /\ phase = "idle"
    /\ torrent \in excluded
    /\ torrent # NoTorrent
    /\ ~aborted
    /\ steady => quiet >= strikes

IInv ==
  /\ TypeOK
  /\ ClientByPhase
  /\ RaceShape
  /\ FewRacers
  /\ WatchShape
  /\ CandidateIndexTruth

-----------------------------------------------------------------------------
(* The line-up of a race.                                                      *)

\* What is left to race are positions of the list.
LEMMA UsablePositions ==
  ASSUME NEW list, NEW out
  PROVE  Eligible(list, out) \subseteq DOMAIN list
BY DEF Eligible, Usable

\* Racers are infohashes that are not excluded.
LEMMA RacersAreHashes ==
  ASSUME NEW list \in Seq(Listed), NEW out
  PROVE  /\ Racers(list, out) \subseteq Hash
         /\ Racers(list, out) \cap out = {}
<1> SUFFICES ASSUME NEW h \in Racers(list, out)
             PROVE  h \in Hash /\ h \notin out
  OBVIOUS
<1>1. PICK i \in Eligible(list, out) : h = list[i].hash
  BY DEF Racers
<1>2. list[i] \in Listed
  BY UsablePositions
<1>3. list[i].hash \in Hash
  BY <1>2 DEF Listed
<1> QED BY <1>1, <1>3 DEF Eligible

\* There are at most MaxRacers of them: their positions are numbered, without
\* repetition, by how many eligible positions come up to each.
LEMMA RacersAreFew ==
  ASSUME NEW list \in Seq(Listed), NEW out
  PROVE  /\ IsFiniteSet(Racers(list, out))
         /\ Cardinality(Racers(list, out)) <= MaxRacers
<1> DEFINE left == Eligible(list, out)
           upTo(i) == {j \in left : j <= i}
           first == {i \in left : Cardinality(upTo(i)) <= MaxRacers}
           number == [i \in first |-> Cardinality(upTo(i))]
           racer == [i \in first |-> list[i].hash]
<1>1. IsFiniteSet(left) /\ left \subseteq Nat
  <2>1. DOMAIN list = 1..Len(list) /\ Len(list) \in Nat
    OBVIOUS
  <2>2. IsFiniteSet(1..Len(list))
    BY <2>1, FS_Interval
  <2> QED BY <2>1, <2>2, UsablePositions, FS_Subset
<1>2. ASSUME NEW i \in left
      PROVE  /\ IsFiniteSet(upTo(i))
             /\ Cardinality(upTo(i)) \in Nat \ {0}
  <2>1. IsFiniteSet(upTo(i))
    BY <1>1, FS_Subset
  <2>2. i \in upTo(i)
    BY <1>1
  <2> QED BY <2>1, <2>2, FS_CardinalityType, FS_EmptySet
<1>3. number \in [first -> 1..MaxRacers]
  <2>1. ASSUME NEW i \in first
        PROVE  Cardinality(upTo(i)) \in 1..MaxRacers
    <3>1. Cardinality(upTo(i)) \in Nat \ {0} /\ Cardinality(upTo(i)) <= MaxRacers
      BY <1>2
    <3> HIDE DEF upTo
    <3> QED BY <3>1, LimitsAssumption
  <2> QED BY <2>1
<1>4. ASSUME NEW i \in first, NEW k \in first, i < k
      PROVE  number[i] # number[k]
  <2>1. upTo(i) \subseteq upTo(k) /\ k \in upTo(k) /\ k \notin upTo(i)
    BY <1>1, <1>4
  <2>2. Cardinality(upTo(i)) # Cardinality(upTo(k))
    BY <1>2, <2>1, FS_Subset
  <2> QED BY <2>2
<1>5. number \in Injection(first, 1..MaxRacers)
  <2>1. first \subseteq Nat
    BY <1>1
  <2> HIDE DEF number, first
  <2>2. \A i, k \in first : i < k => number[i] # number[k]
    BY <1>4
  <2>3. \A i, k \in first : i # k => i < k \/ k < i
    BY <2>1
  <2>4. \A i, k \in first : number[i] = number[k] => i = k
    BY <2>2, <2>3
  <2> QED BY <1>3, <2>4 DEF Injection, IsInjective
<1>6. IsFiniteSet(first) /\ Cardinality(first) <= MaxRacers
  <2>1. IsFiniteSet(1..MaxRacers) /\ Cardinality(1..MaxRacers) = MaxRacers
    BY FS_Interval, LimitsAssumption
  <2> QED BY <1>5, <2>1, FS_Injection
<1>7. racer \in Surjection(first, Racers(list, out))
  <2>1. Racers(list, out) = {list[i].hash : i \in first}
    BY DEF Racers
  <2> QED BY <2>1 DEF Surjection
<1>8. IsFiniteSet(Racers(list, out)) /\ Cardinality(Racers(list, out)) <= Cardinality(first)
  BY <1>6, <1>7, FS_Surjection
<1> QED BY <1>6, <1>8, FS_CardinalityType, LimitsAssumption

\* A play() list is a list of candidates.
LEMMA ListsAreTyped == ASSUME NEW list \in Lists PROVE list \in Seq(Listed)
BY ListsAssumption

\* The position found for an infohash holds it.
LEMMA IndexInFinds ==
  ASSUME NEW list \in Seq(Listed), NEW h
  PROVE  /\ IndexIn(list, h) \in Nat
         /\ IndexIn(list, h) \in DOMAIN list => list[IndexIn(list, h)].hash = h
<1>1. CASE \E i \in Usable(list) : list[i].hash = h
  <2>1. IndexIn(list, h) \in Usable(list) /\ list[IndexIn(list, h)].hash = h
    BY <1>1 DEF IndexIn
  <2> QED BY <2>1 DEF Usable
<1>2. CASE ~ \E i \in Usable(list) : list[i].hash = h
  BY <1>2 DEF IndexIn
<1> QED BY <1>1, <1>2

-----------------------------------------------------------------------------
\* A new player satisfies the invariant.
LEMMA InitEstablishes == Init => IInv
<1> SUFFICES ASSUME Init PROVE IInv
  OBVIOUS
<1>1. TypeOK
  <2>1. strikes \in 0..(StallStrikes - 1) /\ checks \in 0..GraceChecks
    BY LimitsAssumption DEF Init
  <2>2. lineup \in 0..MaxPlays /\ caller \in 0..MaxPlays /\ Len(plays) <= MaxPlays
    BY LimitsAssumption DEF Init
  <2>3. ranked \in Seq(Listed) /\ plays \in Seq(Outcome)
    BY DEF Init
  <2>4. candidateIndex \in Nat /\ quiet \in Nat
    BY DEF Init
  <2>5. /\ torrent \in Hash \cup {NoTorrent}
        /\ phase \in Phases
    BY DEF Init, Phases
  <2> QED BY <2>1, <2>2, <2>3, <2>4, <2>5 DEF Init, TypeOK
<1>2. ClientByPhase /\ RaceShape /\ WatchShape /\ CandidateIndexTruth
  BY DEF Init, ClientByPhase, RaceShape, WatchShape, CandidateIndexTruth
<1>3. FewRacers
  BY FS_EmptySet, LimitsAssumption DEF Init, FewRacers
<1> QED BY <1>1, <1>2, <1>3 DEF IInv

\* Starting an advance, on behalf of a play() call or of the stall timer.
LEMMA LaunchPreserves ==
  ASSUME IInv, phase = "idle",
         NEW list \in Seq(Listed), NEW out,
         NEW calls \in Seq(Outcome), Len(calls) <= MaxPlays,
         NEW who \in 0..MaxPlays, who # 0 => who \in DOMAIN calls,
         Launch(who, list, out, calls), UNCHANGED closed
  PROVE  /\ torrent' \in Hash \cup {NoTorrent}
         /\ client' \subseteq Hash
         /\ phase' \in Phases
         /\ racers' \subseteq Hash
         /\ lineup' \in 0..MaxPlays
         /\ racing' \subseteq Hash
         /\ caller' \in 0..MaxPlays
         /\ plays' \in Seq(Outcome) /\ Len(plays') <= MaxPlays
         /\ watching' = FALSE
         /\ torrent' \in {torrent, NoTorrent}
         /\ ClientByPhase'
         /\ RaceShape'
         /\ FewRacers'
<1>1. Racers(list, out) \subseteq Hash
  BY RacersAreHashes
<1>2. plays' \in Seq(Outcome) /\ Len(plays') <= MaxPlays
  BY DEF Launch, Outcome
<1>3. CASE Eligible(list, out) = {}
  <2>1. UNCHANGED <<torrent, client, phase, racers, lineup, racing, caller>> /\ watching' = FALSE
    BY <1>3 DEF Launch
  <2> QED BY <1>2, <2>1 DEF IInv, TypeOK, ClientByPhase, RaceShape, FewRacers
<1>4. CASE Eligible(list, out) # {}
  <2>1. /\ racers' = Racers(list, out)
        /\ lineup' = Len(calls)
        /\ caller' = who
        /\ torrent' = NoTorrent
        /\ watching' = FALSE
        /\ \/ phase' = "teardown" /\ client' = client \ {torrent} /\ racing' = {}
           \/ /\ phase' = "racing"
              /\ torrent = NoTorrent
              /\ client' = client \cup Racers(list, out)
              /\ racing' = Racers(list, out)
    BY <1>4 DEF Launch
  <2>2. Len(calls) \in 0..MaxPlays
    BY LimitsAssumption
  <2>3. ClientByPhase'
    BY <2>1 DEF IInv, ClientByPhase
  <2>4. FewRacers'
    BY <2>1, RacersAreFew DEF FewRacers
  <2> QED BY <1>1, <1>2, <2>1, <2>2, <2>3, <2>4 DEF IInv, TypeOK, RaceShape, Phases
<1> QED BY <1>3, <1>4

\* play() with candidates, dropped or served.
LEMMA PlayPreserves ==
  ASSUME IInv, NEW list \in Lists, Play(list)
  PROVE  IInv'
<1> USE DEF IInv
<1>1. list \in Seq(Listed)
  BY ListsAreTyped
<1>2. /\ ranked' = list /\ candidateIndex' = 0 /\ aborted' = FALSE /\ excluded' = {}
      /\ UNCHANGED <<strikes, checks, closed, quiet, steady>>
  BY DEF Play
<1>3. CandidateIndexTruth'
  BY <1>1, <1>2 DEF CandidateIndexTruth
<1>4. Len(plays) < MaxPlays
  BY DEF Play
<1>5. CASE phase # "idle"
  <2>1. /\ plays' = Append(plays, "dropped")
        /\ UNCHANGED <<watching, torrent, client, phase, racers, lineup, racing, caller>>
    BY <1>5 DEF Play
  <2>2. plays' \in Seq(Outcome) /\ Len(plays') <= MaxPlays
    BY <1>4, <2>1, LimitsAssumption DEF TypeOK, Outcome
  <2>3. TypeOK'
    BY <1>1, <1>2, <2>1, <2>2 DEF TypeOK
  <2>4. ClientByPhase' /\ RaceShape' /\ FewRacers' /\ WatchShape'
    BY <1>2, <1>5, <2>1 DEF ClientByPhase, RaceShape, FewRacers, WatchShape
  <2> QED BY <1>3, <2>3, <2>4
<1>6. CASE phase = "idle"
  <2> DEFINE calls == Append(plays, "pending")
             who == Len(plays) + 1
  <2>1. Launch(who, list, {}, calls)
    BY <1>6 DEF Play
  <2>2. calls \in Seq(Outcome) /\ Len(calls) <= MaxPlays /\ who \in DOMAIN calls
    BY <1>4, LimitsAssumption DEF TypeOK, Outcome
  <2>3. who \in 0..MaxPlays
    BY <1>4, LimitsAssumption DEF TypeOK
  <2> HIDE DEF calls, who
  <2>4. TypeOK'
    BY <1>1, <1>2, <1>6, <2>1, <2>2, <2>3, LaunchPreserves DEF TypeOK
  <2>5. ClientByPhase' /\ RaceShape' /\ FewRacers' /\ watching' = FALSE
    BY <1>1, <1>2, <1>6, <2>1, <2>2, <2>3, LaunchPreserves
  <2> QED BY <1>3, <2>4, <2>5 DEF WatchShape
<1> QED BY <1>5, <1>6

\* play([]).
LEMMA PlayNothingPreserves == ASSUME IInv, PlayNothing PROVE IInv'
<1> USE DEF IInv
<1>1. /\ ranked' = <<>>
      /\ plays' = Append(plays, "empty")
      /\ Len(plays) < MaxPlays
      /\ UNCHANGED <<candidateIndex, aborted, excluded, strikes, watching, checks, torrent,
                     client, phase, racers, lineup, racing, caller, closed, quiet, steady>>
  BY DEF PlayNothing
<1>2. plays' \in Seq(Outcome) /\ Len(plays') <= MaxPlays /\ ranked' \in Seq(Listed)
  BY <1>1, LimitsAssumption DEF TypeOK, Outcome
<1>3. TypeOK'
  BY <1>1, <1>2 DEF TypeOK
<1> QED BY <1>1, <1>3 DEF ClientByPhase, RaceShape, FewRacers, WatchShape, CandidateIndexTruth

\* abort(), at rest or in the middle of an advance.
LEMMA AbortPreserves == ASSUME IInv, Abort PROVE IInv'
<1> USE DEF IInv
<1>1. /\ aborted' = TRUE /\ watching' = FALSE
      /\ torrent' = NoTorrent /\ client' = client \ {torrent}
      /\ UNCHANGED <<ranked, candidateIndex, excluded, strikes, checks, phase, racers,
                     lineup, racing, caller, plays, closed, quiet, steady>>
  BY DEF Abort
<1>2. TypeOK'
  BY <1>1 DEF TypeOK
<1> QED BY <1>1, <1>2 DEF ClientByPhase, RaceShape, FewRacers, WatchShape, CandidateIndexTruth

\* The race starts when the old torrent is gone.
LEMMA TornDownPreserves == ASSUME IInv, TornDown PROVE IInv'
<1> USE DEF IInv
<1>1. /\ phase = "teardown" /\ phase' = "racing"
      /\ client' = client \cup racers /\ racing' = racers
      /\ UNCHANGED <<ranked, candidateIndex, aborted, excluded, strikes, watching, checks,
                     torrent, racers, lineup, caller, plays, closed, quiet, steady>>
  BY DEF TornDown
<1>2. TypeOK'
  BY <1>1 DEF TypeOK, Phases
<1> QED BY <1>1, <1>2 DEF ClientByPhase, RaceShape, FewRacers, WatchShape, CandidateIndexTruth

\* The outcome of an advance goes to the play() call that waits for it.
LEMMA SettleType ==
  ASSUME TypeOK, NEW outcome \in Outcome
  PROVE  /\ Settle(caller, outcome) \in Seq(Outcome)
         /\ Len(Settle(caller, outcome)) <= MaxPlays
<1>1. CASE caller = 0
  BY <1>1 DEF Settle, TypeOK
<1>2. CASE caller # 0
  <2>1. Settle(caller, outcome) = [plays EXCEPT ![caller] = outcome]
    BY <1>2 DEF Settle
  <2>2. plays \in Seq(Outcome) /\ Len(plays) <= MaxPlays
    BY DEF TypeOK
  <2>3. CASE caller \in 1..Len(plays)
    BY <2>1, <2>2, <2>3, ExceptSeq
  <2>4. CASE caller \notin 1..Len(plays)
    <3>1. plays \in [1..Len(plays) -> Outcome]
      BY <2>2, LenProperties
    <3>2. [plays EXCEPT ![caller] = outcome] = [i \in 1..Len(plays) |-> plays[i]]
      BY <2>4, <3>1
    <3>3. plays = [i \in 1..Len(plays) |-> plays[i]]
      BY <3>1
    <3> QED BY <2>1, <2>2, <3>2, <3>3
  <2> QED BY <2>3, <2>4
<1> QED BY <1>1, <1>2

\* A race is won, or won too late.
LEMMA RacerReadyPreserves ==
  ASSUME IInv, NEW h \in Hash, RacerReady(h)
  PROVE  IInv'
<1> USE DEF IInv
<1>1. /\ h \in racing /\ ~closed
      /\ phase' = "idle" /\ racing' = {}
      /\ UNCHANGED <<ranked, aborted, strikes, racers, lineup, caller, closed>>
  BY DEF RacerReady
<1>2. phase = "racing" /\ client \subseteq racers /\ torrent = NoTorrent
  BY <1>1 DEF RaceShape, ClientByPhase
<1>3. ~watching
  BY <1>2 DEF WatchShape
<1>4. CASE Superseded
  <2>1. /\ client' = client \ racers
        /\ plays' = Settle(caller, "superseded")
        /\ UNCHANGED <<candidateIndex, excluded, watching, checks, torrent, quiet, steady>>
    BY <1>4 DEF RacerReady
  <2>2. "superseded" \in Outcome
    BY DEF Outcome
  <2>3. TypeOK'
    BY <1>1, <2>1, <2>2, SettleType DEF TypeOK, Phases
  <2> QED BY <1>1, <1>2, <1>3, <2>1, <2>3
          DEF ClientByPhase, RaceShape, FewRacers, WatchShape, CandidateIndexTruth
<1>5. CASE ~Superseded
  <2>1. /\ torrent' = h
        /\ client' = LeftAlive(h)
        /\ candidateIndex' = IF lineup = Len(plays) THEN IndexIn(ranked, h) ELSE 0
        /\ excluded' = excluded \cup {h}
        /\ watching' = TRUE /\ checks' = 0
        /\ plays' = Settle(caller, "playing")
        /\ quiet' = 0 /\ steady' = FALSE
    BY <1>5 DEF RacerReady
  <2>2. "playing" \in Outcome
    BY DEF Outcome
  <2>3. ranked \in Seq(Listed)
    BY DEF TypeOK
  <2>4. candidateIndex' \in Nat
    BY <2>1, <2>3, IndexInFinds
  <2>5. client' = {h}
    BY <1>2, <2>1 DEF LeftAlive
  <2>6. TypeOK'
    <3>1. plays' \in Seq(Outcome) /\ Len(plays') <= MaxPlays
      BY <2>1, <2>2, SettleType
    <3>2. checks' \in 0..GraceChecks
      BY <2>1, LimitsAssumption
    <3>3. steady' \in BOOLEAN /\ watching' \in BOOLEAN /\ quiet' \in Nat
      BY <2>1
    <3>4. /\ torrent' \in Hash \cup {NoTorrent}
          /\ client' \subseteq Hash
          /\ racing' \subseteq Hash
          /\ phase' \in Phases
          /\ excluded' \subseteq Hash
      BY <1>1, <2>1, <2>5 DEF TypeOK, Phases
    <3> QED BY <1>1, <2>4, <3>1, <3>2, <3>3, <3>4 DEF TypeOK
  <2>7. CandidateIndexTruth'
    BY <1>1, <2>1, <2>3, IndexInFinds DEF CandidateIndexTruth
  <2>8. ClientByPhase' /\ RaceShape' /\ FewRacers'
    BY <1>1, <2>1, <2>5, NoTorrentAssumption DEF ClientByPhase, RaceShape, FewRacers
  <2>9. WatchShape'
    BY <1>1, <1>5, <2>1, NoTorrentAssumption DEF WatchShape, Superseded
  <2> QED BY <2>6, <2>7, <2>8, <2>9
<1> QED BY <1>4, <1>5

\* A racer drops out, the last one or not.
LEMMA RacerFailsPreserves ==
  ASSUME IInv, NEW h \in Hash, RacerFails(h)
  PROVE  IInv'
<1> USE DEF IInv
<1>1. /\ h \in racing /\ ~closed
      /\ racing' = racing \ {h}
      /\ UNCHANGED <<ranked, candidateIndex, aborted, strikes, watching, checks, torrent,
                     racers, lineup, caller, closed, quiet, steady>>
  BY DEF RacerFails
<1>2. phase = "racing" /\ client \subseteq racers /\ torrent = NoTorrent
  BY <1>1 DEF RaceShape, ClientByPhase
<1>3. ~watching
  BY <1>2 DEF WatchShape
<1>4. CASE racing' # {}
  <2>1. client' \subseteq client /\ UNCHANGED <<excluded, plays, phase>>
    BY <1>4 DEF RacerFails
  <2>2. TypeOK'
    BY <1>1, <2>1 DEF TypeOK
  <2> QED BY <1>1, <1>2, <1>3, <2>1, <2>2
          DEF ClientByPhase, RaceShape, FewRacers, WatchShape, CandidateIndexTruth
<1>5. CASE racing' = {}
  <2> DEFINE outcome == IF aborted THEN "superseded" ELSE "unplayable"
  <2>1. /\ client' = client \ racers
        /\ excluded' = excluded \cup racers
        /\ plays' = Settle(caller, outcome)
        /\ phase' = "idle"
    BY <1>5 DEF RacerFails
  <2>2. outcome \in Outcome
    BY DEF Outcome
  <2> HIDE DEF outcome
  <2>3. plays' \in Seq(Outcome) /\ Len(plays') <= MaxPlays
    BY <2>1, <2>2, SettleType
  <2>4. TypeOK'
    BY <1>1, <2>1, <2>3 DEF TypeOK, Phases
  <2> QED BY <1>1, <1>2, <1>3, <1>5, <2>1, <2>4
          DEF ClientByPhase, RaceShape, FewRacers, WatchShape, CandidateIndexTruth
<1> QED BY <1>4, <1>5

-----------------------------------------------------------------------------
(* The stall timer.                                                            *)

\* Inside the grace period a check does nothing but pass.
LEMMA GraceCheckPreserves == ASSUME IInv, GraceCheck PROVE IInv'
<1> USE DEF IInv
<1>1. /\ checks < GraceChecks /\ checks' = checks + 1
      /\ UNCHANGED <<ranked, candidateIndex, aborted, excluded, strikes, watching, torrent,
                     client, phase, racers, lineup, racing, caller, plays, closed, quiet,
                     steady>>
  BY DEF GraceCheck
<1>2. checks' \in 0..GraceChecks
  BY <1>1, LimitsAssumption DEF TypeOK
<1>3. TypeOK'
  BY <1>1, <1>2 DEF TypeOK
<1> QED BY <1>1, <1>3 DEF ClientByPhase, RaceShape, FewRacers, WatchShape, CandidateIndexTruth

\* A good check forgives every strike.
LEMMA GoodCheckPreserves == ASSUME IInv, GoodCheck PROVE IInv'
<1> USE DEF IInv
<1>1. /\ strikes' = 0 /\ quiet' = 0 /\ steady' = TRUE
      /\ UNCHANGED <<ranked, candidateIndex, aborted, excluded, watching, checks, torrent,
                     client, phase, racers, lineup, racing, caller, plays, closed>>
  BY DEF GoodCheck
<1>2. strikes' \in 0..(StallStrikes - 1)
  BY <1>1, LimitsAssumption
<1>3. TypeOK'
  BY <1>1, <1>2 DEF TypeOK
<1> QED BY <1>1, <1>3 DEF ClientByPhase, RaceShape, FewRacers, WatchShape, CandidateIndexTruth

\* A bad check counts a strike, or fails over on behalf of nobody.
LEMMA BadCheckPreserves == ASSUME IInv, BadCheck PROVE IInv'
<1> USE DEF IInv
<1>1. /\ phase = "idle" /\ quiet' = quiet + 1
      /\ UNCHANGED <<ranked, candidateIndex, aborted, excluded, checks, closed, steady>>
  BY DEF BadCheck, Watched
<1>2. quiet' \in Nat
  BY <1>1 DEF TypeOK
<1>3. CASE ~StruckOut
  <2>1. /\ strikes' = strikes + 1
        /\ UNCHANGED <<watching, torrent, client, phase, racers, lineup, racing, caller, plays>>
    BY <1>3 DEF BadCheck
  <2>2. strikes' \in 0..(StallStrikes - 1)
    BY <1>3, <2>1, LimitsAssumption DEF StruckOut, TypeOK
  <2>3. TypeOK'
    BY <1>1, <1>2, <2>1, <2>2 DEF TypeOK
  <2>4. WatchShape'
    BY <1>1, <2>1 DEF WatchShape, TypeOK
  <2> QED BY <1>1, <2>1, <2>3, <2>4
          DEF ClientByPhase, RaceShape, FewRacers, CandidateIndexTruth
<1>4. CASE StruckOut
  <2>1. strikes' = 0 /\ Launch(0, ranked, excluded, plays)
    BY <1>4 DEF BadCheck
  <2>2. strikes' \in 0..(StallStrikes - 1) /\ 0 \in 0..MaxPlays
    BY <2>1, LimitsAssumption
  <2>3. ranked \in Seq(Listed) /\ plays \in Seq(Outcome) /\ Len(plays) <= MaxPlays
    BY DEF TypeOK
  <2>4. TypeOK'
    BY <1>1, <1>2, <2>1, <2>2, <2>3, LaunchPreserves DEF TypeOK
  <2>5. /\ ClientByPhase' /\ RaceShape' /\ FewRacers'
        /\ watching' = FALSE /\ torrent' \in {torrent, NoTorrent}
    BY <1>1, <2>1, <2>2, <2>3, LaunchPreserves
  <2>6. CandidateIndexTruth'
    BY <1>1, <2>5 DEF CandidateIndexTruth
  <2> QED BY <2>4, <2>5, <2>6 DEF WatchShape
<1> QED BY <1>3, <1>4

\* destroy() takes the client and the timer with it.
LEMMA DestroyPreserves == ASSUME IInv, Destroy PROVE IInv'
<1> USE DEF IInv
<1>1. /\ closed' = TRUE /\ watching' = FALSE /\ client' = {}
      /\ UNCHANGED <<ranked, candidateIndex, aborted, excluded, strikes, checks, torrent,
                     phase, racers, lineup, racing, caller, plays, quiet, steady>>
  BY DEF Destroy
<1>2. TypeOK'
  BY <1>1 DEF TypeOK
<1> QED BY <1>1, <1>2 DEF ClientByPhase, RaceShape, FewRacers, WatchShape, CandidateIndexTruth

-----------------------------------------------------------------------------
(* Every step, then every reachable state.                                     *)

\* No step of the player leaves the invariant.
LEMMA StepPreserves == IInv /\ [Next]_vars => IInv'
<1> SUFFICES ASSUME IInv, [Next]_vars PROVE IInv'
  OBVIOUS
<1>1. ASSUME NEW list \in Lists, Play(list) PROVE IInv'
  BY <1>1, PlayPreserves
<1>2. CASE PlayNothing
  BY <1>2, PlayNothingPreserves
<1>3. CASE Abort
  BY <1>3, AbortPreserves
<1>4. CASE TornDown
  BY <1>4, TornDownPreserves
<1>5. ASSUME NEW h \in Hash, RacerReady(h) PROVE IInv'
  BY <1>5, RacerReadyPreserves
<1>6. ASSUME NEW h \in Hash, RacerFails(h) PROVE IInv'
  BY <1>6, RacerFailsPreserves
<1>7. CASE GraceCheck
  BY <1>7, GraceCheckPreserves
<1>8. CASE GoodCheck
  BY <1>8, GoodCheckPreserves
<1>9. CASE BadCheck
  BY <1>9, BadCheckPreserves
<1>10. CASE Destroy
  BY <1>10, DestroyPreserves
<1>11. CASE UNCHANGED vars
  BY <1>11 DEF vars, IInv, TypeOK, ClientByPhase, RaceShape, FewRacers, WatchShape,
               CandidateIndexTruth
<1> QED BY <1>1, <1>2, <1>3, <1>4, <1>5, <1>6, <1>7, <1>8, <1>9, <1>10, <1>11
        DEF Next, RacerEnds, StallCheck

\* The inductive invariant holds in every reachable state.
THEOREM Invariance == Spec => []IInv
BY InitEstablishes, StepPreserves, PTL DEF Spec

\* The player's variables keep their types: strikes stay below STALL_STRIKES,
\* whatever order play(), abort() and the stall timer come in.
THEOREM TypeCorrect == Spec => []TypeOK
<1>1. IInv => TypeOK
  BY DEF IInv
<1> QED BY <1>1, Invariance, PTL

\* Between advances the client runs exactly the torrent being served
\* (_doAdvance's clean-up of losers, failures and superseded races is complete).
THEOREM NothingLeftBehind == Spec => []OneTorrentAtRest
<1>1. IInv => OneTorrentAtRest
  BY DEF IInv, ClientByPhase, OneTorrentAtRest
<1> QED BY <1>1, Invariance, PTL

\* A race shares the connection pool with nothing, and has at most MAX_RACERS
\* torrents in it.
THEOREM RacesRunAlone == Spec => []RaceAlone
<1>1. IInv => RaceAlone
  <2> SUFFICES ASSUME IInv, phase = "racing", ~closed
               PROVE  torrent = NoTorrent /\ client \subseteq racers
                      /\ Cardinality(client) <= MaxRacers
    BY DEF RaceAlone
  <2>1. torrent = NoTorrent /\ client \subseteq racers
    BY DEF IInv, ClientByPhase
  <2>2. IsFiniteSet(racers) /\ Cardinality(racers) <= MaxRacers
    BY DEF IInv, FewRacers
  <2>3. /\ Cardinality(client) \in Nat /\ Cardinality(racers) \in Nat
        /\ Cardinality(client) <= Cardinality(racers)
    BY <2>1, <2>2, FS_Subset, FS_CardinalityType
  <2> QED BY <2>1, <2>2, <2>3, LimitsAssumption
<1> QED BY <1>1, Invariance, PTL

\* The stall timer never outlives what it watches.
THEOREM WatchdogIsGuarded == Spec => []WatchdogGuardsTorrent
<1>1. IInv => WatchdogGuardsTorrent
  BY DEF IInv, WatchShape, WatchdogGuardsTorrent
<1> QED BY <1>1, Invariance, PTL

\* candidateIndex never names another candidate than the one being served.
THEOREM IndexIsTrue == Spec => []CandidateIndexTruth
<1>1. IInv => CandidateIndexTruth
  BY DEF IInv
<1> QED BY <1>1, Invariance, PTL

-----------------------------------------------------------------------------
(* Failing over: only the stall timer's callback does it.                      *)

\* A step that fails over is a bad check that struck out.
LEMMA FailoverIsStrikeOut ==
  ASSUME IInv, [Next]_vars, FailsOver
  PROVE  /\ BadCheck /\ StruckOut /\ Watched
         /\ racers' = Racers(ranked, excluded)
<1> USE DEF FailsOver
<1>1. ASSUME NEW list \in Lists, Play(list) PROVE FALSE
  <2>1. Launch(Len(plays) + 1, list, {}, Append(plays, "pending"))
    BY <1>1 DEF Play
  <2>2. caller' = Len(plays) + 1
    BY <2>1 DEF Launch
  <2>3. Len(plays) \in Nat
    BY DEF IInv, TypeOK
  <2> QED BY <2>2, <2>3
<1>2. ASSUME NEW h \in Hash, RacerEnds(h) PROVE FALSE
  BY <1>2 DEF RacerEnds, RacerReady, RacerFails, IInv, RaceShape
<1>3. ~PlayNothing /\ ~Abort /\ ~TornDown /\ ~Destroy
  BY DEF PlayNothing, Abort, TornDown, Destroy
<1>4. ~GraceCheck /\ ~GoodCheck
  BY DEF GraceCheck, GoodCheck
<1>5. ~UNCHANGED vars
  BY DEF vars
<1>6. BadCheck
  BY <1>1, <1>2, <1>3, <1>4, <1>5 DEF Next, StallCheck
<1>7. StruckOut /\ Launch(0, ranked, excluded, plays)
  BY <1>6 DEF BadCheck
<1>8. racers' = Racers(ranked, excluded)
  BY <1>7 DEF Launch
<1> QED BY <1>6, <1>7, <1>8 DEF BadCheck

\* The candidate that stalled is not in the line-up that replaces it: it was
\* excluded when it won, and exclusions outlive it.
THEOREM FailoversMoveOn == Spec => FailoverMovesOn
<1>1. IInv /\ [Next]_vars => (FailsOver => torrent \notin racers')
  <2> SUFFICES ASSUME IInv, [Next]_vars, FailsOver PROVE torrent \notin racers'
    OBVIOUS
  <2>1. watching /\ racers' = Racers(ranked, excluded)
    BY FailoverIsStrikeOut DEF Watched
  <2>2. torrent \in excluded /\ ranked \in Seq(Listed)
    BY <2>1 DEF IInv, WatchShape, TypeOK
  <2> QED BY <2>1, <2>2, RacersAreHashes
<1> QED BY <1>1, Invariance, PTL DEF Spec, FailoverMovesOn

\* A swarm once seen healthy is left only after STALL_STRIKES bad checks in a row.
THEOREM FailoversAreEarned == Spec => FailoverNeedsStrikes
<1>1. IInv /\ [Next]_vars => (FailsOver /\ steady => quiet' >= StallStrikes)
  <2> SUFFICES ASSUME IInv, [Next]_vars, FailsOver, steady PROVE quiet' >= StallStrikes
    OBVIOUS
  <2>1. watching /\ StruckOut /\ quiet' = quiet + 1
    BY FailoverIsStrikeOut DEF Watched, BadCheck
  <2>2. quiet \in Nat /\ strikes \in Nat /\ quiet >= strikes
    BY <2>1, LimitsAssumption DEF IInv, WatchShape, TypeOK
  <2> QED BY <2>1, <2>2, LimitsAssumption DEF StruckOut
<1> QED BY <1>1, Invariance, PTL DEF Spec, FailoverNeedsStrikes

-----------------------------------------------------------------------------
(* The player implements Player.                                               *)

\* Who waits: during an advance the call it was started for, if any; nobody else.
OneWaits ==
  \A g \in DOMAIN plays : plays[g] = "pending" <=> phase # "idle" /\ g = caller

\* A play() call that an advance was started for is on record.
CallerIsKnown == phase # "idle" /\ caller # 0 => caller \in DOMAIN plays

Told == [g \in DOMAIN plays |-> Answer(plays[g])]

\* Appending an outcome appends its answer.
LEMMA ToldGrows ==
  ASSUME plays \in Seq(Outcome), NEW outcome \in Outcome,
         plays' = Append(plays, outcome)
  PROVE  Told' = Append(Told, Answer(outcome))
<1>1. /\ DOMAIN plays = 1..Len(plays) /\ Len(plays) \in Nat
      /\ DOMAIN plays' = 1..(Len(plays) + 1)
      /\ \A g \in 1..Len(plays) : plays'[g] = plays[g]
      /\ plays'[Len(plays) + 1] = outcome
  OBVIOUS
<1> DEFINE answers == {Answer(o) : o \in Outcome}
           longer == Append(Told, Answer(outcome))
<1>3. Told = [g \in 1..Len(plays) |-> Answer(plays[g])]
  BY <1>1 DEF Told
<1>4. \A g \in 1..Len(plays) : plays[g] \in Outcome
  BY <1>1
<1>5. Told \in Seq(answers)
  <2>1. Told \in [1..Len(plays) -> answers]
    BY <1>3, <1>4
  <2> QED BY <1>1, <2>1
<1>6. Len(Told) = Len(plays)
  <2>1. DOMAIN Told = 1..Len(plays) /\ DOMAIN Told = 1..Len(Told) /\ Len(Told) \in Nat
    BY <1>3, <1>5
  <2> HIDE DEF Told
  <2> QED BY <1>1, <2>1
<1>7. /\ longer \in Seq(answers)
      /\ Len(longer) = Len(plays) + 1
      /\ \A g \in 1..Len(plays) : longer[g] = Told[g]
      /\ longer[Len(plays) + 1] = Answer(outcome)
  BY <1>1, <1>5, <1>6
<1> HIDE DEF longer, answers
<1>8. longer = [g \in 1..(Len(plays) + 1) |-> longer[g]]
  <2>1. longer \in [1..(Len(plays) + 1) -> answers]
    BY <1>7, LenProperties
  <2> QED BY <2>1
<1>9. Told' = [g \in 1..(Len(plays) + 1) |-> Answer(plays'[g])]
  BY <1>1 DEF Told
<1>10. \A g \in 1..(Len(plays) + 1) : longer[g] = Answer(plays'[g])
  BY <1>1, <1>3, <1>7
<1>11. Told' = longer
  BY <1>8, <1>9, <1>10
<1> QED BY <1>11 DEF longer

\* What settling the caller's call tells, when it is the only one that waits.
LEMMA ToldOnce ==
  ASSUME plays \in Seq(Outcome), OneWaits, CallerIsKnown, phase # "idle",
         caller \in Nat, NEW outcome \in Outcome \ {"pending"},
         plays' = Settle(caller, outcome)
  PROVE  /\ DOMAIN plays' = DOMAIN plays
         /\ \A g \in DOMAIN plays : plays'[g] # "pending"
         /\ Told' = [g \in DOMAIN Told |->
                       IF Told[g] = "pending" THEN Answer(outcome) ELSE Told[g]]
<1>1. DOMAIN plays' = DOMAIN plays
  BY DEF Settle
<1>2. \A g \in DOMAIN plays : plays'[g] = IF g = caller THEN outcome ELSE plays[g]
  <2>1. CASE caller = 0
    <3>1. 0 \notin DOMAIN plays
      OBVIOUS
    <3> QED BY <2>1, <3>1 DEF Settle
  <2>2. CASE caller # 0
    BY <2>2 DEF Settle
  <2> QED BY <2>1, <2>2
<1>3. \A g \in DOMAIN plays : Answer(plays[g]) = "pending" <=> g = caller
  BY DEF OneWaits, Answer
<1>4. \A g \in DOMAIN plays : plays'[g] # "pending"
  BY <1>2 DEF OneWaits
<1>5. DOMAIN Told = DOMAIN plays /\ \A g \in DOMAIN plays : Told[g] = Answer(plays[g])
  BY DEF Told
<1>6. Told' = [g \in DOMAIN plays |-> Answer(plays'[g])]
  BY <1>1 DEF Told
<1> QED BY <1>1, <1>2, <1>3, <1>4, <1>5, <1>6

\* What is alive in an advance is a field of racers, or nothing yet.
LEMMA FieldOfRacers ==
  ASSUME IInv', phase' # "idle", ~closed'
  PROVE  OnePlayer!Field
<1>1. client' \subseteq racers' /\ IsFiniteSet(racers') /\ Cardinality(racers') <= MaxRacers
  BY DEF IInv, TypeOK, Phases, ClientByPhase, FewRacers
<1>2. /\ IsFiniteSet(client')
      /\ Cardinality(client') \in Nat /\ Cardinality(racers') \in Nat
      /\ Cardinality(client') <= Cardinality(racers')
  BY <1>1, FS_Subset, FS_CardinalityType
<1>3. client' \subseteq Hash
  BY DEF IInv, TypeOK
<1>4. Cardinality(client') <= MaxRacers
  BY <1>1, <1>2, LimitsAssumption
<1> QED BY <1>3, <1>4 DEF OnePlayer!Field

PlayerInv == IInv /\ OneWaits /\ CallerIsKnown

\* A new player is a new Player.
LEMMA InitImplements == Init => PlayerInv /\ OnePlayer!Init
<1> SUFFICES ASSUME Init PROVE PlayerInv /\ OnePlayer!Init
  OBVIOUS
<1>1. OneWaits /\ CallerIsKnown
  BY DEF Init, OneWaits, CallerIsKnown
<1>2. [g \in DOMAIN plays |-> Answer(plays[g])] = <<>>
  BY DEF Init
<1> QED BY <1>1, <1>2, InitEstablishes DEF PlayerInv, Init, OnePlayer!Init

\* Only a launch begins an advance; what the callers hear of it is StartRace.
LEMMA LaunchImplements ==
  ASSUME PlayerInv, IInv', phase = "idle", ~closed,
         NEW list, NEW out, NEW calls \in Seq(Outcome), NEW who \in Nat,
         Eligible(list, out) # {},
         Launch(who, list, out, calls), UNCHANGED closed,
         \/ who = 0 /\ calls = plays /\ torrent # NoTorrent
         \/ who = Len(plays) + 1 /\ calls = Append(plays, "pending")
  PROVE  OneWaits' /\ CallerIsKnown' /\ OnePlayer!StartRace
<1> USE DEF PlayerInv
<1>1. /\ plays' = calls /\ caller' = who /\ torrent' = NoTorrent
      /\ phase' # "idle"
  BY DEF Launch
<1>2. OnePlayer!Field
  BY <1>1, FieldOfRacers DEF OnePlayer!Field, IInv, TypeOK
<1>3. plays \in Seq(Outcome) /\ DOMAIN plays = 1..Len(plays) /\ Len(plays) \in Nat
  <2>1. plays \in Seq(Outcome)
    BY DEF IInv, TypeOK
  <2> QED BY <2>1
<1>4. \A g \in DOMAIN plays : plays[g] # "pending"
  BY DEF OneWaits
<1>5. CASE who = 0 /\ calls = plays /\ torrent # NoTorrent
  <2>1. Told' = Told
    BY <1>1, <1>5 DEF Told
  <2>2. 0 \notin DOMAIN plays
    BY <1>3
  <2>3. OneWaits'
    BY <1>1, <1>4, <1>5, <2>2 DEF OneWaits
  <2>4. CallerIsKnown'
    BY <1>1, <1>5 DEF CallerIsKnown
  <2> QED BY <1>1, <1>2, <1>5, <2>1, <2>3, <2>4, <2>2 DEF OnePlayer!StartRace, Told
<1>6. CASE who = Len(plays) + 1 /\ calls = Append(plays, "pending")
  <2>1. Told' = Append(Told, Answer("pending")) /\ Answer("pending") = "pending"
    BY <1>1, <1>3, <1>6, ToldGrows DEF Outcome, Answer
  <2>2. /\ DOMAIN plays' = 1..(Len(plays) + 1)
        /\ plays'[Len(plays) + 1] = "pending"
        /\ \A g \in 1..Len(plays) : plays'[g] = plays[g]
    BY <1>1, <1>3, <1>6
  <2>3. OneWaits' /\ CallerIsKnown'
    BY <1>1, <1>3, <1>4, <1>6, <2>2 DEF OneWaits, CallerIsKnown
  <2> QED BY <1>1, <1>2, <2>1, <2>3 DEF OnePlayer!StartRace, Told
<1> QED BY <1>5, <1>6

\* A call that starts no race is refused.
LEMMA RefusalImplements ==
  ASSUME PlayerInv, ~closed, NEW outcome \in Outcome \ {"pending", "playing"},
         outcome = "dropped" => phase # "idle",
         plays' = Append(plays, outcome),
         UNCHANGED <<torrent, phase, client, caller, closed>>
  PROVE  OneWaits' /\ CallerIsKnown' /\ OnePlayer!Refuse
<1> USE DEF PlayerInv
<1>1. plays \in Seq(Outcome) /\ DOMAIN plays = 1..Len(plays) /\ Len(plays) \in Nat
  <2>1. plays \in Seq(Outcome)
    BY DEF IInv, TypeOK
  <2> QED BY <2>1
<1>2. /\ DOMAIN plays' = 1..(Len(plays) + 1)
      /\ plays'[Len(plays) + 1] = outcome
      /\ \A g \in 1..Len(plays) : plays'[g] = plays[g]
  BY <1>1
<1>3. OneWaits' /\ CallerIsKnown'
  BY <1>1, <1>2 DEF OneWaits, CallerIsKnown
<1>4. Told' = Append(Told, Answer(outcome))
  BY <1>1, ToldGrows
<1>5. Answer(outcome) \in {"failed"} \cup (IF phase # "idle" THEN {"ignored"} ELSE {})
  BY DEF Answer
<1> QED BY <1>3, <1>4, <1>5 DEF OnePlayer!Refuse, Told

\* What no caller hears of.
LEMMA QuietStep ==
  ASSUME PlayerInv, UNCHANGED <<plays, caller>>, phase' # "idle" <=> phase # "idle"
  PROVE  OneWaits' /\ CallerIsKnown' /\ Told' = Told
BY DEF PlayerInv, OneWaits, CallerIsKnown, Told

Implemented == OneWaits' /\ CallerIsKnown' /\ (OnePlayer!Next \/ UNCHANGED OnePlayer!player)

\* A call that is recorded as waiting and at once as exhausted.
LEMMA ExhaustedAtOnce ==
  ASSUME plays \in Seq(Outcome)
  PROVE  Append(plays, "exhausted")
           = [Append(plays, "pending") EXCEPT ![Len(plays) + 1] = "exhausted"]
<1> DEFINE asked == Append(plays, "pending")
           known == Append(plays, "exhausted")
           n == Len(plays) + 1
<1>1. /\ asked \in Seq(Outcome) /\ Len(asked) = n
      /\ known \in Seq(Outcome) /\ Len(known) = n
      /\ \A i \in 1..n : asked[i] = IF i = n THEN "pending" ELSE plays[i]
      /\ \A i \in 1..n : known[i] = IF i = n THEN "exhausted" ELSE plays[i]
      /\ n \in 1..n
  BY DEF Outcome
<1> HIDE DEF asked, known
<1>2. LET told == [asked EXCEPT ![n] = "exhausted"]
      IN /\ told \in Seq(Outcome) /\ Len(told) = n
         /\ \A i \in 1..n : told[i] = IF i = n THEN "exhausted" ELSE asked[i]
  <2>1. n \in 1..Len(asked) /\ "exhausted" \in Outcome
    BY <1>1 DEF Outcome
  <2> QED BY <1>1, <2>1, ExceptSeq
<1>3. known = [asked EXCEPT ![n] = "exhausted"]
  BY <1>1, <1>2, SeqEqual
<1> QED BY <1>3 DEF asked, known

\* play(), in a race or outside.
LEMMA PlayImplements ==
  ASSUME PlayerInv, IInv', NEW list \in Lists, Play(list)
  PROVE  Implemented
<1>1. ~closed /\ UNCHANGED closed /\ list \in Seq(Listed) /\ list # <<>>
  BY ListsAreTyped DEF Play
<1>2. CASE phase # "idle"
  <2>1. plays' = Append(plays, "dropped") /\ UNCHANGED <<torrent, phase, client, caller>>
    BY <1>2 DEF Play
  <2> QED BY <1>1, <1>2, <2>1, RefusalImplements DEF Outcome, Implemented, OnePlayer!Next
<1>3. CASE phase = "idle"
  <2> DEFINE calls == Append(plays, "pending")
             who == Len(plays) + 1
  <2>1. Launch(who, list, {}, calls)
    BY <1>3 DEF Play
  <2>2. calls \in Seq(Outcome) /\ who \in Nat
    BY DEF PlayerInv, IInv, TypeOK, Outcome
  <2>3. CASE Eligible(list, {}) # {}
    <3> HIDE DEF calls, who
    <3>1. OneWaits' /\ CallerIsKnown' /\ OnePlayer!StartRace
      BY <1>1, <1>3, <2>1, <2>2, <2>3, LaunchImplements DEF calls, who
    <3> QED BY <1>1, <3>1 DEF Implemented, OnePlayer!Next
  <2>4. CASE Eligible(list, {}) = {}
    <3>1. plays \in Seq(Outcome) /\ Len(plays) \in Nat
      BY DEF PlayerInv, IInv, TypeOK
    <3>2. /\ plays' = [calls EXCEPT ![who] = "exhausted"]
          /\ UNCHANGED <<torrent, phase, client, caller>>
      BY <2>1, <2>4, <3>1 DEF Launch
    <3>3. Append(plays, "exhausted") = [calls EXCEPT ![who] = "exhausted"]
      BY <3>1, ExhaustedAtOnce
    <3> QED BY <1>1, <3>2, <3>3, RefusalImplements DEF Outcome, Implemented, OnePlayer!Next
  <2> QED BY <2>3, <2>4
<1> QED BY <1>2, <1>3

\* The end of a race.
LEMMA RaceImplements ==
  ASSUME PlayerInv, IInv', NEW h \in Hash, RacerEnds(h)
  PROVE  Implemented
<1> USE DEF PlayerInv
<1>1. /\ ~closed /\ h \in racing /\ UNCHANGED <<caller, closed>>
      /\ phase = "racing" /\ client \subseteq racers /\ torrent = NoTorrent
  BY DEF RacerEnds, RacerReady, RacerFails, IInv, RaceShape, ClientByPhase
<1>2. plays \in Seq(Outcome) /\ caller \in Nat
  BY DEF IInv, TypeOK
<1>3. ASSUME NEW outcome \in Outcome \ {"pending"}, plays' = Settle(caller, outcome),
             phase' = "idle"
      PROVE  /\ OneWaits' /\ CallerIsKnown'
             /\ Told' = [g \in DOMAIN Told |->
                           IF Told[g] = "pending" THEN Answer(outcome) ELSE Told[g]]
  <2>1. /\ DOMAIN plays' = DOMAIN plays
        /\ \A g \in DOMAIN plays : plays'[g] # "pending"
        /\ Told' = [g \in DOMAIN Told |->
                      IF Told[g] = "pending" THEN Answer(outcome) ELSE Told[g]]
    BY <1>1, <1>2, <1>3, ToldOnce
  <2> QED BY <1>3, <2>1 DEF OneWaits, CallerIsKnown
<1>4. CASE RacerReady(h) /\ ~Superseded
  <2>1. /\ torrent' = h /\ client' = {h} /\ phase' = "idle"
        /\ plays' = Settle(caller, "playing")
    BY <1>1, <1>4 DEF RacerReady, LeftAlive
  <2>2. Answer("playing") = "playing" /\ "playing" \in Outcome \ {"pending"}
    BY DEF Answer, Outcome
  <2>3. OneWaits' /\ CallerIsKnown' /\ OnePlayer!Win
    BY <1>1, <1>3, <2>1, <2>2 DEF OnePlayer!Win, OnePlayer!Told, Told
  <2> QED BY <1>1, <2>3 DEF Implemented, OnePlayer!Next
<1>5. ASSUME NEW outcome \in {"superseded", "unplayable"},
             plays' = Settle(caller, outcome), phase' = "idle",
             client' = {}, torrent' = NoTorrent
      PROVE  Implemented
  <2>1. Answer(outcome) = "failed" /\ outcome \in Outcome \ {"pending"}
    BY DEF Answer, Outcome
  <2>2. OneWaits' /\ CallerIsKnown' /\ OnePlayer!Lose
    BY <1>1, <1>3, <1>5, <2>1 DEF OnePlayer!Lose, OnePlayer!Told, Told
  <2> QED BY <1>1, <2>2 DEF Implemented, OnePlayer!Next
<1>6. CASE RacerReady(h) /\ Superseded
  BY <1>1, <1>5, <1>6 DEF RacerReady
<1>7. CASE RacerFails(h) /\ racing' = {}
  <2> DEFINE outcome == IF aborted THEN "superseded" ELSE "unplayable"
  <2>1. /\ client' = {} /\ torrent' = NoTorrent /\ phase' = "idle"
        /\ plays' = Settle(caller, outcome)
    BY <1>1, <1>7 DEF RacerFails
  <2>2. outcome \in {"superseded", "unplayable"}
    OBVIOUS
  <2> QED BY <1>5, <2>1, <2>2
<1>8. CASE RacerFails(h) /\ racing' # {}
  <2>1. UNCHANGED <<plays, phase, torrent>>
    BY <1>8 DEF RacerFails
  <2>2. OnePlayer!Racers
    BY <1>1, <2>1, FieldOfRacers, QuietStep DEF OnePlayer!Racers, Told
  <2> QED BY <1>1, <2>1, <2>2, QuietStep DEF Implemented, OnePlayer!Next
<1> QED BY <1>4, <1>6, <1>7, <1>8 DEF RacerEnds

\* The stall timer: nothing anybody hears of, or a new race.
LEMMA CheckImplements ==
  ASSUME PlayerInv, IInv', StallCheck
  PROVE  Implemented
<1> USE DEF PlayerInv
<1>1. ~closed /\ UNCHANGED closed /\ phase = "idle" /\ torrent # NoTorrent
  BY DEF StallCheck, GraceCheck, GoodCheck, BadCheck, Watched
<1>2. ASSUME UNCHANGED <<torrent, client, phase, plays, caller>>
      PROVE  Implemented
  <2>1. OneWaits' /\ CallerIsKnown' /\ Told' = Told
    BY <1>2, QuietStep
  <2> QED BY <1>1, <1>2, <2>1 DEF Implemented, OnePlayer!player, Told
<1>3. CASE GraceCheck \/ GoodCheck
  BY <1>2, <1>3 DEF GraceCheck, GoodCheck
<1>4. CASE BadCheck /\ ~StruckOut
  BY <1>2, <1>4 DEF BadCheck
<1>5. CASE BadCheck /\ StruckOut
  <2>1. Launch(0, ranked, excluded, plays)
    BY <1>5 DEF BadCheck
  <2>2. CASE Eligible(ranked, excluded) = {}
    BY <1>2, <2>1, <2>2 DEF Launch
  <2>3. CASE Eligible(ranked, excluded) # {}
    <3>1. plays \in Seq(Outcome)
      BY DEF IInv, TypeOK
    <3>2. OneWaits' /\ CallerIsKnown' /\ OnePlayer!StartRace
      BY <1>1, <2>1, <2>3, <3>1, LaunchImplements
    <3> QED BY <1>1, <3>2 DEF Implemented, OnePlayer!Next
  <2> QED BY <2>2, <2>3
<1> QED BY <1>3, <1>4, <1>5 DEF StallCheck

\* Every step of the player is one of Player, or none.
LEMMA StepImplements ==
  PlayerInv /\ [Next]_vars => PlayerInv' /\ [OnePlayer!Next]_(OnePlayer!player)
<1> SUFFICES ASSUME PlayerInv, [Next]_vars PROVE PlayerInv' /\ Implemented
  BY DEF Implemented
<1>1. IInv'
  BY StepPreserves DEF PlayerInv
<1>2. Implemented
  <2>1. ASSUME NEW list \in Lists, Play(list) PROVE Implemented
    BY <1>1, <2>1, PlayImplements
  <2>2. CASE PlayNothing
    BY <2>2, RefusalImplements DEF PlayNothing, Outcome, Implemented, OnePlayer!Next
  <2>3. CASE Abort
    <3>1. OneWaits' /\ CallerIsKnown' /\ Told' = Told
      BY <2>3, QuietStep DEF Abort
    <3> QED BY <2>3, <3>1 DEF Abort, Implemented, OnePlayer!Next, OnePlayer!Stop, Told
  <2>4. CASE TornDown
    <3>1. OneWaits' /\ CallerIsKnown' /\ Told' = Told
      BY <2>4, QuietStep DEF TornDown
    <3>2. OnePlayer!Field
      BY <1>1, <2>4, FieldOfRacers DEF TornDown
    <3> QED BY <2>4, <3>1, <3>2 DEF TornDown, Implemented, OnePlayer!Next, OnePlayer!Racers, Told
  <2>5. ASSUME NEW h \in Hash, RacerEnds(h) PROVE Implemented
    BY <1>1, <2>5, RaceImplements
  <2>6. CASE StallCheck
    BY <1>1, <2>6, CheckImplements
  <2>7. CASE Destroy
    <3>1. OneWaits' /\ CallerIsKnown' /\ Told' = Told
      BY <2>7, QuietStep DEF Destroy
    <3> QED BY <2>7, <3>1 DEF Destroy, Implemented, OnePlayer!Next, OnePlayer!Close, Told
  <2>8. CASE UNCHANGED vars
    <3>1. OneWaits' /\ CallerIsKnown' /\ Told' = Told
      BY <2>8, QuietStep DEF vars
    <3> QED BY <2>8, <3>1 DEF vars, Implemented, OnePlayer!player, Told
  <2> QED BY <2>1, <2>2, <2>3, <2>4, <2>5, <2>6, <2>7, <2>8 DEF Next
<1> QED BY <1>1, <1>2 DEF PlayerInv, Implemented

\* The player implements Player: play(), abort(), races and the stall timer keep
\* the promise of one torrent at a time, and each call is told the outcome of
\* its own race.
THEOREM PlayerImplemented == Spec => ImplementsPlayer
BY InitImplements, StepImplements, PTL DEF Spec, ImplementsPlayer, OnePlayer!Spec


-----------------------------------------------------------------------------
(* The engine runs its stream server.                                          *)

\* A step of the engine is a step of its stream server, or none of its steps.
LEMMA StreamStep == [EngineNext]_allVars => [Next]_vars
<1> SUFFICES ASSUME [EngineNext]_allVars PROVE [Next]_vars
  OBVIOUS
<1>1. ASSUME NEW r \in Request, Start(r) PROVE Next
  <2>1. PICK list \in RankedLists[r] : Play(list)
    BY <1>1 DEF Start
  <2>2. list \in Lists
    BY RankedListsAssumption
  <2> QED BY <2>1, <2>2 DEF Next
<1>2. ASSUME NEW r \in Request, Accept(r) \/ Throws(r) \/ RankingFails(r) PROVE UNCHANGED vars
  BY <1>2 DEF Accept, Throws, RankingFails
<1>3. CASE Tears
  BY <1>3 DEF Tears, Next
<1>4. ASSUME NEW h \in Hash, Races(h) PROVE Next
  BY <1>4 DEF Races, Next
<1>5. CASE Watches
  BY <1>5 DEF Watches, Next
<1>6. CASE Streaming
  BY <1>6 DEF Streaming, Plays, ReadRange, ReadEnds
<1>7. CASE Shutdown
  BY <1>7 DEF Shutdown, Next
<1>8. CASE UNCHANGED allVars
  BY <1>8 DEF allVars
<1> QED BY <1>1, <1>2, <1>3, <1>4, <1>5, <1>6, <1>7, <1>8 DEF EngineNext

\* server.js only ever drives its stream server through what StreamServer
\* allows: with whatever requests and readers, its steps are steps of the player.
THEOREM EngineRunsStream == EngineSpec => Spec
<1>1. EngineInit => Init
  BY DEF EngineInit
<1> QED BY <1>1, StreamStep, PTL DEF EngineSpec, Spec

\* So the engine keeps the promise of one torrent at a time, each play() told
\* the outcome of its own race.
THEOREM EngineImplementsPlayer == EngineSpec => ImplementsPlayer
BY EngineRunsStream, PlayerImplemented

-----------------------------------------------------------------------------
(* Files, pieces and ranges.                                                   *)

\* A set of naturals that is not empty has a least member.
LEMMA LeastMember ==
  ASSUME NEW S, S \subseteq Nat, S # {}
  PROVE  \E x \in S : \A y \in S : x <= y
<1> DEFINE R == OpToRel(<, Nat)
<1>1. IsWellFoundedOn(R, Nat)
  BY NatLessThanWellFounded
<1>2. \A p, q \in Nat : <<p, q>> \in R <=> p < q
  BY DEF OpToRel
<1> HIDE DEF R
<1>3. PICK x \in S : \A y \in S : ~(<<y, x>> \in R)
  BY <1>1, WFMin
<1>4. ASSUME NEW y \in S PROVE x <= y
  <2>1. x \in Nat /\ y \in Nat
    OBVIOUS
  <2>2. ~(y < x)
    BY <1>2, <1>3, <2>1
  <2> QED BY <2>1, <2>2
<1> QED BY <1>4

\* The file _pickMediaFile takes exists: of a list of files that is not empty
\* there is one that no other precedes, found by going through the list.
LEMMA PreferredHasFirst ==
  ASSUME NEW files \in Seq(File), NEW P, P \subseteq DOMAIN files, P # {}
  PROVE  \E i \in P : \A j \in P :
           \/ files[j].length < files[i].length
           \/ files[j].length = files[i].length /\ j <= i
<1> DEFINE Behind(j, i) == \/ files[j].length < files[i].length
                           \/ files[j].length = files[i].length /\ j <= i
           Upto(n) == {i \in P : i <= n}
           Topped(n) == \E i \in Upto(n) : \A j \in Upto(n) : Behind(j, i)
           Untopped == {n \in Nat : n <= Len(files) /\ Upto(n) # {} /\ ~Topped(n)}
<1>1. DOMAIN files = 1..Len(files) /\ Len(files) \in Nat
  OBVIOUS
<1>2. \A i \in P : i \in Nat /\ i >= 1 /\ i <= Len(files)
  BY <1>1
<1>3. \A i \in P : files[i].length \in Nat
  <2>1. \A i \in P : files[i] \in File
    OBVIOUS
  <2> QED BY <2>1 DEF File
<1>4. Untopped = {}
  <2> SUFFICES ASSUME Untopped # {} PROVE FALSE
    OBVIOUS
  <2>1. PICK m \in Untopped : \A n \in Untopped : m <= n
    <3>1. Untopped \subseteq Nat
      OBVIOUS
    <3> HIDE DEF Untopped
    <3> QED BY <3>1, LeastMember
  <2>2. m \in Nat /\ m <= Len(files) /\ Upto(m) # {} /\ ~Topped(m)
    BY <2>1
  <2>3. m >= 1
    BY <1>2, <2>2
  <2>4. m - 1 \in Nat /\ m - 1 <= Len(files) /\ m - 1 \notin Untopped
    <3>1. m - 1 \in Nat /\ m - 1 <= Len(files) /\ ~(m <= m - 1)
      BY <1>1, <2>2, <2>3
    <3> HIDE DEF Untopped
    <3> QED BY <2>1, <3>1
  <2>5. Upto(m) = Upto(m - 1) \cup (P \cap {m})
    <3>1. ASSUME NEW i \in P PROVE i <= m <=> i <= m - 1 \/ i = m
      <4>1. i \in Nat /\ m \in Nat
        BY <1>2, <2>2
      <4> HIDE DEF Untopped
      <4> QED BY <4>1
    <3> QED BY <3>1
  <2>6. Upto(m - 1) = {} \/ Topped(m - 1)
    BY <2>4
  <2>7. CASE m \notin P
    <3>1. Upto(m) = Upto(m - 1)
      BY <2>5, <2>7
    <3> HIDE DEF Upto
    <3> QED BY <2>2, <2>6, <3>1
  <2>8. CASE m \in P /\ Upto(m - 1) = {}
    <3>1. Upto(m) = {m}
      BY <2>5, <2>8
    <3>2. Behind(m, m)
      BY <1>2, <1>3, <2>8
    <3> HIDE DEF Upto, Behind
    <3> QED BY <2>2, <3>1, <3>2
  <2>9. CASE m \in P /\ Topped(m - 1)
    <3>1. PICK i \in Upto(m - 1) : \A j \in Upto(m - 1) : Behind(j, i)
      BY <2>9
    <3>2. i \in P /\ i <= m /\ i \in Upto(m)
      BY <1>2, <2>2, <2>5
    <3>3. CASE files[m].length < files[i].length
      <4>1. \A j \in Upto(m) : Behind(j, i)
        <5>1. Behind(m, i)
          BY <3>3
        <5> HIDE DEF Upto, Behind
        <5> QED BY <2>5, <3>1, <5>1
      <4> QED BY <2>2, <3>2, <4>1
    <3>4. CASE ~(files[m].length < files[i].length)
      <4>1. \A j \in Upto(m) : Behind(j, m)
        <5>1. ASSUME NEW j \in Upto(m - 1) PROVE Behind(j, m)
          <6>1. Behind(j, i)
            BY <3>1
          <6>2. /\ j \in Nat /\ j <= m
                /\ {files[j].length, files[i].length, files[m].length} \subseteq Nat
            <7>1. j \in P /\ j <= m - 1 /\ j \in Nat /\ m - 1 <= m
              BY <1>2, <2>2
            <7> QED BY <1>3, <2>2, <2>9, <3>2, <7>1
          <6> HIDE DEF Upto, Untopped
          <6> QED BY <3>4, <6>1, <6>2
        <5>2. Behind(m, m)
          BY <1>2, <1>3, <2>9
        <5> HIDE DEF Upto, Behind
        <5> QED BY <2>5, <5>1, <5>2
      <4>2. m \in Upto(m)
        BY <2>2, <2>9
      <4> QED BY <2>2, <4>1, <4>2
    <3> QED BY <3>3, <3>4
  <2> QED BY <2>6, <2>7, <2>8, <2>9
<1>5. Topped(Len(files))
  <2>1. Upto(Len(files)) = P
    BY <1>2
  <2>2. Len(files) \notin Untopped
    BY <1>4
  <2> QED BY <1>1, <2>1, <2>2
<1>6. Upto(Len(files)) = P
  BY <1>2
<1> HIDE DEF Upto
<1> QED BY <1>5, <1>6

\* The media file is one of the torrent's files.
LEMMA MediaFileIsFile ==
  ASSUME NEW h \in Hash
  PROVE  MediaFile(h) \in File /\ Content[h].pieceLength \in Nat \ {0}
<1> DEFINE files == Content[h].files
           P == Preferred(files)
<1>1. files \in Seq(File) /\ files # <<>> /\ Content[h].pieceLength \in Nat \ {0}
  BY ContentAssumption DEF Metadata
<1>2. DOMAIN files # {}
  <2>1. Len(files) # 0
    <3> HIDE DEF files
    <3> QED BY <1>1, EmptySeq
  <2>2. DOMAIN files = 1..Len(files) /\ Len(files) \in Nat
    BY <1>1
  <2> HIDE DEF files
  <2> QED BY <2>1, <2>2
<1>3. P \subseteq DOMAIN files /\ P # {}
  BY <1>2 DEF Preferred
<1> HIDE DEF files, P
<1>4. \E i \in P : \A j \in P : \/ files[j].length < files[i].length
                                \/ files[j].length = files[i].length /\ j <= i
  BY <1>1, <1>3, PreferredHasFirst
<1>5. PICK i \in P : MediaFile(h) = files[i]
  BY <1>4 DEF MediaFile, files, P
<1>6. i \in DOMAIN files
  BY <1>3
<1> QED BY <1>1, <1>5, <1>6

\* A range is answered with exactly the bytes of it that the file has.
LEMMA AnswerIsRequested ==
  ASSUME NEW h \in Hash, NEW range \in Ranges
  PROVE  LET a == AnswerTo(h, range)
         IN IF a.status = 416 THEN Requested(h, range) = {}
            ELSE a.start..a.end = Requested(h, range)
<1> DEFINE total == MediaFile(h).length
           a == AnswerTo(h, range)
<1>1. total \in Nat \ {0}
  BY MediaFileIsFile DEF File
<1>2. CASE range = NoRange
  <2>1. a.status = 200 /\ a.start = 0 /\ a.end = total - 1
    BY <1>1, <1>2 DEF AnswerTo, Least
  <2>2. Requested(h, range) = 0..(total - 1)
    BY <1>2 DEF Requested
  <2> QED BY <2>1, <2>2
<1>3. CASE range # NoRange
  <2>1. range \in RangeHeader
    BY <1>3, RangesAssumption
  <2>2. range.first \in Nat /\ range.last \in Nat \cup {NoLast}
    BY <2>1 DEF RangeHeader
  <2>3. CASE range.last = NoLast
    <3>1. a.start = range.first /\ a.end = total - 1
      BY <1>1, <1>3, <2>3 DEF AnswerTo, Least
    <3>2. a.status = IF range.first > total - 1 THEN 416 ELSE 206
      BY <1>1, <1>3, <2>3 DEF AnswerTo, Least
    <3>3. Requested(h, range) = {b \in 0..(total - 1) : b >= range.first}
      BY <1>3, <2>3 DEF Requested
    <3> HIDE DEF total, a
    <3> QED BY <1>1, <2>2, <3>1, <3>2, <3>3 DEF a
  <2>4. CASE range.last # NoLast
    <3>1. a.start = range.first /\ a.end = Least(range.last, total - 1)
      BY <1>1, <1>3, <2>4 DEF AnswerTo
    <3>2. a.status = IF range.first > Least(range.last, total - 1) THEN 416 ELSE 206
      BY <1>1, <1>3, <2>4 DEF AnswerTo
    <3>3. Requested(h, range) =
            {b \in 0..(total - 1) : b >= range.first /\ b <= range.last}
      BY <1>3, <2>4 DEF Requested
    <3>4. range.last \in Nat
      BY <2>2, <2>4
    <3> HIDE DEF total, a
    <3> QED BY <1>1, <2>2, <3>1, <3>2, <3>3, <3>4 DEF Least, a
  <2> QED BY <2>3, <2>4
<1> QED BY <1>2, <1>3

\* Later bytes lie in later pieces.
LEMMA DivisionIsMonotone ==
  ASSUME NEW p \in Nat \ {0}, NEW x \in Nat, NEW y \in Nat, x <= y
  PROVE  x \div p \in Nat /\ x \div p <= y \div p
OBVIOUS

LEMMA PieceAtIsMonotone ==
  ASSUME NEW h \in Hash, NEW x \in Nat, NEW y \in Nat, x <= y
  PROVE  PieceAt(h, x) \in Nat /\ PieceAt(h, x) <= PieceAt(h, y)
<1>1. MediaFile(h).offset \in Nat /\ Content[h].pieceLength \in Nat \ {0}
  BY MediaFileIsFile DEF File
<1>2. /\ MediaFile(h).offset + x \in Nat /\ MediaFile(h).offset + y \in Nat
      /\ MediaFile(h).offset + x <= MediaFile(h).offset + y
  BY <1>1
<1>3. PieceAt(h, x) = (MediaFile(h).offset + x) \div Content[h].pieceLength
  BY DEF PieceAt
<1>4. PieceAt(h, y) = (MediaFile(h).offset + y) \div Content[h].pieceLength
  BY DEF PieceAt
<1> QED BY <1>1, <1>2, <1>3, <1>4, DivisionIsMonotone

\* The pieces selected for some bytes hold them.
LEMMA SelectedHolds ==
  ASSUME NEW h \in Hash, NEW start \in Nat, NEW end \in Nat,
         NEW bytes, bytes \subseteq start..end
  PROVE  Holding(h, bytes) \subseteq PiecesSelected(h, start, end)
<1> SUFFICES ASSUME NEW b \in bytes
             PROVE  PieceAt(h, b) \in PieceAt(h, start)..PieceAt(h, end)
  BY DEF Holding, PiecesSelected
<1>1. b \in Nat /\ start <= b /\ b <= end
  OBVIOUS
<1>2. /\ PieceAt(h, start) \in Nat /\ PieceAt(h, start) <= PieceAt(h, b)
      /\ PieceAt(h, b) \in Nat /\ PieceAt(h, b) <= PieceAt(h, end)
      /\ PieceAt(h, end) \in Nat
  BY <1>1, PieceAtIsMonotone
<1> QED BY <1>2

\* Pieces are numbered from zero.
LEMMA SelectedArePieces ==
  ASSUME NEW h \in Hash, NEW start \in Nat, NEW end \in Nat
  PROVE  PiecesSelected(h, start, end) \subseteq Nat
<1>1. PieceAt(h, start) \in Nat /\ PieceAt(h, end) \in Nat
  BY PieceAtIsMonotone
<1> QED BY <1>1 DEF PiecesSelected

\* A torrent starts with both ends of its file.
LEMMA HeadAndTailHoldsEnds ==
  ASSUME NEW h \in Hash
  PROVE  /\ HeadAndTail(h) \subseteq Nat
         /\ Holding(h, {0, MediaFile(h).length - 1}) \subseteq HeadAndTail(h)
<1> DEFINE length == MediaFile(h).length
           head == Least(HeadTail, length - 1)
           tail == Most(0, length - HeadTail)
<1>1. length \in Nat \ {0} /\ HeadTail \in Nat \ {0}
  BY MediaFileIsFile, WindowAssumption DEF File
<1>2. head \in Nat /\ tail \in Nat /\ length - 1 \in Nat /\ tail <= length - 1
  BY <1>1 DEF Least, Most
<1>3. HeadAndTail(h) = PiecesSelected(h, 0, head) \cup PiecesSelected(h, tail, length - 1)
  BY DEF HeadAndTail
<1> HIDE DEF length, head, tail
<1>4. {0} \subseteq 0..head /\ {length - 1} \subseteq tail..(length - 1)
  BY <1>1, <1>2
<1>5. Holding(h, {0}) \subseteq PiecesSelected(h, 0, head)
  BY <1>2, <1>4, SelectedHolds
<1>6. Holding(h, {length - 1}) \subseteq PiecesSelected(h, tail, length - 1)
  BY <1>2, <1>4, SelectedHolds
<1>7. HeadAndTail(h) \subseteq Nat
  BY <1>2, <1>3, SelectedArePieces
<1> QED BY <1>3, <1>5, <1>6, <1>7 DEF Holding, length

-----------------------------------------------------------------------------
(* Playback follows the stream server.                                         *)

PlaybackInv ==
  /\ PlaybackTypeOK
  /\ PlayheadIsUrgent

\* When something else is served, what was served is no longer alive.
LEMMA ServedNoMore ==
  ASSUME IInv, [Next]_vars, torrent # NoTorrent, torrent' # torrent
  PROVE  torrent \notin client'
<1> USE DEF IInv, TypeOK
<1>1. ASSUME NEW list \in Lists, Play(list) PROVE torrent \notin client'
  BY <1>1 DEF Play, Launch
<1>2. CASE PlayNothing \/ TornDown \/ Destroy
  BY <1>2 DEF PlayNothing, TornDown, Destroy
<1>3. CASE Abort
  BY <1>3 DEF Abort
<1>4. ASSUME NEW h \in Hash, RacerEnds(h) PROVE torrent \notin client'
  <2>1. phase = "racing"
    BY <1>4 DEF RacerEnds, RacerReady, RacerFails, RaceShape
  <2>2. torrent = NoTorrent
    BY <1>4, <2>1 DEF RacerEnds, RacerReady, RacerFails, ClientByPhase
  <2> QED BY <2>2
<1>5. CASE StallCheck
  BY <1>5 DEF StallCheck, GraceCheck, GoodCheck, BadCheck, Launch
<1>6. CASE UNCHANGED vars
  BY <1>6 DEF vars
<1> QED BY <1>1, <1>2, <1>3, <1>4, <1>5, <1>6 DEF Next

\* What follows a step of the stream server keeps the pieces waited for urgent.
LEMMA FollowPreserves ==
  ASSUME IInv, IInv', [Next]_vars, PlaybackInv, Follow
  PROVE  PlaybackInv'
<1>1. torrent \in Hash \cup {NoTorrent} /\ torrent' \in Hash \cup {NoTorrent}
  BY DEF IInv, TypeOK
<1>2. CASE torrent' = torrent
  <2>1. urgent' = urgent /\ response' \in {response, NoResponse}
    BY <1>2 DEF Follow
  <2>2. PlaybackTypeOK'
    BY <2>1 DEF PlaybackInv, PlaybackTypeOK
  <2>3. PlayheadIsUrgent'
    BY <1>2, <2>1 DEF PlaybackInv, PlayheadIsUrgent
  <2> QED BY <2>2, <2>3 DEF PlaybackInv
<1>3. CASE torrent' # torrent
  <2>1. response' = NoResponse
    <3>1. ASSUME response # NoResponse PROVE response.from \notin client'
      <4>1. response.from = torrent /\ torrent \in Hash
        BY <3>1 DEF PlaybackInv, PlaybackTypeOK, PlayheadIsUrgent, Response
      <4> QED BY <1>3, <4>1, ServedNoMore, NoTorrentAssumption
    <3> QED BY <3>1 DEF Follow
  <2>2. CASE torrent' = NoTorrent
    <3>1. urgent' = {}
      BY <1>3, <2>2 DEF Follow
    <3> QED BY <2>1, <2>2, <3>1 DEF PlaybackInv, PlaybackTypeOK, PlayheadIsUrgent
  <2>3. CASE torrent' # NoTorrent
    <3>1. urgent' = HeadAndTail(torrent') /\ torrent' \in Hash
      BY <1>1, <1>3, <2>3 DEF Follow
    <3>2. /\ urgent' \subseteq Nat
          /\ Holding(torrent', {0, MediaFile(torrent').length - 1}) \subseteq urgent'
      BY <3>1, HeadAndTailHoldsEnds
    <3> QED BY <2>1, <3>2 DEF PlaybackInv, PlaybackTypeOK, PlayheadIsUrgent
  <2> QED BY <2>2, <2>3
<1> QED BY <1>2, <1>3

\* So does a request for a range, and its end.
LEMMA PlaysPreserves ==
  ASSUME IInv, PlaybackInv, Plays
  PROVE  PlaybackInv'
<1>1. ASSUME NEW range \in Ranges, ReadRange(range) PROVE PlaybackInv'
  <2> DEFINE a == AnswerTo(torrent, range)
             total == MediaFile(torrent).length
             last == Least(total - 1, a.start + Window)
  <2>1. /\ torrent \in Hash
        /\ UNCHANGED vars
        /\ a.status # 416
        /\ urgent' = urgent \cup Playhead(torrent, a.start)
        /\ response' = [from |-> torrent, start |-> a.start, end |-> a.end]
    BY <1>1 DEF ReadRange, IInv, TypeOK
  <2>2. torrent' = torrent
    BY <2>1 DEF vars
  <2>3. total \in Nat \ {0} /\ Window \in Nat
    BY <2>1, MediaFileIsFile, WindowAssumption DEF File
  <2>4. a.start \in Nat /\ a.end \in Nat /\ a.start <= a.end /\ a.end <= total - 1
    <3> HIDE DEF total
    <3>1. CASE range = NoRange
      BY <2>1, <2>3, <3>1 DEF AnswerTo, Least, total
    <3>2. CASE range # NoRange
      <4>1. range.first \in Nat /\ range.last \in Nat \cup {NoLast}
        BY <3>2, RangesAssumption DEF RangeHeader
      <4> QED BY <2>1, <2>3, <3>2, <4>1, NoAssumption DEF AnswerTo, Least, total
    <3> QED BY <3>1, <3>2
  <2> HIDE DEF a, total
  <2>5. last \in Nat /\ a.start <= last
    BY <2>3, <2>4 DEF Least
  <2>6. Playhead(torrent, a.start) = PiecesSelected(torrent, a.start, last)
    BY DEF Playhead, total
  <2>7. a.start..Least(a.end, a.start + Window) \subseteq a.start..last
    BY <2>3, <2>4 DEF Least
  <2> HIDE DEF last
  <2>8. Holding(torrent, a.start..Least(a.end, a.start + Window)) \subseteq urgent'
    <3>1. Holding(torrent, a.start..Least(a.end, a.start + Window))
            \subseteq PiecesSelected(torrent, a.start, last)
      BY <2>1, <2>4, <2>5, <2>7, SelectedHolds
    <3> QED BY <2>1, <2>6, <3>1
  <2>9. urgent' \subseteq Nat
    BY <2>1, <2>4, <2>5, <2>6, SelectedArePieces DEF PlaybackInv, PlaybackTypeOK
  <2>10. response' \in Response
    BY <2>1, <2>4 DEF Response
  <2>11. PlayheadIsUrgent'
    BY <2>1, <2>2, <2>8 DEF PlayheadIsUrgent, PlaybackInv
  <2> QED BY <2>9, <2>10, <2>11 DEF PlaybackInv, PlaybackTypeOK
<1>2. CASE ReadEnds
  <2>1. UNCHANGED <<torrent, urgent>> /\ response' = NoResponse
    BY <1>2 DEF ReadEnds, vars
  <2> QED BY <2>1 DEF PlaybackInv, PlaybackTypeOK, PlayheadIsUrgent
<1> QED BY <1>1, <1>2 DEF Plays

-----------------------------------------------------------------------------
(* Requests and the play() calls they wait for.                                *)

\* A request that waits for a race waits for a play() call of its own.
EachWaitsForItsOwn ==
  \A r \in Request : stage[r] = "starting" =>
    /\ playOf[r] \in DOMAIN plays
    /\ plays[playOf[r]] = "pending"
    /\ \A q \in Request : stage[q] = "starting" /\ playOf[q] = playOf[r] => q = r

\* A play() call that has not settled has a request that waits for it.
PendingIsAwaited ==
  \A g \in DOMAIN plays : plays[g] = "pending" =>
    \E r \in Request : stage[r] = "starting" /\ playOf[r] = g

\* The status says that a request is in progress only while one is, or after one
\* that was over as soon as it had said so.
BusyIsTrue ==
  status \in {"ranking", "starting"} =>
    \/ \E r \in Request : stage[r] \in {"ranking", "starting"}
    \/ thrown /\ \E r \in Nameless : stage[r] = "done"

EngineInv ==
  /\ PlayerInv
  /\ PlaybackInv
  /\ EngineTypeOK
  /\ EachWaitsForItsOwn
  /\ PendingIsAwaited
  /\ BusyIsTrue

RequestsInv == EngineTypeOK /\ EachWaitsForItsOwn /\ PendingIsAwaited /\ BusyIsTrue

LEMMA EngineInitEstablishes == EngineInit => EngineInv
<1> SUFFICES ASSUME EngineInit PROVE EngineInv
  OBVIOUS
<1>1. PlayerInv
  BY InitImplements DEF EngineInit
<1>2. torrent = NoTorrent /\ plays = <<>>
  BY DEF EngineInit, Init
<1>3. PlaybackInv
  BY <1>2 DEF EngineInit, PlaybackInit, PlaybackInv, PlaybackTypeOK, PlayheadIsUrgent
<1>4. EngineTypeOK
  <2>1. status \in Statuses /\ thrown \in BOOLEAN /\ requested \subseteq Request
    BY DEF EngineInit, Statuses
  <2>2. stage \in [Request -> Stages] /\ playOf \in [Request -> 0..MaxPlays]
    BY LimitsAssumption DEF EngineInit, Stages
  <2> QED BY <1>3, <2>1, <2>2 DEF EngineTypeOK, PlaybackInv
<1>5. EachWaitsForItsOwn /\ PendingIsAwaited /\ BusyIsTrue
  BY <1>2 DEF EngineInit, EachWaitsForItsOwn, PendingIsAwaited, BusyIsTrue
<1> QED BY <1>1, <1>3, <1>4, <1>5 DEF EngineInv

\* Which calls a step of the stream server settles: the one it races for.
LEMMA WhoIsSettled ==
  ASSUME PlayerInv, PlayerInv', TornDown \/ (\E h \in Hash : RacerEnds(h)) \/ StallCheck
  PROVE  /\ DOMAIN plays' = DOMAIN plays
         /\ \A g \in DOMAIN plays :
              /\ plays[g] # "pending" => plays'[g] = plays[g]
              /\ plays'[g] # plays[g] => g = caller /\ plays[g] = "pending"
              /\ plays'[g] # plays[g] => plays'[g] # "pending"
<1>1. plays \in Seq(Outcome) /\ caller \in Nat
  BY DEF PlayerInv, IInv, TypeOK
<1>2. ASSUME NEW outcome \in Outcome \ {"pending"}, phase # "idle",
             plays' = Settle(caller, outcome)
      PROVE  /\ DOMAIN plays' = DOMAIN plays
             /\ \A g \in DOMAIN plays :
                  /\ plays[g] # "pending" => plays'[g] = plays[g]
                  /\ plays'[g] # plays[g] => g = caller /\ plays[g] = "pending"
                  /\ plays'[g] # plays[g] => plays'[g] # "pending"
  <2>1. DOMAIN plays' = DOMAIN plays /\ \A g \in DOMAIN plays : plays'[g] # "pending"
    BY <1>1, <1>2, ToldOnce DEF PlayerInv
  <2>2. \A g \in DOMAIN plays : g # caller => plays'[g] = plays[g]
    BY <1>2 DEF Settle
  <2>3. \A g \in DOMAIN plays : g = caller => plays[g] = "pending"
    BY <1>2 DEF PlayerInv, OneWaits
  <2> QED BY <2>1, <2>2, <2>3
<1>3. CASE plays' = plays
  BY <1>3
<1>4. ASSUME NEW h \in Hash, RacerEnds(h) PROVE phase # "idle"
  BY <1>4 DEF RacerEnds, RacerReady, RacerFails, PlayerInv, IInv, RaceShape
<1>5. ASSUME NEW h \in Hash, RacerEnds(h), plays' # plays
      PROVE  \E outcome \in Outcome \ {"pending"} : plays' = Settle(caller, outcome)
  BY <1>5 DEF RacerEnds, RacerReady, RacerFails, Outcome
<1>6. CASE TornDown \/ StallCheck
  <2>1. plays' = plays
    BY <1>6 DEF TornDown, StallCheck, GraceCheck, GoodCheck, BadCheck, Launch
  <2> QED BY <1>3, <2>1
<1> QED BY <1>2, <1>3, <1>4, <1>5, <1>6

\* The stream server's steps, with what the request they settle does.
LEMMA ContinuesPreserves ==
  ASSUME PlayerInv, PlayerInv', RequestsInv, Continues, PlaybackTypeOK',
         TornDown \/ (\E h \in Hash : RacerEnds(h)) \/ StallCheck
  PROVE  RequestsInv'
<1> USE DEF RequestsInv
<1>1. /\ DOMAIN plays' = DOMAIN plays
      /\ \A g \in DOMAIN plays :
           /\ plays[g] # "pending" => plays'[g] = plays[g]
           /\ plays'[g] # plays[g] => g = caller /\ plays[g] = "pending"
           /\ plays'[g] # plays[g] => plays'[g] # "pending"
  BY WhoIsSettled
<1>2. CASE plays' = plays /\ UNCHANGED engine
  BY <1>2 DEF engine, EngineTypeOK, EachWaitsForItsOwn, PendingIsAwaited, BusyIsTrue
<1>3. ASSUME NEW r \in Request,
             stage[r] = "starting",
             plays'[playOf[r]] # plays[playOf[r]],
             stage' = [stage EXCEPT ![r] = "done"],
             Writes(Reported(r)),
             UNCHANGED <<requested, playOf>>
      PROVE  RequestsInv'
  <2>1. status' \in {"playing", "error"} /\ thrown' = FALSE
    BY <1>3 DEF Reported, Writes
  <2>2. EngineTypeOK'
    BY <1>3, <2>1 DEF EngineTypeOK, Statuses, Stages
  <2>3. playOf[r] = caller /\ playOf[r] \in DOMAIN plays
    BY <1>1, <1>3 DEF EachWaitsForItsOwn
  <2>4. \A q \in Request : stage'[q] = "starting" <=> stage[q] = "starting" /\ q # r
    BY <1>3 DEF EngineTypeOK
  <2>5. EachWaitsForItsOwn'
    <3>1. ASSUME NEW q \in Request, stage[q] = "starting", q # r
          PROVE  playOf[q] \in DOMAIN plays' /\ plays'[playOf[q]] = "pending"
      <4>1. playOf[q] \in DOMAIN plays /\ plays[playOf[q]] = "pending" /\ playOf[q] # caller
        BY <1>3, <2>3, <3>1 DEF EachWaitsForItsOwn
      <4> QED BY <1>1, <4>1
    <3> QED BY <1>3, <2>4, <3>1 DEF EachWaitsForItsOwn
  <2>6. PendingIsAwaited'
    <3>1. ASSUME NEW g \in DOMAIN plays, plays'[g] = "pending"
          PROVE  plays[g] = "pending" /\ g # playOf[r]
      BY <1>1, <1>3, <2>3, <3>1
    <3> QED BY <1>1, <1>3, <2>4, <3>1 DEF PendingIsAwaited
  <2>7. BusyIsTrue'
    BY <2>1 DEF BusyIsTrue
  <2> QED BY <2>2, <2>5, <2>6, <2>7
<1> QED BY <1>2, <1>3 DEF Continues

\* A request that is handed to the stream server.
LEMMA StartPreserves ==
  ASSUME PlayerInv, PlayerInv', RequestsInv, PlaybackTypeOK', NEW r \in Request, Start(r)
  PROVE  RequestsInv'
<1> USE DEF RequestsInv
<1>1. plays \in Seq(Outcome) /\ Len(plays') <= MaxPlays /\ plays' \in Seq(Outcome)
  BY DEF PlayerInv, IInv, TypeOK
<1>2. stage[r] = "ranking" /\ stage \in [Request -> Stages]
  BY DEF Start, EngineTypeOK
<1>3. PICK list \in RankedLists[r] : Play(list)
  BY DEF Start
<1>4. \E outcome \in Outcome :
        plays' = Append(plays, outcome) /\ outcome = plays'[Len(plays')]
  <2>1. CASE plays' = Append(plays, "dropped")
    BY <1>1, <2>1 DEF Outcome
  <2>2. CASE plays' = Append(plays, "pending")
    BY <1>1, <2>2 DEF Outcome
  <2>3. CASE plays' = [Append(plays, "pending") EXCEPT ![Len(plays) + 1] = "exhausted"]
    <3>1. plays' = Append(plays, "exhausted")
      BY <1>1, <2>3, ExhaustedAtOnce
    <3> QED BY <1>1, <3>1 DEF Outcome
  <2> QED BY <1>3, <2>1, <2>2, <2>3 DEF Play, Launch
<1>5. /\ Len(plays') = Len(plays) + 1
      /\ DOMAIN plays' = DOMAIN plays \cup {Len(plays')}
      /\ Len(plays') \notin DOMAIN plays
      /\ \A g \in DOMAIN plays : plays'[g] = plays[g]
  BY <1>1, <1>4
<1>6. playOf' = [playOf EXCEPT ![r] = Len(plays')] /\ UNCHANGED requested
  BY DEF Start
<1>7. Len(plays') \in 0..MaxPlays
  BY <1>1, LimitsAssumption
<1>8. CASE /\ plays'[Len(plays')] = "pending"
           /\ stage' = [stage EXCEPT ![r] = "starting"]
           /\ Writes("starting")
  <2>1. EngineTypeOK'
    BY <1>6, <1>7, <1>8 DEF EngineTypeOK, Statuses, Stages, Writes
  <2>2. \A q \in Request : q # r => stage'[q] = stage[q] /\ playOf'[q] = playOf[q]
    BY <1>6, <1>8 DEF EngineTypeOK
  <2>3. stage'[r] = "starting" /\ playOf'[r] = Len(plays')
    BY <1>2, <1>6, <1>8 DEF EngineTypeOK
  <2>4. EachWaitsForItsOwn'
    BY <1>5, <1>8, <2>2, <2>3 DEF EachWaitsForItsOwn
  <2>5. PendingIsAwaited'
    BY <1>2, <1>5, <2>2, <2>3 DEF PendingIsAwaited
  <2>6. BusyIsTrue'
    BY <2>3 DEF BusyIsTrue
  <2> QED BY <2>1, <2>4, <2>5, <2>6
<1>9. CASE /\ plays'[Len(plays')] = "dropped"
           /\ stage' = [stage EXCEPT ![r] = "done"]
           /\ Writes("playing")
  <2>1. EngineTypeOK'
    BY <1>6, <1>7, <1>9 DEF EngineTypeOK, Statuses, Stages, Writes
  <2>2. \A q \in Request : q # r => stage'[q] = stage[q] /\ playOf'[q] = playOf[q]
    BY <1>6, <1>9 DEF EngineTypeOK
  <2>3. stage'[r] = "done"
    BY <1>2, <1>9 DEF EngineTypeOK
  <2>4. EachWaitsForItsOwn'
    BY <1>5, <2>2, <2>3 DEF EachWaitsForItsOwn
  <2>5. PendingIsAwaited'
    BY <1>2, <1>5, <1>9, <2>2 DEF PendingIsAwaited
  <2>6. BusyIsTrue'
    BY <1>9 DEF BusyIsTrue, Writes
  <2> QED BY <2>1, <2>4, <2>5, <2>6
<1> QED BY <1>8, <1>9 DEF Start

\* A step that leaves the stream server alone, or shuts it down.
LEMMA ElsePreserves ==
  ASSUME RequestsInv, PlaybackTypeOK', plays' = plays,
         \/ UNCHANGED engine
         \/ \E r \in Request : Accept(r) \/ Throws(r) \/ RankingFails(r)
  PROVE  RequestsInv'
<1> USE DEF RequestsInv
<1>1. CASE UNCHANGED engine
  BY <1>1 DEF engine, EngineTypeOK, EachWaitsForItsOwn, PendingIsAwaited, BusyIsTrue
<1>2. ASSUME NEW r \in Request, Accept(r) PROVE RequestsInv'
  <2>1. /\ stage[r] = "new" /\ stage' = [stage EXCEPT ![r] = "ranking"]
        /\ status' = "ranking" /\ thrown' = FALSE /\ requested' = {r} /\ playOf' = playOf
    BY <1>2 DEF Accept, Writes
  <2>2. EngineTypeOK'
    BY <2>1 DEF EngineTypeOK, Statuses, Stages
  <2>3. /\ \A q \in Request : stage'[q] = "starting" <=> stage[q] = "starting"
        /\ stage'[r] = "ranking"
    BY <2>1 DEF EngineTypeOK
  <2> QED BY <2>1, <2>2, <2>3 DEF EachWaitsForItsOwn, PendingIsAwaited, BusyIsTrue
<1>3. ASSUME NEW r \in Request, RankingFails(r) PROVE RequestsInv'
  <2>1. /\ stage[r] = "ranking" /\ stage' = [stage EXCEPT ![r] = "done"]
        /\ status' = "error" /\ thrown' = FALSE /\ requested' = requested /\ playOf' = playOf
    BY <1>3 DEF RankingFails, Writes
  <2>2. EngineTypeOK'
    BY <2>1 DEF EngineTypeOK, Statuses, Stages
  <2>3. \A q \in Request : stage'[q] = "starting" <=> stage[q] = "starting"
    BY <2>1 DEF EngineTypeOK
  <2> QED BY <2>1, <2>2, <2>3 DEF EachWaitsForItsOwn, PendingIsAwaited, BusyIsTrue
<1>4. ASSUME NEW r \in Request, Throws(r) PROVE RequestsInv'
  <2>1. /\ r \in Nameless /\ stage[r] = "new" /\ stage' = [stage EXCEPT ![r] = "done"]
        /\ status' = "ranking" /\ thrown' = TRUE /\ requested' = requested /\ playOf' = playOf
    BY <1>4 DEF Throws
  <2>2. EngineTypeOK'
    BY <2>1 DEF EngineTypeOK, Statuses, Stages
  <2>3. /\ \A q \in Request : stage'[q] = "starting" <=> stage[q] = "starting"
        /\ stage'[r] = "done"
    BY <2>1 DEF EngineTypeOK
  <2> QED BY <2>1, <2>2, <2>3 DEF EachWaitsForItsOwn, PendingIsAwaited, BusyIsTrue
<1> QED BY <1>1, <1>2, <1>3, <1>4
-----------------------------------------------------------------------------
(* Every step keeps the invariant.                                             *)

LEMMA EngineStepPreserves == EngineInv /\ [EngineNext]_allVars => EngineInv'
<1> SUFFICES ASSUME EngineInv, [EngineNext]_allVars PROVE EngineInv'
  OBVIOUS
<1>1. [Next]_vars
  BY StreamStep
<1>2. PlayerInv /\ IInv /\ PlayerInv' /\ IInv'
  BY <1>1, StepImplements DEF EngineInv, PlayerInv
<1>3. PlaybackInv /\ RequestsInv
  BY DEF EngineInv, RequestsInv
<1>4. ASSUME PlaybackInv', RequestsInv' PROVE EngineInv'
  BY <1>2, <1>4 DEF EngineInv, RequestsInv
<1>5. ASSUME Follow PROVE PlaybackInv'
  BY <1>1, <1>2, <1>3, <1>5, FollowPreserves
<1>6. ASSUME UNCHANGED <<vars, playback>> PROVE PlaybackInv' /\ plays' = plays
  BY <1>3, <1>6 DEF PlaybackInv, PlaybackTypeOK, PlayheadIsUrgent, vars, playback
<1>7. PlaybackInv' => PlaybackTypeOK'
  BY DEF PlaybackInv
<1>8. ASSUME NEW r \in Request, Start(r) PROVE EngineInv'
  <2>1. PlaybackInv'
    BY <1>5, <1>8 DEF Start
  <2>2. RequestsInv'
    BY <1>2, <1>3, <1>7, <1>8, <2>1, StartPreserves
  <2> QED BY <1>4, <2>1, <2>2
<1>9. ASSUME NEW r \in Request, Accept(r) \/ Throws(r) \/ RankingFails(r) PROVE EngineInv'
  <2>1. PlaybackInv' /\ plays' = plays
    BY <1>6, <1>9 DEF Accept, Throws, RankingFails
  <2>2. RequestsInv'
    BY <1>3, <1>7, <1>9, <2>1, ElsePreserves
  <2> QED BY <1>4, <2>1, <2>2
<1>10. CASE Tears \/ (\E h \in Hash : Races(h)) \/ Watches
  <2>1. Continues /\ (TornDown \/ (\E h \in Hash : RacerEnds(h)) \/ StallCheck)
    BY <1>10 DEF Tears, Races, Watches
  <2>2. PlaybackInv'
    BY <1>5, <2>1 DEF Continues
  <2>3. RequestsInv'
    BY <1>2, <1>3, <1>7, <2>1, <2>2, ContinuesPreserves
  <2> QED BY <1>4, <2>2, <2>3
<1>11. CASE Streaming
  <2>1. PlaybackInv'
    BY <1>2, <1>3, <1>11, PlaysPreserves DEF Streaming
  <2>2. plays' = plays /\ UNCHANGED engine
    BY <1>11 DEF Streaming, Plays, ReadRange, ReadEnds, vars
  <2>3. RequestsInv'
    BY <1>3, <1>7, <2>1, <2>2, ElsePreserves
  <2> QED BY <1>4, <2>1, <2>3
<1>12. CASE Shutdown
  <2>1. PlaybackInv'
    BY <1>5, <1>12 DEF Shutdown
  <2>2. plays' = plays /\ UNCHANGED engine
    BY <1>12 DEF Shutdown, Destroy
  <2>3. RequestsInv'
    BY <1>3, <1>7, <2>1, <2>2, ElsePreserves
  <2> QED BY <1>4, <2>1, <2>3
<1>13. CASE UNCHANGED allVars
  <2>1. PlaybackInv' /\ plays' = plays /\ UNCHANGED engine
    BY <1>6, <1>13 DEF allVars
  <2>2. RequestsInv'
    BY <1>3, <1>7, <2>1, ElsePreserves
  <2> QED BY <1>4, <2>1, <2>2
<1> QED BY <1>8, <1>9, <1>10, <1>11, <1>12, <1>13 DEF EngineNext

THEOREM EngineInvariance == EngineSpec => []EngineInv
BY EngineInitEstablishes, EngineStepPreserves, PTL DEF EngineSpec

\* Every variable of the engine keeps its type.
THEOREM EngineTypeCorrect == EngineSpec => []EngineTypeOK
<1>1. EngineInv => EngineTypeOK
  BY DEF EngineInv
<1> QED BY <1>1, EngineInvariance, PTL

\* However many POST /v1/play requests overlap, an engine with none in progress
\* says so: no interleaving of their awaits leaves `ranking` or `starting` as
\* the last word of GET /v1/status. What does is a request with a candidate that
\* is null, and only one that nobody has written after.
THEOREM EngineStatusSettles == EngineSpec => []SettledStatus
<1>1. EngineInv => SettledStatus
  <2> SUFFICES ASSUME EngineInv, \A r \in Request : stage[r] \in {"new", "done"}
               PROVE  \/ status \in {"idle", "playing", "error"}
                      \/ thrown /\ \E r \in Nameless : stage[r] = "done"
    BY DEF SettledStatus
  <2> QED BY DEF EngineInv, BusyIsTrue, EngineTypeOK, Statuses
<1> QED BY <1>1, EngineInvariance, PTL

\* No request hangs on a play() call that is not its own or that is over, and no
\* race runs for a call nobody waits for.
THEOREM PlaysAreAwaited == EngineSpec => [](EachWaitsForItsOwn /\ PendingIsAwaited)
<1>1. EngineInv => EachWaitsForItsOwn /\ PendingIsAwaited
  BY DEF EngineInv
<1> QED BY <1>1, EngineInvariance, PTL

\* GET /v1/stream answers any range of any file with exactly the bytes it names
\* that the file has.
THEOREM RangesAreHonoured == EngineSpec => []RangesHonoured
<1>1. EngineInv => RangesHonoured
  <2> SUFFICES ASSUME EngineInv, torrent # NoTorrent, NEW range \in Ranges
               PROVE  LET a == AnswerTo(torrent, range)
                      IN IF a.status = 416 THEN Requested(torrent, range) = {}
                         ELSE a.start..a.end = Requested(torrent, range)
    BY DEF RangesHonoured
  <2>1. torrent \in Hash
    BY DEF EngineInv, PlayerInv, IInv, TypeOK
  <2> QED BY <2>1, AnswerIsRequested
<1> QED BY <1>1, EngineInvariance, PTL

\* Across races, failovers and teardowns, and wherever the file begins within
\* its first piece, the pieces a player waits for are critical on the torrent
\* that is served.
THEOREM PlayheadStaysUrgent == EngineSpec => []PlayheadIsUrgent
<1>1. EngineInv => PlayheadIsUrgent
  BY DEF EngineInv, PlaybackInv
<1> QED BY <1>1, EngineInvariance, PTL
-----------------------------------------------------------------------------
(* Nobody waits for nothing.                                                   *)

\* The first position that is left is raced.
LEMMA SomebodyIsRaced ==
  ASSUME NEW list \in Seq(Listed), NEW out, Eligible(list, out) # {}
  PROVE  Racers(list, out) # {}
<1> DEFINE left == Eligible(list, out)
<1>1. left \subseteq Nat /\ left # {}
  BY UsablePositions
<1>2. PICK i \in left : \A j \in left : i <= j
  <2> HIDE DEF left
  <2> QED BY <1>1, LeastMember
<1>3. {j \in left : j <= i} = {i}
  <2>1. \A j \in left : j <= i <=> j = i
    <3> HIDE DEF left
    <3> QED BY <1>1, <1>2
  <2> QED BY <2>1
<1>4. Cardinality({j \in left : j <= i}) <= MaxRacers
  <2>1. Cardinality({i}) = 1
    BY FS_Singleton
  <2>2. 1 <= MaxRacers
    BY LimitsAssumption
  <2> QED BY <1>3, <2>1, <2>2
<1> QED BY <1>4 DEF Racers

\* An advance has a line-up, and a race has a racer that is still to end.
RaceIsAlive ==
  /\ phase # "idle" => racers # {}
  /\ phase = "racing" => racing # {}

\* A launch has somebody to race, or ends at once.
LEMMA LaunchRaces ==
  ASSUME RaceIsAlive, phase = "idle", NEW list \in Seq(Listed), NEW out, NEW calls, NEW who,
         Launch(who, list, out, calls)
  PROVE  RaceIsAlive'
<1>1. CASE Eligible(list, out) = {}
  BY <1>1 DEF Launch, RaceIsAlive
<1>2. CASE Eligible(list, out) # {}
  <2>1. Racers(list, out) # {}
    BY <1>2, SomebodyIsRaced
  <2>2. racers' = Racers(list, out) /\ (phase' = "racing" => racing' = Racers(list, out))
    BY <1>2 DEF Launch
  <2> QED BY <2>1, <2>2 DEF RaceIsAlive
<1> QED BY <1>1, <1>2

LEMMA RaceIsAliveStep == IInv /\ RaceIsAlive /\ [Next]_vars => RaceIsAlive'
<1> SUFFICES ASSUME IInv, RaceIsAlive, [Next]_vars PROVE RaceIsAlive'
  OBVIOUS
<1>1. ASSUME NEW list \in Lists, Play(list) PROVE RaceIsAlive'
  <2>1. CASE phase = "idle" /\ Launch(Len(plays) + 1, list, {}, Append(plays, "pending"))
    BY <2>1, ListsAreTyped, LaunchRaces
  <2>2. CASE UNCHANGED <<phase, racers, racing>>
    BY <2>2 DEF RaceIsAlive
  <2> QED BY <1>1, <2>1, <2>2 DEF Play
<1>2. CASE BadCheck
  <2>1. phase = "idle" /\ ranked \in Seq(Listed)
    BY <1>2 DEF BadCheck, Watched, IInv, TypeOK
  <2>2. CASE Launch(0, ranked, excluded, plays)
    BY <2>1, <2>2, LaunchRaces
  <2>3. CASE UNCHANGED <<phase, racers, racing>>
    BY <2>3 DEF RaceIsAlive
  <2> QED BY <1>2, <2>2, <2>3 DEF BadCheck
<1>3. CASE TornDown
  BY <1>3 DEF TornDown, RaceIsAlive
<1>4. ASSUME NEW h \in Hash, RacerReady(h) PROVE RaceIsAlive'
  BY <1>4 DEF RacerReady, RaceIsAlive
<1>5. ASSUME NEW h \in Hash, RacerFails(h) PROVE RaceIsAlive'
  BY <1>5 DEF RacerFails, RaceIsAlive
<1>6. CASE PlayNothing \/ Abort \/ GraceCheck \/ GoodCheck \/ Destroy \/ UNCHANGED vars
  BY <1>6 DEF PlayNothing, Abort, GraceCheck, GoodCheck, Destroy, vars, RaceIsAlive
<1> QED BY <1>1, <1>2, <1>3, <1>4, <1>5, <1>6 DEF Next, RacerEnds, StallCheck

\* A request that waits for a race has one that goes on: the torrent before it is
\* being torn down, or a racer is still to be ready, to fail or to time out.
SomethingRaces ==
  \A r \in Request : stage[r] = "starting" =>
    /\ playOf[r] = caller
    /\ \/ phase = "teardown" /\ racers # {}
       \/ phase = "racing" /\ racing # {}

\* Whatever is aborted, fails over or is played in the meantime, the request whose
\* POST /v1/play awaits play() awaits the race that is on, and that race has
\* something left to end it.
THEOREM NobodyWaitsForNothing == EngineSpec => []SomethingRaces
<1>1. Spec => []RaceIsAlive
  <2>1. Init => RaceIsAlive
    BY DEF Init, RaceIsAlive
  <2> QED BY <2>1, RaceIsAliveStep, Invariance, PTL DEF Spec
<1>2. EngineInv /\ RaceIsAlive => SomethingRaces
  <2> SUFFICES ASSUME EngineInv, RaceIsAlive, NEW r \in Request, stage[r] = "starting"
               PROVE  /\ playOf[r] = caller
                      /\ \/ phase = "teardown" /\ racers # {}
                         \/ phase = "racing" /\ racing # {}
    BY DEF SomethingRaces
  <2>1. phase # "idle" /\ playOf[r] = caller
    BY DEF EngineInv, EachWaitsForItsOwn, PlayerInv, OneWaits
  <2>2. phase \in Phases
    BY DEF EngineInv, PlayerInv, IInv, TypeOK
  <2> QED BY <2>1, <2>2 DEF Phases, RaceIsAlive
<1> QED BY <1>1, <1>2, EngineRunsStream, EngineInvariance, PTL
=============================================================================
