----------------------------- MODULE CrawlerProofs -----------------------------
(* Theorems about the filter, for every set of rules and every text: what its   *)
(* expressions match is what its rules denote. And about the crawler, for every *)
(* set of nodes, hashes, workers and metadata: its queues keep their bounds,    *)
(* its index names nothing banned and no hit is lost.                           *)
EXTENDS Crawler, FiniteSetTheorems, WellFoundedInduction, TLAPS

(* Folds over a sequence, by least counterexample.                             *)

\* A set of naturals with a member has a least one.
LEMMA LeastMember ==
  ASSUME NEW S, S \subseteq Nat, S # {}
  PROVE  \E x \in S : \A y \in S : x <= y
<1> DEFINE R == OpToRel(<, Nat)
<1>1. IsWellFoundedOn(R, Nat)
  BY NatLessThanWellFounded
<1>2. \A p, q \in Nat : <<p, q>> \in R <=> p < q
  BY DEF OpToRel
<1> HIDE DEF R
<1>3. PICK x \in S : \A y \in S : ~(<<y, x>> \in R)
  BY <1>1, WFMin
<1>4. ASSUME NEW y \in S PROVE x <= y
  <2>1. x \in Nat /\ y \in Nat
    OBVIOUS
  <2>2. ~(y < x)
    BY <1>2, <1>3, <2>1
  <2> QED BY <2>1, <2>2
<1> QED BY <1>4

\* What holds of 0 and is handed on from one number to the next holds up to n.
LEMMA HandedOn ==
  ASSUME NEW n \in Nat, NEW A, 0 \in A, \A i \in 1..n : i - 1 \in A => i \in A
  PROVE  \A i \in 0..n : i \in A
<1> SUFFICES ASSUME NEW j \in 0..n, j \notin A PROVE FALSE
  OBVIOUS
<1> DEFINE Out == {i \in 0..n : i \notin A}
<1>0. Out \subseteq Nat /\ j \in Out
  OBVIOUS
<1>1. PICK x \in Out : \A y \in Out : x <= y
  <2> HIDE DEF Out
  <2> QED BY <1>0, LeastMember
<1>2. x \in 1..n /\ x - 1 \in 0..n /\ x - 1 \notin Out
  BY <1>1
<1> QED BY <1>1, <1>2

\* The greatest of a prefix is its last.
LEMMA PrefixMax ==
  ASSUME NEW n \in Nat, NEW i \in 1..n
  PROVE  /\ Max(1..i) = i
         /\ 1..i \in SUBSET (1..n) /\ 1..i # {}
         /\ (1..i) \ {i} = 1..(i - 1)
<1>1. \A y \in 1..i : i >= y
  OBVIOUS
<1>2. \A x \in 1..i : (\A y \in 1..i : x >= y) => x = i
  OBVIOUS
<1>3. Max(1..i) = i
  BY <1>1, <1>2 DEF Max
<1> QED BY <1>3

\* A set of naturals up to n that holds n has n as its greatest.
LEMMA MaxOfTop ==
  ASSUME NEW n \in Nat, NEW s \in SUBSET (1..n), n \in s
  PROVE  Max(s) = n
<1>1. \A x \in s : (\A y \in s : x >= y) => x = n
  OBVIOUS
<1>2. \A y \in s : n >= y
  OBVIOUS
<1> QED BY <1>1, <1>2 DEF Max

\* A part of 1..n has a greatest member.
LEMMA MaxIsMember ==
  ASSUME NEW n \in Nat, NEW s \in SUBSET (1..n), s # {}
  PROVE  Max(s) \in s
<1> DEFINE Over == {y \in Nat : \A x \in s : x <= y}
<1>1. n \in Over
  OBVIOUS
<1>2. PICK m \in Over : \A y \in Over : m <= y
  BY <1>1, LeastMember
<1>3. m \in s
  <2> SUFFICES ASSUME m \notin s PROVE FALSE
    OBVIOUS
  <2>1. PICK x \in s : TRUE
    OBVIOUS
  <2>2. m \in Nat /\ x \in Nat /\ 1 <= x /\ x <= m
    BY <1>2
  <2>3. \A y \in s : y <= m - 1
    BY <1>2, <2>2
  <2>4. m - 1 \in Over
    BY <2>2, <2>3
  <2> QED BY <1>2, <2>2, <2>4
<1>4. \A y \in s : m >= y
  BY <1>2
<1> QED BY <1>3, <1>4 DEF Max

\* f folds the parts of seq by step, from the left.
Folds(f, step, base, seq) ==
  \A s \in SUBSET DOMAIN seq :
    f[s] = IF s = {} THEN base ELSE step[<<f[s \ {Max(s)}], seq[Max(s)]>>]

\* The recursion a fold is defined by has a solution.
LEMMA FoldExists ==
  ASSUME NEW S, NEW D, NEW seq \in Seq(D), NEW step \in [S \X D -> S], NEW base \in S
  PROVE  \E f \in [SUBSET DOMAIN seq -> S] : Folds(f, step, base, seq)
<1> DEFINE Solves(f, n) ==
      \A s \in SUBSET (1..n) :
        f[s] = IF s = {} THEN base ELSE step[<<f[s \ {Max(s)}], seq[Max(s)]>>]
<1> DEFINE A == {n \in 0..Len(seq) : \E f \in [SUBSET (1..n) -> S] : Solves(f, n)}
<1>1. Len(seq) \in Nat /\ DOMAIN seq = 1..Len(seq)
  OBVIOUS
<1>2. 0 \in A
  <2>1. Solves([s \in SUBSET (1..0) |-> base], 0)
    OBVIOUS
  <2>2. [s \in SUBSET (1..0) |-> base] \in [SUBSET (1..0) -> S]
    OBVIOUS
  <2> HIDE DEF Solves
  <2> QED BY <1>1, <2>1, <2>2
<1>3. ASSUME NEW n \in 1..Len(seq), n - 1 \in A PROVE n \in A
  <2>1. PICK f \in [SUBSET (1..(n - 1)) -> S] : Solves(f, n - 1)
    BY <1>3
  <2> DEFINE g == [s \in SUBSET (1..n) |->
                     IF n \in s THEN step[<<f[s \ {n}], seq[n]>>] ELSE f[s]]
  <2>2. seq[n] \in D
    BY <1>1
  <2>3. ASSUME NEW s \in SUBSET (1..n)
        PROVE  /\ s \ {n} \in SUBSET (1..(n - 1))
               /\ g[s \ {n}] = f[s \ {n}]
               /\ n \notin s => s \in SUBSET (1..(n - 1)) /\ g[s] = f[s]
    BY <1>1
  <2>4. g \in [SUBSET (1..n) -> S]
    BY <2>2, <2>3
  <2>5. ASSUME NEW s \in SUBSET (1..n)
        PROVE  g[s] = IF s = {} THEN base ELSE step[<<g[s \ {Max(s)}], seq[Max(s)]>>]
    <3>1. CASE n \in s
      <4>1. Max(s) = n
        BY <1>1, <3>1, MaxOfTop
      <4> QED BY <2>3, <3>1, <4>1
    <3>2. CASE n \notin s
      <4>1. s \in SUBSET (1..(n - 1)) /\ g[s] = f[s]
        BY <2>3, <3>2
      <4>2. f[s] = IF s = {} THEN base ELSE step[<<f[s \ {Max(s)}], seq[Max(s)]>>]
        BY <2>1, <4>1
      <4>3. g[s \ {Max(s)}] = f[s \ {Max(s)}]
        <5>1. s \ {Max(s)} \in SUBSET (1..n) /\ n \notin s \ {Max(s)}
          BY <3>2
        <5> QED BY <2>3, <5>1
      <4> QED BY <4>1, <4>2, <4>3
    <3> QED BY <3>1, <3>2
  <2>6. Solves(g, n)
    BY <2>5
  <2> HIDE DEF g, Solves
  <2> QED BY <2>4, <2>6
<1> HIDE DEF A
<1>4. Len(seq) \in A
  <2>1. \A n \in 1..Len(seq) : n - 1 \in A => n \in A
    BY <1>3
  <2>2. \A n \in 0..Len(seq) : n \in A
    BY <1>1, <1>2, <2>1, HandedOn
  <2> QED BY <1>1, <2>2
<1>5. PICK f \in [SUBSET (1..Len(seq)) -> S] : Solves(f, Len(seq))
  BY <1>4 DEF A
<1> QED BY <1>1, <1>5 DEF Folds

-----------------------------------------------------------------------------
(* The folds of the filter and of the crawler, step by step.                   *)

\* Matching a word goes through its tokens.
LEMMA WordUnrolls ==
  ASSUME NEW text \in Seq(Chars), NEW S \in SUBSET (1..(Len(text) + 1)), NEW word \in Seq(Token)
  PROVE  \E f \in [0..Len(word) -> SUBSET (1..(Len(text) + 1))] :
           /\ f[0] = S
           /\ \A i \in 1..Len(word) : f[i] = AfterToken(text, f[i - 1], word[i])
           /\ AfterWord(text, S, word) = f[Len(word)]
<1> DEFINE St == SUBSET (1..(Len(text) + 1))
<1> DEFINE step == [x \in St \X Token |-> AfterToken(text, x[1], x[2])]
<1> DEFINE it == CHOOSE f : f = [s \in SUBSET DOMAIN word |->
                    IF s = {} THEN S ELSE AfterToken(text, f[s \ {Max(s)}], word[Max(s)])]
<1> DEFINE f == [i \in 0..Len(word) |-> it[1..i]]
<1>1. /\ Len(word) \in Nat /\ DOMAIN word = 1..Len(word)
      /\ \A i \in 1..Len(word) : word[i] \in Token
  OBVIOUS
<1>2. S \in St /\ \A a \in St, e \in Token : AfterToken(text, a, e) \in St
  BY DEF AfterToken
<1>3. it = [s \in SUBSET DOMAIN word |->
              IF s = {} THEN S ELSE AfterToken(text, it[s \ {Max(s)}], word[Max(s)])]
  <2>0. S \in St /\ word \in Seq(Token)
    BY <1>2
  <2>1. step \in [St \X Token -> St]
    BY <1>2
  <2>2. \A a \in St, e \in Token : step[<<a, e>>] = AfterToken(text, a, e)
    OBVIOUS
  <2> HIDE DEF step, St
  <2>3. PICK g \in [SUBSET DOMAIN word -> St] : Folds(g, step, S, word)
    BY <2>0, <2>1, FoldExists
  <2>4. ASSUME NEW s \in SUBSET DOMAIN word, s # {}
        PROVE  step[<<g[s \ {Max(s)}], word[Max(s)]>>]
                 = AfterToken(text, g[s \ {Max(s)}], word[Max(s)])
    <3>1. Max(s) \in DOMAIN word
      BY <1>1, <2>4, MaxIsMember
    <3>2. g[s \ {Max(s)}] \in St /\ word[Max(s)] \in Token
      BY <1>1, <3>1
    <3> QED BY <2>2, <3>2
  <2>5. g = [s \in SUBSET DOMAIN word |->
               IF s = {} THEN S ELSE AfterToken(text, g[s \ {Max(s)}], word[Max(s)])]
    BY <2>3, <2>4 DEF Folds
  <2> QED BY <2>5
<1>4. AfterWord(text, S, word) = it[DOMAIN word]
  BY DEF AfterWord, FoldLeft, MapThenFoldSet
<1> HIDE DEF it
<1>5. f[0] = S
  BY <1>1, <1>3
<1>6. ASSUME NEW i \in 1..Len(word) PROVE f[i] = AfterToken(text, f[i - 1], word[i])
  <2>1. Max(1..i) = i /\ 1..i \in SUBSET DOMAIN word /\ 1..i # {} /\ (1..i) \ {i} = 1..(i - 1)
    BY <1>1, PrefixMax
  <2>2. it[1..i] = AfterToken(text, it[1..(i - 1)], word[i])
    BY <1>3, <2>1
  <2>3. f[i] = it[1..i] /\ f[i - 1] = it[1..(i - 1)]
    BY <1>1
  <2> QED BY <2>2, <2>3
<1>7. f \in [0..Len(word) -> St]
  <2> DEFINE A == {i \in 0..Len(word) : f[i] \in St}
  <2> HIDE DEF f, St
  <2>1. 0 \in A
    <3>1. 0 \in 0..Len(word)
      BY <1>1
    <3>2. f[0] \in St
      BY <1>2, <1>5
    <3> QED BY <3>1, <3>2
  <2>2. ASSUME NEW i \in 1..Len(word), i - 1 \in A PROVE i \in A
    <3>1. i \in 0..Len(word) /\ f[i - 1] \in St /\ word[i] \in Token
      BY <1>1, <2>2
    <3>2. AfterToken(text, f[i - 1], word[i]) \in St
      BY <1>2, <3>1
    <3>3. f[i] \in St
      BY <1>6, <3>2
    <3> QED BY <3>1, <3>3
  <2>3. \A i \in 0..Len(word) : i \in A
    <3> HIDE DEF A
    <3> QED BY <1>1, <2>1, <2>2, HandedOn
  <2> QED BY <2>3 DEF f
<1>8. AfterWord(text, S, word) = f[Len(word)]
  BY <1>1, <1>4
<1> HIDE DEF f, St
<1> QED BY <1>5, <1>6, <1>7, <1>8 DEF St

\* Matching a group from some positions ends at positions.
LEMMA GroupEnds ==
  ASSUME NEW text \in Seq(Chars), NEW S \in SUBSET (1..(Len(text) + 1)), NEW group \in Group
  PROVE  AfterGroup(text, S, group) \in SUBSET (1..(Len(text) + 1))
<1>1. ASSUME NEW word \in group.words
      PROVE  AfterWord(text, S, word) \in SUBSET (1..(Len(text) + 1))
  <2>1. word \in Seq(Token)
    BY DEF Group
  <2>2. PICK f \in [0..Len(word) -> SUBSET (1..(Len(text) + 1))] : AfterWord(text, S, word) = f[Len(word)]
    BY <2>1, WordUnrolls
  <2>3. Len(word) \in 0..Len(word)
    BY <2>1
  <2> QED BY <2>2, <2>3
<1> SUFFICES ASSUME NEW q \in AfterGroup(text, S, group) PROVE q \in 1..(Len(text) + 1)
  OBVIOUS
<1>2. q \in S \/ \E word \in group.words : q \in AfterWord(text, S, word)
  BY DEF AfterGroup, Group
<1> QED BY <1>1, <1>2

\* Matching an alternative goes through its groups.
LEMMA GroupsUnroll ==
  ASSUME NEW text \in Seq(Chars), NEW S \in SUBSET (1..(Len(text) + 1)), NEW groups \in Seq(Group)
  PROVE  \E f \in [0..Len(groups) -> SUBSET (1..(Len(text) + 1))] :
           /\ f[0] = S
           /\ \A i \in 1..Len(groups) : f[i] = AfterGroup(text, f[i - 1], groups[i])
           /\ AfterGroups(text, S, groups) = f[Len(groups)]
<1> DEFINE St == SUBSET (1..(Len(text) + 1))
<1> DEFINE step == [x \in St \X Group |-> AfterGroup(text, x[1], x[2])]
<1> DEFINE it == CHOOSE f : f = [s \in SUBSET DOMAIN groups |->
                    IF s = {} THEN S ELSE AfterGroup(text, f[s \ {Max(s)}], groups[Max(s)])]
<1> DEFINE f == [i \in 0..Len(groups) |-> it[1..i]]
<1>1. /\ Len(groups) \in Nat /\ DOMAIN groups = 1..Len(groups)
      /\ \A i \in 1..Len(groups) : groups[i] \in Group
  OBVIOUS
<1>2. S \in St /\ \A a \in St, e \in Group : AfterGroup(text, a, e) \in St
  BY GroupEnds
<1>3. it = [s \in SUBSET DOMAIN groups |->
              IF s = {} THEN S ELSE AfterGroup(text, it[s \ {Max(s)}], groups[Max(s)])]
  <2>0. S \in St /\ groups \in Seq(Group)
    BY <1>2
  <2>1. step \in [St \X Group -> St]
    BY <1>2
  <2>2. \A a \in St, e \in Group : step[<<a, e>>] = AfterGroup(text, a, e)
    OBVIOUS
  <2> HIDE DEF step, St
  <2>3. PICK g \in [SUBSET DOMAIN groups -> St] : Folds(g, step, S, groups)
    BY <2>0, <2>1, FoldExists
  <2>4. ASSUME NEW s \in SUBSET DOMAIN groups, s # {}
        PROVE  step[<<g[s \ {Max(s)}], groups[Max(s)]>>]
                 = AfterGroup(text, g[s \ {Max(s)}], groups[Max(s)])
    <3>1. Max(s) \in DOMAIN groups
      BY <1>1, <2>4, MaxIsMember
    <3>2. g[s \ {Max(s)}] \in St /\ groups[Max(s)] \in Group
      BY <1>1, <3>1
    <3> QED BY <2>2, <3>2
  <2>5. g = [s \in SUBSET DOMAIN groups |->
               IF s = {} THEN S ELSE AfterGroup(text, g[s \ {Max(s)}], groups[Max(s)])]
    BY <2>3, <2>4 DEF Folds
  <2> QED BY <2>5
<1>4. AfterGroups(text, S, groups) = it[DOMAIN groups]
  BY DEF AfterGroups, FoldLeft, MapThenFoldSet
<1> HIDE DEF it
<1>5. f[0] = S
  BY <1>1, <1>3
<1>6. ASSUME NEW i \in 1..Len(groups) PROVE f[i] = AfterGroup(text, f[i - 1], groups[i])
  <2>1. Max(1..i) = i /\ 1..i \in SUBSET DOMAIN groups /\ 1..i # {} /\ (1..i) \ {i} = 1..(i - 1)
    BY <1>1, PrefixMax
  <2>2. it[1..i] = AfterGroup(text, it[1..(i - 1)], groups[i])
    BY <1>3, <2>1
  <2>3. f[i] = it[1..i] /\ f[i - 1] = it[1..(i - 1)]
    BY <1>1
  <2> QED BY <2>2, <2>3
<1>7. f \in [0..Len(groups) -> St]
  <2> DEFINE A == {i \in 0..Len(groups) : f[i] \in St}
  <2> HIDE DEF f, St
  <2>1. 0 \in A
    <3>1. 0 \in 0..Len(groups)
      BY <1>1
    <3>2. f[0] \in St
      BY <1>2, <1>5
    <3> QED BY <3>1, <3>2
  <2>2. ASSUME NEW i \in 1..Len(groups), i - 1 \in A PROVE i \in A
    <3>1. i \in 0..Len(groups) /\ f[i - 1] \in St /\ groups[i] \in Group
      BY <1>1, <2>2
    <3>2. AfterGroup(text, f[i - 1], groups[i]) \in St
      BY <1>2, <3>1
    <3>3. f[i] \in St
      BY <1>6, <3>2
    <3> QED BY <3>1, <3>3
  <2>3. \A i \in 0..Len(groups) : i \in A
    <3> HIDE DEF A
    <3> QED BY <1>1, <2>1, <2>2, HandedOn
  <2> QED BY <2>3 DEF f
<1>8. AfterGroups(text, S, groups) = f[Len(groups)]
  BY <1>1, <1>4
<1> HIDE DEF f, St
<1> QED BY <1>5, <1>6, <1>7, <1>8 DEF St

\* A function on 1..m is a sequence.
LEMMA FunctionsAreSeqs ==
  ASSUME NEW T, NEW m \in Nat, NEW f \in [1..m -> T]
  PROVE  f \in Seq(T) /\ Len(f) = m
OBVIOUS

\* What joining makes, and of what.
LEMMA JoinedMembers ==
  ASSUME NEW A, NEW B, NEW n, NEW ab
  PROVE  ab \in Joined(A, B, n) <=> Len(ab) <= n /\ \E a \in A, b \in B : ab = a \o b
BY DEF Joined

\* What rules spell out are texts.
LEMMA SpelledAreTexts ==
  ASSUME NEW n \in Nat
  PROVE  /\ \A token \in Token : Spelled(token, n) \in SUBSET Seq(Chars)
         /\ \A A, B \in SUBSET Seq(Chars) : Joined(A, B, n) \in SUBSET Seq(Chars)
<1>1. ASSUME NEW C \in SUBSET Chars, NEW m \in Nat PROVE Strings(C, m) \subseteq Seq(Chars)
  <2> SUFFICES ASSUME NEW j \in 0..m, NEW f \in [1..j -> C] PROVE f \in Seq(Chars)
    BY DEF Strings
  <2>1. f \in [1..j -> Chars] /\ j \in Nat
    OBVIOUS
  <2> QED BY <2>1, FunctionsAreSeqs
<1>2. ASSUME NEW token \in Token PROVE Spelled(token, n) \in SUBSET Seq(Chars)
  <2>1. ClassOf(token) \in SUBSET Chars /\ WordChars \in SUBSET Chars
    BY DEF ClassOf, Token, Chars, WordChars, NonWord
  <2>2. Strings(ClassOf(token), 1) \subseteq Seq(Chars)
        /\ Strings(ClassOf(token), n) \subseteq Seq(Chars)
        /\ Strings(WordChars, n) \subseteq Seq(Chars)
    BY <1>1, <2>1
  <2>3. [1..1 -> ClassOf(token)] \subseteq Seq(Chars)
    <3>1. \A f \in [1..1 -> ClassOf(token)] : f \in [1..1 -> Chars]
      BY <2>1
    <3> QED BY <3>1, FunctionsAreSeqs
  <2>4. token.kind \in {"char", "star", "digit", "gap"} /\ token.mark \in {"one", "opt", "plus"}
    BY DEF Token
  <2> QED BY <2>2, <2>3, <2>4 DEF Spelled
<1>3. ASSUME NEW A \in SUBSET Seq(Chars), NEW B \in SUBSET Seq(Chars)
      PROVE  Joined(A, B, n) \in SUBSET Seq(Chars)
  <2> SUFFICES ASSUME NEW ab \in Joined(A, B, n) PROVE ab \in Seq(Chars)
    OBVIOUS
  <2>1. PICK a \in A, b \in B : ab = a \o b
    BY JoinedMembers
  <2>2. a \in Seq(Chars) /\ b \in Seq(Chars)
    OBVIOUS
  <2> QED BY <2>1, <2>2
<1> QED BY <1>2, <1>3

\* What a word spells out goes through its tokens.
LEMMA SpellingUnrolls ==
  ASSUME NEW n \in Nat, NEW word \in Seq(Token)
  PROVE  \E f \in [0..Len(word) -> SUBSET Seq(Chars)] :
           /\ f[0] = {<<>>}
           /\ \A i \in 1..Len(word) : f[i] = Joined(f[i - 1], Spelled(word[i], n), n)
           /\ SpelledByWord(word, n) = f[Len(word)]
<1> DEFINE St == SUBSET Seq(Chars)
<1> DEFINE step == [x \in St \X Token |-> Joined(x[1], Spelled(x[2], n), n)]
<1> DEFINE it == CHOOSE f : f = [s \in SUBSET DOMAIN word |->
                    IF s = {} THEN {<<>>} ELSE Joined(f[s \ {Max(s)}], Spelled(word[Max(s)], n), n)]
<1> DEFINE f == [i \in 0..Len(word) |-> it[1..i]]
<1>1. /\ Len(word) \in Nat /\ DOMAIN word = 1..Len(word)
      /\ \A i \in 1..Len(word) : word[i] \in Token
  OBVIOUS
<1>2. {<<>>} \in St /\ \A a \in St, e \in Token : Joined(a, Spelled(e, n), n) \in St
  <2>1. <<>> \in Seq(Chars)
    OBVIOUS
  <2> QED BY <2>1, SpelledAreTexts
<1>3. it = [s \in SUBSET DOMAIN word |->
              IF s = {} THEN {<<>>} ELSE Joined(it[s \ {Max(s)}], Spelled(word[Max(s)], n), n)]
  <2>0. {<<>>} \in St /\ word \in Seq(Token)
    BY <1>2
  <2>1. step \in [St \X Token -> St]
    BY <1>2
  <2>2. \A a \in St, e \in Token : step[<<a, e>>] = Joined(a, Spelled(e, n), n)
    OBVIOUS
  <2> HIDE DEF step, St
  <2>3. PICK g \in [SUBSET DOMAIN word -> St] : Folds(g, step, {<<>>}, word)
    BY <2>0, <2>1, FoldExists
  <2>4. ASSUME NEW s \in SUBSET DOMAIN word, s # {}
        PROVE  step[<<g[s \ {Max(s)}], word[Max(s)]>>]
                 = Joined(g[s \ {Max(s)}], Spelled(word[Max(s)], n), n)
    <3>1. Max(s) \in DOMAIN word
      BY <1>1, <2>4, MaxIsMember
    <3>2. g[s \ {Max(s)}] \in St /\ word[Max(s)] \in Token
      BY <1>1, <3>1
    <3> QED BY <2>2, <3>2
  <2>5. g = [s \in SUBSET DOMAIN word |->
               IF s = {} THEN {<<>>} ELSE Joined(g[s \ {Max(s)}], Spelled(word[Max(s)], n), n)]
    BY <2>3, <2>4 DEF Folds
  <2> QED BY <2>5
<1>4. SpelledByWord(word, n) = it[DOMAIN word]
  BY DEF SpelledByWord, FoldLeft, MapThenFoldSet
<1> HIDE DEF it
<1>5. f[0] = {<<>>}
  BY <1>1, <1>3
<1>6. ASSUME NEW i \in 1..Len(word) PROVE f[i] = Joined(f[i - 1], Spelled(word[i], n), n)
  <2>1. Max(1..i) = i /\ 1..i \in SUBSET DOMAIN word /\ 1..i # {} /\ (1..i) \ {i} = 1..(i - 1)
    BY <1>1, PrefixMax
  <2>2. it[1..i] = Joined(it[1..(i - 1)], Spelled(word[i], n), n)
    BY <1>3, <2>1
  <2>3. f[i] = it[1..i] /\ f[i - 1] = it[1..(i - 1)]
    BY <1>1
  <2> QED BY <2>2, <2>3
<1>7. f \in [0..Len(word) -> St]
  <2> DEFINE A == {i \in 0..Len(word) : f[i] \in St}
  <2> HIDE DEF f, St
  <2>1. 0 \in A
    <3>1. 0 \in 0..Len(word)
      BY <1>1
    <3>2. f[0] \in St
      BY <1>2, <1>5
    <3> QED BY <3>1, <3>2
  <2>2. ASSUME NEW i \in 1..Len(word), i - 1 \in A PROVE i \in A
    <3>1. i \in 0..Len(word) /\ f[i - 1] \in St /\ word[i] \in Token
      BY <1>1, <2>2
    <3>2. Joined(f[i - 1], Spelled(word[i], n), n) \in St
      BY <1>2, <3>1
    <3>3. f[i] \in St
      BY <1>6, <3>2
    <3> QED BY <3>1, <3>3
  <2>3. \A i \in 0..Len(word) : i \in A
    <3> HIDE DEF A
    <3> QED BY <1>1, <2>1, <2>2, HandedOn
  <2> QED BY <2>3 DEF f
<1>8. SpelledByWord(word, n) = f[Len(word)]
  BY <1>1, <1>4
<1> HIDE DEF f, St
<1> QED BY <1>5, <1>6, <1>7, <1>8 DEF St

\* What a group spells out are texts.
LEMMA GroupSpellsTexts ==
  ASSUME NEW n \in Nat, NEW group \in Group
  PROVE  SpelledByGroup(group, n) \in SUBSET Seq(Chars)
<1>1. ASSUME NEW word \in group.words PROVE SpelledByWord(word, n) \in SUBSET Seq(Chars)
  <2>1. word \in Seq(Token)
    BY DEF Group
  <2>2. PICK f \in [0..Len(word) -> SUBSET Seq(Chars)] : SpelledByWord(word, n) = f[Len(word)]
    BY <2>1, SpellingUnrolls
  <2>3. Len(word) \in 0..Len(word)
    BY <2>1
  <2> QED BY <2>2, <2>3
<1>2. <<>> \in Seq(Chars)
  OBVIOUS
<1> SUFFICES ASSUME NEW t \in SpelledByGroup(group, n) PROVE t \in Seq(Chars)
  OBVIOUS
<1>3. t = <<>> \/ \E word \in group.words : t \in SpelledByWord(word, n)
  BY DEF SpelledByGroup, Group
<1> QED BY <1>1, <1>2, <1>3

\* What an alternative spells out goes through its groups.
LEMMA RulesUnroll ==
  ASSUME NEW n \in Nat, NEW groups \in Seq(Group)
  PROVE  \E f \in [0..Len(groups) -> SUBSET Seq(Chars)] :
           /\ f[0] = {<<>>}
           /\ \A i \in 1..Len(groups) : f[i] = Joined(f[i - 1], SpelledByGroup(groups[i], n), n)
           /\ SpelledBy(groups, n) = f[Len(groups)]
<1> DEFINE St == SUBSET Seq(Chars)
<1> DEFINE step == [x \in St \X Group |-> Joined(x[1], SpelledByGroup(x[2], n), n)]
<1> DEFINE it == CHOOSE f : f = [s \in SUBSET DOMAIN groups |->
                    IF s = {} THEN {<<>>} ELSE Joined(f[s \ {Max(s)}], SpelledByGroup(groups[Max(s)], n), n)]
<1> DEFINE f == [i \in 0..Len(groups) |-> it[1..i]]
<1>1. /\ Len(groups) \in Nat /\ DOMAIN groups = 1..Len(groups)
      /\ \A i \in 1..Len(groups) : groups[i] \in Group
  OBVIOUS
<1>2. {<<>>} \in St /\ \A a \in St, e \in Group : Joined(a, SpelledByGroup(e, n), n) \in St
  <2>1. <<>> \in Seq(Chars)
    OBVIOUS
  <2> QED BY <2>1, GroupSpellsTexts, SpelledAreTexts
<1>3. it = [s \in SUBSET DOMAIN groups |->
              IF s = {} THEN {<<>>} ELSE Joined(it[s \ {Max(s)}], SpelledByGroup(groups[Max(s)], n), n)]
  <2>0. {<<>>} \in St /\ groups \in Seq(Group)
    BY <1>2
  <2>1. step \in [St \X Group -> St]
    BY <1>2
  <2>2. \A a \in St, e \in Group : step[<<a, e>>] = Joined(a, SpelledByGroup(e, n), n)
    OBVIOUS
  <2> HIDE DEF step, St
  <2>3. PICK g \in [SUBSET DOMAIN groups -> St] : Folds(g, step, {<<>>}, groups)
    BY <2>0, <2>1, FoldExists
  <2>4. ASSUME NEW s \in SUBSET DOMAIN groups, s # {}
        PROVE  step[<<g[s \ {Max(s)}], groups[Max(s)]>>]
                 = Joined(g[s \ {Max(s)}], SpelledByGroup(groups[Max(s)], n), n)
    <3>1. Max(s) \in DOMAIN groups
      BY <1>1, <2>4, MaxIsMember
    <3>2. g[s \ {Max(s)}] \in St /\ groups[Max(s)] \in Group
      BY <1>1, <3>1
    <3> QED BY <2>2, <3>2
  <2>5. g = [s \in SUBSET DOMAIN groups |->
               IF s = {} THEN {<<>>} ELSE Joined(g[s \ {Max(s)}], SpelledByGroup(groups[Max(s)], n), n)]
    BY <2>3, <2>4 DEF Folds
  <2> QED BY <2>5
<1>4. SpelledBy(groups, n) = it[DOMAIN groups]
  BY DEF SpelledBy, FoldLeft, MapThenFoldSet
<1> HIDE DEF it
<1>5. f[0] = {<<>>}
  BY <1>1, <1>3
<1>6. ASSUME NEW i \in 1..Len(groups) PROVE f[i] = Joined(f[i - 1], SpelledByGroup(groups[i], n), n)
  <2>1. Max(1..i) = i /\ 1..i \in SUBSET DOMAIN groups /\ 1..i # {} /\ (1..i) \ {i} = 1..(i - 1)
    BY <1>1, PrefixMax
  <2>2. it[1..i] = Joined(it[1..(i - 1)], SpelledByGroup(groups[i], n), n)
    BY <1>3, <2>1
  <2>3. f[i] = it[1..i] /\ f[i - 1] = it[1..(i - 1)]
    BY <1>1
  <2> QED BY <2>2, <2>3
<1>7. f \in [0..Len(groups) -> St]
  <2> DEFINE A == {i \in 0..Len(groups) : f[i] \in St}
  <2> HIDE DEF f, St
  <2>1. 0 \in A
    <3>1. 0 \in 0..Len(groups)
      BY <1>1
    <3>2. f[0] \in St
      BY <1>2, <1>5
    <3> QED BY <3>1, <3>2
  <2>2. ASSUME NEW i \in 1..Len(groups), i - 1 \in A PROVE i \in A
    <3>1. i \in 0..Len(groups) /\ f[i - 1] \in St /\ groups[i] \in Group
      BY <1>1, <2>2
    <3>2. Joined(f[i - 1], SpelledByGroup(groups[i], n), n) \in St
      BY <1>2, <3>1
    <3>3. f[i] \in St
      BY <1>6, <3>2
    <3> QED BY <3>1, <3>3
  <2>3. \A i \in 0..Len(groups) : i \in A
    <3> HIDE DEF A
    <3> QED BY <1>1, <2>1, <2>2, HandedOn
  <2> QED BY <2>3 DEF f
<1>8. SpelledBy(groups, n) = f[Len(groups)]
  BY <1>1, <1>4
<1> HIDE DEF f, St
<1> QED BY <1>5, <1>6, <1>7, <1>8 DEF St

\* The subject is the name and the paths appended one by one.
LEMMA SubjectUnrolls ==
  ASSUME NEW name \in Seq(Chars), NEW paths \in Seq(Seq(Chars))
  PROVE  \E f \in [0..Len(paths) -> Seq(Chars)] :
           /\ f[0] = name
           /\ \A i \in 1..Len(paths) : f[i] = With(f[i - 1], paths[i])
           /\ FoldLeft(With, name, paths) = f[Len(paths)]
<1> DEFINE St == Seq(Chars)
<1> DEFINE step == [x \in St \X Seq(Chars) |-> With(x[1], x[2])]
<1> DEFINE it == CHOOSE f : f = [s \in SUBSET DOMAIN paths |->
                    IF s = {} THEN name ELSE With(f[s \ {Max(s)}], paths[Max(s)])]
<1> DEFINE f == [i \in 0..Len(paths) |-> it[1..i]]
<1>1. /\ Len(paths) \in Nat /\ DOMAIN paths = 1..Len(paths)
      /\ \A i \in 1..Len(paths) : paths[i] \in Seq(Chars)
  OBVIOUS
<1>2. name \in St /\ \A a \in St, e \in Seq(Chars) : With(a, e) \in St
  <2>1. Space \in Chars
    BY DEF Chars, Space
  <2>2. ASSUME NEW a \in Seq(Chars), NEW e \in Seq(Chars) PROVE With(a, e) \in Seq(Chars)
    <3>1. <<Space>> \in Seq(Chars)
      BY <2>1
    <3>2. a \o <<Space>> \in Seq(Chars)
      BY <3>1
    <3> QED BY <3>2 DEF With
  <2> QED BY <2>2
<1>3. it = [s \in SUBSET DOMAIN paths |->
              IF s = {} THEN name ELSE With(it[s \ {Max(s)}], paths[Max(s)])]
  <2>0. name \in St /\ paths \in Seq(Seq(Chars))
    BY <1>2
  <2>1. step \in [St \X Seq(Chars) -> St]
    BY <1>2
  <2>2. \A a \in St, e \in Seq(Chars) : step[<<a, e>>] = With(a, e)
    OBVIOUS
  <2> HIDE DEF step, St
  <2>3. PICK g \in [SUBSET DOMAIN paths -> St] : Folds(g, step, name, paths)
    BY <2>0, <2>1, FoldExists
  <2>4. ASSUME NEW s \in SUBSET DOMAIN paths, s # {}
        PROVE  step[<<g[s \ {Max(s)}], paths[Max(s)]>>]
                 = With(g[s \ {Max(s)}], paths[Max(s)])
    <3>1. Max(s) \in DOMAIN paths
      BY <1>1, <2>4, MaxIsMember
    <3>2. g[s \ {Max(s)}] \in St /\ paths[Max(s)] \in Seq(Chars)
      BY <1>1, <3>1
    <3> QED BY <2>2, <3>2
  <2>5. g = [s \in SUBSET DOMAIN paths |->
               IF s = {} THEN name ELSE With(g[s \ {Max(s)}], paths[Max(s)])]
    BY <2>3, <2>4 DEF Folds
  <2> QED BY <2>5
<1>4. FoldLeft(With, name, paths) = it[DOMAIN paths]
  BY DEF FoldLeft, MapThenFoldSet
<1> HIDE DEF it
<1>5. f[0] = name
  BY <1>1, <1>3
<1>6. ASSUME NEW i \in 1..Len(paths) PROVE f[i] = With(f[i - 1], paths[i])
  <2>1. Max(1..i) = i /\ 1..i \in SUBSET DOMAIN paths /\ 1..i # {} /\ (1..i) \ {i} = 1..(i - 1)
    BY <1>1, PrefixMax
  <2>2. it[1..i] = With(it[1..(i - 1)], paths[i])
    BY <1>3, <2>1
  <2>3. f[i] = it[1..i] /\ f[i - 1] = it[1..(i - 1)]
    BY <1>1
  <2> QED BY <2>2, <2>3
<1>7. f \in [0..Len(paths) -> St]
  <2> DEFINE A == {i \in 0..Len(paths) : f[i] \in St}
  <2> HIDE DEF f, St
  <2>1. 0 \in A
    <3>1. 0 \in 0..Len(paths)
      BY <1>1
    <3>2. f[0] \in St
      BY <1>2, <1>5
    <3> QED BY <3>1, <3>2
  <2>2. ASSUME NEW i \in 1..Len(paths), i - 1 \in A PROVE i \in A
    <3>1. i \in 0..Len(paths) /\ f[i - 1] \in St /\ paths[i] \in Seq(Chars)
      BY <1>1, <2>2
    <3>2. With(f[i - 1], paths[i]) \in St
      BY <1>2, <3>1
    <3>3. f[i] \in St
      BY <1>6, <3>2
    <3> QED BY <3>1, <3>3
  <2>3. \A i \in 0..Len(paths) : i \in A
    <3> HIDE DEF A
    <3> QED BY <1>1, <2>1, <2>2, HandedOn
  <2> QED BY <2>3 DEF f
<1>8. FoldLeft(With, name, paths) = f[Len(paths)]
  BY <1>1, <1>4
<1> HIDE DEF f, St
<1> QED BY <1>5, <1>6, <1>7, <1>8 DEF St

-----------------------------------------------------------------------------
(* Matching is spelling.                                                       *)

Positions(text) == 1..(Len(text) + 1)

\* The piece of the text from p up to but not including q.
Piece(text, p, q) == SubSeq(text, p, q - 1)

\* Where a piece that is one of the words W, and begins in S, ends.
Spans(text, S, W) ==
  {q \in Positions(text) : \E p \in S : p <= q /\ Piece(text, p, q) \in W}

\* A piece has its length and its characters.
LEMMA PieceIs ==
  ASSUME NEW text \in Seq(Chars), NEW p \in Positions(text), NEW q \in Positions(text), p <= q
  PROVE  /\ Piece(text, p, q) \in Seq(Chars)
         /\ Len(Piece(text, p, q)) = q - p
         /\ \A i \in 1..(q - p) : Piece(text, p, q)[i] = text[p + i - 1]
         /\ Piece(text, p, q) \in [1..(q - p) -> Chars]
<1>1. /\ p \in 1..(Len(text) + 1) /\ q - 1 \in 0..Len(text) /\ q - 1 - p + 1 = q - p
      /\ q \in Nat /\ p \in Nat /\ q - p \in Nat
  BY DEF Positions
<1>2. Piece(text, p, q) = [i \in 1..(q - p) |-> text[i + p - 1]]
  BY <1>1 DEF Piece
<1>3. ASSUME NEW i \in 1..(q - p) PROVE text[i + p - 1] \in Chars /\ i + p - 1 = p + i - 1
  BY <1>1
<1>4. Piece(text, p, q) \in [1..(q - p) -> Chars]
  BY <1>2, <1>3
<1>5. Piece(text, p, q) \in Seq(Chars) /\ Len(Piece(text, p, q)) = q - p
  BY <1>1, <1>4, FunctionsAreSeqs
<1> QED BY <1>2, <1>3, <1>4, <1>5

\* Texts of the same length and characters are the same.
LEMMA SameText ==
  ASSUME NEW s \in Seq(Chars), NEW t \in Seq(Chars), Len(s) = Len(t),
         \A i \in 1..Len(s) : s[i] = t[i]
  PROVE  s = t
OBVIOUS

\* What appending makes.
LEMMA AppendedIs ==
  ASSUME NEW a \in Seq(Chars), NEW b \in Seq(Chars)
  PROVE  /\ a \o b \in Seq(Chars) /\ Len(a \o b) = Len(a) + Len(b)
         /\ \A i \in 1..(Len(a) + Len(b)) :
              (a \o b)[i] = IF i <= Len(a) THEN a[i] ELSE b[i - Len(a)]
OBVIOUS

\* A piece is the two pieces it is cut into.
LEMMA PieceCut ==
  ASSUME NEW text \in Seq(Chars), NEW p \in Positions(text), NEW r \in Positions(text),
         NEW q \in Positions(text), p <= r, r <= q
  PROVE  Piece(text, p, q) = Piece(text, p, r) \o Piece(text, r, q)
<1> DEFINE s == Piece(text, p, q)  a == Piece(text, p, r)  b == Piece(text, r, q)
<1>1. /\ s \in Seq(Chars) /\ Len(s) = q - p /\ \A i \in 1..(q - p) : s[i] = text[p + i - 1]
      /\ a \in Seq(Chars) /\ Len(a) = r - p /\ \A i \in 1..(r - p) : a[i] = text[p + i - 1]
      /\ b \in Seq(Chars) /\ Len(b) = q - r /\ \A i \in 1..(q - r) : b[i] = text[r + i - 1]
  <2>1. p <= q
    BY DEF Positions
  <2> QED BY <2>1, PieceIs
<1>2. p \in Nat /\ q \in Nat /\ r \in Nat
  BY DEF Positions
<1> HIDE DEF s, a, b
<1>3. /\ a \o b \in Seq(Chars) /\ Len(a \o b) = Len(a) + Len(b)
      /\ \A i \in 1..(Len(a) + Len(b)) :
           (a \o b)[i] = IF i <= Len(a) THEN a[i] ELSE b[i - Len(a)]
  BY <1>1, AppendedIs
<1>4. ASSUME NEW i \in 1..(q - p) PROVE s[i] = (a \o b)[i]
  <2>1. CASE i <= r - p
    BY <1>1, <1>2, <1>3, <2>1
  <2>2. CASE ~(i <= r - p)
    <3>1. i - (r - p) \in 1..(q - r) /\ i \in 1..(Len(a) + Len(b))
      BY <1>1, <1>2, <2>2
    <3>2. (a \o b)[i] = b[i - (r - p)]
      BY <1>1, <1>3, <2>2, <3>1
    <3>3. b[i - (r - p)] = text[r + (i - (r - p)) - 1]
      BY <1>1, <3>1
    <3>4. r + (i - (r - p)) - 1 = p + i - 1
      BY <1>2
    <3> QED BY <1>1, <3>2, <3>3, <3>4
  <2> QED BY <2>1, <2>2
<1>5. Len(s) = Len(a \o b)
  BY <1>1, <1>2, <1>3
<1>6. s = a \o b
  BY <1>1, <1>3, <1>4, <1>5, SameText
<1> QED BY <1>6 DEF s, a, b

\* Two texts in one, for lemmas that need not know what that is.
Glued(a, b) == a \o b

\* A piece that is put together from two words is cut where the first ends.
LEMMA PieceUncut ==
  ASSUME NEW text \in Seq(Chars), NEW p \in Positions(text), NEW q \in Positions(text), p <= q,
         NEW a \in Seq(Chars), NEW b \in Seq(Chars),
         Piece(text, p, q) = Glued(a, b)
  PROVE  \E r \in Positions(text) :
           p <= r /\ r <= q /\ Piece(text, p, r) = a /\ Piece(text, r, q) = b
<1> DEFINE r == p + Len(a)
<1>1. p \in Nat /\ q \in Nat /\ Len(a) \in Nat /\ Len(b) \in Nat /\ Len(text) \in Nat /\ 1 <= p
      /\ q <= Len(text) + 1
  BY DEF Positions
<1>2. /\ Len(a \o b) = Len(a) + Len(b)
      /\ \A i \in 1..(Len(a) + Len(b)) :
           (a \o b)[i] = IF i <= Len(a) THEN a[i] ELSE b[i - Len(a)]
  BY AppendedIs
<1>3. Len(a) + Len(b) = q - p /\ \A i \in 1..(q - p) : (a \o b)[i] = text[p + i - 1]
  BY <1>2, PieceIs DEF Glued
<1>4. r \in Positions(text) /\ p <= r /\ r <= q
  BY <1>1, <1>3 DEF Positions
<1>5. Piece(text, p, r) = a
  <2>1. /\ Piece(text, p, r) \in Seq(Chars) /\ Len(Piece(text, p, r)) = r - p
        /\ \A i \in 1..(r - p) : Piece(text, p, r)[i] = text[p + i - 1]
    BY <1>4, PieceIs
  <2>2. r - p = Len(a)
    BY <1>1
  <2>3. ASSUME NEW i \in 1..Len(a) PROVE Piece(text, p, r)[i] = a[i]
    <3>1. i \in 1..(Len(a) + Len(b)) /\ i \in 1..(q - p) /\ i <= Len(a)
      BY <1>1, <1>3
    <3>2. (a \o b)[i] = a[i]
      BY <1>2, <3>1
    <3>3. (a \o b)[i] = text[p + i - 1]
      BY <1>3, <3>1
    <3> QED BY <2>1, <2>2, <3>2, <3>3
  <2> QED BY <2>1, <2>2, <2>3, SameText
<1>6. Piece(text, r, q) = b
  <2>1. /\ Piece(text, r, q) \in Seq(Chars) /\ Len(Piece(text, r, q)) = q - r
        /\ \A i \in 1..(q - r) : Piece(text, r, q)[i] = text[r + i - 1]
    BY <1>4, PieceIs
  <2>2. q - r = Len(b)
    BY <1>1, <1>3
  <2>3. ASSUME NEW i \in 1..Len(b) PROVE Piece(text, r, q)[i] = b[i]
    <3>1. i + Len(a) \in 1..(q - p) /\ ~(i + Len(a) <= Len(a)) /\ i + Len(a) - Len(a) = i
      BY <1>1, <1>3
    <3>2. (a \o b)[i + Len(a)] = b[i]
      BY <1>2, <1>3, <3>1
    <3>3. (a \o b)[i + Len(a)] = text[p + (i + Len(a)) - 1]
      BY <1>3, <3>1
    <3>4. p + (i + Len(a)) - 1 = r + i - 1
      BY <1>1
    <3> QED BY <2>1, <2>2, <3>2, <3>3, <3>4
  <2> QED BY <2>1, <2>2, <2>3, SameText
<1> QED BY <1>4, <1>5, <1>6

\* Going on from where one word ends is spelling both.
LEMMA SpansJoin ==
  ASSUME NEW text \in Seq(Chars), NEW S \in SUBSET Positions(text), NEW n \in Nat, n >= Len(text),
         NEW A \in SUBSET Seq(Chars), NEW B \in SUBSET Seq(Chars)
  PROVE  Spans(text, Spans(text, S, A), B) = Spans(text, S, Joined(A, B, n))
<1>1. ASSUME NEW q \in Spans(text, Spans(text, S, A), B)
      PROVE  q \in Spans(text, S, Joined(A, B, n))
  <2>1. PICK r \in Spans(text, S, A) : r <= q /\ Piece(text, r, q) \in B
    BY DEF Spans
  <2>2. PICK p \in S : p <= r /\ Piece(text, p, r) \in A
    BY DEF Spans
  <2>3. /\ q \in Positions(text) /\ r \in Positions(text) /\ p \in Positions(text)
    BY DEF Spans
  <2>4. p <= q /\ q - p <= n
    BY <2>1, <2>2, <2>3 DEF Positions
  <2>5. Len(Piece(text, p, q)) = q - p
    BY <2>3, <2>4, PieceIs
  <2>6. Piece(text, p, q) = Piece(text, p, r) \o Piece(text, r, q)
    BY <2>1, <2>2, <2>3, PieceCut
  <2>7. Piece(text, p, q) \in Joined(A, B, n)
    BY <2>1, <2>2, <2>4, <2>5, <2>6, JoinedMembers
  <2> QED BY <2>3, <2>4, <2>7 DEF Spans
<1>2. ASSUME NEW q \in Spans(text, S, Joined(A, B, n))
      PROVE  q \in Spans(text, Spans(text, S, A), B)
  <2>1. PICK p \in S : p <= q /\ Piece(text, p, q) \in Joined(A, B, n)
    BY DEF Spans
  <2>2. PICK a \in A, b \in B : Piece(text, p, q) = Glued(a, b)
    <3> DEFINE t == Piece(text, p, q)
    <3>1. t \in Joined(A, B, n)
      BY <2>1
    <3> HIDE DEF t
    <3>2. \E a \in A, b \in B : t = a \o b
      BY <3>1, JoinedMembers
    <3>3. \E a \in A, b \in B : t = Glued(a, b)
      BY <3>2 DEF Glued
    <3> QED BY <3>3 DEF t
  <2>3. q \in Positions(text) /\ p \in Positions(text) /\ a \in Seq(Chars) /\ b \in Seq(Chars)
    BY DEF Spans
  <2>4. PICK r \in Positions(text) :
          p <= r /\ r <= q /\ Piece(text, p, r) = a /\ Piece(text, r, q) = b
    <3>1. p <= q
      BY <2>1
    <3> QED BY <2>2, <2>3, <3>1, PieceUncut
  <2>5. r \in Spans(text, S, A)
    BY <2>4 DEF Spans
  <2> QED BY <2>3, <2>4, <2>5 DEF Spans
<1> QED BY <1>1, <1>2

\* The empty word ends where it begins.
LEMMA SpansNothing ==
  ASSUME NEW text \in Seq(Chars), NEW S \in SUBSET Positions(text)
  PROVE  Spans(text, S, {<<>>}) = S
<1>1. ASSUME NEW q \in Spans(text, S, {<<>>}) PROVE q \in S
  <2>1. PICK p \in S : p <= q /\ Piece(text, p, q) = <<>>
    BY DEF Spans
  <2>2. q \in Positions(text) /\ p \in Positions(text)
    BY DEF Spans
  <2>3. q - p = 0
    BY <2>1, <2>2, PieceIs
  <2>4. q = p
    BY <2>2, <2>3 DEF Positions
  <2> QED BY <2>4
<1>2. ASSUME NEW q \in S PROVE q \in Spans(text, S, {<<>>})
  <2>1. q \in Positions(text) /\ q <= q
    BY DEF Positions
  <2>2. Piece(text, q, q) \in Seq(Chars) /\ Len(Piece(text, q, q)) = q - q
    BY <2>1, PieceIs
  <2>3. Len(Piece(text, q, q)) = 0
    BY <2>1, <2>2 DEF Positions
  <2>4. Piece(text, q, q) = <<>>
    BY <2>2, <2>3
  <2> QED BY <2>1, <2>4 DEF Spans
<1> QED BY <1>1, <1>2

\* A token reaches as far as what it spells out.
LEMMA TokenSpans ==
  ASSUME NEW text \in Seq(Chars), NEW S \in SUBSET Positions(text), NEW n \in Nat, n >= Len(text),
         NEW token \in Token
  PROVE  AfterToken(text, S, token) = Spans(text, S, Spelled(token, n))
<1>1. ASSUME NEW C, NEW m \in Nat, NEW p \in Positions(text), NEW q \in Positions(text), p <= q
      PROVE  Piece(text, p, q) \in Strings(C, m)
               <=> q - p <= m /\ \A i \in p..(q - 1) : text[i] \in C
  <2>0. p \in Nat /\ q \in Nat /\ q - p \in Nat
    BY <1>1 DEF Positions
  <2>1. /\ Piece(text, p, q) \in [1..(q - p) -> Chars] /\ Len(Piece(text, p, q)) = q - p
        /\ \A i \in 1..(q - p) : Piece(text, p, q)[i] = text[p + i - 1]
    BY <1>1, PieceIs
  <2>2. (\A i \in p..(q - 1) : text[i] \in C) <=> (\A i \in 1..(q - p) : text[p + i - 1] \in C)
    <3>1. ASSUME \A i \in 1..(q - p) : text[p + i - 1] \in C, NEW i \in p..(q - 1)
          PROVE  text[i] \in C
      <4>1. i - p + 1 \in 1..(q - p) /\ p + (i - p + 1) - 1 = i
        BY <2>0
      <4> QED BY <3>1, <4>1
    <3>2. ASSUME \A i \in p..(q - 1) : text[i] \in C, NEW i \in 1..(q - p)
          PROVE  text[p + i - 1] \in C
      BY <2>0, <3>2
    <3> QED BY <3>1, <3>2
  <2>3. (\A i \in 1..(q - p) : text[p + i - 1] \in C) <=> Piece(text, p, q) \in [1..(q - p) -> C]
    BY <2>1
  <2>4. ASSUME NEW j \in Nat, Piece(text, p, q) \in [1..j -> C] PROVE j = q - p
    BY <2>0, <2>1, <2>4
  <2>5. Piece(text, p, q) \in Strings(C, m) <=> \E j \in 0..m : Piece(text, p, q) \in [1..j -> C]
    BY DEF Strings
  <2>6. Piece(text, p, q) \in Strings(C, m) <=> q - p <= m /\ Piece(text, p, q) \in [1..(q - p) -> C]
    BY <2>0, <2>4, <2>5
  <2> QED BY <2>2, <2>3, <2>6
<1> DEFINE Fits(p, q) == /\ p + Least(token) <= q
                         /\ Repeats(token) \/ q <= p + 1
                         /\ \A i \in p..(q - 1) : text[i] \in ClassOf(token)
<1>2. ASSUME NEW p \in Positions(text), NEW q \in Positions(text)
      PROVE  Fits(p, q) <=> p <= q /\ Piece(text, p, q) \in Spelled(token, n)
  <2>0. p \in Nat /\ q \in Nat /\ q - p <= n
    BY DEF Positions
  <2>1. token.kind \in {"char", "star", "digit", "gap"} /\ token.mark \in {"one", "opt", "plus"}
    BY DEF Token
  <2>2. CASE ~(p <= q)
    BY <2>0, <2>2 DEF Least
  <2>3. CASE p <= q
    <3>1. /\ Piece(text, p, q) \in [1..(q - p) -> Chars] /\ Len(Piece(text, p, q)) = q - p
          /\ Piece(text, p, q) \in Seq(Chars)
      BY <2>3, PieceIs
    <3>2. CASE token.kind = "star"
      <4>1. Spelled(token, n) = Strings(WordChars, n) /\ ClassOf(token) = WordChars
            /\ Least(token) = 0 /\ Repeats(token)
        BY <3>2 DEF Spelled, ClassOf, Least, Repeats
      <4> QED BY <1>1, <2>0, <2>3, <4>1
    <3>3. CASE token.kind # "star" /\ token.mark = "plus"
      <4>1. Spelled(token, n) = Strings(ClassOf(token), n) \ {<<>>}
            /\ Least(token) = 1 /\ Repeats(token)
        BY <3>3 DEF Spelled, Least, Repeats
      <4>2. Piece(text, p, q) = <<>> <=> q - p = 0
        BY <3>1
      <4> QED BY <1>1, <2>0, <2>3, <4>1, <4>2
    <3>4. CASE token.kind # "star" /\ token.mark = "opt"
      <4>1. Spelled(token, n) = Strings(ClassOf(token), 1)
            /\ Least(token) = 0 /\ ~Repeats(token)
        BY <3>4 DEF Spelled, Least, Repeats
      <4>2. q <= p + 1 <=> q - p <= 1
        BY <2>0
      <4> QED BY <1>1, <2>0, <2>3, <4>1, <4>2
    <3>5. CASE token.kind # "star" /\ token.mark = "one"
      <4>1. Spelled(token, n) = [1..1 -> ClassOf(token)]
            /\ Least(token) = 1 /\ ~Repeats(token)
        BY <3>5 DEF Spelled, Least, Repeats
      <4>2. Piece(text, p, q) \in [1..1 -> ClassOf(token)]
              <=> q - p = 1 /\ Piece(text, p, q) \in Strings(ClassOf(token), 1)
        <5>1. Piece(text, p, q) \in [1..1 -> ClassOf(token)] => q - p = 1
          <6>1. Piece(text, p, q) \in [1..1 -> ClassOf(token)] => Len(Piece(text, p, q)) = 1
            BY FunctionsAreSeqs
          <6> QED BY <3>1, <6>1
        <5>2. Piece(text, p, q) \in Strings(ClassOf(token), 1)
                <=> \E j \in 0..1 : Piece(text, p, q) \in [1..j -> ClassOf(token)]
          BY DEF Strings
        <5>3. ASSUME q - p = 1, NEW j \in 0..1, Piece(text, p, q) \in [1..j -> ClassOf(token)]
              PROVE  j = 1
          BY <3>1, <5>3
        <5> QED BY <5>1, <5>2, <5>3
      <4>3. q <= p + 1 /\ p + 1 <= q <=> q - p = 1
        BY <2>0
      <4>4. q - p = 1 => q - p <= 1
        BY <2>0
      <4> QED BY <1>1, <2>0, <2>3, <4>1, <4>2, <4>3, <4>4
    <3> QED BY <2>1, <3>2, <3>3, <3>4, <3>5
  <2> QED BY <2>2, <2>3
<1>3. AfterToken(text, S, token) = {q \in Positions(text) : \E p \in S : Fits(p, q)}
  BY DEF AfterToken, Positions
<1> HIDE DEF Fits
<1> QED BY <1>2, <1>3 DEF Spans

\* So does a word.
LEMMA WordSpans ==
  ASSUME NEW text \in Seq(Chars), NEW S \in SUBSET Positions(text), NEW n \in Nat, n >= Len(text),
         NEW word \in Seq(Token)
  PROVE  AfterWord(text, S, word) = Spans(text, S, SpelledByWord(word, n))
<1>0. Len(word) \in Nat /\ \A i \in 1..Len(word) : word[i] \in Token
  OBVIOUS
<1>1. PICK f \in [0..Len(word) -> SUBSET Positions(text)] :
        /\ f[0] = S
        /\ \A i \in 1..Len(word) : f[i] = AfterToken(text, f[i - 1], word[i])
        /\ AfterWord(text, S, word) = f[Len(word)]
  BY WordUnrolls DEF Positions
<1>2. PICK g \in [0..Len(word) -> SUBSET Seq(Chars)] :
        /\ g[0] = {<<>>}
        /\ \A i \in 1..Len(word) : g[i] = Joined(g[i - 1], Spelled(word[i], n), n)
        /\ SpelledByWord(word, n) = g[Len(word)]
  BY SpellingUnrolls
<1> DEFINE A == {i \in 0..Len(word) : f[i] = Spans(text, S, g[i])}
<1>3. 0 \in A
  <2>1. Spans(text, S, {<<>>}) = S
    BY SpansNothing
  <2>2. f[0] = Spans(text, S, g[0])
    BY <1>1, <1>2, <2>1
  <2>3. 0 \in 0..Len(word)
    BY <1>0
  <2> QED BY <2>2, <2>3
<1>4. ASSUME NEW i \in 1..Len(word), i - 1 \in A PROVE i \in A
  <2>1. i \in 0..Len(word) /\ i - 1 \in 0..Len(word)
    BY <1>0
  <2>2. f[i - 1] = Spans(text, S, g[i - 1]) /\ f[i - 1] \in SUBSET Positions(text)
        /\ g[i - 1] \in SUBSET Seq(Chars)
    BY <1>4, <2>1
  <2>3. f[i] = Spans(text, f[i - 1], Spelled(word[i], n))
    BY <1>0, <1>1, <2>2, TokenSpans
  <2>4. Spelled(word[i], n) \in SUBSET Seq(Chars)
    BY <1>0, SpelledAreTexts
  <2>5. Spans(text, Spans(text, S, g[i - 1]), Spelled(word[i], n))
          = Spans(text, S, Joined(g[i - 1], Spelled(word[i], n), n))
    BY <2>2, <2>4, SpansJoin
  <2>6. f[i] = Spans(text, S, g[i])
    BY <1>2, <2>2, <2>3, <2>5
  <2> QED BY <2>1, <2>6
<1>5. \A i \in 0..Len(word) : i \in A
  <2> HIDE DEF A
  <2> QED BY <1>0, <1>3, <1>4, HandedOn
<1>6. Len(word) \in A
  BY <1>0, <1>5
<1> QED BY <1>1, <1>2, <1>6

\* So does a group.
LEMMA GroupSpans ==
  ASSUME NEW text \in Seq(Chars), NEW S \in SUBSET Positions(text), NEW n \in Nat, n >= Len(text),
         NEW group \in Group
  PROVE  AfterGroup(text, S, group) = Spans(text, S, SpelledByGroup(group, n))
<1>1. ASSUME NEW word \in group.words
      PROVE  AfterWord(text, S, word) = Spans(text, S, SpelledByWord(word, n))
  <2>1. word \in Seq(Token)
    BY DEF Group
  <2> QED BY <2>1, WordSpans
<1>2. Spans(text, S, {<<>>}) = S
  BY SpansNothing
<1>3. group.optional \in BOOLEAN
  BY DEF Group
<1>4. ASSUME NEW q
      PROVE  q \in AfterGroup(text, S, group)
               <=> \/ \E word \in group.words : q \in Spans(text, S, SpelledByWord(word, n))
                   \/ group.optional /\ q \in Spans(text, S, {<<>>})
  BY <1>1, <1>2, <1>3 DEF AfterGroup
<1>5. ASSUME NEW t
      PROVE  t \in SpelledByGroup(group, n)
               <=> \/ \E word \in group.words : t \in SpelledByWord(word, n)
                   \/ group.optional /\ t \in {<<>>}
  BY <1>3 DEF SpelledByGroup
<1>6. ASSUME NEW q
      PROVE  q \in Spans(text, S, SpelledByGroup(group, n))
               <=> \/ \E word \in group.words : q \in Spans(text, S, SpelledByWord(word, n))
                   \/ group.optional /\ q \in Spans(text, S, {<<>>})
  BY <1>5 DEF Spans
<1> QED BY <1>4, <1>6

\* So does an alternative of a keyword.
LEMMA GroupsSpan ==
  ASSUME NEW text \in Seq(Chars), NEW S \in SUBSET Positions(text), NEW n \in Nat, n >= Len(text),
         NEW groups \in Seq(Group)
  PROVE  AfterGroups(text, S, groups) = Spans(text, S, SpelledBy(groups, n))
<1>0. Len(groups) \in Nat /\ \A i \in 1..Len(groups) : groups[i] \in Group
  OBVIOUS
<1>1. PICK f \in [0..Len(groups) -> SUBSET Positions(text)] :
        /\ f[0] = S
        /\ \A i \in 1..Len(groups) : f[i] = AfterGroup(text, f[i - 1], groups[i])
        /\ AfterGroups(text, S, groups) = f[Len(groups)]
  BY GroupsUnroll DEF Positions
<1>2. PICK g \in [0..Len(groups) -> SUBSET Seq(Chars)] :
        /\ g[0] = {<<>>}
        /\ \A i \in 1..Len(groups) : g[i] = Joined(g[i - 1], SpelledByGroup(groups[i], n), n)
        /\ SpelledBy(groups, n) = g[Len(groups)]
  BY RulesUnroll
<1> DEFINE A == {i \in 0..Len(groups) : f[i] = Spans(text, S, g[i])}
<1>3. 0 \in A
  <2>1. Spans(text, S, {<<>>}) = S
    BY SpansNothing
  <2>2. f[0] = Spans(text, S, g[0])
    BY <1>1, <1>2, <2>1
  <2>3. 0 \in 0..Len(groups)
    BY <1>0
  <2> QED BY <2>2, <2>3
<1>4. ASSUME NEW i \in 1..Len(groups), i - 1 \in A PROVE i \in A
  <2>1. i \in 0..Len(groups) /\ i - 1 \in 0..Len(groups)
    BY <1>0
  <2>2. f[i - 1] = Spans(text, S, g[i - 1]) /\ f[i - 1] \in SUBSET Positions(text)
        /\ g[i - 1] \in SUBSET Seq(Chars)
    BY <1>4, <2>1
  <2>3. f[i] = Spans(text, f[i - 1], SpelledByGroup(groups[i], n))
    BY <1>0, <1>1, <2>2, GroupSpans
  <2>4. SpelledByGroup(groups[i], n) \in SUBSET Seq(Chars)
    BY <1>0, GroupSpellsTexts
  <2>5. Spans(text, Spans(text, S, g[i - 1]), SpelledByGroup(groups[i], n))
          = Spans(text, S, Joined(g[i - 1], SpelledByGroup(groups[i], n), n))
    BY <2>2, <2>4, SpansJoin
  <2>6. f[i] = Spans(text, S, g[i])
    BY <1>2, <2>2, <2>3, <2>5
  <2> QED BY <2>1, <2>6
<1>5. \A i \in 0..Len(groups) : i \in A
  <2> HIDE DEF A
  <2> QED BY <1>0, <1>3, <1>4, HandedOn
<1>6. Len(groups) \in A
  BY <1>0, <1>5
<1> QED BY <1>1, <1>2, <1>6

\* What the expressions match is a text in which a word of the rules stands
\* alone; it does not matter up to which length the words are taken.
LEMMA MatchesAtLength ==
  ASSUME NEW text \in Seq(Chars), NEW n \in Nat, n >= Len(text)
  PROVE  /\ Matches(text) => \E word \in Words(n) : word \in Seq(Chars) /\ StandsAlone(word, text)
         /\ (\E word \in Words(n) : StandsAlone(word, text)) => Matches(text)
<1>1. ASSUME NEW p \in Positions(text), NEW groups \in Seq(Group)
      PROVE  AfterGroups(text, {p}, groups) = Spans(text, {p}, SpelledBy(groups, n))
  BY GroupsSpan
<1>2. ASSUME NEW keyword \in Keywords, NEW groups \in keyword PROVE groups \in Seq(Group)
  BY KeywordsAssumption
<1>3. ASSUME NEW groups \in Seq(Group) PROVE SpelledBy(groups, n) \in SUBSET Seq(Chars)
  <2>1. PICK g \in [0..Len(groups) -> SUBSET Seq(Chars)] : SpelledBy(groups, n) = g[Len(groups)]
    BY RulesUnroll
  <2>2. Len(groups) \in 0..Len(groups)
    OBVIOUS
  <2> QED BY <2>1, <2>2
<1>4. ASSUME Matches(text) PROVE \E word \in Words(n) : word \in Seq(Chars) /\ StandsAlone(word, text)
  <2>0. PICK keyword \in Keywords :
          \E groups \in keyword : \E p \in Positions(text) :
            \E q \in AfterGroups(text, {p}, groups) : Opens(text, p) /\ Closes(text, q)
    BY <1>4 DEF Matches, Positions
  <2>1. PICK groups \in keyword :
          \E p \in Positions(text) :
            \E q \in AfterGroups(text, {p}, groups) : Opens(text, p) /\ Closes(text, q)
    BY <2>0
  <2>1a. PICK p \in Positions(text) :
          \E q \in AfterGroups(text, {p}, groups) : Opens(text, p) /\ Closes(text, q)
    BY <2>1
  <2>1b. PICK q \in AfterGroups(text, {p}, groups) : Opens(text, p) /\ Closes(text, q)
    BY <2>1a
  <2>2. q \in Positions(text) /\ p <= q /\ Piece(text, p, q) \in SpelledBy(groups, n)
    BY <1>1, <1>2 DEF Spans
  <2> DEFINE word == Piece(text, p, q)
  <2>3. word \in Words(n)
    BY <2>2 DEF Words
  <2>4. Len(word) = q - p
    BY <2>2, PieceIs
  <2>5. /\ p \in 1..(Len(text) - Len(word) + 1)
        /\ p + Len(word) = q
        /\ p + Len(word) - 1 = q - 1
    BY <2>2, <2>4 DEF Positions
  <2>6. SubSeq(text, p, q - 1) = word
    BY DEF Piece
  <2>7. StandsAlone(word, text)
    <3> HIDE DEF word
    <3> QED BY <2>1b, <2>5, <2>6 DEF StandsAlone
  <2>8. word \in Seq(Chars)
    BY <2>2, PieceIs
  <2> QED BY <2>3, <2>7, <2>8
<1>5. ASSUME NEW word \in Words(n), StandsAlone(word, text) PROVE Matches(text)
  <2>2. PICK keyword \in Keywords : \E groups \in keyword : word \in SpelledBy(groups, n)
    BY DEF Words
  <2>2a. PICK groups \in keyword : word \in SpelledBy(groups, n)
    BY <2>2
  <2>3. groups \in Seq(Group) /\ word \in Seq(Chars)
    BY <1>2, <1>3, <2>2a
  <2>4. PICK p \in 1..(Len(text) - Len(word) + 1) :
          /\ Opens(text, p)
          /\ SubSeq(text, p, p + Len(word) - 1) = word
          /\ Closes(text, p + Len(word))
    BY <1>5 DEF StandsAlone
  <2> DEFINE q == p + Len(word)
  <2>5. p \in Positions(text) /\ q \in Positions(text) /\ p <= q
    <3>1. Len(word) \in Nat
      BY <2>3
    <3> QED BY <3>1 DEF Positions
  <2>6. Piece(text, p, q) = word
    BY <2>4 DEF Piece
  <2>7. q \in Spans(text, {p}, SpelledBy(groups, n))
    BY <2>2a, <2>5, <2>6 DEF Spans
  <2>8. q \in AfterGroups(text, {p}, groups)
    BY <1>1, <2>3, <2>5, <2>7
  <2> HIDE DEF q
  <2>9. Closes(text, q)
    BY <2>4 DEF q
  <2> QED BY <2>2, <2>4, <2>5, <2>8, <2>9 DEF Matches, Positions
<1> QED BY <1>4, <1>5

\* A torrent's text is refused for its words exactly when a word that the rules
\* denote stands alone in it: compiling the keywords, contentFilter.js:63-110,
\* loses none of those words and adds none, whatever the rules and the text.
THEOREM MatchingIsSpelling ==
  \A text \in Seq(Chars) : Matches(text) <=> BannedIn(text)
<1> SUFFICES ASSUME NEW text \in Seq(Chars) PROVE Matches(text) <=> BannedIn(text)
  OBVIOUS
<1>1. Len(text) \in Nat /\ Len(text) >= Len(text)
  OBVIOUS
<1> QED BY <1>1, MatchesAtLength DEF BannedIn

-----------------------------------------------------------------------------
(* One text within another, between its ends or spaces.                        *)

Within(text, whole) ==
  \E d \in 0..(Len(whole) - Len(text)) :
    /\ \A i \in 1..Len(text) : whole[d + i] = text[i]
    /\ d = 0 \/ whole[d] = Space
    /\ d + Len(text) = Len(whole) \/ whole[d + Len(text) + 1] = Space

LEMMA WithIs ==
  ASSUME NEW a \in Seq(Chars), NEW e \in Seq(Chars), e # <<>>
  PROVE  /\ With(a, e) \in Seq(Chars) /\ Len(With(a, e)) = Len(a) + 1 + Len(e)
         /\ \A i \in 1..Len(a) : With(a, e)[i] = a[i]
         /\ With(a, e)[Len(a) + 1] = Space
         /\ \A i \in 1..Len(e) : With(a, e)[Len(a) + 1 + i] = e[i]
<1>1. Space \in Chars
  BY DEF Chars, Space
<1> DEFINE s == <<Space>>
<1>2. s \in Seq(Chars) /\ Len(s) = 1 /\ s[1] = Space
  BY <1>1
<1> HIDE DEF s
<1> DEFINE b == a \o s
<1>3. /\ b \in Seq(Chars) /\ Len(b) = Len(a) + 1 /\ b[Len(a) + 1] = Space
      /\ \A i \in 1..Len(a) : b[i] = a[i]
  <2>1. /\ b \in Seq(Chars) /\ Len(b) = Len(a) + Len(s)
        /\ \A i \in 1..(Len(a) + Len(s)) : b[i] = IF i <= Len(a) THEN a[i] ELSE s[i - Len(a)]
    BY <1>2, AppendedIs
  <2> HIDE DEF b
  <2>2. Len(a) \in Nat
    OBVIOUS
  <2>3. b[Len(a) + 1] = s[Len(a) + 1 - Len(a)]
    BY <1>2, <2>1, <2>2
  <2> QED BY <1>2, <2>1, <2>2, <2>3
<1> HIDE DEF b
<1>4. With(a, e) = b \o e
  BY DEF With, b, s
<1>5. /\ b \o e \in Seq(Chars) /\ Len(b \o e) = Len(b) + Len(e)
      /\ \A i \in 1..Len(b) : (b \o e)[i] = b[i]
      /\ \A i \in 1..Len(e) : (b \o e)[Len(b) + i] = e[i]
  BY <1>3
<1>6. Len(a) \in Nat /\ Len(a) + 1 \in 1..Len(b) /\ \A i \in 1..Len(a) : i \in 1..Len(b)
  BY <1>3
<1> QED BY <1>3, <1>4, <1>5, <1>6

\* A text is within itself; a path that is not empty is within what it is appended
\* to, and so is everything that was there before.
LEMMA WithinWith ==
  ASSUME NEW a \in Seq(Chars), NEW e \in Seq(Chars), NEW t \in Seq(Chars)
  PROVE  /\ Within(t, t)
         /\ e # <<>> => Within(e, With(a, e))
         /\ Within(t, a) => Within(t, With(a, e))
<1>2. Len(a) \in Nat /\ Len(e) \in Nat /\ Len(t) \in Nat
  OBVIOUS
<1>3. Within(t, t)
  <2>1. /\ 0 \in 0..(Len(t) - Len(t)) /\ 0 + Len(t) = Len(t)
        /\ \A i \in 1..Len(t) : t[0 + i] = t[i]
    BY <1>2
  <2> QED BY <2>1 DEF Within
<1>6. CASE e = <<>>
  BY <1>3, <1>6 DEF With
<1> SUFFICES ASSUME e # <<>>
             PROVE  Within(e, With(a, e)) /\ (Within(t, a) => Within(t, With(a, e)))
  BY <1>3, <1>6
<1> DEFINE w == With(a, e)
<1>1. /\ w \in Seq(Chars) /\ Len(w) = Len(a) + 1 + Len(e)
      /\ \A i \in 1..Len(a) : w[i] = a[i]
      /\ w[Len(a) + 1] = Space
      /\ \A i \in 1..Len(e) : w[Len(a) + 1 + i] = e[i]
  BY WithIs
<1> HIDE DEF w
<1>4. Within(e, w)
  <2> DEFINE d == Len(a) + 1
  <2>1. d \in 0..(Len(w) - Len(e)) /\ d + Len(e) = Len(w)
    BY <1>1, <1>2
  <2>2. w[d] = Space /\ \A i \in 1..Len(e) : w[d + i] = e[i]
    BY <1>1
  <2> HIDE DEF d
  <2> QED BY <2>1, <2>2 DEF Within
<1>5. ASSUME Within(t, a) PROVE Within(t, w)
  <2>1. PICK d \in 0..(Len(a) - Len(t)) :
          /\ \A i \in 1..Len(t) : a[d + i] = t[i]
          /\ d = 0 \/ a[d] = Space
          /\ d + Len(t) = Len(a) \/ a[d + Len(t) + 1] = Space
    BY <1>5 DEF Within
  <2>2. d \in 0..(Len(w) - Len(t)) /\ d + Len(t) <= Len(a)
    BY <1>1, <1>2
  <2>3. \A i \in 1..Len(t) : w[d + i] = t[i]
    <3> TAKE i \in 1..Len(t)
    <3>1. d + i \in 1..Len(a)
      BY <1>2, <2>2
    <3> QED BY <1>1, <2>1, <3>1
  <2>4. d = 0 \/ w[d] = Space
    <3>1. CASE d = 0
      BY <3>1
    <3>2. CASE d # 0
      <4>1. d \in 1..Len(a)
        BY <1>2, <2>2, <3>2
      <4> QED BY <1>1, <2>1, <3>2, <4>1
    <3> QED BY <3>1, <3>2
  <2>5. w[d + Len(t) + 1] = Space
    <3>1. CASE d + Len(t) = Len(a)
      BY <1>1, <3>1
    <3>2. CASE d + Len(t) # Len(a)
      <4>1. d + Len(t) + 1 \in 1..Len(a)
        BY <1>2, <2>2, <3>2
      <4> QED BY <1>1, <2>1, <3>2, <4>1
    <3> QED BY <3>1, <3>2
  <2> QED BY <2>2, <2>3, <2>4, <2>5 DEF Within
<1> QED BY <1>3, <1>4, <1>5 DEF w

\* A word that stands alone in a text stands alone in what that is within.
LEMMA StandsWithin ==
  ASSUME NEW text \in Seq(Chars), NEW whole \in Seq(Chars), Within(text, whole),
         NEW word \in Seq(Chars), StandsAlone(word, text)
  PROVE  StandsAlone(word, whole)
<1>0. Len(text) \in Nat /\ Len(whole) \in Nat /\ Len(word) \in Nat /\ Space \in NonWord
  BY DEF NonWord, Chars, Space, WordChars, Letters, Digits
<1>1. PICK d \in 0..(Len(whole) - Len(text)) :
        /\ \A i \in 1..Len(text) : whole[d + i] = text[i]
        /\ d = 0 \/ whole[d] = Space
        /\ d + Len(text) = Len(whole) \/ whole[d + Len(text) + 1] = Space
  BY DEF Within
<1>2. PICK p \in 1..(Len(text) - Len(word) + 1) :
        /\ Opens(text, p)
        /\ SubSeq(text, p, p + Len(word) - 1) = word
        /\ Closes(text, p + Len(word))
  BY DEF StandsAlone
<1> DEFINE r == d + p  u == p + Len(word)  v == r + Len(word)
<1>3. /\ p \in Positions(text) /\ u \in Positions(text) /\ p <= u
      /\ r \in Positions(whole) /\ v \in Positions(whole) /\ r <= v
      /\ r \in 1..(Len(whole) - Len(word) + 1)
      /\ u - p = Len(word) /\ v - r = Len(word)
      /\ r = d + p /\ v = d + u /\ v = r + Len(word)
  BY <1>0 DEF Positions
<1>6. Piece(text, p, u) = word /\ Opens(text, p) /\ Closes(text, u)
  BY <1>2 DEF Piece
<1> HIDE DEF r, u, v
<1>4. Opens(whole, r)
  <2>1. CASE p = 1
    <3>1. r - 1 = d
      BY <1>3, <2>1
    <3>2. d = 0 => r = 1
      BY <1>3, <2>1
    <3> QED BY <1>0, <1>1, <3>1, <3>2 DEF Opens
  <2>2. CASE p # 1
    <3>1. p - 1 \in 1..Len(text) /\ r - 1 = d + (p - 1)
      BY <1>0, <1>3, <2>2
    <3> QED BY <1>1, <1>6, <2>2, <3>1 DEF Opens
  <2> QED BY <2>1, <2>2
<1>5. Closes(whole, v)
  <2>1. CASE u = Len(text) + 1
    <3>1. v = d + Len(text) + 1
      BY <1>0, <1>3, <2>1
    <3> QED BY <1>0, <1>1, <3>1 DEF Closes
  <2>2. CASE u # Len(text) + 1
    <3>1. u \in 1..Len(text)
      BY <1>0, <1>3, <2>2 DEF Positions
    <3> QED BY <1>1, <1>3, <1>6, <2>2, <3>1 DEF Closes
  <2> QED BY <2>1, <2>2
<1>7. Piece(whole, r, v) = word
  <2>1. /\ Piece(whole, r, v) \in Seq(Chars)
        /\ Len(Piece(whole, r, v)) = Len(word)
        /\ \A i \in 1..Len(word) : Piece(whole, r, v)[i] = whole[r + i - 1]
    <3>1. /\ Piece(whole, r, v) \in Seq(Chars)
          /\ Len(Piece(whole, r, v)) = v - r
          /\ \A i \in 1..(v - r) : Piece(whole, r, v)[i] = whole[r + i - 1]
      BY <1>3, PieceIs
    <3> QED BY <1>3, <3>1
  <2>2. \A i \in 1..Len(word) : Piece(text, p, u)[i] = text[p + i - 1]
    <3>1. \A i \in 1..(u - p) : Piece(text, p, u)[i] = text[p + i - 1]
      BY <1>3, PieceIs
    <3> QED BY <1>3, <3>1
  <2>3. ASSUME NEW i \in 1..Len(word) PROVE whole[r + i - 1] = text[p + i - 1]
    <3>1. p + i - 1 \in 1..Len(text) /\ r + i - 1 = d + (p + i - 1)
      BY <1>0, <1>3 DEF Positions
    <3> QED BY <1>1, <3>1
  <2>4. ASSUME NEW i \in 1..Len(word) PROVE Piece(whole, r, v)[i] = word[i]
    BY <1>6, <2>1, <2>2, <2>3
  <2> QED BY <2>1, <2>4, SameText
<1>8. SubSeq(whole, r, v - 1) = word
  BY <1>7, Zenon DEF Piece
<1>9. r + Len(word) - 1 = v - 1 /\ r + Len(word) = v
  BY <1>3 DEF Positions
<1> QED BY <1>3, <1>4, <1>5, <1>8, <1>9 DEF StandsAlone

\* What one of a torrent's texts gives away, its subject gives away.
LEMMA MatchesWithin ==
  ASSUME NEW text \in Seq(Chars), NEW whole \in Seq(Chars), Within(text, whole), Matches(text)
  PROVE  Matches(whole)
<1>1. Len(whole) \in Nat /\ Len(whole) >= Len(text) /\ Len(whole) >= Len(whole)
  BY DEF Within
<1>2. PICK word \in Words(Len(whole)) : word \in Seq(Chars) /\ StandsAlone(word, text)
  BY <1>1, MatchesAtLength
<1>3. StandsAlone(word, whole)
  BY <1>2, StandsWithin
<1> QED BY <1>1, <1>3, MatchesAtLength

\* The name and every path that is not empty are within the subject, which is a
\* text.
LEMMA SubjectHolds ==
  ASSUME NEW meta \in Meta
  PROVE  /\ Subject(meta) \in Seq(Chars)
         /\ Within(meta.name, Subject(meta))
         /\ \A i \in 1..Len(meta.paths) :
              meta.paths[i] # <<>> => Within(meta.paths[i], Subject(meta))
<1> DEFINE name == meta.name  paths == meta.paths
<1>0. name \in Seq(Chars) /\ paths \in Seq(Seq(Chars))
  BY DEF Meta
<1>1. Subject(meta) = FoldLeft(With, name, paths)
  BY DEF Subject
<1> HIDE DEF name, paths
<1>2. /\ Len(paths) \in Nat /\ DOMAIN paths = 1..Len(paths)
      /\ \A i \in 1..Len(paths) : paths[i] \in Seq(Chars)
  BY <1>0
<1>3. PICK f \in [0..Len(paths) -> Seq(Chars)] :
        /\ f[0] = name
        /\ \A i \in 1..Len(paths) : f[i] = With(f[i - 1], paths[i])
        /\ FoldLeft(With, name, paths) = f[Len(paths)]
  BY <1>0, SubjectUnrolls
<1> DEFINE A == {i \in 0..Len(paths) :
                   /\ Within(name, f[i])
                   /\ \A j \in 1..i : paths[j] # <<>> => Within(paths[j], f[i])}
<1>4. 0 \in A
  <2>1. Within(name, f[0])
    BY <1>0, <1>3, WithinWith
  <2> QED BY <1>2, <2>1
<1>5. ASSUME NEW i \in 1..Len(paths), i - 1 \in A PROVE i \in A
  <2>1. i \in 0..Len(paths) /\ i - 1 \in 0..Len(paths)
    BY <1>2
  <2>2. f[i - 1] \in Seq(Chars) /\ paths[i] \in Seq(Chars) /\ f[i] = With(f[i - 1], paths[i])
    BY <1>2, <1>3, <2>1
  <2>3. Within(name, f[i])
    BY <1>0, <1>5, <2>2, WithinWith
  <2>4. ASSUME NEW j \in 1..i, paths[j] # <<>> PROVE Within(paths[j], f[i])
    <3>1. CASE j = i
      BY <2>2, <2>4, <3>1, WithinWith
    <3>2. CASE j # i
      <4>1. j \in 1..(i - 1) /\ j \in 1..Len(paths)
        BY <3>2
      <4>2. Within(paths[j], f[i - 1]) /\ paths[j] \in Seq(Chars)
        BY <1>2, <1>5, <2>4, <4>1
      <4> QED BY <2>2, <4>2, WithinWith
    <3> QED BY <3>1, <3>2
  <2> QED BY <2>1, <2>3, <2>4
<1>6. \A i \in 0..Len(paths) : i \in A
  <2> HIDE DEF A
  <2> QED BY <1>2, <1>4, <1>5, HandedOn
<1>7. Len(paths) \in 0..Len(paths) /\ Len(paths) \in A
  BY <1>2, <1>6
<1>8. /\ Subject(meta) \in Seq(Chars) /\ Within(name, Subject(meta))
      /\ \A i \in 1..Len(paths) : paths[i] # <<>> => Within(paths[i], Subject(meta))
  BY <1>1, <1>3, <1>7
<1> QED BY <1>8 DEF name, paths

\* What is handed over of a torrent's metadata is metadata, and holds its texts.
LEMMA CarriedHolds ==
  ASSUME NEW meta \in Meta
  PROVE  /\ Carried(meta) \in Meta
         /\ Carried(meta).name = meta.name /\ Carried(meta).size = meta.size
         /\ \A text \in Texts(meta) :
              \/ text = Carried(meta).name
              \/ \E i \in 1..Len(Carried(meta).paths) :
                   text = Carried(meta).paths[i] /\ text # <<>>
<1> DEFINE paths == meta.paths  first == SubSeq(paths, 1, MaxPaths)
<1>1. /\ paths \in Seq(Seq(Chars)) /\ Len(paths) \in Nat /\ DOMAIN paths = 1..Len(paths)
      /\ meta.name \in Seq(Chars) /\ meta.size \in Nat /\ MaxPaths \in Nat
  BY LimitsAssumption DEF Meta
<1>2. ASSUME NEW text \in Texts(meta)
      PROVE  \/ text = meta.name
             \/ \E i \in 1..Len(paths) : i <= MaxPaths /\ text = paths[i] /\ text # <<>>
  BY <1>1 DEF Texts
<1>3. CASE Len(paths) <= MaxPaths
  <2>1. Carried(meta) = meta
    BY <1>3 DEF Carried
  <2> QED BY <1>2, <2>1
<1>4. CASE ~(Len(paths) <= MaxPaths)
  <2>1. /\ first \in Seq(Seq(Chars)) /\ Len(first) = MaxPaths
        /\ \A i \in 1..MaxPaths : first[i] = paths[i]
    BY <1>1, <1>4
  <2> HIDE DEF first
  <2>2. Carried(meta) = [meta EXCEPT !.paths = first]
    BY <1>4 DEF Carried, first
  <2>3. /\ Carried(meta) \in Meta /\ Carried(meta).paths = first
        /\ Carried(meta).name = meta.name /\ Carried(meta).size = meta.size
    BY <2>1, <2>2 DEF Meta
  <2>4. ASSUME NEW i \in 1..Len(paths), i <= MaxPaths
        PROVE  i \in 1..Len(first) /\ first[i] = paths[i]
    BY <1>1, <2>1, <2>4
  <2> QED BY <1>2, <2>3, <2>4
<1> QED BY <1>3, <1>4

\* What the gate has of a torrent is within what the filter searches.
LEMMA TextsAreWithin ==
  ASSUME NEW meta \in Meta
  PROVE  /\ Subject(Carried(meta)) \in Seq(Chars)
         /\ \A text \in Texts(meta) :
              text \in Seq(Chars) /\ Within(text, Subject(Carried(meta)))
<1> DEFINE some == Carried(meta)
<1>1. /\ some \in Meta
      /\ \A text \in Texts(meta) :
           \/ text = some.name
           \/ \E i \in 1..Len(some.paths) : text = some.paths[i] /\ text # <<>>
  BY CarriedHolds
<1> HIDE DEF some
<1>2. some.name \in Seq(Chars) /\ \A i \in 1..Len(some.paths) : some.paths[i] \in Seq(Chars)
  BY <1>1 DEF Meta
<1>3. /\ Subject(some) \in Seq(Chars)
      /\ \A text \in Texts(meta) : text \in Seq(Chars) /\ Within(text, Subject(some))
  BY <1>1, <1>2, SubjectHolds
<1> QED BY <1>3 DEF some

\* No torrent with a banned word in one of its texts gets through the filter; what
\* is refused for its name alone is refused; and the filter refuses nothing that
\* is neither junk nor has a banned word in its subject.
THEOREM FilterRefusesTheBanned ==
  /\ Banned \subseteq Refused
  /\ BannedByName \subseteq RefusedByName
  /\ RefusedByName \subseteq Refused
  /\ Refused \cap Innocent = {}
<1>1. ASSUME NEW meta \in Metas PROVE meta \in Meta
  BY MetasAssumption
<1>2. ASSUME NEW meta \in Metas, NEW text \in Texts(meta), Matches(text)
      PROVE  Matches(Subject(Carried(meta)))
  BY <1>1, <1>2, TextsAreWithin, MatchesWithin
<1>3. Banned \subseteq Refused
  <2> SUFFICES ASSUME NEW meta \in Banned PROVE meta \in Refused
    OBVIOUS
  <2>1. meta \in Metas
    BY DEF Banned
  <2>2. PICK text \in Texts(meta) : BannedIn(text)
    BY DEF Banned
  <2>3. Matches(text)
    BY <1>1, <2>1, <2>2, TextsAreWithin, MatchingIsSpelling
  <2> QED BY <1>2, <2>1, <2>3 DEF Refused, Blocked
<1>4. ASSUME NEW meta \in Metas
      PROVE  LET bare == [meta EXCEPT !.paths = <<>>]
             IN /\ Subject(bare) = meta.name
                /\ Junk(bare) => Junk(Carried(meta))
                /\ meta.name \in Seq(Chars) /\ meta.name \in Texts(meta)
  <2> DEFINE bare == [meta EXCEPT !.paths = <<>>]
  <2>1. meta \in Meta /\ meta.name \in Seq(Chars) /\ meta.name \in Texts(meta)
    BY <1>1 DEF Meta, Texts
  <2>2. bare.name = meta.name /\ bare.paths = <<>> /\ bare.size = meta.size
    BY <2>1 DEF Meta
  <2> HIDE DEF bare
  <2>3. Subject(bare) = meta.name
    <3>1. <<>> \in Seq(Seq(Chars)) /\ Len(<<>>) = 0
      OBVIOUS
    <3>2. PICK f \in [0..Len(<<>>) -> Seq(Chars)] :
            f[0] = meta.name /\ FoldLeft(With, meta.name, <<>>) = f[Len(<<>>)]
      BY <2>1, <3>1, SubjectUnrolls
    <3> QED BY <2>2, <3>1, <3>2 DEF Subject
  <2>4. Junk(bare) => Junk(Carried(meta))
    <3>1. Range(bare.paths) = {}
      BY <2>2 DEF Range
    <3>2. Carried(meta).name = meta.name /\ Carried(meta).size = meta.size
      BY <2>1, CarriedHolds
    <3> QED BY <2>2, <3>1, <3>2 DEF Junk
  <2> QED BY <2>1, <2>3, <2>4 DEF bare
<1>5. BannedByName \subseteq RefusedByName
  <2> SUFFICES ASSUME NEW meta \in BannedByName PROVE meta \in RefusedByName
    OBVIOUS
  <2>1. meta \in Metas /\ BannedIn(meta.name)
    BY DEF BannedByName
  <2>2. Matches(meta.name)
    BY <1>4, <2>1, MatchingIsSpelling
  <2> QED BY <1>4, <2>1, <2>2 DEF RefusedByName, Blocked
<1>6. RefusedByName \subseteq Refused
  <2> SUFFICES ASSUME NEW meta \in RefusedByName PROVE meta \in Refused
    OBVIOUS
  <2>1. meta \in Metas /\ Blocked([meta EXCEPT !.paths = <<>>])
    BY DEF RefusedByName
  <2>2. Matches(meta.name) \/ Junk(Carried(meta))
    BY <1>4, <2>1 DEF Blocked
  <2> QED BY <1>2, <1>4, <2>1, <2>2 DEF Refused, Blocked
<1>7. ASSUME NEW meta \in Refused PROVE meta \notin Innocent
  <2>1. meta \in Metas /\ (Matches(Subject(Carried(meta))) \/ Junk(Carried(meta)))
    BY DEF Refused, Blocked
  <2> QED BY <1>1, <2>1, TextsAreWithin, MatchingIsSpelling DEF Innocent
<1> QED BY <1>3, <1>5, <1>6, <1>7

-----------------------------------------------------------------------------
(* The crawler's queues and replies.                                           *)

LEMMA Limits ==
  /\ NodeQueueMax \in Nat /\ LeadQueueMax \in Nat /\ MetaQueueMax \in Nat
  /\ NodeQueueMax > 0 /\ LeadQueueMax > 0 /\ MetaQueueMax > 0
BY LimitsAssumption

\* A reply is a sequence.
LEMMA ListsAreSeqs ==
  ASSUME NEW S, NEW list \in Lists(S)
  PROVE  list \in Seq(S)
<1>1. PICK n \in 0..MaxListed : list \in [1..n -> S]
  BY DEF Lists
<1>2. n \in Nat
  BY LimitsAssumption
<1> QED BY <1>1, <1>2, FunctionsAreSeqs

\* Filling a queue keeps its bound.
LEMMA FilledIs ==
  ASSUME NEW D, NEW max \in Nat, NEW q \in Seq(D), Len(q) <= max, NEW list \in Seq(D)
  PROVE  Filled(q, list, max) \in Seq(D) /\ Len(Filled(q, list, max)) <= max
<1> DEFINE room == max - Len(q)
           part == IF Len(list) <= room THEN list ELSE SubSeq(list, 1, room)
<1>1. Len(q) \in Nat /\ Len(list) \in Nat /\ room \in Nat
  OBVIOUS
<1>2. part \in Seq(D) /\ Len(part) <= room
  <2>1. CASE Len(list) <= room
    BY <1>1, <2>1
  <2>2. CASE ~(Len(list) <= room)
    <3>1. SubSeq(list, 1, room) = [i \in 1..room |-> list[i]]
      BY <1>1, <2>2
    <3>2. SubSeq(list, 1, room) \in [1..room -> D]
      <4>1. \A i \in 1..room : list[i] \in D
        BY <1>1, <2>2
      <4> HIDE DEF room
      <4> QED BY <3>1, <4>1
    <3>3. SubSeq(list, 1, room) \in Seq(D) /\ Len(SubSeq(list, 1, room)) = room
      BY <1>1, <3>2, FunctionsAreSeqs
    <3> QED BY <1>1, <2>2, <3>3
  <2> QED BY <2>1, <2>2
<1> HIDE DEF part
<1>3. q \o part \in Seq(D) /\ Len(q \o part) = Len(q) + Len(part)
  BY <1>2
<1>4. Filled(q, list, max) = q \o part
  BY DEF Filled, part
<1> QED BY <1>1, <1>2, <1>3, <1>4

\* Taking the head of a queue, and adding at its end.
LEMMA TailIs ==
  ASSUME NEW D, NEW s \in Seq(D), s # <<>>
  PROVE  /\ Head(s) \in D /\ Tail(s) \in Seq(D) /\ Len(Tail(s)) = Len(s) - 1
         /\ Len(s) \in Nat /\ Len(s) > 0 /\ Head(s) = s[1]
         /\ \A i \in 1..(Len(s) - 1) : Tail(s)[i] = s[i + 1]
OBVIOUS

LEMMA AppendIs ==
  ASSUME NEW D, NEW s \in Seq(D), NEW e \in D
  PROVE  /\ Append(s, e) \in Seq(D) /\ Len(Append(s, e)) = Len(s) + 1
         /\ Len(s) \in Nat /\ Append(s, e)[Len(s) + 1] = e
         /\ \A i \in 1..Len(s) : Append(s, e)[i] = s[i]
OBVIOUS

\* Queueing a reply's nodes goes through them one by one.
LEMMA EnqueueUnrolls ==
  ASSUME NEW known, queue \in Seq(Nodes), Len(queue) <= NodeQueueMax, NEW found \in Seq(Nodes)
  PROVE  \E f \in [0..Len(found) -> {q \in Seq(Nodes) : Len(q) <= NodeQueueMax}] :
           /\ f[0] = queue
           /\ \A i \in 1..Len(found) : f[i] = EnqueuedOne(known, f[i - 1], found[i])
           /\ Enqueued(known, found) = f[Len(found)]
<1> DEFINE St == {q \in Seq(Nodes) : Len(q) <= NodeQueueMax}
<1> DEFINE step == [x \in St \X Nodes |-> EnqueuedOne(known, x[1], x[2])]
<1> DEFINE it == CHOOSE f : f = [s \in SUBSET DOMAIN found |->
                    IF s = {} THEN queue ELSE EnqueuedOne(known, f[s \ {Max(s)}], found[Max(s)])]
<1> DEFINE f == [i \in 0..Len(found) |-> it[1..i]]
<1>1. /\ Len(found) \in Nat /\ DOMAIN found = 1..Len(found)
      /\ \A i \in 1..Len(found) : found[i] \in Nodes
  OBVIOUS
<1>2. queue \in St /\ \A a \in St, e \in Nodes : EnqueuedOne(known, a, e) \in St
  <2> SUFFICES ASSUME NEW a \in Seq(Nodes), Len(a) <= NodeQueueMax, NEW e \in Nodes
               PROVE  EnqueuedOne(known, a, e) \in Seq(Nodes) /\ Len(EnqueuedOne(known, a, e)) <= NodeQueueMax
    OBVIOUS
  <2>1. Append(a, e) \in Seq(Nodes) /\ Len(Append(a, e)) = Len(a) + 1 /\ Len(a) \in Nat
    BY AppendIs
  <2>2. CASE Willing(known[e]) /\ Len(a) < NodeQueueMax
    BY <2>1, <2>2, Limits DEF EnqueuedOne
  <2>3. CASE ~(Willing(known[e]) /\ Len(a) < NodeQueueMax)
    BY <2>3 DEF EnqueuedOne
  <2> QED BY <2>2, <2>3
<1>3. it = [s \in SUBSET DOMAIN found |->
              IF s = {} THEN queue ELSE EnqueuedOne(known, it[s \ {Max(s)}], found[Max(s)])]
  <2>0. queue \in St /\ found \in Seq(Nodes)
    BY <1>2
  <2>1. step \in [St \X Nodes -> St]
    BY <1>2
  <2>2. \A a \in St, e \in Nodes : step[<<a, e>>] = EnqueuedOne(known, a, e)
    OBVIOUS
  <2> HIDE DEF step, St
  <2>3. PICK g \in [SUBSET DOMAIN found -> St] : Folds(g, step, queue, found)
    BY <2>0, <2>1, FoldExists
  <2>4. ASSUME NEW s \in SUBSET DOMAIN found, s # {}
        PROVE  step[<<g[s \ {Max(s)}], found[Max(s)]>>]
                 = EnqueuedOne(known, g[s \ {Max(s)}], found[Max(s)])
    <3>1. Max(s) \in DOMAIN found
      BY <1>1, <2>4, MaxIsMember
    <3>2. g[s \ {Max(s)}] \in St /\ found[Max(s)] \in Nodes
      BY <1>1, <3>1
    <3> QED BY <2>2, <3>2
  <2>5. g = [s \in SUBSET DOMAIN found |->
               IF s = {} THEN queue ELSE EnqueuedOne(known, g[s \ {Max(s)}], found[Max(s)])]
    BY <2>3, <2>4 DEF Folds
  <2> QED BY <2>5
<1>4. Enqueued(known, found) = it[DOMAIN found]
  BY DEF Enqueued, FoldLeft, MapThenFoldSet
<1> HIDE DEF it
<1>5. f[0] = queue
  BY <1>1, <1>3
<1>6. ASSUME NEW i \in 1..Len(found) PROVE f[i] = EnqueuedOne(known, f[i - 1], found[i])
  <2>1. Max(1..i) = i /\ 1..i \in SUBSET DOMAIN found /\ 1..i # {} /\ (1..i) \ {i} = 1..(i - 1)
    BY <1>1, PrefixMax
  <2>2. it[1..i] = EnqueuedOne(known, it[1..(i - 1)], found[i])
    BY <1>3, <2>1
  <2>3. f[i] = it[1..i] /\ f[i - 1] = it[1..(i - 1)]
    BY <1>1
  <2> QED BY <2>2, <2>3
<1>7. f \in [0..Len(found) -> St]
  <2> DEFINE A == {i \in 0..Len(found) : f[i] \in St}
  <2> HIDE DEF f, St
  <2>1. 0 \in A
    <3>1. 0 \in 0..Len(found)
      BY <1>1
    <3>2. f[0] \in St
      BY <1>2, <1>5
    <3> QED BY <3>1, <3>2
  <2>2. ASSUME NEW i \in 1..Len(found), i - 1 \in A PROVE i \in A
    <3>1. i \in 0..Len(found) /\ f[i - 1] \in St /\ found[i] \in Nodes
      BY <1>1, <2>2
    <3>2. EnqueuedOne(known, f[i - 1], found[i]) \in St
      BY <1>2, <3>1
    <3>3. f[i] \in St
      BY <1>6, <3>2
    <3> QED BY <3>1, <3>3
  <2>3. \A i \in 0..Len(found) : i \in A
    <3> HIDE DEF A
    <3> QED BY <1>1, <2>1, <2>2, HandedOn
  <2> QED BY <2>3 DEF f
<1>8. Enqueued(known, found) = f[Len(found)]
  BY <1>1, <1>4
<1> HIDE DEF f, St
<1> QED BY <1>5, <1>6, <1>7, <1>8 DEF St

LEMMA EnqueuedIs ==
  ASSUME NEW known, queue \in Seq(Nodes), Len(queue) <= NodeQueueMax, NEW found \in Seq(Nodes)
  PROVE  Enqueued(known, found) \in Seq(Nodes) /\ Len(Enqueued(known, found)) <= NodeQueueMax
<1>1. PICK f \in [0..Len(found) -> {q \in Seq(Nodes) : Len(q) <= NodeQueueMax}] :
        Enqueued(known, found) = f[Len(found)]
  BY EnqueueUnrolls
<1>2. Len(found) \in 0..Len(found)
  OBVIOUS
<1> QED BY <1>1, <1>2

\* A reply touches only how often a hash was offered.
SameVerdicts(rows) ==
  \A h \in Hashes : /\ rows[h].resolved = index[h].resolved
                    /\ rows[h].blocked = index[h].blocked
                    /\ rows[h].named = index[h].named

Stages == [rows : {rows \in [Hashes -> Row] : SameVerdicts(rows)},
           leads : {l \in Seq(Lead) : Len(l) <= LeadQueueMax},
           fresh : BOOLEAN]

FirstStage == [rows |-> index, leads |-> leads, fresh |-> FALSE]

\* One offered hash: a row one hit up, and at most one lead more, if there is room.
LEMMA OfferedIs ==
  ASSUME NEW stage \in Stages, NEW h \in Hashes, NEW node \in Nodes
  PROVE  Offered(stage, h, node) \in Stages
<1> DEFINE row == [stage.rows[h] EXCEPT !.hits = IF @ < 2 THEN @ + 1 ELSE @]
           lead == [hash |-> h, node |-> node]
           room == Len(stage.leads) < LeadQueueMax /\ ~row.resolved
           more == IF room /\ row.hits > 1 THEN <<lead>> \o stage.leads
                   ELSE IF room THEN Append(stage.leads, lead)
                   ELSE stage.leads
           rows == [stage.rows EXCEPT ![h] = row]
           fresh == stage.fresh \/ ~row.resolved
<1>1. /\ stage.rows \in [Hashes -> Row] /\ SameVerdicts(stage.rows)
      /\ stage.leads \in Seq(Lead) /\ Len(stage.leads) <= LeadQueueMax
      /\ stage.fresh \in BOOLEAN
  BY DEF Stages
<1>2. /\ row \in Row /\ row.resolved = stage.rows[h].resolved
      /\ row.blocked = stage.rows[h].blocked /\ row.named = stage.rows[h].named
  BY <1>1 DEF Row
<1>3. lead \in Lead
  BY DEF Lead
<1> HIDE DEF row, lead
<1>4. rows \in [Hashes -> Row] /\ SameVerdicts(rows)
  BY <1>1, <1>2 DEF SameVerdicts
<1>5. more \in Seq(Lead) /\ Len(more) <= LeadQueueMax
  <2>1. <<lead>> \in Seq(Lead) /\ Len(<<lead>>) = 1 /\ Len(stage.leads) \in Nat
    BY <1>1, <1>3
  <2>2. <<lead>> \o stage.leads \in Seq(Lead)
        /\ Len(<<lead>> \o stage.leads) = 1 + Len(stage.leads)
    BY <1>1, <2>1
  <2>3. Append(stage.leads, lead) \in Seq(Lead)
        /\ Len(Append(stage.leads, lead)) = Len(stage.leads) + 1
    BY <1>1, <1>3, AppendIs
  <2>4. CASE room /\ row.hits > 1
    <3>1. more = <<lead>> \o stage.leads
      BY <2>4
    <3> HIDE DEF more
    <3> QED BY <2>1, <2>2, <2>4, <3>1, Limits
  <2>5. CASE room /\ ~(row.hits > 1)
    <3>1. more = Append(stage.leads, lead)
      BY <2>5
    <3> HIDE DEF more
    <3> QED BY <2>1, <2>3, <2>5, <3>1, Limits
  <2>6. CASE ~room
    <3>1. more = stage.leads
      BY <2>6
    <3> QED BY <1>1, <3>1
  <2> QED BY <2>4, <2>5, <2>6
<1>6. fresh \in BOOLEAN
  BY <1>1, <1>2 DEF Row
<1>7. Offered(stage, h, node) = [rows |-> rows, fresh |-> fresh, leads |-> more]
  BY DEF Offered, row, lead
<1> HIDE DEF rows, fresh, more
<1> QED BY <1>4, <1>5, <1>6, <1>7 DEF Stages

\* A reply's hashes are taken in one by one.
LEMMA SamplesUnroll ==
  ASSUME index \in [Hashes -> Row], leads \in Seq(Lead), Len(leads) <= LeadQueueMax,
         NEW samples \in Seq(Hashes), NEW node \in Nodes
  PROVE  \E f \in [0..Len(samples) -> Stages] :
           /\ f[0] = FirstStage
           /\ \A i \in 1..Len(samples) : f[i] = Offered(f[i - 1], samples[i], node)
           /\ AfterSamples(samples, node) = f[Len(samples)]
<1> DEFINE St == Stages
<1> DEFINE step == [x \in St \X Hashes |-> Offered(x[1], x[2], node)]
<1> DEFINE it == CHOOSE f : f = [s \in SUBSET DOMAIN samples |->
                    IF s = {} THEN FirstStage ELSE Offered(f[s \ {Max(s)}], samples[Max(s)], node)]
<1> DEFINE f == [i \in 0..Len(samples) |-> it[1..i]]
<1>1. /\ Len(samples) \in Nat /\ DOMAIN samples = 1..Len(samples)
      /\ \A i \in 1..Len(samples) : samples[i] \in Hashes
  OBVIOUS
<1>2. FirstStage \in St /\ \A a \in St, e \in Hashes : Offered(a, e, node) \in St
  <2>1. SameVerdicts(index)
    BY DEF SameVerdicts
  <2>2. FirstStage \in Stages
    BY <2>1 DEF Stages, FirstStage
  <2> QED BY <2>2, OfferedIs
<1>3. it = [s \in SUBSET DOMAIN samples |->
              IF s = {} THEN FirstStage ELSE Offered(it[s \ {Max(s)}], samples[Max(s)], node)]
  <2>0. FirstStage \in St /\ samples \in Seq(Hashes)
    BY <1>2
  <2>1. step \in [St \X Hashes -> St]
    BY <1>2
  <2>2. \A a \in St, e \in Hashes : step[<<a, e>>] = Offered(a, e, node)
    OBVIOUS
  <2> HIDE DEF step, St
  <2>3. PICK g \in [SUBSET DOMAIN samples -> St] : Folds(g, step, FirstStage, samples)
    BY <2>0, <2>1, FoldExists
  <2>4. ASSUME NEW s \in SUBSET DOMAIN samples, s # {}
        PROVE  step[<<g[s \ {Max(s)}], samples[Max(s)]>>]
                 = Offered(g[s \ {Max(s)}], samples[Max(s)], node)
    <3>1. Max(s) \in DOMAIN samples
      BY <1>1, <2>4, MaxIsMember
    <3>2. g[s \ {Max(s)}] \in St /\ samples[Max(s)] \in Hashes
      BY <1>1, <3>1
    <3> QED BY <2>2, <3>2
  <2>5. g = [s \in SUBSET DOMAIN samples |->
               IF s = {} THEN FirstStage ELSE Offered(g[s \ {Max(s)}], samples[Max(s)], node)]
    BY <2>3, <2>4 DEF Folds
  <2> QED BY <2>5
<1>4. AfterSamples(samples, node) = it[DOMAIN samples]
  BY DEF AfterSamples, FirstStage, FoldLeft, MapThenFoldSet
<1> HIDE DEF it
<1>5. f[0] = FirstStage
  BY <1>1, <1>3
<1>6. ASSUME NEW i \in 1..Len(samples) PROVE f[i] = Offered(f[i - 1], samples[i], node)
  <2>1. Max(1..i) = i /\ 1..i \in SUBSET DOMAIN samples /\ 1..i # {} /\ (1..i) \ {i} = 1..(i - 1)
    BY <1>1, PrefixMax
  <2>2. it[1..i] = Offered(it[1..(i - 1)], samples[i], node)
    BY <1>3, <2>1
  <2>3. f[i] = it[1..i] /\ f[i - 1] = it[1..(i - 1)]
    BY <1>1
  <2> QED BY <2>2, <2>3
<1>7. f \in [0..Len(samples) -> St]
  <2> DEFINE A == {i \in 0..Len(samples) : f[i] \in St}
  <2> HIDE DEF f, St
  <2>1. 0 \in A
    <3>1. 0 \in 0..Len(samples)
      BY <1>1
    <3>2. f[0] \in St
      BY <1>2, <1>5
    <3> QED BY <3>1, <3>2
  <2>2. ASSUME NEW i \in 1..Len(samples), i - 1 \in A PROVE i \in A
    <3>1. i \in 0..Len(samples) /\ f[i - 1] \in St /\ samples[i] \in Hashes
      BY <1>1, <2>2
    <3>2. Offered(f[i - 1], samples[i], node) \in St
      BY <1>2, <3>1
    <3>3. f[i] \in St
      BY <1>6, <3>2
    <3> QED BY <3>1, <3>3
  <2>3. \A i \in 0..Len(samples) : i \in A
    <3> HIDE DEF A
    <3> QED BY <1>1, <2>1, <2>2, HandedOn
  <2> QED BY <2>3 DEF f
<1>8. AfterSamples(samples, node) = f[Len(samples)]
  BY <1>1, <1>4
<1> HIDE DEF f, St
<1> QED BY <1>5, <1>6, <1>7, <1>8 DEF St

LEMMA SamplesAre ==
  ASSUME index \in [Hashes -> Row], leads \in Seq(Lead), Len(leads) <= LeadQueueMax,
         NEW samples \in Seq(Hashes), NEW node \in Nodes
  PROVE  AfterSamples(samples, node) \in Stages
<1>1. PICK f \in [0..Len(samples) -> Stages] : AfterSamples(samples, node) = f[Len(samples)]
  BY SamplesUnroll
<1>2. Len(samples) \in 0..Len(samples)
  OBVIOUS
<1> QED BY <1>1, <1>2

-----------------------------------------------------------------------------
(* The types.                                                                  *)

NodeTypes ==
  /\ running \in BOOLEAN
  /\ queue \in Seq(Nodes) /\ Len(queue) <= NodeQueueMax
  /\ discovery \in Seq(Nodes) /\ Len(discovery) <= NodeQueueMax
  /\ nodes \in [Nodes -> NodeState]
  /\ sampling \in [Samplers -> Nodes \cup {None}]
  /\ linked \subseteq Samplers
  /\ finding \in [Finders -> Nodes \cup {None}]

HashTypes ==
  /\ leads \in Seq(Lead) /\ Len(leads) <= LeadQueueMax
  /\ pendingMeta \in Seq(Hashes) /\ Len(pendingMeta) <= MetaQueueMax
  /\ looking \in [Lookers -> Lead \cup {None}]
  /\ holding \in [Lookers -> Hashes \cup {None}]
  /\ naming \in [Namers -> Hashes \cup {None}]
  /\ index \in [Hashes -> Row]

FilterTypes ==
  /\ content \in [Hashes -> Metas \cup {None}]
  /\ old \subseteq Hashes
  /\ swept \in BOOLEAN

LEMMA TypeParts == TypeOK <=> NodeTypes /\ HashTypes /\ FilterTypes
BY DEF TypeOK, NodeTypes, HashTypes, FilterTypes

LEMMA TypesAtFirst == Init => TypeOK
<1> SUFFICES ASSUME Init PROVE TypeOK
  OBVIOUS
<1>1. NodeTypes
  <2>1. PICK seed \in Tables : queue = Filled(<<>>, seed, NodeQueueMax)
    BY DEF Init
  <2>2. seed \in Seq(Nodes)
    BY ListsAreSeqs DEF Tables
  <2>3. <<>> \in Seq(Nodes) /\ Len(<<>>) <= NodeQueueMax /\ NodeQueueMax \in Nat
    BY Limits
  <2>4. queue \in Seq(Nodes) /\ Len(queue) <= NodeQueueMax
    BY <2>1, <2>2, <2>3, FilledIs
  <2>5. Unknown \in NodeState
    BY DEF Unknown, NodeState
  <2>6. discovery = <<>> /\ nodes = [n \in Nodes |-> Unknown] /\ running = TRUE
        /\ sampling = [w \in Samplers |-> None] /\ linked = {} /\ finding = [w \in Finders |-> None]
    BY DEF Init
  <2> QED BY <2>3, <2>4, <2>5, <2>6 DEF NodeTypes
<1>2. HashTypes
  <2>1. NoRow \in Row /\ OldRow \in Row
    BY DEF NoRow, OldRow, Row
  <2>2. leads = <<>> /\ pendingMeta = <<>> /\ looking = [w \in Lookers |-> None]
        /\ holding = [w \in Lookers |-> None] /\ naming = [w \in Namers |-> None]
        /\ index = [h \in Hashes |-> IF h \in old THEN OldRow ELSE NoRow]
    BY DEF Init
  <2>3. <<>> \in Seq(Lead) /\ <<>> \in Seq(Hashes) /\ Len(<<>>) = 0
    OBVIOUS
  <2> QED BY <2>1, <2>2, <2>3, Limits DEF HashTypes
<1>3. FilterTypes
  BY DEF FilterTypes, Init
<1> QED BY <1>1, <1>2, <1>3, TypeParts

\* The steps that concern nodes only.
LEMMA NodeStepTypes ==
  ASSUME TypeOK,
         \/ Reseed \/ TableCleared \/ \E n \in Nodes : Rested(n)
         \/ \E w \in Samplers : Sample(w) \/ SampleFails(w)
         \/ \E w \in Finders : SeedDiscovery(w) \/ FindNode(w) \/ FindEnds(w)
  PROVE  NodeTypes' /\ UNCHANGED <<hashVars, filterVars>>
<1>0. NodeTypes /\ NodeQueueMax \in Nat
  BY TypeParts, Limits
<1>1. CASE Reseed
  <2>1. PICK table \in Tables : queue' = Enqueued(nodes, table)
    BY <1>1 DEF Reseed
  <2>2. table \in Seq(Nodes)
    BY ListsAreSeqs DEF Tables
  <2>3. queue' \in Seq(Nodes) /\ Len(queue') <= NodeQueueMax
    BY <1>0, <2>1, <2>2, EnqueuedIs DEF NodeTypes
  <2> QED BY <1>0, <1>1, <2>3 DEF Reseed, NodeTypes
<1>2. CASE TableCleared
  BY <1>0, <1>2 DEF TableCleared, NodeTypes, Unknown, NodeState
<1>3. ASSUME NEW n \in Nodes, Rested(n) PROVE NodeTypes' /\ UNCHANGED <<hashVars, filterVars>>
  <2>1. [nodes[n] EXCEPT !.rest = "none"] \in NodeState
    BY <1>0 DEF NodeTypes, NodeState
  <2>2. nodes' = [nodes EXCEPT ![n] = [nodes[n] EXCEPT !.rest = "none"]]
    BY <1>3 DEF Rested
  <2>3. nodes' \in [Nodes -> NodeState]
    BY <1>0, <2>1, <2>2 DEF NodeTypes
  <2> QED BY <1>0, <1>3, <2>3 DEF Rested, NodeTypes
<1>4. ASSUME NEW w \in Samplers, Sample(w) PROVE NodeTypes' /\ UNCHANGED <<hashVars, filterVars>>
  <2>1. Head(queue) \in Nodes /\ Tail(queue) \in Seq(Nodes) /\ Len(Tail(queue)) = Len(queue) - 1
        /\ Len(queue) \in Nat
    BY <1>0, <1>4, TailIs DEF Sample, NodeTypes
  <2> QED BY <1>0, <1>4, <2>1 DEF Sample, NodeTypes
<1>5. ASSUME NEW w \in Samplers, SampleFails(w) PROVE NodeTypes' /\ UNCHANGED <<hashVars, filterVars>>
  <2>1. sampling[w] \in Nodes /\ nodes[sampling[w]] \in NodeState
    BY <1>0, <1>5 DEF SampleFails, NodeTypes
  <2>2. ASSUME NEW state \in NodeState PROVE Failed(state) \in NodeState
    <3>1. state \in [supports : {"unknown", "yes", "no"}, strikes : 0..2, rest : {"none", "busy", "full"}]
      BY DEF NodeState
    <3>2. [state EXCEPT !.strikes = 1] \in NodeState
      BY <3>1 DEF NodeState
    <3>3. [state EXCEPT !.strikes = 2] \in NodeState
      BY <3>1 DEF NodeState
    <3>4. [state EXCEPT !.strikes = 2, !.supports = "no"] \in NodeState
      BY <3>3 DEF NodeState
    <3> QED BY <3>2, <3>4 DEF Failed
  <2>3. nodes' \in [Nodes -> NodeState]
    BY <1>0, <1>5, <2>1, <2>2 DEF SampleFails, Noted, NodeTypes
  <2> QED BY <1>0, <1>5, <2>3 DEF SampleFails, NodeTypes
<1>6. ASSUME NEW w \in Finders, SeedDiscovery(w) PROVE NodeTypes' /\ UNCHANGED <<hashVars, filterVars>>
  <2>1. PICK table \in Tables : discovery' = Discovered(table \o queue)
    BY <1>6 DEF SeedDiscovery
  <2>2. table \in Seq(Nodes)
    BY ListsAreSeqs DEF Tables
  <2>3. table \o queue \in Seq(Nodes)
    BY <1>0, <2>2 DEF NodeTypes
  <2>4. discovery' \in Seq(Nodes) /\ Len(discovery') <= NodeQueueMax
    BY <1>0, <2>1, <2>3, FilledIs DEF NodeTypes, Discovered
  <2> QED BY <1>0, <1>6, <2>4 DEF SeedDiscovery, NodeTypes
<1>7. ASSUME NEW w \in Finders, FindNode(w) PROVE NodeTypes' /\ UNCHANGED <<hashVars, filterVars>>
  <2>1. Head(discovery) \in Nodes /\ Tail(discovery) \in Seq(Nodes)
        /\ Len(Tail(discovery)) = Len(discovery) - 1 /\ Len(discovery) \in Nat
    BY <1>0, <1>7, TailIs DEF FindNode, NodeTypes
  <2> QED BY <1>0, <1>7, <2>1 DEF FindNode, NodeTypes
<1>8. ASSUME NEW w \in Finders, FindEnds(w) PROVE NodeTypes' /\ UNCHANGED <<hashVars, filterVars>>
  <2>1. PICK neighbours \in Lists(Nodes) : Found(w, neighbours)
    BY <1>8 DEF FindEnds
  <2>2. neighbours \in Seq(Nodes)
    BY ListsAreSeqs
  <2>3. queue' \in Seq(Nodes) /\ Len(queue') <= NodeQueueMax
    BY <1>0, <2>1, <2>2, EnqueuedIs DEF NodeTypes, Found
  <2>4. discovery' \in Seq(Nodes) /\ Len(discovery') <= NodeQueueMax
    BY <1>0, <2>1, <2>2, FilledIs DEF NodeTypes, Found, Discovered
  <2> QED BY <1>0, <2>1, <2>3, <2>4 DEF Found, NodeTypes
<1> QED BY <1>1, <1>2, <1>3, <1>4, <1>5, <1>6, <1>7, <1>8

\* A reply to a sampler.
LEMMA SampledTypes ==
  ASSUME TypeOK, NEW w \in Samplers, NEW samples \in Lists(Hashes),
         NEW interval \in {"short", "long"}, NEW neighbours \in Lists(Nodes),
         Sampled(w, samples, interval, neighbours)
  PROVE  NodeTypes' /\ HashTypes' /\ SameVerdicts(index')
         /\ UNCHANGED <<running, pendingMeta, looking, holding, naming, filterVars>>
<1> DEFINE stage == AfterSamples(samples, sampling[w])
           state == [supports |-> "yes", strikes |-> 0, rest |-> Rest(stage.fresh, interval)]
<1>0. NodeTypes /\ HashTypes
  BY TypeParts
<1>1. /\ sampling[w] # None /\ index' = stage.rows /\ leads' = stage.leads
      /\ nodes' = Noted(w, state)
      /\ queue' = Enqueued(nodes', neighbours)
      /\ sampling' = [sampling EXCEPT ![w] = None]
      /\ linked' = linked \ {w}
      /\ UNCHANGED <<running, discovery, finding, pendingMeta, looking, holding, naming, filterVars>>
  BY DEF Sampled
<1>2. sampling[w] \in Nodes
  BY <1>0, <1>1 DEF NodeTypes
<1>3. samples \in Seq(Hashes) /\ neighbours \in Seq(Nodes)
  BY ListsAreSeqs
<1>4. stage \in Stages
  BY <1>0, <1>2, <1>3, SamplesAre DEF HashTypes
<1> HIDE DEF stage
<1>5. state \in NodeState
  BY <1>4 DEF Rest, NodeState
<1> HIDE DEF state
<1>6. nodes' \in [Nodes -> NodeState]
  BY <1>0, <1>1, <1>2, <1>5 DEF Noted, NodeTypes
<1>7. queue' \in Seq(Nodes) /\ Len(queue') <= NodeQueueMax
  BY <1>0, <1>1, <1>3, EnqueuedIs DEF NodeTypes
<1>8. NodeTypes'
  BY <1>0, <1>1, <1>6, <1>7 DEF NodeTypes
<1>9. /\ index' \in [Hashes -> Row] /\ SameVerdicts(index')
      /\ leads' \in Seq(Lead) /\ Len(leads') <= LeadQueueMax
  BY <1>1, <1>4 DEF Stages
<1>10. HashTypes'
  BY <1>0, <1>1, <1>9 DEF HashTypes
<1> QED BY <1>1, <1>8, <1>9, <1>10

\* The steps of the lookers, and the namers' but one.
LEMMA HashStepTypes ==
  ASSUME TypeOK,
         \/ \E w \in Lookers : GetPeers(w) \/ LookEnds(w) \/ Push(w) \/ GiveUp(w)
         \/ \E w \in Namers : FetchName(w) \/ NotNamed(w)
  PROVE  HashTypes' /\ UNCHANGED <<running, nodeVars, index, filterVars>>
<1>0. HashTypes
  BY TypeParts
<1>1. ASSUME NEW w \in Lookers, GetPeers(w)
      PROVE  HashTypes' /\ UNCHANGED <<running, nodeVars, index, filterVars>>
  <2>1. Head(leads) \in Lead /\ Tail(leads) \in Seq(Lead)
        /\ Len(Tail(leads)) = Len(leads) - 1 /\ Len(leads) \in Nat
    BY <1>0, <1>1, TailIs DEF GetPeers, HashTypes
  <2> QED BY <1>0, <1>1, <2>1, Limits DEF GetPeers, HashTypes
<1>2. ASSUME NEW w \in Lookers, NoPeers(w)
      PROVE  HashTypes' /\ UNCHANGED <<running, nodeVars, index, filterVars>>
  BY <1>0, <1>2 DEF NoPeers, HashTypes
<1>3. ASSUME NEW w \in Lookers, HasPeers(w)
      PROVE  HashTypes' /\ UNCHANGED <<running, nodeVars, index, filterVars>>
  <2> DEFINE h == looking[w].hash
  <2>1. h \in Hashes
    BY <1>0, <1>3 DEF HasPeers, HashTypes, Lead
  <2>2. Append(pendingMeta, h) \in Seq(Hashes) /\ Len(Append(pendingMeta, h)) = Len(pendingMeta) + 1
        /\ Len(pendingMeta) \in Nat
    BY <1>0, <2>1, AppendIs DEF HashTypes
  <2>3. pendingMeta' = IF running /\ HasRoom THEN Append(pendingMeta, h) ELSE pendingMeta
    BY <1>3 DEF HasPeers
  <2>4. pendingMeta' \in Seq(Hashes) /\ Len(pendingMeta') <= MetaQueueMax
    BY <1>0, <2>2, <2>3, Limits DEF HashTypes, HasRoom
  <2>5. holding' \in [Lookers -> Hashes \cup {None}]
    BY <1>0, <1>3, <2>1 DEF HasPeers, HashTypes, Held
  <2> QED BY <1>0, <1>3, <2>4, <2>5 DEF HasPeers, HashTypes
<1>4. ASSUME NEW w \in Lookers, Push(w)
      PROVE  HashTypes' /\ UNCHANGED <<running, nodeVars, index, filterVars>>
  <2>1. holding[w] \in Hashes
    BY <1>0, <1>4 DEF Push, HashTypes
  <2>2. Append(pendingMeta, holding[w]) \in Seq(Hashes)
        /\ Len(Append(pendingMeta, holding[w])) = Len(pendingMeta) + 1
        /\ Len(pendingMeta) \in Nat
    BY <1>0, <2>1, AppendIs DEF HashTypes
  <2>3. pendingMeta' \in Seq(Hashes) /\ Len(pendingMeta') <= MetaQueueMax
    BY <1>0, <1>4, <2>2, Limits DEF HashTypes, HasRoom, WaitOver, Push
  <2> QED BY <1>0, <1>4, <2>3 DEF Push, HashTypes
<1>5. ASSUME NEW w \in Lookers, GiveUp(w)
      PROVE  HashTypes' /\ UNCHANGED <<running, nodeVars, index, filterVars>>
  BY <1>0, <1>5 DEF GiveUp, HashTypes
<1>6. ASSUME NEW w \in Namers, FetchName(w)
      PROVE  HashTypes' /\ UNCHANGED <<running, nodeVars, index, filterVars>>
  <2>1. Head(pendingMeta) \in Hashes /\ Tail(pendingMeta) \in Seq(Hashes)
        /\ Len(Tail(pendingMeta)) = Len(pendingMeta) - 1 /\ Len(pendingMeta) \in Nat
    BY <1>0, <1>6, TailIs DEF FetchName, HashTypes
  <2> QED BY <1>0, <1>6, <2>1, Limits DEF FetchName, HashTypes
<1>7. ASSUME NEW w \in Namers, NotNamed(w)
      PROVE  HashTypes' /\ UNCHANGED <<running, nodeVars, index, filterVars>>
  BY <1>0, <1>7 DEF NotNamed, HashTypes
<1> QED BY <1>1, <1>2, <1>3, <1>4, <1>5, <1>6, <1>7 DEF LookEnds

\* A name comes in, or old rows are gone through.
LEMMA FilterStepTypes ==
  ASSUME TypeOK, Sweep \/ \E w \in Namers : Named(w)
  PROVE  /\ HashTypes' /\ FilterTypes'
         /\ UNCHANGED <<running, nodeVars, leads, pendingMeta, looking, holding, old>>
<1>0. HashTypes /\ FilterTypes
  BY TypeParts
<1>1. CASE Sweep
  <2>1. ASSUME NEW h \in Hashes
        PROVE  index[h] \in Row /\ [index[h] EXCEPT !.blocked = TRUE, !.named = FALSE] \in Row
    BY <1>0 DEF HashTypes, Row
  <2>2. index' \in [Hashes -> Row]
    BY <1>1, <2>1 DEF Sweep
  <2>3. /\ swept' = TRUE
        /\ UNCHANGED <<running, nodeVars, leads, pendingMeta, looking, holding, naming, content, old>>
    BY <1>1 DEF Sweep
  <2> QED BY <1>0, <2>2, <2>3 DEF HashTypes, FilterTypes
<1>2. ASSUME NEW w \in Namers, Named(w)
      PROVE  /\ HashTypes' /\ FilterTypes'
             /\ UNCHANGED <<running, nodeVars, leads, pendingMeta, looking, holding, old>>
  <2> DEFINE h == naming[w]
  <2>1. h \in Hashes
    BY <1>0, <1>2 DEF Named, HashTypes
  <2>2. PICK meta \in IF content[h] = None THEN Metas ELSE {content[h]} :
          /\ content' = [content EXCEPT ![h] = meta]
          /\ index' = [index EXCEPT ![h] = RowResolved(h, meta)]
    BY <1>2 DEF Named
  <2>3. meta \in Metas
    BY <1>0, <2>1, <2>2 DEF FilterTypes
  <2>4. RowResolved(h, meta) \in Row
    BY <1>0, <2>1 DEF RowResolved, HashTypes, Row
  <2>5. naming' = [naming EXCEPT ![w] = None]
        /\ UNCHANGED <<running, nodeVars, leads, pendingMeta, looking, holding, old, swept>>
    BY <1>2 DEF Named
  <2>6. index' \in [Hashes -> Row] /\ content' \in [Hashes -> Metas \cup {None}]
        /\ naming' \in [Namers -> Hashes \cup {None}]
    BY <1>0, <2>1, <2>2, <2>3, <2>4, <2>5 DEF HashTypes, FilterTypes
  <2> QED BY <1>0, <2>5, <2>6 DEF HashTypes, FilterTypes
<1> QED BY <1>1, <1>2

\* The kinds of steps.
NodeStep ==
  \/ Reseed \/ TableCleared \/ \E n \in Nodes : Rested(n)
  \/ \E w \in Samplers : Sample(w) \/ SampleFails(w)
  \/ \E w \in Finders : SeedDiscovery(w) \/ FindNode(w) \/ FindEnds(w)

ReplyStep ==
  \E w \in Samplers, samples \in Lists(Hashes), interval \in {"short", "long"},
     neighbours \in Lists(Nodes) : Sampled(w, samples, interval, neighbours)

HashStep ==
  \/ \E w \in Lookers : GetPeers(w) \/ LookEnds(w) \/ Push(w) \/ GiveUp(w)
  \/ \E w \in Namers : FetchName(w) \/ NotNamed(w)

FilterStep == Sweep \/ \E w \in Namers : Named(w)

LEMMA StepsAre == Next => NodeStep \/ ReplyStep \/ HashStep \/ FilterStep \/ Stop
BY DEF Next, NodeStep, ReplyStep, HashStep, FilterStep, SampleEnds, NameEnds

LEMMA TypesKept == TypeOK /\ [Next]_vars => TypeOK'
<1> SUFFICES ASSUME TypeOK, [Next]_vars PROVE TypeOK'
  OBVIOUS
<1>0. NodeTypes /\ HashTypes /\ FilterTypes
  BY TypeParts
<1>a. NodeTypes' /\ HashTypes' /\ FilterTypes' => TypeOK'
  BY DEF TypeOK, NodeTypes, HashTypes, FilterTypes
<1>1. CASE NodeStep
  <2>1. NodeTypes' /\ UNCHANGED <<hashVars, filterVars>>
    BY <1>1, NodeStepTypes DEF NodeStep
  <2>2. HashTypes' /\ FilterTypes'
    BY <1>0, <2>1 DEF HashTypes, FilterTypes, hashVars, filterVars
  <2> QED BY <1>a, <2>1, <2>2
<1>2. CASE ReplyStep
  <2>1. NodeTypes' /\ HashTypes' /\ UNCHANGED filterVars
    BY <1>2, SampledTypes DEF ReplyStep
  <2>2. FilterTypes'
    BY <1>0, <2>1 DEF FilterTypes, filterVars
  <2> QED BY <1>a, <2>1, <2>2
<1>3. CASE HashStep
  <2>1. HashTypes' /\ UNCHANGED <<running, nodeVars, filterVars>>
    BY <1>3, HashStepTypes DEF HashStep
  <2>2. NodeTypes' /\ FilterTypes'
    BY <1>0, <2>1 DEF NodeTypes, FilterTypes, nodeVars, filterVars
  <2> QED BY <1>a, <2>1, <2>2
<1>4. CASE FilterStep
  <2>1. HashTypes' /\ FilterTypes' /\ UNCHANGED <<running, nodeVars>>
    BY <1>4, FilterStepTypes DEF FilterStep
  <2>2. NodeTypes'
    BY <1>0, <2>1 DEF NodeTypes, nodeVars
  <2> QED BY <1>a, <2>1, <2>2
<1>5. CASE Stop
  BY <1>0, <1>5, <1>a DEF Stop, NodeTypes, HashTypes, FilterTypes, nodeVars, hashVars, filterVars
<1>6. CASE UNCHANGED vars
  BY <1>0, <1>6, <1>a DEF vars, NodeTypes, HashTypes, FilterTypes, nodeVars, hashVars, filterVars
<1> QED BY <1>1, <1>2, <1>3, <1>4, <1>5, <1>6, StepsAre

\* Every queue keeps within its limit, every worker waits for one thing, and every
\* row is a row, whatever replies come and in whatever order.
THEOREM TypeCorrect == Spec => []TypeOK
<1> QED BY TypesAtFirst, TypesKept, PTL DEF Spec

-----------------------------------------------------------------------------
(* The gate.                                                                   *)

\* What makes GatedNames inductive: it speaks of what the filter refused, which is
\* all that was banned, and a row that is blocked holds metadata it refused.
GateHolds ==
  \A h \in Hashes :
    /\ index[h].named /\ h \notin old => content[h] \notin Refused
    /\ index[h].named /\ swept => content[h] \notin RefusedByName
    /\ index[h].blocked => content[h] \in Refused
    /\ index[h].resolved <=> index[h].named \/ index[h].blocked

LEMMA GateAtFirst == Init => GateHolds
<1> SUFFICES ASSUME Init, NEW h \in Hashes
             PROVE  /\ index[h].named /\ h \notin old => content[h] \notin Refused
                    /\ index[h].named /\ swept => content[h] \notin RefusedByName
                    /\ index[h].blocked => content[h] \in Refused
                    /\ index[h].resolved <=> index[h].named \/ index[h].blocked
  BY DEF GateHolds
<1>1. index[h] = IF h \in old THEN OldRow ELSE NoRow
  BY DEF Init
<1>2. swept = FALSE
  BY DEF Init
<1> QED BY <1>1, <1>2 DEF OldRow, NoRow

LEMMA GateKept == TypeOK /\ GateHolds /\ [Next]_vars => GateHolds'
<1> SUFFICES ASSUME TypeOK, GateHolds, [Next]_vars PROVE GateHolds'
  OBVIOUS
<1>0. HashTypes /\ FilterTypes
  BY TypeParts
<1>1. ASSUME UNCHANGED <<index, content, old, swept>> PROVE GateHolds'
  BY <1>1 DEF GateHolds
<1>2. CASE NodeStep
  BY <1>1, <1>2, NodeStepTypes DEF NodeStep, hashVars, filterVars
<1>3. CASE ReplyStep
  <2>1. SameVerdicts(index') /\ UNCHANGED filterVars
    BY <1>3, SampledTypes DEF ReplyStep
  <2> QED BY <2>1 DEF GateHolds, SameVerdicts, filterVars
<1>4. CASE HashStep
  BY <1>1, <1>4, HashStepTypes DEF HashStep, filterVars
<1>5. CASE Sweep
  <2> SUFFICES ASSUME NEW h \in Hashes
               PROVE  /\ index'[h].named /\ h \notin old' => content'[h] \notin Refused
                      /\ index'[h].named /\ swept' => content'[h] \notin RefusedByName
                      /\ index'[h].blocked => content'[h] \in Refused
                      /\ index'[h].resolved <=> index'[h].named \/ index'[h].blocked
    BY DEF GateHolds
  <2>1. /\ index'[h] = IF index[h].named /\ content[h] \in RefusedByName
                        THEN [index[h] EXCEPT !.blocked = TRUE, !.named = FALSE]
                        ELSE index[h]
        /\ UNCHANGED <<content, old>>
    BY <1>5 DEF Sweep
  <2>2. index[h] \in Row
    BY <1>0 DEF HashTypes
  <2>3. CASE index[h].named /\ content[h] \in RefusedByName
    <3>1. content[h] \in Refused
      BY <2>3, FilterRefusesTheBanned
    <3>2. index'[h].blocked = TRUE /\ index'[h].named = FALSE /\ index'[h].resolved = index[h].resolved
      BY <2>1, <2>2, <2>3 DEF Row
    <3>3. index[h].resolved
      BY <2>3 DEF GateHolds
    <3> QED BY <2>1, <3>1, <3>2, <3>3
  <2>4. CASE ~(index[h].named /\ content[h] \in RefusedByName)
    <3>1. index'[h] = index[h]
      BY <2>1, <2>4
    <3> QED BY <2>1, <2>4, <3>1 DEF GateHolds
  <2> QED BY <2>3, <2>4
<1>6. ASSUME NEW w \in Namers, Named(w) PROVE GateHolds'
  <2> DEFINE h == naming[w]
  <2>1. h \in Hashes
    BY <1>0, <1>6 DEF Named, HashTypes
  <2>2. PICK meta \in IF content[h] = None THEN Metas ELSE {content[h]} :
          /\ content' = [content EXCEPT ![h] = meta]
          /\ index' = [index EXCEPT ![h] = RowResolved(h, meta)]
    BY <1>6 DEF Named
  <2>3. UNCHANGED <<old, swept>>
    BY <1>6 DEF Named
  <2>4. content'[h] = meta /\ index'[h] = RowResolved(h, meta) /\ index[h] \in Row
    BY <1>0, <2>1, <2>2 DEF HashTypes, FilterTypes
  <2>5. index[h].blocked => meta \in Refused
    <3> SUFFICES ASSUME index[h].blocked PROVE meta \in Refused
      OBVIOUS
    <3>1. content[h] \in Refused
      BY <2>1 DEF GateHolds
    <3>2. content[h] # None
      BY <3>1, MetasAssumption DEF Refused
    <3> QED BY <2>2, <3>1, <3>2
  <2> HIDE DEF h
  <2>6. /\ index'[h].named => content'[h] \notin Refused
        /\ index'[h].named => content'[h] \notin RefusedByName
        /\ index'[h].blocked => content'[h] \in Refused
        /\ index'[h].resolved <=> index'[h].named \/ index'[h].blocked
    <3>1. CASE meta \in Refused
      <4>1. index'[h] = [index[h] EXCEPT !.resolved = TRUE, !.blocked = TRUE, !.named = FALSE]
        BY <2>4, <3>1 DEF RowResolved
      <4>2. index'[h].named = FALSE /\ index'[h].blocked = TRUE /\ index'[h].resolved = TRUE
        BY <2>4, <4>1 DEF Row
      <4> QED BY <2>4, <3>1, <4>2
    <3>2. CASE meta \notin Refused
      <4>1. index'[h] = [index[h] EXCEPT !.resolved = TRUE, !.named = TRUE]
        BY <2>4, <3>2 DEF RowResolved
      <4>2. index'[h].named = TRUE /\ index'[h].blocked = index[h].blocked /\ index'[h].resolved = TRUE
        BY <2>4, <4>1 DEF Row
      <4>3. index[h].blocked \in BOOLEAN
        BY <2>4 DEF Row
      <4>4. meta \notin RefusedByName
        BY <3>2, FilterRefusesTheBanned
      <4> QED BY <2>4, <2>5, <3>2, <4>2, <4>3, <4>4
    <3> QED BY <3>1, <3>2
  <2>7. ASSUME NEW g \in Hashes, g # h PROVE index'[g] = index[g] /\ content'[g] = content[g]
    BY <1>0, <2>1, <2>2, <2>7 DEF HashTypes, FilterTypes
  <2> QED BY <2>3, <2>6, <2>7 DEF GateHolds
<1>7. CASE Stop
  BY <1>1, <1>7 DEF Stop, hashVars, filterVars
<1>8. CASE UNCHANGED vars
  BY <1>1, <1>8 DEF vars, hashVars, filterVars
<1> QED BY <1>2, <1>3, <1>4, <1>5, <1>6, <1>7, <1>8, StepsAre DEF FilterStep

LEMMA GateIsGate == GateHolds => GatedNames
BY FilterRefusesTheBanned DEF GateHolds, GatedNames

\* Whatever the rules, the hashes, the workers and MaxPaths: no torrent is named in
\* the index that has a banned word standing alone in its name or in one of its
\* first MaxPaths paths, but for those named before there was a filter, whose
\* names are clean once they are swept; no innocent one is blocked; and a resolved
\* row is named or blocked.
THEOREM TheGateHolds == Spec => []GatedNames
<1>1. Init => TypeOK /\ GateHolds
  BY TypesAtFirst, GateAtFirst
<1>2. TypeOK /\ GateHolds /\ [Next]_vars => (TypeOK /\ GateHolds)'
  BY TypesKept, GateKept
<1>3. TypeOK /\ GateHolds => GatedNames
  BY GateIsGate
<1> QED BY <1>1, <1>2, <1>3, PTL DEF Spec

-----------------------------------------------------------------------------
(* Backpressure.                                                               *)

\* A looker that waits for an answer holds nothing.
OneAtATime == \A w \in Lookers : looking[w] # None => holding[w] = None

LEMMA OneAtATimeKept == TypeOK /\ OneAtATime /\ [Next]_vars => OneAtATime'
<1> SUFFICES ASSUME TypeOK, OneAtATime, [Next]_vars PROVE OneAtATime'
  OBVIOUS
<1>0. HashTypes
  BY TypeParts
<1>1. ASSUME UNCHANGED <<looking, holding>> PROVE OneAtATime'
  BY <1>1 DEF OneAtATime
<1>2. CASE NodeStep
  BY <1>1, <1>2, NodeStepTypes DEF NodeStep, hashVars
<1>3. CASE ReplyStep
  <2>1. UNCHANGED <<looking, holding>>
    BY <1>3 DEF ReplyStep, Sampled
  <2> QED BY <1>1, <2>1
<1>4. ASSUME NEW w \in Lookers, GetPeers(w) PROVE OneAtATime'
  BY <1>0, <1>4 DEF OneAtATime, GetPeers, HashTypes
<1>5. ASSUME NEW w \in Lookers, LookEnds(w) PROVE OneAtATime'
  <2>1. looking' = [looking EXCEPT ![w] = None]
    BY <1>5 DEF LookEnds, NoPeers, HasPeers
  <2>2. \A v \in Lookers : v # w => holding'[v] = holding[v]
    BY <1>0, <1>5 DEF LookEnds, NoPeers, HasPeers, HashTypes
  <2> QED BY <1>0, <2>1, <2>2 DEF OneAtATime, HashTypes
<1>6. ASSUME NEW w \in Lookers, Push(w) \/ GiveUp(w) PROVE OneAtATime'
  BY <1>0, <1>6 DEF OneAtATime, Push, GiveUp, HashTypes
<1>7. ASSUME NEW w \in Namers, FetchName(w) \/ NotNamed(w) \/ Named(w) PROVE OneAtATime'
  BY <1>1, <1>7 DEF FetchName, NotNamed, Named
<1>8. CASE Sweep \/ Stop \/ UNCHANGED vars
  BY <1>1, <1>8 DEF Sweep, Stop, vars, hashVars
<1> QED BY <1>2, <1>3, <1>4, <1>5, <1>6, <1>7, <1>8, StepsAre DEF HashStep, FilterStep

\* How many of a queue, and of the workers, are a hash's.
InQueue(q, h) == {i \in DOMAIN q : q[i] = h}
AtWork(f, h) == {w \in DOMAIN f : f[w] = h}

LEMMA QueueCounts ==
  ASSUME NEW D, NEW q \in Seq(D), NEW h
  PROVE  /\ IsFiniteSet(InQueue(q, h)) /\ Cardinality(InQueue(q, h)) \in Nat
         /\ \A e \in D : Cardinality(InQueue(Append(q, e), h))
                           = Cardinality(InQueue(q, h)) + (IF e = h THEN 1 ELSE 0)
         /\ q # <<>> => Cardinality(InQueue(Tail(q), h))
                           = Cardinality(InQueue(q, h)) - (IF Head(q) = h THEN 1 ELSE 0)
<1>0. Len(q) \in Nat /\ DOMAIN q = 1..Len(q)
  OBVIOUS
<1>1. IsFiniteSet(1..Len(q))
  BY <1>0, FS_Interval
<1>2. IsFiniteSet(InQueue(q, h)) /\ Cardinality(InQueue(q, h)) \in Nat
  <2>1. InQueue(q, h) \subseteq 1..Len(q)
    BY <1>0 DEF InQueue
  <2> QED BY <1>1, <2>1, FS_Subset, FS_CardinalityType
<1>3. ASSUME NEW e \in D
      PROVE  Cardinality(InQueue(Append(q, e), h))
               = Cardinality(InQueue(q, h)) + (IF e = h THEN 1 ELSE 0)
  <2> DEFINE s == Append(q, e)
  <2>1. /\ s \in Seq(D) /\ Len(s) = Len(q) + 1 /\ s[Len(q) + 1] = e
        /\ \A i \in 1..Len(q) : s[i] = q[i]
    BY AppendIs
  <2>2. DOMAIN s = 1..(Len(q) + 1)
    BY <2>1
  <2> HIDE DEF s
  <2>3. Len(q) + 1 \notin InQueue(q, h)
    BY <1>0 DEF InQueue
  <2>4. CASE e = h
    <3>1. InQueue(s, h) = InQueue(q, h) \cup {Len(q) + 1}
      BY <1>0, <2>1, <2>2, <2>4 DEF InQueue
    <3>2. Cardinality(InQueue(q, h) \cup {Len(q) + 1}) = Cardinality(InQueue(q, h)) + 1
      BY <1>2, <2>3, FS_AddElement
    <3> QED BY <2>4, <3>1, <3>2 DEF s
  <2>5. CASE e # h
    <3>1. InQueue(s, h) = InQueue(q, h)
      BY <1>0, <2>1, <2>2, <2>5 DEF InQueue
    <3> QED BY <1>2, <2>5, <3>1 DEF s
  <2> QED BY <2>4, <2>5
<1>4. ASSUME q # <<>>
      PROVE  Cardinality(InQueue(Tail(q), h))
               = Cardinality(InQueue(q, h)) - (IF Head(q) = h THEN 1 ELSE 0)
  <2> DEFINE s == Tail(q)
  <2>1. /\ s \in Seq(D) /\ Len(s) = Len(q) - 1 /\ Len(q) > 0 /\ Head(q) = q[1]
        /\ \A i \in 1..(Len(q) - 1) : s[i] = q[i + 1]
    BY <1>4, TailIs
  <2>2. DOMAIN s = 1..(Len(q) - 1)
    BY <2>1
  <2> HIDE DEF s
  <2> DEFINE A == InQueue(s, h)  B == InQueue(q, h) \ {1}  f == [i \in A |-> i + 1]
  <2>3. \A i \in A : i \in Nat /\ i + 1 \in B
    BY <1>0, <2>1, <2>2 DEF InQueue
  <2>4. \A j \in B : j - 1 \in A /\ j = (j - 1) + 1
    BY <1>0, <2>1, <2>2 DEF InQueue
  <2>5. IsFiniteSet(B)
           /\ Cardinality(B) = IF 1 \in InQueue(q, h) THEN Cardinality(InQueue(q, h)) - 1
                                                     ELSE Cardinality(InQueue(q, h))
    BY <1>2, FS_RemoveElement
  <2> HIDE DEF A, B
  <2>6. f \in Bijection(A, B)
    <3>1. f \in [A -> B]
      BY <2>3
    <3>2. \A i, j \in A : f[i] = f[j] => i = j
      BY <2>3
    <3>3. \A j \in B : \E i \in A : f[i] = j
      BY <2>4
    <3>4. DOMAIN f = A
      OBVIOUS
    <3> HIDE DEF f
    <3>5. IsInjective(f)
      BY <3>2, <3>4 DEF IsInjective
    <3> QED BY <3>1, <3>3, <3>5 DEF Bijection, Injection, Surjection
  <2>7. Cardinality(A) = Cardinality(B)
    <3>1. IsFiniteSet(A)
      <4>1. A \subseteq 1..Len(q)
        BY <1>0, <2>2 DEF A, InQueue
      <4> QED BY <1>1, <4>1, FS_Subset
    <3>2. ExistsBijection(A, B)
      BY <2>6 DEF ExistsBijection
    <3> QED BY <3>1, <3>2, FS_Bijection
  <2>8. 1 \in InQueue(q, h) <=> Head(q) = h
    BY <1>0, <2>1 DEF InQueue
  <2> QED BY <1>2, <2>5, <2>7, <2>8 DEF A, s
<1> QED BY <1>2, <1>3, <1>4

LEMMA WorkCounts ==
  ASSUME NEW D, NEW R, IsFiniteSet(D), NEW f \in [D -> R], NEW h
  PROVE  IsFiniteSet(AtWork(f, h)) /\ Cardinality(AtWork(f, h)) \in Nat
<1>1. AtWork(f, h) \subseteq D
  BY DEF AtWork
<1> QED BY <1>1, FS_Subset, FS_CardinalityType

LEMMA WorkChanges ==
  ASSUME NEW D, NEW R, IsFiniteSet(D), NEW f \in [D -> R], NEW h,
         NEW w \in D, NEW v \in R, NEW g \in [D -> R],
         \A x \in D : g[x] = IF x = w THEN v ELSE f[x]
  PROVE  Cardinality(AtWork(g, h))
           = Cardinality(AtWork(f, h)) - (IF f[w] = h THEN 1 ELSE 0) + (IF v = h THEN 1 ELSE 0)
<1>1. IsFiniteSet(AtWork(f, h)) /\ Cardinality(AtWork(f, h)) \in Nat
  BY WorkCounts
<1>2. DOMAIN g = D /\ g[w] = v /\ \A x \in D : x # w => g[x] = f[x]
  OBVIOUS
<1>3. w \in AtWork(f, h) <=> f[w] = h
  BY DEF AtWork
<1>4. CASE v = h
  <2>1. AtWork(g, h) = AtWork(f, h) \cup {w}
    BY <1>2, <1>4 DEF AtWork
  <2>2. Cardinality(AtWork(f, h) \cup {w})
          = IF w \in AtWork(f, h) THEN Cardinality(AtWork(f, h)) ELSE Cardinality(AtWork(f, h)) + 1
    BY <1>1, FS_AddElement
  <2>3. CASE f[w] = h
    <3>1. Cardinality(AtWork(g, h)) = Cardinality(AtWork(f, h))
      BY <1>3, <2>1, <2>2, <2>3
    <3> QED BY <1>1, <1>4, <2>3, <3>1
  <2>4. CASE f[w] # h
    <3>1. Cardinality(AtWork(g, h)) = Cardinality(AtWork(f, h)) + 1
      BY <1>3, <2>1, <2>2, <2>4
    <3> QED BY <1>1, <1>4, <2>4, <3>1
  <2> QED BY <2>3, <2>4
<1>5. CASE v # h
  <2>1. AtWork(g, h) = AtWork(f, h) \ {w}
    BY <1>2, <1>5 DEF AtWork
  <2>2. Cardinality(AtWork(f, h) \ {w})
          = IF w \in AtWork(f, h) THEN Cardinality(AtWork(f, h)) - 1 ELSE Cardinality(AtWork(f, h))
    BY <1>1, FS_RemoveElement
  <2>3. CASE f[w] = h
    <3>1. Cardinality(AtWork(g, h)) = Cardinality(AtWork(f, h)) - 1
      BY <1>3, <2>1, <2>2, <2>3
    <3> QED BY <1>1, <1>5, <2>3, <3>1
  <2>4. CASE f[w] # h
    <3>1. Cardinality(AtWork(g, h)) = Cardinality(AtWork(f, h))
      BY <1>3, <2>1, <2>2, <2>4
    <3> QED BY <1>1, <1>5, <2>4, <3>1
  <2> QED BY <2>3, <2>4
<1> QED BY <1>4, <1>5

LEMMA JobsAre ==
  ASSUME HashTypes, HashTypes', NEW h
  PROVE  /\ Jobs(h) = Cardinality(AtWork(naming, h)) + Cardinality(InQueue(pendingMeta, h))
                       + Cardinality(AtWork(holding, h))
         /\ Jobs(h)' = Cardinality(AtWork(naming', h)) + Cardinality(InQueue(pendingMeta', h))
                        + Cardinality(AtWork(holding', h))
         /\ Cardinality(AtWork(naming, h)) \in Nat /\ Cardinality(AtWork(naming', h)) \in Nat
         /\ Cardinality(InQueue(pendingMeta, h)) \in Nat /\ Cardinality(InQueue(pendingMeta', h)) \in Nat
         /\ Cardinality(AtWork(holding, h)) \in Nat /\ Cardinality(AtWork(holding', h)) \in Nat
<1>1. DOMAIN naming = Namers /\ DOMAIN naming' = Namers
      /\ DOMAIN holding = Lookers /\ DOMAIN holding' = Lookers
  BY DEF HashTypes
<1>2. /\ AtWork(naming, h) = {w \in Namers : naming[w] = h}
      /\ AtWork(naming', h) = {w \in Namers : naming'[w] = h}
      /\ AtWork(holding, h) = {w \in Lookers : holding[w] = h}
      /\ AtWork(holding', h) = {w \in Lookers : holding'[w] = h}
  BY <1>1 DEF AtWork
<1>3. /\ InQueue(pendingMeta, h) = {i \in DOMAIN pendingMeta : pendingMeta[i] = h}
      /\ InQueue(pendingMeta', h) = {i \in DOMAIN pendingMeta' : pendingMeta'[i] = h}
  BY DEF InQueue
<1>4. /\ IsFiniteSet(Namers) /\ IsFiniteSet(Lookers)
      /\ naming \in [Namers -> Hashes \cup {None}] /\ naming' \in [Namers -> Hashes \cup {None}]
      /\ holding \in [Lookers -> Hashes \cup {None}] /\ holding' \in [Lookers -> Hashes \cup {None}]
      /\ pendingMeta \in Seq(Hashes) /\ pendingMeta' \in Seq(Hashes)
  BY WorkersAssumption DEF HashTypes
<1>5. /\ Cardinality(AtWork(naming, h)) \in Nat /\ Cardinality(AtWork(naming', h)) \in Nat
      /\ Cardinality(AtWork(holding, h)) \in Nat /\ Cardinality(AtWork(holding', h)) \in Nat
  BY <1>4, WorkCounts
<1>6. Cardinality(InQueue(pendingMeta, h)) \in Nat /\ Cardinality(InQueue(pendingMeta', h)) \in Nat
  BY <1>4, QueueCounts
<1> QED BY <1>2, <1>3, <1>5, <1>6, Zenon DEF Jobs

\* What a step of a running crawl does to a hash's jobs.
LEMMA JobsKept ==
  ASSUME TypeOK, OneAtATime, [Next]_vars, running, NEW h \in Hashes
  PROVE  /\ \A w \in Lookers : HasPeers(w) /\ looking[w].hash = h => Jobs(h)' = Jobs(h) + 1
         /\ Jobs(h)' < Jobs(h) => \E w \in Namers : naming[w] = h /\ naming'[w] = None
<1>0. HashTypes /\ HashTypes' /\ h # None /\ None \notin Hashes
  <2>1. TypeOK'
    BY TypesKept
  <2>2. HashTypes'
    BY <2>1 DEF TypeOK, HashTypes
  <2> QED BY <2>2, TypeParts, WorkersAssumption
<1> DEFINE N == Cardinality(AtWork(naming, h))
           P == Cardinality(InQueue(pendingMeta, h))
           H == Cardinality(AtWork(holding, h))
           N1 == Cardinality(AtWork(naming', h))
           P1 == Cardinality(InQueue(pendingMeta', h))
           H1 == Cardinality(AtWork(holding', h))
<1>1. /\ Jobs(h) = N + P + H /\ Jobs(h)' = N1 + P1 + H1
      /\ N \in Nat /\ P \in Nat /\ H \in Nat /\ N1 \in Nat /\ P1 \in Nat /\ H1 \in Nat
  BY <1>0, JobsAre
<1>2. /\ naming' = naming => N1 = N
      /\ pendingMeta' = pendingMeta => P1 = P
      /\ holding' = holding => H1 = H
  OBVIOUS
<1>3. ASSUME NEW w \in Namers, NEW v \in Hashes \cup {None}, naming' = [naming EXCEPT ![w] = v]
      PROVE  N1 = N - (IF naming[w] = h THEN 1 ELSE 0) + (IF v = h THEN 1 ELSE 0)
  <2>1. IsFiniteSet(Namers) /\ naming \in [Namers -> Hashes \cup {None}]
    BY <1>0, WorkersAssumption DEF HashTypes
  <2> DEFINE R == Hashes \cup {None}
  <2>2. /\ v \in R /\ naming \in [Namers -> R] /\ naming' \in [Namers -> R]
        /\ \A x \in Namers : naming'[x] = IF x = w THEN v ELSE naming[x]
    BY <1>3, <2>1
  <2> HIDE DEF R
  <2>3. Cardinality(AtWork(naming', h))
          = Cardinality(AtWork(naming, h)) - (IF naming[w] = h THEN 1 ELSE 0) + (IF v = h THEN 1 ELSE 0)
    BY <2>1, <2>2, WorkChanges
  <2> QED BY <2>3
<1>4. ASSUME NEW w \in Lookers, NEW v \in Hashes \cup {None}, holding' = [holding EXCEPT ![w] = v]
      PROVE  H1 = H - (IF holding[w] = h THEN 1 ELSE 0) + (IF v = h THEN 1 ELSE 0)
  <2>1. IsFiniteSet(Lookers) /\ holding \in [Lookers -> Hashes \cup {None}]
    BY <1>0, WorkersAssumption DEF HashTypes
  <2> DEFINE R == Hashes \cup {None}
  <2>2. /\ v \in R /\ holding \in [Lookers -> R] /\ holding' \in [Lookers -> R]
        /\ \A x \in Lookers : holding'[x] = IF x = w THEN v ELSE holding[x]
    BY <1>4, <2>1
  <2> HIDE DEF R
  <2>3. Cardinality(AtWork(holding', h))
          = Cardinality(AtWork(holding, h)) - (IF holding[w] = h THEN 1 ELSE 0) + (IF v = h THEN 1 ELSE 0)
    BY <2>1, <2>2, WorkChanges
  <2> QED BY <2>3
<1>5. ASSUME NEW e \in Hashes, pendingMeta' = Append(pendingMeta, e)
      PROVE  P1 = P + (IF e = h THEN 1 ELSE 0)
  BY <1>0, <1>5, QueueCounts DEF HashTypes
<1>6. ASSUME pendingMeta # <<>>, pendingMeta' = Tail(pendingMeta)
      PROVE  P1 = P - (IF Head(pendingMeta) = h THEN 1 ELSE 0) /\ Head(pendingMeta) \in Hashes
  BY <1>0, <1>6, QueueCounts, TailIs DEF HashTypes
<1> HIDE DEF N, P, H, N1, P1, H1
<1>7. ASSUME NEW w \in Lookers, HasPeers(w)
      PROVE  Jobs(h)' = Jobs(h) + (IF looking[w].hash = h THEN 1 ELSE 0)
  <2> DEFINE e == looking[w].hash
  <2>1. /\ looking[w] # None /\ naming' = naming
        /\ pendingMeta' = IF running /\ HasRoom THEN Append(pendingMeta, e) ELSE pendingMeta
        /\ holding' = IF running /\ ~HasRoom THEN [holding EXCEPT ![w] = e] ELSE holding
    BY <1>7 DEF HasPeers, Held
  <2>2. e \in Hashes
    BY <1>0, <2>1 DEF HashTypes, Lead
  <2>3. holding[w] = None
    BY <2>1 DEF OneAtATime
  <2> HIDE DEF e
  <2>4. CASE HasRoom
    <3>1. P1 = P + (IF e = h THEN 1 ELSE 0) /\ H1 = H /\ N1 = N
      BY <1>2, <1>5, <2>1, <2>2, <2>4
    <3>2. Jobs(h)' = Jobs(h) + (IF e = h THEN 1 ELSE 0)
      BY <1>1, <3>1
    <3> QED BY <3>2 DEF e
  <2>5. CASE ~HasRoom
    <3>1. P1 = P /\ N1 = N /\ holding' = [holding EXCEPT ![w] = e]
      BY <1>2, <2>1, <2>5
    <3>2. H1 = H - (IF holding[w] = h THEN 1 ELSE 0) + (IF e = h THEN 1 ELSE 0)
      BY <1>4, <2>2, <3>1
    <3>3. H1 = H + (IF e = h THEN 1 ELSE 0)
      BY <1>0, <1>1, <2>3, <3>2
    <3>4. Jobs(h)' = Jobs(h) + (IF e = h THEN 1 ELSE 0)
      BY <1>1, <3>1, <3>3
    <3> QED BY <3>4 DEF e
  <2> QED BY <2>4, <2>5
<1>8. ASSUME UNCHANGED <<naming, pendingMeta, holding>> PROVE Jobs(h)' = Jobs(h)
  BY <1>1, <1>2, <1>8
<1> DEFINE Done == \E w \in Namers : naming[w] = h /\ naming'[w] = None
<1>9. ASSUME NEW w \in Lookers, Push(w) PROVE Jobs(h)' = Jobs(h)
  <2>1. /\ holding[w] # None /\ pendingMeta' = Append(pendingMeta, holding[w])
        /\ holding' = [holding EXCEPT ![w] = None] /\ naming' = naming
    BY <1>9 DEF Push
  <2>2. holding[w] \in Hashes
    BY <1>0, <2>1 DEF HashTypes
  <2>3. P1 = P + (IF holding[w] = h THEN 1 ELSE 0) /\ N1 = N
    BY <1>2, <1>5, <2>1, <2>2
  <2>4. H1 = H - (IF holding[w] = h THEN 1 ELSE 0) + (IF None = h THEN 1 ELSE 0)
    BY <1>4, <2>1
  <2>5. H1 = H - (IF holding[w] = h THEN 1 ELSE 0)
    BY <1>0, <1>1, <2>4
  <2> QED BY <1>1, <2>3, <2>5
<1>10. ASSUME NEW w \in Namers, FetchName(w) PROVE Jobs(h)' = Jobs(h)
  <2>1. /\ naming[w] = None /\ pendingMeta # <<>> /\ pendingMeta' = Tail(pendingMeta)
        /\ naming' = [naming EXCEPT ![w] = Head(pendingMeta)] /\ holding' = holding
    BY <1>10 DEF FetchName
  <2>2. P1 = P - (IF Head(pendingMeta) = h THEN 1 ELSE 0) /\ Head(pendingMeta) \in Hashes
    BY <1>6, <2>1
  <2>3. N1 = N - (IF naming[w] = h THEN 1 ELSE 0) + (IF Head(pendingMeta) = h THEN 1 ELSE 0)
    BY <1>3, <2>1, <2>2
  <2>4. N1 = N + (IF Head(pendingMeta) = h THEN 1 ELSE 0) /\ H1 = H
    BY <1>0, <1>1, <1>2, <2>1, <2>3
  <2> QED BY <1>1, <2>2, <2>4
<1>11. ASSUME NEW w \in Namers, Named(w) \/ NotNamed(w) PROVE Jobs(h)' < Jobs(h) => Done
  <2>1. /\ naming[w] # None /\ naming' = [naming EXCEPT ![w] = None]
        /\ UNCHANGED <<pendingMeta, holding>>
    BY <1>11 DEF Named, NotNamed
  <2>2. CASE naming[w] = h
    BY <1>0, <2>1, <2>2 DEF HashTypes
  <2>3. CASE naming[w] # h
    <3>1. N1 = N - (IF naming[w] = h THEN 1 ELSE 0) + (IF None = h THEN 1 ELSE 0)
      BY <1>3, <2>1
    <3>2. N1 = N /\ P1 = P /\ H1 = H
      BY <1>0, <1>1, <1>2, <2>1, <2>3, <3>1
    <3> QED BY <1>1, <3>2
  <2> QED BY <2>2, <2>3
<1>12. ASSUME NEW w \in Lookers, HasPeers(w), looking[w].hash = h PROVE Jobs(h)' = Jobs(h) + 1
  BY <1>7, <1>12
<1>13. ASSUME NEW w \in Lookers, HasPeers(w) PROVE Jobs(h)' = Jobs(h) \/ Jobs(h)' = Jobs(h) + 1
  BY <1>1, <1>7, <1>13
<1>14. Jobs(h) \in Nat /\ Jobs(h)' \in Nat
  BY <1>1
<1> HIDE DEF Done
<1>15. Jobs(h)' < Jobs(h) => Done
  <2>1. ASSUME Jobs(h)' = Jobs(h) \/ Jobs(h)' = Jobs(h) + 1 PROVE Jobs(h)' < Jobs(h) => Done
    BY <1>14, <2>1
  <2>2. CASE NodeStep
    <3>1. UNCHANGED hashVars
      BY <2>2, NodeStepTypes DEF NodeStep
    <3> QED BY <1>8, <2>1, <3>1 DEF hashVars
  <2>3. CASE ReplyStep
    <3>1. UNCHANGED <<naming, pendingMeta, holding>>
      BY <2>3 DEF ReplyStep, Sampled
    <3> QED BY <1>8, <2>1, <3>1
  <2>4. ASSUME NEW w \in Lookers, GetPeers(w) \/ NoPeers(w) PROVE Jobs(h)' < Jobs(h) => Done
    BY <1>8, <2>1, <2>4 DEF GetPeers, NoPeers
  <2>5. ASSUME NEW w \in Lookers, HasPeers(w) PROVE Jobs(h)' < Jobs(h) => Done
    BY <1>13, <2>1, <2>5
  <2>6. ASSUME NEW w \in Lookers, Push(w) PROVE Jobs(h)' < Jobs(h) => Done
    BY <1>9, <2>1, <2>6
  <2>7. ASSUME NEW w \in Lookers, GiveUp(w) PROVE FALSE
    BY <2>7 DEF GiveUp, LetGo
  <2>8. ASSUME NEW w \in Namers, FetchName(w) PROVE Jobs(h)' < Jobs(h) => Done
    BY <1>10, <2>1, <2>8
  <2>9. CASE Sweep \/ Stop \/ UNCHANGED vars
    BY <1>8, <2>1, <2>9 DEF Sweep, Stop, vars, hashVars
  <2> QED BY <1>11, <2>2, <2>3, <2>4, <2>5, <2>6, <2>7, <2>8, <2>9, StepsAre
          DEF HashStep, FilterStep, LookEnds
<1> QED BY <1>12, <1>15 DEF Done

\* While the crawl runs every hit becomes a job, and no job ends but by the namer
\* that works on it, however full the queues are and whoever waits for room.
THEOREM NothingIsDropped == Spec => NoHitIsLost
<1> DEFINE Step ==
      running =>
        \A h \in Hashes :
          /\ \A w \in Lookers : HasPeers(w) /\ looking[w].hash = h => Jobs(h)' = Jobs(h) + 1
          /\ Jobs(h)' < Jobs(h) => \E w \in Namers : naming[w] = h /\ naming'[w] = None
<1>1. Init => TypeOK /\ OneAtATime
  BY TypesAtFirst DEF Init, OneAtATime
<1>2. TypeOK /\ OneAtATime /\ [Next]_vars => (TypeOK /\ OneAtATime)'
  BY TypesKept, OneAtATimeKept
<1>3. TypeOK /\ OneAtATime /\ [Next]_vars => [Step]_vars
  BY JobsKept
<1> HIDE DEF Step
<1>4. Spec => [][Step]_vars
  BY <1>1, <1>2, <1>3, PTL DEF Spec
<1> QED BY <1>4 DEF NoHitIsLost, Step
=============================================================================
