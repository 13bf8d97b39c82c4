----------------------------- MODULE ContentFilter -----------------------------
(* contentFilter.js: what the crawler's index must never name. A keyword is     *)
(* written in a small language, compiled to a regular expression and searched   *)
(* for, bounded by non-word characters, in the name and the file paths of a     *)
(* torrent together; metadata that is junk is refused too.                      *)
(*                                                                              *)
(* A text is a sequence of characters of a small alphabet without case. A       *)
(* keyword is given by its grammar: the alternatives of `|`, each a sequence of *)
(* groups `(..|..)` with or without a `?`, a token outside parentheses being a  *)
(* group of one word of one token. The regular expression engine is external:   *)
(* matching computes the positions an expression can end at.                    *)
EXTENDS Integers, SequencesExt

CONSTANTS
  Keywords,          \* the rules
  MinNameLength,     \* MIN_NAME_LENGTH
  MinTotalSize,      \* MIN_TOTAL_SIZE
  MinShortNameSize   \* MIN_SHORT_NAME_SIZE

Letters == {"a", "b"}
Digits == {"1"}
WordChars == Letters \cup Digits
Invalid == "bad"   \* a NUL byte or half a surrogate pair
Space == "space"
Chars == WordChars \cup {Space, ".", Invalid}
NonWord == Chars \ WordChars

Token == [kind : {"char", "star", "digit", "gap"}, char : Chars, mark : {"one", "opt", "plus"}]
Group == [words : SUBSET Seq(Token), optional : BOOLEAN]
Meta == [name : Seq(Chars), paths : Seq(Seq(Chars)), size : Nat]

ASSUME KeywordsAssumption == Keywords # {} /\ \A k \in Keywords : k \subseteq Seq(Group)
ASSUME SizesAssumption == {MinNameLength, MinTotalSize, MinShortNameSize} \subseteq Nat

-----------------------------------------------------------------------------
(* compileKeyword(): what a token stands for.                                  *)

ClassOf(token) ==
  CASE token.kind = "star" -> WordChars
    [] token.kind = "digit" -> Digits
    [] token.kind = "gap" -> NonWord
    [] token.kind = "char" -> {token.char}

Least(token) == IF token.kind = "star" \/ token.mark = "opt" THEN 0 ELSE 1
Repeats(token) == token.kind = "star" \/ token.mark = "plus"

-----------------------------------------------------------------------------
(* Where a match that begins at one of the positions S can end.                *)

AfterToken(text, S, token) ==
  {q \in 1..(Len(text) + 1) :
     \E p \in S :
       /\ p + Least(token) <= q
       /\ Repeats(token) \/ q <= p + 1
       /\ \A i \in p..(q - 1) : text[i] \in ClassOf(token)}

AfterWord(text, S, word) == FoldLeft(LAMBDA at, token : AfterToken(text, at, token), S, word)

AfterGroup(text, S, group) ==
  (UNION {AfterWord(text, S, word) : word \in group.words})
    \cup (IF group.optional THEN S ELSE {})

AfterGroups(text, S, groups) == FoldLeft(LAMBDA at, g : AfterGroup(text, at, g), S, groups)

Opens(text, p) == p = 1 \/ text[p - 1] \in NonWord
Closes(text, q) == q = Len(text) + 1 \/ text[q] \in NonWord

\* The compiled expression of all keywords matches the text.
Matches(text) ==
  \E keyword \in Keywords : \E groups \in keyword :
    \E p \in {p \in 1..(Len(text) + 1) : Opens(text, p)} :
      \E q \in AfterGroups(text, {p}, groups) : Closes(text, q)

-----------------------------------------------------------------------------
(* ContentFilter.check()                                                       *)

\* Mutant: a name-only filter.
NameOnly(meta) == meta.name

\* The name and every path the metadata holds, joined by spaces. An empty path is
\* none: metainfo.js hands none over.
With(text, path) == IF path = <<>> THEN text ELSE text \o <<Space>> \o path
Subject(meta) == FoldLeft(With, meta.name, meta.paths)

Junk(meta) ==
  \/ \A i \in DOMAIN meta.name : meta.name[i] = Space
  \/ meta.size < MinTotalSize
  \/ Len(meta.name) < MinNameLength /\ meta.size < MinShortNameSize
  \/ Invalid \in Range(meta.name)
  \/ \E path \in Range(meta.paths) : Invalid \in Range(path)

Blocked(meta) == Matches(Subject(meta)) \/ Junk(meta)

-----------------------------------------------------------------------------
(* The rules by what they denote: the words, up to a length, that a keyword    *)
(* spells out, and a word standing alone in a text.                            *)

Strings(S, n) == UNION {[1..m -> S] : m \in 0..n}
Joined(A, B, n) == {ab \in {a \o b : a \in A, b \in B} : Len(ab) <= n}

Spelled(token, n) ==
  CASE token.kind = "star" -> Strings(WordChars, n)
    [] token.kind # "star" /\ token.mark = "plus" -> Strings(ClassOf(token), n) \ {<<>>}
    [] token.kind # "star" /\ token.mark = "opt" -> Strings(ClassOf(token), 1)
    [] token.kind # "star" /\ token.mark = "one" -> [1..1 -> ClassOf(token)]

SpelledByWord(word, n) ==
  FoldLeft(LAMBDA words, t : Joined(words, Spelled(t, n), n), {<<>>}, word)

SpelledByGroup(group, n) ==
  (UNION {SpelledByWord(word, n) : word \in group.words})
    \cup (IF group.optional THEN {<<>>} ELSE {})

SpelledBy(groups, n) ==
  FoldLeft(LAMBDA words, g : Joined(words, SpelledByGroup(g, n), n), {<<>>}, groups)

Words(n) == UNION {SpelledBy(groups, n) : groups \in UNION Keywords}

StandsAlone(word, text) ==
  \E p \in 1..(Len(text) - Len(word) + 1) :
    /\ Opens(text, p)
    /\ SubSeq(text, p, p + Len(word) - 1) = word
    /\ Closes(text, p + Len(word))
=============================================================================
