------------------------------- MODULE MCCrawler -------------------------------
(* One followed node and one hash, two lookers for one namer's queue, and rules  *)
(* and metadata that exercise the filter: a banned word in a path only, some     *)
(* inside a longer word, one across a gap in a name, one in a path too many.     *)
EXTENDS Crawler

Char(c, mark) == [kind |-> "char", char |-> c, mark |-> mark]
Star == [kind |-> "star", char |-> Space, mark |-> "one"]
Digit == [kind |-> "digit", char |-> Space, mark |-> "plus"]
Gap == [kind |-> "gap", char |-> Space, mark |-> "opt"]
One(token) == [words |-> {<<token>>}, optional |-> FALSE]

\* ab(b*|1)? and #+ ?a
MCKeywords ==
  {{<<One(Char("a", "one")), One(Char("b", "one")),
      [words |-> {<<Char("b", "one"), Star>>, <<Char("1", "one")>>}, optional |-> TRUE]>>},
   {<<One(Digit), One(Gap), One(Char("a", "one"))>>}}

MCMetas ==
  {[name |-> <<"a">>, paths |-> <<<<"b">>, <<"a", "b", "b", "a">>>>, size |-> 9],
   [name |-> <<"b", "a", "b">>, paths |-> <<<<"b", "1", ".", "a">>, <<>>, <<"a", "b">>>>, size |-> 9],
   [name |-> <<"1", ".", "a">>, paths |-> <<<<"b">>>>, size |-> 2]}
=============================================================================
