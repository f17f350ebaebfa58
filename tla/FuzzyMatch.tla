----------------------------- MODULE FuzzyMatch -----------------------------
(* utils/fuzzy_match.h and the ranking of utils/CommandRegistry.cpp: a       *)
(* pattern matches a text if its letters occur in it in order; the score     *)
(* prefers runs, word starts and early letters.  The search explores the     *)
(* ways to place the pattern with one budget of kRecursionLimit calls.       *)
(* A text is a sequence of one-letter strings.                               *)
EXTENDS Integers, Sequences, FiniteSets, SequencesExt, FiniteSetsExt

CONSTANTS
  kRecursionLimit,  \* calls of the worker for one pattern and text
  LowerOf           \* tolower: the lower-case form of each upper-case letter

ASSUME FuzzyAssumption ==
  /\ kRecursionLimit \in Nat \ {0}
  /\ \A c \in DOMAIN LowerOf : LowerOf[c] \notin DOMAIN LowerOf

UpperCase == DOMAIN LowerOf
LowerCase == Range(LowerOf)
Lower(c) == IF c \in UpperCase THEN LowerOf[c] ELSE c
Separators == {" ", "_", "-"}

kSequentialBonus   == 15
kSeparatorBonus    == 30
kCamelBonus        == 30
kFirstLetterBonus  == 15
kMaxLeadingPenalty == 15

Start == -1  \* the place before the first letter matched

\* What a letter matched at a place adds, after one matched at before: the first
\* one loses 5 for each letter before it (at most 15).
Bonus(text, before, at) ==
  (IF before = Start THEN 0 - Min({5 * (at - 1), kMaxLeadingPenalty})
   ELSE IF at = before + 1 THEN kSequentialBonus ELSE 0)
  + (IF at = 1 THEN kFirstLetterBonus
     ELSE (IF text[at - 1] \in LowerCase /\ text[at] \in UpperCase THEN kCamelBonus ELSE 0)
          + (IF text[at - 1] \in Separators THEN kSeparatorBonus ELSE 0))

\* The score before any letter: 100, less 1 for each letter left over.
BaseScore(matched, text) == 100 - (Len(text) - matched)

BonusOf(text, places) ==
  FoldFunction(+, 0, [i \in DOMAIN places |->
    Bonus(text, IF i = 1 THEN Start ELSE places[i - 1], places[i])])

\* Variant: the letters left over are counted as far as the walk came, which the
\* source's comment warns of.
ScoreOfPrefix(text, places) ==
  BaseScore(Len(places), SubSeq(text, 1, Last(places))) + BonusOf(text, places)

\* The score of one way to place the pattern.
Score(text, places) == BaseScore(Len(places), text) + BonusOf(text, places)

NoScore == -1000  \* below every score

\* fuzzy_match of a non-empty pattern: the best score found, NoScore if it does not
\* match, and the calls made, the refused ones too.  The walk is the loop of
\* fuzzy_match_recursive: p and s are the letters of the pattern and the text
\* looked at, places the letters matched, best the best score of the calls made
\* from this loop, calls all calls so far.  A letter that matches is first left
\* out, in a call, and then taken.
FuzzySearch(pattern, text) ==
  LET Refused(s, calls) == calls + 1 >= kRecursionLimit \/ s > Len(text)
      walk[p \in Nat, s \in Nat, places \in Seq(Nat), best \in Int, calls \in Nat] ==
        IF p > Len(pattern)
          THEN [score |-> Max({best, Score(text, places)}), calls |-> calls]
        ELSE IF s > Len(text) THEN [score |-> best, calls |-> calls]
        ELSE IF Lower(pattern[p]) # Lower(text[s])
          THEN walk[p, s + 1, places, best, calls]
        ELSE LET skip == IF Refused(s + 1, calls)
                           THEN [score |-> NoScore, calls |-> calls + 1]
                           ELSE walk[p, s + 1, places, NoScore, calls + 1]
             IN  walk[p + 1, s + 1, Append(places, s),
                      Max({best, skip.score}), skip.calls]
  IN  IF Refused(1, 0) THEN [score |-> NoScore, calls |-> 1]
      ELSE walk[1, 1, <<>>, NoScore, 1]

\* The better of the scores of a command's name and alias.
FuzzyScore(query, command) ==
  Max({FuzzySearch(query, command.name).score, FuzzySearch(query, command.alias).score})

\* fuzzy_find: the indices of the commands whose name or alias matches, the
\* better score first, then in the order of the table; no query, the first ones.
FuzzyFind(query, commands, max_results) ==
  LET scored == {<<i, FuzzyScore(query, commands[i])>> : i \in DOMAIN commands}
      hits == {h \in scored : h[2] # NoScore}
      Before(g, h) == g[2] > h[2] \/ (g[2] = h[2] /\ g[1] < h[1])
  IN  IF query = <<>>
        THEN [n \in 1 .. Min({max_results, Len(commands)}) |-> n]
      ELSE [n \in 1 .. Min({max_results, Cardinality(hits)}) |->
              (CHOOSE h \in hits : Cardinality({g \in hits : Before(g, h)}) = n - 1)[1]]

-----------------------------------------------------------------------------
(* The reference: every way to place the pattern, letter by letter.  For     *)
(* each place the letters so far may end at, the best score up to there.     *)

Extended(text, ends, c) ==
  {<<at, Max({e[2] + Bonus(text, e[1], at) : e \in {e \in ends : e[1] < at}})>> :
     at \in {at \in DOMAIN text : Lower(text[at]) = Lower(c) /\ \E e \in ends : e[1] < at}}

BestScore(pattern, text) ==
  LET ends == FoldLeft(LAMBDA so_far, c : Extended(text, so_far, c),
                       {<<Start, BaseScore(Len(pattern), text)>>}, pattern)
  IN  Max({e[2] : e \in ends} \union {NoScore})

\* Whether the limit refused a call of the search.
CutShort(pattern, text) == FuzzySearch(pattern, text).calls >= kRecursionLimit
=============================================================================
