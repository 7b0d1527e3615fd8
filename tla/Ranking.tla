------------------------------- MODULE Ranking -------------------------------
(* The pure algorithms that find and rank a text by what was typed         *)
(* (src/src/matching: fzf_algo.c, tier_score.c, match.c, window_matcher.c).*)
(* A text is a sequence of characters, of which the algorithms see the     *)
(* class, the lower case and what a word may start after; the buffers of   *)
(* 1024 characters and the caps of tier_score.c are beyond the bounds.     *)
EXTENDS Integers, Sequences, SequencesExt, FiniteSetsExt

CONSTANTS QueryChars, TextChars, \* what is typed, what the texts are made of
          Class,        \* character -> white, nonword, delimiter, lower, upper, number
          Fold,         \* character -> its lower case
          Upcase,       \* character -> its upper case
          Starts,       \* a word starts after these
          Wordly,       \* character -> the bonus of match.c for what follows it
          MaxQuery, MaxText

VARIABLE rk

NoScore == -1                   \* SCORE_MIN of fzf_fuzzy_match
Lower(s) == [i \in DOMAIN s |-> Fold[s[i]]]
Best(S) == Max(S \cup {0})

-----------------------------------------------------------------------------
(* fzf_algo.c: the bonus of a place.                                       *)
BonusFor(prev, class) ==
    CASE class \notin {"white", "nonword"} /\ prev = "white" -> 10
      [] class \notin {"white", "nonword"} /\ prev = "delimiter" -> 9
      [] class \notin {"white", "nonword"} /\ prev = "nonword" -> 8
      [] prev = "lower" /\ class = "upper" -> 7
      [] prev # "number" /\ class = "number" -> 7
      [] class \in {"nonword", "delimiter"} -> 8
      [] class = "white" -> 10
      [] OTHER -> 0
Bonus(h) == [i \in DOMAIN h |-> BonusFor(IF i = 1 THEN "white" ELSE Class[h[i - 1]], Class[h[i]])]

(* fzf_has_match, and F: the first place of each character.                *)
Firsts(n, h) ==
    FoldLeft(LAMBDA f, i : IF Len(f) < Len(n) /\ n[Len(f) + 1] = h[i] THEN Append(f, i) ELSE f,
             <<>>, [i \in DOMAIN h |-> i])
FzfHasMatch(needle, text) == Len(Firsts(Lower(needle), Lower(text))) = Len(needle)

(* The first row of the score matrix: H the scores, C the run that ends    *)
(* here, gap whether the last place was one.                               *)
Cell(r, score, run, gap) == [H |-> Append(r.H, score), C |-> Append(r.C, run), gap |-> gap]
Left(r) == (IF r.H = <<>> THEN 0 ELSE r.H[Len(r.H)]) + (IF r.gap THEN -1 ELSE -3)
FirstRow(n, h, b) ==
    FoldLeft(LAMBDA r, i : IF h[i] = n[1] THEN Cell(r, 16 + 2 * b[i], 1, FALSE)
                           ELSE Cell(r, Best({Left(r)}), 0, TRUE),
             [H |-> <<>>, C |-> <<>>, gap |-> FALSE], [i \in DOMAIN h |-> i])

\* Mutant: a run goes on with the bonus of its first place, earned or not.
MatchAtBonus(above, b, i) ==
    LET run == above.C[i - 1] + 1 IN
    [base |-> above.H[i - 1] + 16,
     bonus |-> IF run > 1 THEN Max({b[i], 4, b[1]}) ELSE b[i], run |-> run]

(* The row of the k-th character, from its first place to the place `last'.*)
MatchAt(above, b, i) ==         \* score and run of a match at place i
    LET run == above.C[i - 1] + 1
        first == b[i - run + 1]
        anew == run > 1 /\ b[i] >= 8 /\ b[i] > first
    IN [base |-> above.H[i - 1] + 16,
        bonus |-> IF run > 1 /\ ~anew THEN Max({b[i], 4, first}) ELSE b[i],
        run |-> IF anew THEN 1 ELSE run]
RowOf(n, h, b, k, above, last) ==
    FoldLeft(LAMBDA r, i :
                 IF i < Firsts(n, h)[k] THEN Cell(r, 0, 0, FALSE)
                 ELSE LET m == MatchAt(above, b, i)
                          hit == h[i] = n[k]
                          lost == hit /\ m.base + m.bonus < Left(r)
                          s == CASE ~hit -> 0 [] lost -> m.base + b[i]
                                 [] OTHER -> m.base + m.bonus
                      IN Cell(r, Best({s, Left(r)}), IF hit /\ ~lost THEN m.run ELSE 0, s < Left(r)),
             [H |-> <<>>, C |-> <<>>, gap |-> FALSE], [i \in 1..last |-> i])

(* last_idx: once the needle was found no character is looked for, so the  *)
(* matrix ends where it was found first.                                   *)
LastPlace(n, h) == Firsts(n, h)[Len(n)]
(* One character: the places up to the first with a boundary's bonus.      *)
OneScore(n, h, b) ==
    LET at == {i \in DOMAIN h : h[i] = n[1]}
        stop == {i \in at : b[i] >= 8}
    IN Best({16 + 2 * b[i] : i \in {j \in at : stop = {} \/ j <= Min(stop)}})
FuzzyMatch(needle, text) ==
    LET n == Lower(needle)
        h == Lower(text)
        b == Bonus(text)
        rows == FoldLeft(LAMBDA above, k : RowOf(n, h, b, k, above, LastPlace(n, h)),
                         FirstRow(n, h, b), [k \in 1..(Len(n) - 1) |-> k + 1])
    IN CASE n = <<>> -> 0
         [] ~FzfHasMatch(needle, text) -> NoScore
         [] Len(n) = 1 -> OneScore(n, h, b)
         [] OTHER -> Best(ToSet(rows.H))

-----------------------------------------------------------------------------
(* tier_score.c *)
WordStart(t, i) == i = 1 \/ t[i - 1] \in Starts
Pairs(needle, text) ==          \* dp over the starts of words
    LET n == Lower(needle)
        starts == SetToSortSeq({i \in DOMAIN text : WordStart(text, i)}, <)
        at(j) == Fold[text[starts[j]]]
        first == [j \in DOMAIN starts |-> IF at(j) = n[1] THEN 0 ELSE -1]
        next(dp, c) == [j \in DOMAIN starts |->
            IF at(j) # c THEN -1
            ELSE Max({-1} \cup {dp[k] + (IF k + 1 = j THEN 1 ELSE 0) :
                                k \in {l \in 1..(j - 1) : dp[l] >= 0}})]
    IN IF Len(n) < 2 THEN 0 ELSE Best(ToSet(FoldLeft(next, first, Tail(n))))
Direct(needle, text) ==
    /\ needle # <<>>
    /\ \E i \in DOMAIN text : /\ WordStart(text, i)
                              /\ i + Len(needle) - 1 <= Len(text)
                              /\ Lower(SubSeq(text, i, i + Len(needle) - 1)) = Lower(needle)
TierScore(needle, text) ==
    LET score == FuzzyMatch(needle, text) + 8 * Pairs(needle, text)
    IN CASE ~FzfHasMatch(needle, text) -> NoScore
         [] Direct(needle, text) -> score + 10000
         [] OTHER -> Min({score, 9998})

-----------------------------------------------------------------------------
(* match.c: has_match looks for the character as it was typed or in upper  *)
(* case.  In the rows D is the score of a match here, M the best so far;   *)
(* what is added to SCORE_MIN is lost in it.                               *)
HasMatch(needle, text) ==
    Len(FoldLeft(LAMBDA f, c : IF f # <<>> /\ c \in {Head(f), Upcase[Head(f)]} THEN Tail(f) ELSE f,
                 needle, text)) = 0
LeastScore == -1000000
MostScore == 1000000
Plus(a, b) == IF a = LeastScore THEN a ELSE a + b
WordBonus(t) == [i \in DOMAIN t |->
    LET last == IF i = 1 THEN 9 ELSE Wordly[t[i - 1]]
    IN CASE Class[t[i]] = "upper" /\ i > 1 /\ Class[t[i - 1]] = "lower" -> 7
         [] Class[t[i]] \in {"upper", "lower", "number"} -> last
         [] OTHER -> 0]
MatchRow(n, h, b, k, above) ==
    LET gap == IF k = Len(n) THEN -10 ELSE -11
        hit(i) == CASE h[i] # n[k] -> LeastScore
                    [] k = 1 -> (i - 1) * (-9) + b[i]
                    [] i = 1 -> LeastScore
                    [] OTHER -> Max({Plus(above.M[i - 1], b[i]), Plus(above.D[i - 1], 16)})
    IN FoldLeft(LAMBDA r, i :
           LET left == IF i = 1 THEN LeastScore ELSE Plus(r.M[i - 1], gap)
           IN [D |-> Append(r.D, hit(i)), M |-> Append(r.M, Max({hit(i), left}))],
         [D |-> <<>>, M |-> <<>>], [i \in DOMAIN h |-> i])
MatchRows(needle, text) ==
    FoldLeft(LAMBDA rows, k :
                 Append(rows, MatchRow(Lower(needle), Lower(text), WordBonus(text), k,
                                       IF k = 1 THEN [D |-> <<>>, M |-> <<>>] ELSE rows[k - 1])),
             <<>>, [k \in DOMAIN needle |-> k])
Match(needle, text) ==
    CASE needle = <<>> \/ Len(needle) > Len(text) -> LeastScore
      [] Len(needle) = Len(text) -> MostScore
      [] OTHER -> MatchRows(needle, text)[Len(needle)].M[Len(text)]
(* match_positions goes back from the last place; `must': the score above  *)
(* was that of a run, so the place before is a match.                      *)
MatchPositions(needle, text) ==
    LET rows == MatchRows(needle, text)
        ok(k, j, must) == rows[k].D[j] # LeastScore /\ (must \/ rows[k].D[j] = rows[k].M[j])
        back(p, k) ==
            LET j == Max({i \in 1..p.upto : ok(k, i, p.must)})
            IN [at |-> <<j>> \o p.at, upto |-> j - 1,
                must |-> k > 1 /\ j > 1 /\ rows[k].M[j] = Plus(rows[k - 1].D[j - 1], 16)]
    IN IF Len(needle) = Len(text) THEN [i \in DOMAIN needle |-> i]
       ELSE FoldRight(LAMBDA k, p : back(p, k), [k \in DOMAIN needle |-> k],
                      [at |-> <<>>, upto |-> Len(text), must |-> FALSE]).at

-----------------------------------------------------------------------------
(* window_matcher.c: wildcard_match from place i of the pattern and place  *)
(* j of the text.                                                          *)
Star == "*"
AnyChar == "."
WildcardMatch(pattern, text) ==
    LET AllStars(i) == \A k \in i..Len(pattern) : pattern[k] = Star
        afterStars(i) == Min({k \in i..Len(pattern) : pattern[k] # Star})
        m[i \in 1..(Len(pattern) + 1), j \in 1..(Len(text) + 1)] ==
            CASE i > Len(pattern) \/ j > Len(text) -> AllStars(i) /\ j > Len(text)
              [] pattern[i] = Star -> AllStars(i) \/ \E k \in j..Len(text) : m[afterStars(i), k]
              [] OTHER -> pattern[i] \in {AnyChar, text[j]} /\ m[i + 1, j + 1]
    IN m[1, 1]

-----------------------------------------------------------------------------
(* What is asked: a query or a pattern, and a text.                        *)
Init == rk = [query |-> <<>>, pattern |-> <<>>, text |-> <<>>]
TypeQuery ==
    /\ Len(rk.query) < MaxQuery /\ rk.pattern = <<>> /\ rk.text = <<>>
    /\ \E c \in QueryChars : rk' = [rk EXCEPT !.query = Append(@, c)]
TypePattern ==
    /\ Len(rk.pattern) < MaxQuery /\ rk.query = <<>> /\ rk.text = <<>>
    /\ \E c \in QueryChars \cup {Star, AnyChar} : rk' = [rk EXCEPT !.pattern = Append(@, c)]
LengthenText ==
    /\ Len(rk.text) < MaxText
    /\ \E c \in TextChars : rk' = [rk EXCEPT !.text = Append(@, c)]
Next == TypeQuery \/ TypePattern \/ LengthenText
Spec == Init /\ [][Next]_rk

-----------------------------------------------------------------------------
(* The references: every way to place the needle in the text.              *)
Placements(needle, text) ==
    {p \in [DOMAIN needle -> DOMAIN text] :
        /\ \A k \in DOMAIN needle : Fold[text[p[k]]] = Fold[needle[k]]
        /\ \A k \in 2..Len(needle) : p[k - 1] < p[k]}
(* The score that fzf gives to a placement.                                *)
Earned(p, text) ==
    LET b == Bonus(text)
        step(s, k) ==
            LET d == p[k] - p[k - 1]
                first == IF d > 1 \/ (b[p[k]] >= 8 /\ b[p[k]] > s.first) THEN b[p[k]] ELSE s.first
            IN [score |-> s.score + 16
                          + (IF d = 1 THEN Max({b[p[k]], 4, first}) ELSE b[p[k]] - 3 - (d - 2)),
                first |-> first]
    IN FoldLeft(step, [score |-> 16 + 2 * b[p[1]], first |-> b[p[1]]],
                [k \in 1..(Len(p) - 1) |-> k + 1]).score
(* The score that match.c gives to a placement.                            *)
LegacyEarned(p, text) ==
    LET b == WordBonus(text)
        step(s, k) == s + (IF p[k] = p[k - 1] + 1 THEN 16 ELSE b[p[k]] - 11 * (p[k] - p[k - 1] - 1))
    IN FoldLeft(step, b[p[1]] - 9 * (p[1] - 1), [k \in 1..(Len(p) - 1) |-> k + 1])
       - 10 * (Len(text) - p[Len(p)])
PairsOf(p, text) ==
    LET rank(i) == Cardinality({j \in 1..i : WordStart(text, j)})
    IN Cardinality({k \in 2..Len(p) : rank(p[k]) = rank(p[k - 1]) + 1})

(* A text is found when the needle can be placed, and its fzf score is     *)
(* then the score of one of its placements, never of none.                 *)
FoundIsEarned ==
    rk.query # <<>> =>
        LET placed == Placements(rk.query, rk.text)
            score == FuzzyMatch(rk.query, rk.text)
        IN /\ (score = NoScore) <=> (placed = {})
           /\ placed # {} => \E p \in placed : Earned(p, rk.text) = score
(* The pairs are those of the best placement on the starts of words, and a *)
(* direct match is above every other one.                                  *)
TiersApart ==
    rk.query # <<>> =>
        LET onStarts == {p \in Placements(rk.query, rk.text) :
                             \A k \in DOMAIN p : WordStart(rk.text, p[k])}
        IN /\ Pairs(rk.query, rk.text) = Best({PairsOf(p, rk.text) : p \in onStarts})
           /\ (TierScore(rk.query, rk.text) >= 10000) <=> Direct(rk.query, rk.text)
(* The legacy score is the best of all placements, and the places that are *)
(* given for it are a placement (not always one that earns it).            *)
LegacyIsBest ==
    LET placed == Placements(rk.query, rk.text)
    IN rk.query # <<>> /\ placed # {} /\ Len(rk.query) < Len(rk.text) =>
        /\ Match(rk.query, rk.text) = Max({LegacyEarned(p, rk.text) : p \in placed})
        /\ MatchPositions(rk.query, rk.text) \in placed
(* A pattern matches when the text can be cut into its parts.              *)
WildcardsCut ==
    LET n == Len(rk.pattern)
        cuts == {c \in [0..n -> 0..Len(rk.text)] : c[0] = 0 /\ c[n] = Len(rk.text)}
    IN rk.query = <<>> =>
        (WildcardMatch(rk.pattern, rk.text) <=>
         \E c \in cuts : \A k \in 1..n :
             IF rk.pattern[k] = Star THEN c[k] >= c[k - 1]
             ELSE c[k] = c[k - 1] + 1 /\ rk.pattern[k] \in {AnyChar, rk.text[c[k]]})

(* What is found, and its score, are what a search through all the         *)
(* placements of what was typed gives.                                     *)
ScoresAreEarned == FoundIsEarned /\ TiersApart /\ LegacyIsBest /\ WildcardsCut
=============================================================================
