------------------------------ MODULE Wildcard ------------------------------
(* The wildcards of the allow lists (internal/policy/glob.go): "*" is any run *)
(* of symbols, "?" exactly one. The code walks the pattern with one pointer   *)
(* back to the last star; Match is that walk, as the function of its four     *)
(* variables, and Matches is what the syntax means.                           *)
EXTENDS Naturals, Integers, Sequences, SequencesExt

Match(pattern, name) ==
    LET at(s, i) == s[i + 1]
        positions == [p : 0 .. Len(pattern), n : 0 .. Len(name),
                      starP : -1 .. Len(pattern), starN : 0 .. Len(name)]
        rest(p) == \A i \in p + 1 .. Len(pattern) : pattern[i] = "*"
        walk[w \in positions] ==
            IF w.n = Len(name) THEN rest(w.p)
            ELSE IF w.p < Len(pattern) /\ at(pattern, w.p) \in {"?", at(name, w.n)}
                 THEN walk[[w EXCEPT !.p = @ + 1, !.n = @ + 1]]
            ELSE IF w.p < Len(pattern) /\ at(pattern, w.p) = "*"
                 THEN walk[[p |-> w.p + 1, n |-> w.n, starP |-> w.p, starN |-> w.n]]
            ELSE IF w.starP >= 0
                 THEN walk[[p |-> w.starP + 1, n |-> w.starN + 1,
                            starP |-> w.starP, starN |-> w.starN + 1]]
            ELSE FALSE
    IN  walk[[p |-> 0, n |-> 0, starP |-> -1, starN |-> 0]]

(* An empty list matches nothing. *)
MatchAny(patterns, name) == \E i \in DOMAIN patterns : Match(patterns[i], name)

(* Reference: a star stands for some prefix of the name. *)
Matches(pattern, name) ==
    LET means[p \in Suffixes(pattern), n \in Suffixes(name)] ==
            IF p = <<>> THEN n = <<>>
            ELSE IF Head(p) = "*" THEN \E rest \in Suffixes(n) : means[Tail(p), rest]
            ELSE n # <<>> /\ Head(p) \in {"?", Head(n)} /\ means[Tail(p), Tail(n)]
    IN  means[pattern, name]
=============================================================================
