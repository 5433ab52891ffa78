------------------------------ MODULE TextDiff ------------------------------
(* The unified diff kibitz computes where the platform sends none            *)
(* (internal/textdiff). A file is a sequence of lines [text, nl]; only its   *)
(* last line may lack the newline. An edit script is the pair of the lines   *)
(* it deletes and inserts, which is all that compact reads of it.            *)
EXTENDS Integers, Sequences, FiniteSetsExt, SequencesExt, Only

CONSTANTS Context,   \* unchanged lines around a change
          MaxLines,  \* a longer file is not diffed
          MaxEdits   \* a longer search is given up

ASSUME DiffAssumption == Context \in Nat /\ MaxLines \in Nat /\ MaxEdits \in Nat

NUL == "NUL"
IsBinary(file) == \E i \in DOMAIN file : file[i].text = NUL

(* How far two files agree from position i and j on. *)
Agree(old, cur, i, j) ==
    Max({0} \union {n \in 1..Len(old) : /\ i + n <= Len(old) /\ j + n <= Len(cur)
                                        /\ \A h \in 1..n : old[i + h] = cur[j + h]})
CommonPrefix(old, cur) == Agree(old, cur, 0, 0)
CommonSuffix(old, cur) == Agree(Reverse(old), Reverse(cur), 0, 0)

All(old, cur) == [deleted |-> DOMAIN old, inserted |-> DOMAIN cur]

-----------------------------------------------------------------------------
(* Myers' search. furthest holds the furthest x reached on each diagonal, the *)
(* diagonal 0 in its middle; round d reaches the diagonals -d, -d + 2 .. d    *)
(* from their neighbours. (<<>> \o has TLC evaluate a round once.)           *)
Offset(furthest) == (Len(furthest) + 1) \div 2
At(furthest, k) == furthest[k + Offset(furthest)]
Downward(furthest, d, k) == k = -d \/ (k # d /\ At(furthest, k - 1) < At(furthest, k + 1))
Diagonals(d) == {k \in -d..d : (k + d) % 2 = 0}

Round(furthest, old, cur, d) ==
    LET Start(k) == IF Downward(furthest, d, k) THEN At(furthest, k + 1)
                                                ELSE At(furthest, k - 1) + 1
        Reach(k) == LET x == Start(k) IN x + Agree(old, cur, x, x - k)
    IN  <<>> \o [i \in DOMAIN furthest |->
                    IF i - Offset(furthest) \in Diagonals(d)
                    THEN Reach(i - Offset(furthest)) ELSE furthest[i]]

(* One edit of the way back from (x, y): the edit that led to its diagonal. *)
UndoEdit(p, furthest, d) ==
    LET k     == p.x - p.y
        down  == Downward(furthest, d, k)
        from  == IF down THEN k + 1 ELSE k - 1
        prevX == At(furthest, from)
        prevY == prevX - from
        same  == Max({0, Min({p.x - prevX, p.y - prevY})})
    IN  [x |-> prevX, y |-> prevY,
         deleted |-> IF down THEN p.deleted ELSE p.deleted \union {p.x - same},
         inserted |-> IF down THEN p.inserted \union {p.y - same} ELSE p.inserted]

Backtrack(trace, old, cur) ==
    LET distance == Len(trace) - 2
        back[d \in 0..distance] ==
            IF d = distance
            THEN [x |-> Len(old), y |-> Len(cur), deleted |-> {}, inserted |-> {}]
            ELSE LET later == back[d + 1] IN UndoEdit(later, trace[d + 2], d + 1)
        all == back[0]
    IN  [deleted |-> all.deleted, inserted |-> all.inserted]

DiffLines(old, cur) ==
    LET limit == Min({Len(old) + Len(cur), MaxEdits})
        zero  == [i \in 1..2 * limit + 3 |-> 0]
        Arrived(f, d) == \E k \in Diagonals(d) :
                             At(f, k) >= Len(old) /\ At(f, k) - k >= Len(cur)
        (* What was reached before each round, up to the round that arrives. *)
        search[d \in 0..limit + 1] ==
            IF d = 0 THEN [trace |-> <<zero>>, arrived |-> FALSE]
            ELSE LET before == search[d - 1]
                     after  == Round(Last(before.trace), old, cur, d - 1)
                 IN  IF before.arrived THEN before
                     ELSE [trace |-> Append(before.trace, after), arrived |-> Arrived(after, d - 1)]
        end == search[limit + 1]
    IN  IF old = <<>> \/ cur = <<>> THEN All(old, cur) @@ [exact |-> TRUE]
        ELSE IF ~end.arrived THEN All(old, cur) @@ [exact |-> FALSE]
        ELSE Backtrack(end.trace, old, cur) @@ [exact |-> TRUE]

-----------------------------------------------------------------------------
(* Each run of changed lines moves down while the line past it equals its    *)
(* first one.                                                                *)
Slide(lines, changed) ==
    LET Past(i, c) == Min({e \in i..Len(lines) + 1 : e \notin c})
        Moves(i, end, c) ==
            Max({0} \union {n \in 1..Len(lines) - end + 1 :
                               \A h \in 0..n - 1 : /\ end + h \notin c
                                                   /\ lines[i + h] = lines[end + h]})
        go[i \in 1..Len(lines) + 1, c \in SUBSET DOMAIN lines] ==
            IF i > Len(lines) THEN c
            ELSE IF i \notin c THEN go[i + 1, c]
            ELSE LET end == Past(i, c)
                     n   == Moves(i, end, c)
                 IN  go[end + n, (c \ (i..end - 1)) \union (i + n..end + n - 1)]
    IN  go[1, changed]

(* The script again, a step at a time until both files are at their end: at  *)
(* any place a removal goes before an addition, and each step knows how many *)
(* lines of both sides come before it.                                       *)
Rebuild(old, cur, deleted, inserted) ==
    LET Step(i, j) == [kind |-> IF i + 1 \in deleted THEN "-" ELSE IF j + 1 \in inserted THEN "+" ELSE " ",
                       old |-> i, cur |-> j]
        After(s) == Step(s.old + (IF s.kind = "+" THEN 0 ELSE 1), s.cur + (IF s.kind = "-" THEN 0 ELSE 1))
        step[p \in 1..Len(old) + Len(cur)] == IF p = 1 THEN Step(0, 0) ELSE After(step[p - 1])
        inside == {p \in DOMAIN step : step[p].old < Len(old) \/ step[p].cur < Len(cur)}
    IN  SubSeq(step, 1, Cardinality(inside))

(* The search runs between the matching ends of the two files only. *)
Script(old, cur) ==
    LET prefix == CommonPrefix(old, cur)
        oldEnd == SubSeq(old, prefix + 1, Len(old))
        curEnd == SubSeq(cur, prefix + 1, Len(cur))
        suffix == CommonSuffix(oldEnd, curEnd)
        found  == DiffLines(SubSeq(oldEnd, 1, Len(oldEnd) - suffix),
                            SubSeq(curEnd, 1, Len(curEnd) - suffix))
        Rebase(changed) == {prefix + i : i \in changed}
    IN  [exact |-> found.exact,
         steps |-> Rebuild(old, cur, Slide(old, Rebase(found.deleted)),
                                     Slide(cur, Rebase(found.inserted)))]

-----------------------------------------------------------------------------
(* Changes with at most twice the context between them share a hunk: where   *)
(* the hunks' first changes are, and the last one of the hunk that starts    *)
(* with the change at q.                                                     *)
ChangedSteps(steps) == {p \in DOMAIN steps : steps[p].kind # " "}
FirstChanges(steps) ==
    LET changes == ChangedSteps(steps)
        Apart(p, q) == p < q /\ q - p - 1 > 2 * Context /\ (p + 1..q - 1) \cap changes = {}
    IN  {q \in changes : (1..q - 1) \cap changes = {} \/ \E p \in changes : Apart(p, q)}
LastChange(steps, firsts, q) ==
    Max({p \in ChangedSteps(steps) : p >= q /\ \A f \in firsts : f > q => p < f})

Group(steps) ==
    LET firsts == FirstChanges(steps)
        inOrder == Only([q \in DOMAIN steps |-> q], firsts)
        Hunk(q) == SubSeq(steps, Max({1, q - Context}), Min({Len(steps), LastChange(steps, firsts, q) + Context}))
    IN  [h \in DOMAIN inOrder |-> Hunk(inOrder[h])]

LinesOn(steps, changed) == {p \in DOMAIN steps : steps[p].kind \in {" ", changed}}

\* Mutant: a side without lines points at the line after.
SpanAfter(steps, side, changed) ==
    LET own == LinesOn(steps, changed)
    IN  [start |-> (IF own = {} THEN steps[1][side] ELSE steps[Min(own)][side]) + 1, count |-> Cardinality(own)]

(* Where one side of a hunk starts and how long it is; a side without lines  *)
(* points at the line before.                                                *)
Span(steps, side, changed) ==
    LET own == LinesOn(steps, changed)
    IN  IF own = {} THEN [start |-> steps[1][side], count |-> 0]
        ELSE [start |-> steps[Min(own)][side] + 1, count |-> Cardinality(own)]

(* A patch is a sequence of raw lines, each named by its first character. *)
Marked(tag, line) ==
    <<[tag |-> tag, text |-> line.text]>> \o
    (IF line.nl THEN <<>> ELSE <<[tag |-> "no newline"]>>)

Render(steps, old, cur) ==
    <<[tag |-> "@@", old |-> Span(steps, "old", "-"), new |-> Span(steps, "cur", "+")]>> \o
    FlattenSeq([i \in DOMAIN steps |->
        Marked(steps[i].kind, IF steps[i].kind = "+" THEN cur[steps[i].cur + 1]
                                                     ELSE old[steps[i].old + 1])])

NoPatch == [patch |-> <<>>, additions |-> 0, deletions |-> 0, approximate |-> FALSE]

Unified(old, cur) ==
    LET script == Script(old, cur)
        hunks  == Group(script.steps)
        Count(kind) == Len(SelectSeq(FlattenSeq(hunks), LAMBDA s : s.kind = kind))
    IN  IF old = cur \/ IsBinary(old) \/ IsBinary(cur)
           \/ Len(old) > MaxLines \/ Len(cur) > MaxLines
        THEN NoPatch
        ELSE [patch |-> FlattenSeq([h \in DOMAIN hunks |-> Render(hunks[h], old, cur)]),
              additions |-> Count("+"), deletions |-> Count("-"),
              approximate |-> ~script.exact]
=============================================================================
