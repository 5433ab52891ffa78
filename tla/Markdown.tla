------------------------------ MODULE Markdown ------------------------------
(* Code is not speech (internal/policy/markdown.go). A text is a sequence of  *)
(* lines, a line a sequence of words; a word is what it says in lower case    *)
(* and what touches it on either side: nothing (""), a letter or another      *)
(* character that belongs to a name ("name"), or punctuation ("mark").        *)
EXTENDS Naturals, SequencesExt

Word(w) == [says |-> w, before |-> "", after |-> ""]
Touching(w, before, after) == [says |-> w, before |-> before, after |-> after]

(* Runs of backticks and of tildes, and the marks of a quoted reply.          *)
Ticks == [w \in {"tick", "ticks2", "ticks3", "ticks4"} |->
             CASE w = "tick" -> 1 [] w = "ticks2" -> 2 [] w = "ticks3" -> 3 [] w = "ticks4" -> 4]
Fences == [w \in {"ticks3", "ticks4", "tildes3", "tildes4"} |->
              [mark |-> IF w \in DOMAIN Ticks THEN "ticks3" ELSE "tildes3",
               size |-> IF w \in {"ticks3", "tildes3"} THEN 3 ELSE 4]]
Quotes == {">", ">>"}

-----------------------------------------------------------------------------
(* The code's reading. *)

(* A fence inside a quoted reply is still a fence. *)
bare(line) ==
    IF line # <<>> /\ line[1].says \in Quotes THEN Tail(line) ELSE line

(* Three of them make a fence, and a longer one starts with three.            *)
openingFence(line) ==
    IF bare(line) # <<>> /\ bare(line)[1].says \in DOMAIN Fences
    THEN Fences[bare(line)[1].says].mark ELSE ""

fenceNext(fence, line) ==
    IF fence = "" THEN openingFence(line)
    ELSE IF openingFence(line) = fence THEN ""
    ELSE fence

fenceAfter(text) ==
    LET after[i \in 0 .. Len(text)] == IF i = 0 THEN "" ELSE fenceNext(after[i - 1], text[i])
    IN  after

(* An inline span goes from a run of backticks to the next run of the same    *)
(* length; a run nothing closes stays. The span is taken out whole, and its   *)
(* neighbours do not become one word.                                         *)
stripSpans(line) ==
    LET runAt(i) == line[i].says \in DOMAIN Ticks
        closing(i) == {j \in i + 1 .. Len(line) :
                          runAt(j) /\ Ticks[line[j].says] = Ticks[line[i].says]}
        strip[i \in 1 .. Len(line) + 1] ==
            IF i > Len(line) THEN <<>>
            ELSE IF runAt(i) /\ closing(i) # {} THEN strip[Min(closing(i)) + 1]
            ELSE <<line[i]>> \o strip[i + 1]
    IN  strip[1]

blanked(fence, line) == fence # "" \/ openingFence(line) # ""

(* As many lines as before: what was code is empty. *)
StripCode(text) ==
    [i \in DOMAIN text |-> IF blanked(fenceAfter(text)[i - 1], text[i]) THEN <<>>
                           ELSE stripSpans(text[i])]

-----------------------------------------------------------------------------
(* Reference: the fenced blocks a forge renders. A block is closed by a fence *)
(* of its own mark, at least as long, alone on a line of the same quote, or   *)
(* by the end of that quote; a line with more backticks after the first run   *)
(* opens none. Spans are read line by line here as well.                      *)

quoteMarks(line) == {i \in DOMAIN line : \A j \in 1 .. i : line[j].says \in Quotes}
depth(line) ==
    Cardinality(quoteMarks(line)) + Cardinality({i \in quoteMarks(line) : line[i].says = ">>"})
unquoted(line) == SubSeq(line, Cardinality(quoteMarks(line)) + 1, Len(line))

NoBlock == [mark |-> "", size |-> 0, depth |-> 0]

opensBlock(line) ==
    LET rest == unquoted(line)
    IN  IF /\ rest # <<>> /\ rest[1].says \in DOMAIN Fences
           /\ rest[1].says \in DOMAIN Ticks =>
                 \A j \in 2 .. Len(rest) : rest[j].says \notin DOMAIN Ticks
        THEN [mark |-> Fences[rest[1].says].mark, size |-> Fences[rest[1].says].size,
              depth |-> depth(line)]
        ELSE NoBlock

closesBlock(block, line) ==
    /\ depth(line) = block.depth
    /\ Len(unquoted(line)) = 1
    /\ LET w == unquoted(line)[1].says
       IN  w \in DOMAIN Fences /\ Fences[w].mark = block.mark /\ Fences[w].size >= block.size

outside(block, line) == block = NoBlock \/ depth(line) < block.depth

blockNext(block, line) ==
    IF outside(block, line) THEN opensBlock(line)
    ELSE IF closesBlock(block, line) THEN NoBlock
    ELSE block

blockAfter(text) ==
    LET after[i \in 0 .. Len(text)] ==
            IF i = 0 THEN NoBlock ELSE blockNext(after[i - 1], text[i])
    IN  after

ofBlock(block, line) == outside(block, line) => opensBlock(line) # NoBlock

(* What a person who reads the rendered text is told, line by line. *)
Speech(text) ==
    [i \in DOMAIN text |-> IF ofBlock(blockAfter(text)[i - 1], text[i]) THEN <<>>
                           ELSE stripSpans(text[i])]

(* The code takes no line for a fence that is none, and misses none: where it *)
(* does, as when a block is closed by a fence shorter than the one it opened  *)
(* with, quoted code may count as speech from there on.                       *)
FencesReadAlike(text) ==
    \A i \in DOMAIN text :
        LET block == blockAfter(text)[i - 1]
        IN  /\ fenceNext(block.mark, text[i]) = blockAfter(text)[i].mark
            /\ blanked(block.mark, text[i]) = ofBlock(block, text[i])
=============================================================================
