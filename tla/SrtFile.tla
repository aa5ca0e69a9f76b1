------------------------------ MODULE SrtFile ------------------------------
(***************************************************************************)
(* internal/srt with processFile of internal/orchestrator: one subtitle    *)
(* file on its way through a worker.  Parse reads it line by line with a   *)
(* parser of four states; processFile collects the lines of text, has them *)
(* translated, puts each translation back where its line came from, and    *)
(* srt.Write writes the blocks out again.                                  *)
(*                                                                         *)
(* A line of the file is known by its number, its kind is what the parser  *)
(* can tell of it: blank, a number (strconv.Atoi accepts it), a timestamp  *)
(* in format and range, or any other text.  A line of the output is known  *)
(* by the line of the file it stands for.                                  *)
(***************************************************************************)
EXTENDS Integers, Sequences, SequencesExt

CONSTANTS
  MaxLines,      \* bound on the lines of a file
  Translations   \* the kinds of line the server may answer with

Kinds == {"blank", "index", "time", "text"}

ASSUME LinesAssumption == MaxLines \in Nat /\ Translations \subseteq Kinds

\* Subtitle, by line numbers; no line has the number 0.
NoBlock == [index |-> 0, time |-> 0, lines |-> <<>>]

VARIABLES
  file,     \* the kinds of the lines read so far
  parser,   \* state, current and subtitles of Parse
  phase,    \* where processFile is
  texts,    \* allRefs: the lines to translate, as <<block, line of the block>>
  answers,  \* the kinds of the translations of texts
  out       \* lines of the output, as [kind, from]

vars == <<file, parser, phase, texts, answers, out>>

\* Parse before the first line.
Fresh == [mode |-> "index", current |-> NoBlock, blocks |-> <<>>]

Init ==
  /\ file = <<>> /\ parser = Fresh /\ phase = "reading"
  /\ texts = <<>> /\ answers = <<>> /\ out = <<>>

-----------------------------------------------------------------------------
(* Parse *)

\* stateIndex
AtIndex(p, n, kind) ==
  CASE kind = "blank" -> p
    [] kind = "index" -> [p EXCEPT !.mode = "timestamp",
                                   !.current = [NoBlock EXCEPT !.index = n]]
    [] OTHER -> [p EXCEPT !.mode = "skipping"]

\* Mutant: a bad timestamp does not end the block.
AtTimestampKeeping(p, n, kind) ==
  IF kind = "time" THEN [p EXCEPT !.mode = "text", !.current.time = n]
  ELSE [p EXCEPT !.mode = "text"]

\* stateTimestamp: whatever is no timestamp, a blank line too, spoils the block.
AtTimestamp(p, n, kind) ==
  IF kind = "time" THEN [p EXCEPT !.mode = "text", !.current.time = n]
  ELSE [p EXCEPT !.mode = "skipping", !.current = NoBlock]

\* Mutant: the block that is open at the end of the file is forgotten.
ClosedNever(p) == p.blocks

\* A block counts if it has a line of text.
Closed(p) ==
  IF p.current.lines # <<>> THEN Append(p.blocks, p.current) ELSE p.blocks

\* stateText
AtText(p, n, kind) ==
  IF kind = "blank" THEN [mode |-> "index", current |-> NoBlock, blocks |-> Closed(p)]
  ELSE [p EXCEPT !.current.lines = Append(@, n)]

\* stateSkipping
AtSkipping(p, n, kind) ==
  IF kind = "blank" THEN [p EXCEPT !.mode = "index", !.current = NoBlock] ELSE p

\* One iteration of the loop, on the n-th line.
ParseLine(p, n, kind) ==
  CASE p.mode = "index" -> AtIndex(p, n, kind)
    [] p.mode = "timestamp" -> AtTimestamp(p, n, kind)
    [] p.mode = "text" -> AtText(p, n, kind)
    [] p.mode = "skipping" -> AtSkipping(p, n, kind)

\* scanner.Scan
ReadLine(kind) ==
  /\ phase = "reading" /\ Len(file) < MaxLines
  /\ file' = Append(file, kind)
  /\ parser' = ParseLine(parser, Len(file'), kind)
  /\ UNCHANGED <<phase, texts, answers, out>>

\* The end of the file: the last block needs no blank line after it.
EndOfFile ==
  /\ phase = "reading"
  /\ parser' = [parser EXCEPT !.mode = "done", !.current = NoBlock,
                              !.blocks = Closed(parser)]
  /\ phase' = "parsed"
  /\ UNCHANGED <<file, texts, answers, out>>

\* A line beyond the scanner's buffer or a read error: Parse returns no block.
ReadFails ==
  /\ phase = "reading"
  /\ phase' = "failed"
  /\ UNCHANGED <<file, parser, texts, answers, out>>

-----------------------------------------------------------------------------
(* processFile *)

blocks == parser.blocks

\* The lines of a block; none of them is blank, so none is left out.
Refs(b) == [i \in DOMAIN blocks[b].lines |-> <<b, i>>]

\* allTexts and allRefs; without any text the file is done.
Collect ==
  /\ phase = "parsed"
  /\ texts' = FlattenSeq([b \in DOMAIN blocks |-> Refs(b)])
  /\ phase' = IF texts' = <<>> THEN "ok" ELSE "translating"
  /\ UNCHANGED <<file, parser, answers, out>>

\* client.TranslateTexts: as many answers as texts, or an error.
Translate ==
  /\ phase = "translating"
  /\ \/ answers' \in [DOMAIN texts -> Translations] /\ phase' = "writing"
     \/ phase' = "failed" /\ UNCHANGED answers
  /\ UNCHANGED <<file, parser, texts, out>>

\* subtitles[ref.subIdx].Lines[ref.lineIdx] = translated[i]
Answer(b, i) ==
  LET t == CHOOSE t \in DOMAIN texts : texts[t] = <<b, i>>
  IN  [kind |-> answers[t], from |-> blocks[b].lines[i]]

\* Mutant: no blank line between blocks.
SeparatorMissing(b) == <<>>

\* A blank line between blocks, none after the last.
Separator(b) == IF b < Len(blocks) THEN <<[kind |-> "blank", from |-> 0]>> ELSE <<>>

\* What srt.Write prints for one block.
BlockOut(b) ==
  <<[kind |-> "index", from |-> blocks[b].index],
    [kind |-> "time", from |-> blocks[b].time]>>
  \o [i \in DOMAIN blocks[b].lines |-> Answer(b, i)]
  \o Separator(b)

Output == FlattenSeq([b \in DOMAIN blocks |-> BlockOut(b)])

\* srt.Write goes on, or a write fails and leaves what is there.
WriteLine ==
  /\ phase = "writing"
  /\ IF Len(out) < Len(Output)
     THEN \/ out' = Append(out, Output[Len(out) + 1]) /\ UNCHANGED phase
          \/ phase' = "failed" /\ UNCHANGED out
     ELSE phase' = "ok" /\ UNCHANGED out
  /\ UNCHANGED <<file, parser, texts, answers>>

Next ==
  \/ \E kind \in Kinds : ReadLine(kind)
  \/ EndOfFile \/ ReadFails
  \/ Collect \/ Translate \/ WriteLine

Spec == Init /\ [][Next]_vars

-----------------------------------------------------------------------------
(* Properties *)

Modes == {"index", "timestamp", "text", "skipping", "done"}

Phases == {"reading", "parsed", "translating", "writing", "ok", "failed"}

Lines == 1..Len(file)

Blocks == [index : Nat, time : Nat, lines : Seq(Nat)]

TypeOK ==
  /\ file \in Seq(Kinds)
  /\ parser \in [mode : Modes, current : Blocks, blocks : Seq(Blocks)]
  /\ phase \in Phases
  /\ texts \in Seq((1..Len(blocks)) \X Lines)
  /\ answers \in Seq(Translations)
  /\ out \in Seq([kind : Kinds, from : Nat])

LastLine(b) == b.time + Len(b.lines)

\* The lines of b follow each other in the file, from its number over its
\* timestamp to its text, and begin a paragraph.
IsBlock(b) ==
  /\ b.index \in Lines /\ file[b.index] = "index"
  /\ b.index = 1 \/ file[b.index - 1] = "blank"
  /\ b.time = b.index + 1 /\ b.time \in Lines /\ file[b.time] = "time"
  /\ b.lines # <<>>
  /\ \A i \in DOMAIN b.lines :
       /\ b.lines[i] = b.time + i
       /\ b.lines[i] \in Lines /\ file[b.lines[i]] # "blank"

\* Nothing follows b in its paragraph.
IsEnded(b) == LastLine(b) = Len(file) \/ file[LastLine(b) + 1] = "blank"

\* parser.go:31-35, whatever is wrong with other blocks: what Parse returns as a
\* block is a whole paragraph of the file, and blocks come in the file's order:
\* no line is translated twice, under another timestamp or in two blocks.
BlocksAreParagraphs ==
  /\ \A i \in DOMAIN blocks : IsBlock(blocks[i]) /\ IsEnded(blocks[i])
  /\ \A i \in DOMAIN blocks : \A j \in DOMAIN blocks :
       i < j => LastLine(blocks[i]) < blocks[j].index

\* Lines first to last are a paragraph with the shape of a block.
WellFormed(first, last) ==
  /\ {first, first + 1, first + 2, last} \subseteq Lines /\ first + 2 <= last
  /\ first = 1 \/ file[first - 1] = "blank"
  /\ file[first] = "index" /\ file[first + 1] = "time"
  /\ \A n \in (first + 2)..last : file[n] # "blank"
  /\ last = Len(file) \/ file[last + 1] = "blank"

\* The paragraph before is a lone number, and one blank line away.
AfterLoneIndex(first) ==
  /\ first > 2
  /\ file[first - 1] = "blank" /\ file[first - 2] = "index"
  /\ first = 3 \/ file[first - 3] = "blank"

\* parser.go:33-35: a well-formed block is translated whatever surrounds it,
\* with one exception: the blank line after a lone number is taken for a bad
\* timestamp, and what is skipped up to the next blank line is the block after.
LossExplained ==
  phase = "parsed" =>
    \A first \in Lines : \A last \in Lines :
      WellFormed(first, last) =>
        \/ \E i \in DOMAIN blocks : blocks[i].index = first
        \/ AfterLoneIndex(first)

\* What Parse would make of the output as it is.
Reparsed ==
  LET p == FoldLeftDomain(LAMBDA q, n : ParseLine(q, n, out[n].kind), Fresh, out)
  IN  Closed(p)

\* A block of the output and the block of the file it stands for.
Stands(new, old, cut) ==
  /\ out[new.index].from = old.index /\ out[new.time].from = old.time
  /\ \/ Len(new.lines) = Len(old.lines)
     \/ cut /\ Len(new.lines) < Len(old.lines)
  /\ \A i \in DOMAIN new.lines : out[new.lines[i]].from = old.lines[i]

\* writer.go:9-38: whatever number, timestamp or text the translations look
\* like, the output reads back as the file's blocks, the finished one in full
\* and one a failed write cut short up to its last line; unless the server
\* answered with an empty line, which ends a block early.
OutputReadsBack ==
  (\A t \in DOMAIN answers : answers[t] # "blank") =>
    /\ Len(Reparsed) <= Len(blocks)
    /\ \A i \in DOMAIN Reparsed :
         Stands(Reparsed[i], blocks[i], i = Len(Reparsed) /\ out # Output)
    /\ answers # <<>> /\ phase = "ok" => Len(Reparsed) = Len(blocks)

=============================================================================
