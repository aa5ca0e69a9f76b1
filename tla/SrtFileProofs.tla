---------------------------- MODULE SrtFileProofs ----------------------------
(***************************************************************************)
(* Proofs about SrtFile, for files of every length and every arrangement   *)
(* of blank lines, numbers, timestamps and text: what comes out of Parse   *)
(* is made of whole paragraphs in order, a well-formed paragraph is lost   *)
(* in one case only, and what Write leaves behind reads back.              *)
(*                                                                         *)
(* The first two do not hold step by step on their own: what the parser    *)
(* carries from one line to the next is tied to the lines read so far      *)
(* (AtWork), what it has put aside to paragraphs that are over (PutAside), *)
(* and every paragraph that begins like a block to where the parser has it *)
(* (Followed).                                                             *)
(*                                                                         *)
(* For the third, the output is the blocks one after the other (Lays), and *)
(* the parser is, after line j of block b, where Halfway says              *)
(* (ReadsBlocks).                                                          *)
(***************************************************************************)
EXTENDS SrtFile, SequenceTheorems, WellFoundedInduction, TLAPS

-----------------------------------------------------------------------------
(* The inductive invariant. *)

Shape ==
  /\ file \in Seq(Kinds) /\ phase \in Phases
  /\ parser \in [mode : Modes, current : Blocks, blocks : Seq(Blocks)]
  /\ phase = "reading" => parser.mode # "done"
  /\ phase = "parsed" => parser.mode = "done"

\* A paragraph begins at line first, with a number.
Begins(first) ==
  /\ first \in Lines /\ file[first] = "index"
  /\ first = 1 \/ file[first - 1] = "blank"

\* The lines of c from its number on are those read last.
Open(c) ==
  /\ Begins(c.index)
  /\ c.time = c.index + 1 /\ c.time \in Lines /\ file[c.time] = "time"
  /\ \A i \in 1..Len(c.lines) : c.lines[i] = c.time + i /\ file[c.time + i] # "blank"
  /\ LastLine(c) = Len(file)

\* What the parser is in the middle of, in each of its states.
AtWork ==
  LET c == parser.current
      n == Len(file)
  IN  /\ parser.mode = "index" => c = NoBlock /\ (n = 0 \/ file[n] = "blank")
      /\ parser.mode = "timestamp" => c.index = n /\ c.lines = <<>> /\ Begins(n)
      /\ parser.mode = "text" => Open(c)
      /\ parser.mode = "skipping" =>
           /\ c = NoBlock /\ n > 0
           /\ file[n] = "blank" => Begins(n - 1)

\* A block that was put aside is over, and the next one begins after it.
PutAside ==
  /\ \A i \in 1..Len(blocks) :
       /\ IsBlock(blocks[i])
       /\ LastLine(blocks[i]) < Len(file) /\ file[LastLine(blocks[i]) + 1] = "blank"
  /\ \A i, j \in 1..Len(blocks) : i < j => LastLine(blocks[i]) < blocks[j].index
  /\ parser.mode \in {"timestamp", "text"} =>
       \A i \in 1..Len(blocks) : LastLine(blocks[i]) < parser.current.index

\* A block with this number is put aside.
IsPutAside(first) == \E i \in 1..Len(blocks) : blocks[i].index = first

\* How far the parser has got with a paragraph that begins like a block.
Followed ==
  \A first \in Lines : Begins(first) /\ ~AfterLoneIndex(first) =>
    /\ first = Len(file) => parser.mode = "timestamp"
    /\ first + 1 = Len(file) /\ file[first + 1] = "time" =>
         parser.mode = "text" /\ parser.current.index = first
    /\ first + 2 <= Len(file) /\ file[first + 1] = "time" /\ file[first + 2] # "blank" =>
         \/ parser.mode = "text" /\ parser.current.index = first
         \/ IsPutAside(first)

IInv ==
  /\ Shape
  /\ parser.mode # "done" => AtWork /\ PutAside /\ Followed
  /\ parser.mode = "done" => BlocksAreParagraphs
  /\ LossExplained

-----------------------------------------------------------------------------
(* One more line changes nothing about the lines before it. *)

LEMMA Longer ==
  ASSUME Shape, NEW kind \in Kinds, file' = Append(file, kind)
  PROVE  /\ file' \in Seq(Kinds) /\ Len(file) \in Nat /\ Len(file') = Len(file) + 1
         /\ \A i \in 1..Len(file) : file'[i] = file[i]
         /\ file'[Len(file) + 1] = kind
BY DEF Shape

LEMMA BeginsKept ==
  ASSUME Shape, NEW kind \in Kinds, file' = Append(file, kind), NEW first \in Int
  PROVE  /\ first \in 1..Len(file) => (Begins(first)' <=> Begins(first))
         /\ first \in 1..(Len(file) + 1) => (AfterLoneIndex(first)' <=> AfterLoneIndex(first))
         /\ first = Len(file) + 1 =>
              (Begins(first)' <=> kind = "index" /\ (first = 1 \/ file[first - 1] = "blank"))
<1>1. ASSUME first \in 1..Len(file)
      PROVE  Begins(first)' <=> Begins(first)
  <2>1. /\ file'[first] = file[first]
        /\ first # 1 => first - 1 \in 1..Len(file) /\ file'[first - 1] = file[first - 1]
    BY <1>1, Longer
  <2>2. first \in Lines' /\ first \in Lines
    BY <1>1, Longer DEF Lines
  <2> QED BY <2>1, <2>2 DEF Begins
<1>2. ASSUME first \in 1..(Len(file) + 1)
      PROVE  AfterLoneIndex(first)' <=> AfterLoneIndex(first)
  <2>1. first > 2 => /\ file'[first - 1] = file[first - 1]
                     /\ file'[first - 2] = file[first - 2]
    BY <1>2, Longer
  <2>2. first > 2 /\ first # 3 => file'[first - 3] = file[first - 3]
    BY <1>2, Longer
  <2> QED BY <2>1, <2>2 DEF AfterLoneIndex
<1>3. ASSUME first = Len(file) + 1
      PROVE  Begins(first)' <=> kind = "index" /\ (first = 1 \/ file[first - 1] = "blank")
  <2>1. file'[first] = kind /\ (first # 1 => file'[first - 1] = file[first - 1])
    BY <1>3, Longer
  <2>2. first \in Lines'
    BY <1>3, Longer DEF Lines
  <2> QED BY <2>1, <2>2 DEF Begins
<1> QED BY <1>1, <1>2, <1>3

\* What Parse has put aside stays a paragraph that is over.
LEMMA BlockKept ==
  ASSUME Shape, NEW kind \in Kinds, file' = Append(file, kind),
         NEW b \in Blocks, IsBlock(b)
  PROVE  /\ IsBlock(b)'
         /\ LastLine(b) < Len(file) /\ file[LastLine(b) + 1] = "blank" =>
              LastLine(b) < Len(file') /\ file'[LastLine(b) + 1] = "blank"
<1>1. /\ b.index \in 1..Len(file) /\ b.time \in 1..Len(file) /\ b.lines \in Seq(Nat)
      /\ b.index # 1 => b.index - 1 \in 1..Len(file)
      /\ b.time = b.index + 1
  BY Longer DEF IsBlock, Lines, Blocks
<1>2. /\ file'[b.index] = file[b.index] /\ file'[b.time] = file[b.time]
      /\ b.index # 1 => file'[b.index - 1] = file[b.index - 1]
  BY <1>1, Longer
<1>3. b.index \in Lines' /\ b.time \in Lines'
  BY <1>1, Longer DEF Lines
<1>4. ASSUME NEW i \in DOMAIN b.lines
      PROVE  /\ b.lines[i] = b.time + i
             /\ b.lines[i] \in Lines' /\ file'[b.lines[i]] # "blank"
  <2>1. /\ b.lines[i] = b.time + i /\ b.lines[i] \in 1..Len(file)
        /\ file[b.lines[i]] # "blank"
    BY DEF IsBlock, Lines
  <2>2. b.lines[i] \in Lines' /\ file'[b.lines[i]] = file[b.lines[i]]
    BY <2>1, Longer DEF Lines
  <2> QED BY <2>1, <2>2
<1>5. IsBlock(b)'
  BY <1>1, <1>2, <1>3, <1>4 DEF IsBlock
<1>6. Len(b.lines) \in Nat /\ LastLine(b) \in Nat
  BY <1>1 DEF LastLine
<1>7. ASSUME LastLine(b) < Len(file), file[LastLine(b) + 1] = "blank"
      PROVE  LastLine(b) < Len(file') /\ file'[LastLine(b) + 1] = "blank"
  <2>1. LastLine(b) + 1 \in 1..Len(file) /\ LastLine(b) < Len(file) + 1
    BY <1>6, <1>7, Longer
  <2> QED BY <2>1, <1>7, Longer
<1> QED BY <1>5, <1>7

-----------------------------------------------------------------------------
(* One iteration of the loop. *)

\* What a step must do for every paragraph that begins like a block.
LEMMA FollowedStep ==
  ASSUME Shape, Followed, NEW kind \in Kinds, file' = Append(file, kind),
         kind = "index" /\ (Len(file) = 0 \/ file[Len(file)] = "blank")
           /\ ~AfterLoneIndex(Len(file) + 1) => parser'.mode = "timestamp",
         kind = "time" /\ parser.mode = "timestamp" =>
           parser'.mode = "text" /\ parser'.current.index = Len(file),
         kind # "blank" /\ parser.mode = "text" =>
           parser'.mode = "text" /\ parser'.current.index = parser.current.index,
         \A first \in Int : IsPutAside(first) => IsPutAside(first)',
         \A first \in Int :
           kind = "blank" /\ parser.mode = "text" /\ parser.current.index = first
             /\ first + 2 <= Len(file) => IsPutAside(first)'
  PROVE  Followed'
<1> DEFINE n == Len(file)
<1>1. n \in Nat /\ Len(file') = n + 1
  BY Longer
<1>2. SUFFICES ASSUME NEW first \in 1..(n + 1), Begins(first)', ~AfterLoneIndex(first)'
      PROVE  /\ first = n + 1 => parser'.mode = "timestamp"
             /\ first = n /\ file'[first + 1] = "time" =>
                  parser'.mode = "text" /\ parser'.current.index = first
             /\ first + 2 <= n + 1 /\ file'[first + 1] = "time" /\ file'[first + 2] # "blank" =>
                  \/ parser'.mode = "text" /\ parser'.current.index = first
                  \/ IsPutAside(first)'
  <2>1. Lines' = 1..(n + 1)
    BY <1>1 DEF Lines
  <2> HIDE DEF n
  <2> QED BY <1>1, <1>2, <2>1 DEF Followed
<1>3. ~AfterLoneIndex(first)
  BY <1>2, BeginsKept
<1>4. CASE first = n + 1
  <2>1. kind = "index" /\ (n = 0 \/ file[n] = "blank")
    BY <1>1, <1>2, <1>4, BeginsKept
  <2> QED BY <2>1, <1>1, <1>3, <1>4
<1>5. CASE first = n
  <2>1. first \in Lines /\ Begins(first)
    BY <1>1, <1>2, <1>5, BeginsKept DEF Lines
  <2>2. parser.mode = "timestamp"
    BY <2>1, <1>3, <1>5 DEF Followed
  <2>3. file'[first + 1] = kind
    BY <1>5, Longer
  <2> QED BY <2>2, <2>3, <1>1, <1>5
<1>6. CASE first < n
  <2>1. first \in Lines /\ Begins(first) /\ first + 1 \in 1..n /\ file'[first + 1] = file[first + 1]
    BY <1>1, <1>2, <1>6, BeginsKept, Longer DEF Lines
  <2>2. SUFFICES ASSUME file[first + 1] = "time", file'[first + 2] # "blank"
        PROVE  \/ parser'.mode = "text" /\ parser'.current.index = first
               \/ IsPutAside(first)'
    BY <2>1, <1>1, <1>6
  <2>3. CASE first + 1 = n
    <3>1. parser.mode = "text" /\ parser.current.index = first
      BY <2>1, <2>2, <2>3, <1>3 DEF Followed
    <3>2. file'[first + 2] = kind
      BY <2>3, <1>1, <1>2, Longer
    <3> QED BY <3>1, <3>2, <2>2
  <2>4. CASE first + 2 <= n
    <3>1. file'[first + 2] = file[first + 2]
      BY <2>4, <1>1, <1>2, Longer
    <3>2. \/ parser.mode = "text" /\ parser.current.index = first
          \/ IsPutAside(first)
      BY <2>1, <2>2, <2>4, <3>1, <1>3 DEF Followed
    <3>3. CASE parser.mode = "text" /\ parser.current.index = first
      BY <2>4, <3>3
    <3> QED BY <3>2, <3>3, <1>2
  <2> QED BY <2>3, <2>4, <1>1, <1>2, <1>6
<1> QED BY <1>1, <1>2, <1>4, <1>5, <1>6

\* A step that puts nothing aside.
LEMMA PutAsideStep ==
  ASSUME Shape, PutAside, NEW kind \in Kinds, file' = Append(file, kind), blocks' = blocks,
         parser'.mode \in {"timestamp", "text"} =>
           \A i \in 1..Len(blocks) : LastLine(blocks[i]) < parser'.current.index
  PROVE  /\ PutAside'
         /\ \A first \in Int : IsPutAside(first) => IsPutAside(first)'
<1>1. \A i \in 1..Len(blocks) : blocks[i] \in Blocks
  BY DEF Shape, blocks
<1>2. ASSUME NEW i \in 1..Len(blocks)
      PROVE  /\ IsBlock(blocks[i])'
             /\ LastLine(blocks[i]) < Len(file') /\ file'[LastLine(blocks[i]) + 1] = "blank"
             /\ LastLine(blocks[i])' = LastLine(blocks[i])
  <2> DEFINE b == blocks[i]
  <2>1. b \in Blocks /\ IsBlock(b) /\ LastLine(b) < Len(file) /\ file[LastLine(b) + 1] = "blank"
    BY <1>1 DEF PutAside
  <2>2. /\ LastLine(b) < Len(file') /\ file'[LastLine(b) + 1] = "blank"
    <3> HIDE DEF b
    <3> QED BY <2>1, BlockKept
  <2>3. b' = b
    OBVIOUS
  <2>4. IsBlock(b)'
    <3>1. \A d \in Blocks : IsBlock(d) => IsBlock(d)'
      BY BlockKept
    <3> QED BY <3>1, <2>1, <2>3 DEF IsBlock
  <2> QED BY <2>2, <2>3, <2>4 DEF LastLine
<1>3. PutAside'
  BY <1>2 DEF PutAside
<1> QED BY <1>3 DEF IsPutAside

ReadInv == AtWork /\ PutAside /\ Followed

\* Parse's loop in stateIndex.
LEMMA AtIndexKeeps ==
  ASSUME Shape, ReadInv, NEW kind \in Kinds, file' = Append(file, kind),
         parser.mode = "index", parser' = AtIndex(parser, Len(file'), kind)
  PROVE  ReadInv'
<1>0. PICK n \in Nat : n = Len(file)
  BY Longer
<1>1. n = Len(file) /\ Len(file') = n + 1 /\ file'[n + 1] = kind
  BY <1>0, Longer
<1>2. parser.current = NoBlock /\ (n = 0 \/ file[n] = "blank")
  BY <1>1 DEF ReadInv, AtWork
<1>3. /\ parser'.blocks = parser.blocks
      /\ parser'.mode = IF kind = "blank" THEN "index"
                        ELSE IF kind = "index" THEN "timestamp" ELSE "skipping"
      /\ parser'.current = IF kind = "index" THEN [NoBlock EXCEPT !.index = n + 1] ELSE NoBlock
  <2>1. parser \in [mode : Modes, current : Blocks, blocks : Seq(Blocks)]
    BY DEF Shape
  <2>2. CASE kind = "blank"
    BY <2>2, <1>2 DEF AtIndex
  <2>3. CASE kind = "index"
    BY <2>1, <2>3, <1>1 DEF AtIndex
  <2>4. CASE kind \notin {"blank", "index"}
    BY <2>1, <2>4, <1>2 DEF AtIndex
  <2> QED BY <2>2, <2>3, <2>4
<1>4. AtWork'
  <2>1. CASE kind = "blank"
    BY <2>1, <1>1, <1>3 DEF AtWork
  <2>2. CASE kind = "index"
    <3>1. Begins(n + 1)'
      BY <2>2, <1>1, <1>2, BeginsKept
    <3>2. parser'.current.index = n + 1 /\ parser'.current.lines = <<>>
      BY <2>2, <1>3 DEF NoBlock
    <3>3. parser'.mode = "timestamp"
      BY <2>2, <1>3
    <3>4. Begins(Len(file))'
      BY <3>1, <1>1 DEF Begins, Lines
    <3> QED BY <3>2, <3>3, <3>4, <1>1 DEF AtWork
  <2>3. CASE kind \notin {"blank", "index"}
    BY <2>3, <1>1, <1>3 DEF AtWork
  <2> QED BY <2>1, <2>2, <2>3
<1>5. PutAside' /\ \A first \in Int : IsPutAside(first) => IsPutAside(first)'
  <2>1. \A i \in 1..Len(blocks) : LastLine(blocks[i]) < n
    BY <1>1 DEF ReadInv, PutAside
  <2>2. \A i \in 1..Len(blocks) : blocks[i] \in Blocks
    BY DEF Shape, blocks
  <2>3. \A b \in Blocks : IsBlock(b) => LastLine(b) \in Nat
    BY DEF Blocks, LastLine
  <2>4. \A i \in 1..Len(blocks) : LastLine(blocks[i]) < n + 1
    BY <2>1, <2>2, <2>3, <1>1 DEF ReadInv, PutAside
  <2>5. parser'.mode \in {"timestamp", "text"} => parser'.current.index = n + 1
    BY <1>3 DEF NoBlock
  <2>6. blocks' = blocks
    BY <1>3 DEF blocks
  <2> QED BY <2>4, <2>5, <2>6, PutAsideStep DEF ReadInv
<1>6. Followed'
  BY <1>3, <1>5, FollowedStep DEF ReadInv
<1> QED BY <1>4, <1>5, <1>6 DEF ReadInv

\* ... in stateTimestamp.
LEMMA AtTimestampKeeps ==
  ASSUME Shape, ReadInv, NEW kind \in Kinds, file' = Append(file, kind),
         parser.mode = "timestamp", parser' = AtTimestamp(parser, Len(file'), kind)
  PROVE  ReadInv'
<1>0. PICK n \in Nat : n = Len(file)
  BY Longer
<1>1. n = Len(file) /\ Len(file') = n + 1 /\ file'[n + 1] = kind
  BY <1>0, Longer
<1>2. parser.current.index = n /\ parser.current.lines = <<>> /\ Begins(n)
  BY <1>1 DEF ReadInv, AtWork
<1>3. /\ parser'.blocks = parser.blocks
      /\ kind = "time" => /\ parser'.mode = "text" /\ parser'.current.index = n
                          /\ parser'.current.time = n + 1 /\ parser'.current.lines = <<>>
      /\ kind # "time" => parser'.mode = "skipping" /\ parser'.current = NoBlock
  <2>1. parser \in [mode : Modes, current : Blocks, blocks : Seq(Blocks)]
    BY DEF Shape
  <2>2. CASE kind = "time"
    <3>1. parser' = [parser EXCEPT !.mode = "text", !.current.time = n + 1]
      BY <2>2, <1>1 DEF AtTimestamp
    <3>2. parser'.current = [parser.current EXCEPT !.time = n + 1]
      BY <2>1, <3>1
    <3>3. parser'.blocks = parser.blocks /\ parser'.mode = "text"
      BY <2>1, <3>1
    <3>4. parser.current \in [index : Nat, time : Nat, lines : Seq(Nat)]
      BY <2>1 DEF Blocks
    <3> QED BY <2>2, <3>2, <3>3, <3>4, <1>2
  <2>3. CASE kind # "time"
    BY <2>1, <2>3 DEF AtTimestamp
  <2> QED BY <2>2, <2>3
<1>4. n \in 1..n /\ file[n] = "index" /\ Begins(n)'
  <2>1. n \in 1..n /\ file[n] = "index"
    BY <1>1, <1>2 DEF Begins, Lines
  <2>2. n \in Int /\ n \in 1..Len(file)
    BY <2>1, <1>1
  <2> QED BY <2>1, <2>2, <1>2, BeginsKept
<1>5. AtWork'
  <2>1. CASE kind = "time"
    <3>0. PICK c : c = parser'.current
      OBVIOUS
    <3>1. c.index = n /\ c.time = n + 1 /\ Len(c.lines) = 0
      BY <2>1, <1>3, <3>0
    <3>2. Begins(c.index)'
      <4>1. /\ n \in Lines' /\ file'[n] = "index" /\ (n = 1 \/ file'[n - 1] = "blank")
        BY <1>4 DEF Begins
      <4> QED BY <4>1, <3>1 DEF Begins
    <3>3. c.time \in Lines' /\ file'[c.time] = "time" /\ LastLine(c)' = Len(file')
      BY <2>1, <3>1, <1>1 DEF Lines, LastLine
    <3>4. Open(c)'
      BY <3>1, <3>2, <3>3 DEF Open
    <3> QED BY <2>1, <1>3, <3>0, <3>4 DEF AtWork
  <2>2. CASE kind # "time"
    <3>1. parser'.mode = "skipping" /\ parser'.current = NoBlock /\ Len(file') > 0
      BY <2>2, <1>1, <1>3
    <3>2. Begins(Len(file) - 1)'
      <4>1. Len(file') - 1 = n
        BY <1>1
      <4>2. /\ n \in Lines' /\ file'[n] = "index" /\ (n = 1 \/ file'[n - 1] = "blank")
        BY <1>4 DEF Begins
      <4> QED BY <4>1, <4>2 DEF Begins
    <3> QED BY <3>1, <3>2 DEF AtWork
  <2> QED BY <2>1, <2>2
<1>6. PutAside' /\ \A first \in Int : IsPutAside(first) => IsPutAside(first)'
  <2>1. \A i \in 1..Len(blocks) : LastLine(blocks[i]) < n
    BY <1>2 DEF ReadInv, PutAside
  <2>2. parser'.mode \in {"timestamp", "text"} => parser'.current.index = n
    BY <1>3
  <2>3. blocks' = blocks
    BY <1>3 DEF blocks
  <2> QED BY <2>1, <2>2, <2>3, PutAsideStep DEF ReadInv
<1>7. Followed'
  BY <1>1, <1>3, <1>4, <1>6, FollowedStep DEF ReadInv
<1> QED BY <1>5, <1>6, <1>7 DEF ReadInv

\* The block of stateText, once it has a line of text, is a paragraph so far.
LEMMA OpenIsBlock ==
  ASSUME NEW c \in Blocks, Open(c), c.lines # <<>>, file \in Seq(Kinds)
  PROVE  IsBlock(c)
<1>1. Len(c.lines) \in Nat /\ DOMAIN c.lines = 1..Len(c.lines) /\ c.time \in Nat
  BY DEF Blocks
<1>2. ASSUME NEW i \in 1..Len(c.lines) PROVE c.time + i \in Lines
  BY <1>1 DEF Open, LastLine, Lines
<1> QED BY <1>1, <1>2 DEF Open, IsBlock, Begins

\* ... in stateText, at the end of the block.
LEMMA AtTextBlankKeeps ==
  ASSUME Shape, ReadInv, NEW kind \in Kinds, file' = Append(file, kind), kind = "blank",
         parser.mode = "text", parser' = AtText(parser, Len(file'), kind)
  PROVE  ReadInv'
<1>0. PICK n \in Nat : n = Len(file)
  BY Longer
<1>1. n = Len(file) /\ Len(file') = n + 1 /\ file'[n + 1] = "blank"
  BY <1>0, Longer
<1>2. PICK c \in Blocks : c = parser.current
  BY DEF Shape
<1>3. Open(c) /\ LastLine(c) = n /\ c.lines \in Seq(Nat) /\ c.index \in Nat /\ c.time \in Nat
  BY <1>1, <1>2 DEF ReadInv, AtWork, Open, Blocks
<1>4. /\ parser'.mode = "index" /\ parser'.current = NoBlock
      /\ blocks' = IF c.lines # <<>> THEN Append(blocks, c) ELSE blocks
  BY <1>2 DEF AtText, Closed, blocks
<1>5. AtWork'
  BY <1>1, <1>4 DEF AtWork
<1>6. /\ PutAside'
      /\ \A first \in Int : IsPutAside(first) => IsPutAside(first)'
      /\ c.lines # <<>> => IsPutAside(c.index)'
  <2>1. CASE c.lines = <<>>
    BY <2>1, <1>4, PutAsideStep DEF ReadInv
  <2>2. CASE c.lines # <<>>
    <3> DEFINE k == Len(blocks)
    <3>1. blocks \in Seq(Blocks) /\ k \in Nat
      BY DEF Shape, blocks
    <3>2. /\ blocks' = Append(blocks, c)
          /\ Len(blocks') = Len(blocks) + 1 /\ blocks'[Len(blocks) + 1] = c
          /\ \A i \in 1..Len(blocks) : blocks'[i] = blocks[i] /\ blocks[i] \in Blocks
      BY <2>2, <3>1, <1>4
    <3>3. IsBlock(c)' /\ LastLine(c) < Len(file') /\ file'[LastLine(c) + 1] = "blank"
      <4>1. IsBlock(c)
        BY <2>2, <1>3, OpenIsBlock DEF Shape
      <4>2. IsBlock(c)'
        BY <4>1, BlockKept
      <4> QED BY <4>2, <1>1, <1>3
    <3>4. ASSUME NEW b \in Blocks, IsBlock(b), LastLine(b) < Len(file),
                 file[LastLine(b) + 1] = "blank"
          PROVE  IsBlock(b)' /\ LastLine(b) < Len(file') /\ file'[LastLine(b) + 1] = "blank"
      BY <3>4, BlockKept
    <3>5. ASSUME NEW i \in 1..Len(blocks)'
          PROVE  IsBlock(blocks[i])' /\ (LastLine(blocks[i]) < Len(file))'
                 /\ (file[LastLine(blocks[i]) + 1] = "blank")'
      <4>0. i = Len(blocks) + 1 \/ i \in 1..Len(blocks)
        BY <3>1, <3>2
      <4>1. PICK b \in Blocks : b = blocks'[i]
        <5>1. CASE i = Len(blocks) + 1
          BY <5>1, <3>2
        <5>2. CASE i \in 1..Len(blocks)
          BY <5>2, <3>2
        <5> QED BY <4>0, <5>1, <5>2
      <4>2. IsBlock(b)' /\ LastLine(b) < Len(file') /\ file'[LastLine(b) + 1] = "blank"
        <5>1. CASE i = Len(blocks) + 1
          BY <5>1, <4>1, <3>2, <3>3
        <5>2. CASE i \in 1..Len(blocks)
          <6>1. b = blocks[i]
            BY <5>2, <4>1, <3>2
          <6>2. IsBlock(b) /\ LastLine(b) < Len(file) /\ file[LastLine(b) + 1] = "blank"
            BY <5>2, <6>1 DEF ReadInv, PutAside
          <6> QED BY <6>2, <3>4
        <5> QED BY <4>0, <5>1, <5>2
      <4> QED BY <4>1, <4>2 DEF IsBlock, LastLine
    <3>6. ASSUME NEW i \in 1..Len(blocks)', NEW j \in 1..Len(blocks)', i < j
          PROVE  (LastLine(blocks[i]) < blocks[j].index)'
      <4>1. i \in 1..Len(blocks) /\ blocks'[i] = blocks[i]
        BY <3>1, <3>2, <3>6
      <4>2. CASE j = Len(blocks) + 1
        <5>1. LastLine(blocks[i]) < c.index
          BY <4>1, <1>2 DEF ReadInv, PutAside
        <5> QED BY <4>1, <4>2, <5>1, <3>2 DEF LastLine
      <4>3. CASE j \in 1..Len(blocks)
        <5>1. LastLine(blocks[i]) < blocks[j].index
          BY <4>1, <4>3, <3>6 DEF ReadInv, PutAside
        <5> QED BY <4>1, <4>3, <5>1, <3>2 DEF LastLine
      <4> QED BY <4>2, <4>3, <3>1, <3>2
    <3>7. PutAside'
      BY <3>5, <3>6, <1>4 DEF PutAside
    <3>8. \A first \in Int : IsPutAside(first) => IsPutAside(first)'
      BY <3>1, <3>2 DEF IsPutAside
    <3>9. IsPutAside(c.index)'
      BY <3>1, <3>2 DEF IsPutAside
    <3> QED BY <3>7, <3>8, <3>9
  <2> QED BY <2>1, <2>2
<1>7. ASSUME NEW first \in Int, parser.current.index = first, first + 2 <= Len(file)
      PROVE  IsPutAside(first)'
  <2>1. c.time = c.index + 1 /\ c.time + Len(c.lines) = n /\ Len(c.lines) \in Nat
    BY <1>3 DEF Open, LastLine
  <2>2. Len(c.lines) # 0
    <3>1. first = c.index /\ first + 2 <= n
      BY <1>1, <1>2, <1>7
    <3>2. \A t, l, x \in Int : t = x + 1 /\ t + l = n /\ x + 2 <= n => l # 0
      BY <1>0
    <3>3. c.time \in Int /\ c.index \in Int /\ Len(c.lines) \in Int
      BY <2>1, <1>3
    <3> QED BY ONLY <3>1, <3>2, <3>3, <2>1
  <2>3. c.lines # <<>> /\ c.index = first
    BY <2>2, <1>2, <1>7
  <2> QED BY <2>3, <1>6
<1>8. Followed'
  BY <1>6, <1>7, FollowedStep DEF ReadInv
<1> QED BY <1>5, <1>6, <1>8 DEF ReadInv

\* ... in stateText, at a line of the block, whatever it looks like.
LEMMA AtTextLineKeeps ==
  ASSUME Shape, ReadInv, NEW kind \in Kinds, file' = Append(file, kind), kind # "blank",
         parser.mode = "text", parser' = AtText(parser, Len(file'), kind)
  PROVE  ReadInv'
<1>0. PICK n \in Nat : n = Len(file)
  BY Longer
<1>1. n = Len(file) /\ Len(file') = n + 1 /\ file'[n + 1] = kind
  BY <1>0, Longer
<1>2. PICK c \in Blocks : c = parser.current
  BY DEF Shape
<1>3. Open(c) /\ LastLine(c) = n /\ c.lines \in Seq(Nat) /\ c.index \in Nat /\ c.time \in Nat
  BY <1>1, <1>2 DEF ReadInv, AtWork, Open, Blocks
<1>4. PICK d : d = parser'.current
  OBVIOUS
<1>5. /\ parser'.blocks = parser.blocks /\ parser'.mode = "text"
      /\ d.index = c.index /\ d.time = c.time /\ d.lines = Append(c.lines, n + 1)
  <2>1. parser \in [mode : Modes, current : Blocks, blocks : Seq(Blocks)]
    BY DEF Shape
  <2>2. parser' = [parser EXCEPT !.current.lines = Append(@, n + 1)]
    BY <1>1 DEF AtText
  <2>3. parser' = [parser EXCEPT !.current = [parser.current EXCEPT !.lines = Append(@, n + 1)]]
    BY <2>1, <2>2
  <2>4. d = [c EXCEPT !.lines = Append(@, n + 1)]
    BY <2>1, <2>3, <1>2, <1>4
  <2>5. parser'.blocks = parser.blocks /\ parser'.mode = parser.mode
    BY <2>1, <2>3
  <2>6. c \in [index : Nat, time : Nat, lines : Seq(Nat)]
    BY DEF Blocks
  <2> QED BY <2>4, <2>5, <2>6
<1>6. AtWork'
  <2>1. /\ Len(d.lines) = Len(c.lines) + 1 /\ Len(c.lines) \in Nat
        /\ \A i \in 1..Len(c.lines) : d.lines[i] = c.lines[i]
        /\ d.lines[Len(c.lines) + 1] = n + 1
    BY <1>3, <1>5
  <2>2. c.time + Len(c.lines) = n /\ c.time = c.index + 1 /\ c.time \in 1..n
        /\ c.index \in 1..n /\ file[c.time] = "time" /\ Begins(c.index)
    BY <1>1, <1>3 DEF Open, LastLine, Lines, Begins
  <2>3. Begins(c.index)'
    <3>1. c.index \in Int /\ c.index \in 1..Len(file)
      BY <2>2, <1>1
    <3>2. \A first \in 1..Len(file) : Begins(first) => Begins(first)'
      BY BeginsKept
    <3>3. PICK first : first = c.index
      OBVIOUS
    <3> QED BY <2>2, <3>1, <3>2, <3>3 DEF Begins
  <2>4. c.time \in Lines' /\ file'[c.time] = "time"
    BY <2>2, <1>1, Longer DEF Lines
  <2>5. ASSUME NEW i \in 1..(Len(c.lines) + 1)
        PROVE  d.lines[i] = c.time + i /\ file'[c.time + i] # "blank"
    <3>1. CASE i = Len(c.lines) + 1
      <4>1. c.time + i = n + 1
        <5>1. \A t, l \in Int : t + l = n => t + (l + 1) = n + 1
          BY <1>0
        <5>2. c.time \in Int /\ Len(c.lines) \in Int
          BY <2>1, <1>3
        <5> QED BY ONLY <5>1, <5>2, <3>1, <2>2
      <4> QED BY <4>1, <3>1, <2>1, <1>1
    <3>2. CASE i # Len(c.lines) + 1
      <4>1. i \in 1..Len(c.lines) /\ c.time + i \in 1..n
        <5>1. \A t, l \in Nat : t + l = n /\ i \in 1..(l + 1) /\ i # l + 1
                => i \in 1..l /\ t + i \in 1..n
          BY <1>0
        <5>2. c.time \in Nat /\ Len(c.lines) \in Nat
          BY <2>1, <1>3
        <5> QED BY ONLY <5>1, <5>2, <3>2, <2>2, <2>5
      <4>2. c.lines[i] = c.time + i /\ file[c.time + i] # "blank"
        BY <4>1, <1>3 DEF Open
      <4> QED BY <4>1, <4>2, <2>1, <1>1, Longer
    <3> QED BY <3>1, <3>2
  <2>6. d.time + Len(d.lines) = n + 1
    <3>1. \A t, l \in Int : t + l = n => t + (l + 1) = n + 1
      BY <1>0
    <3>2. c.time \in Int /\ Len(c.lines) \in Int
      BY <2>1, <1>3
    <3>3. d.time = c.time /\ Len(d.lines) = Len(c.lines) + 1
      BY ONLY <2>1, <1>5
    <3> QED BY ONLY <3>1, <3>2, <3>3, <2>2
  <2>7. Begins(d.index)' /\ d.time = d.index + 1
    BY <2>2, <2>3, <1>5 DEF Begins
  <2>8. Open(d)'
    <3>1. \A i \in 1..Len(d.lines) : d.lines[i] = d.time + i /\ file'[d.time + i] # "blank"
      BY <2>1, <2>5, <1>5
    <3>2. d.time \in Lines' /\ file'[d.time] = "time"
      BY <2>4, <1>5
    <3>3. LastLine(d)' = Len(file')
      BY <2>6, <1>1 DEF LastLine
    <3> QED BY <3>1, <3>2, <3>3, <2>7 DEF Open
  <2> QED BY <2>8, <1>4, <1>5 DEF AtWork, Open, Begins, LastLine
<1>7. PutAside' /\ \A first \in Int : IsPutAside(first) => IsPutAside(first)'
  <2>1. \A i \in 1..Len(blocks) : LastLine(blocks[i]) < parser.current.index
    BY DEF ReadInv, PutAside
  <2>2. parser'.current.index = parser.current.index
    BY <1>2, <1>4, <1>5
  <2>3. blocks' = blocks
    BY <1>5 DEF blocks
  <2> QED BY <2>1, <2>2, <2>3, PutAsideStep DEF ReadInv
<1>8. Followed'
  <2>1. parser'.mode = "text" /\ parser'.current.index = parser.current.index
    BY <1>2, <1>4, <1>5
  <2>2. Followed /\ \A first \in Int : IsPutAside(first) => IsPutAside(first)'
    BY <1>7 DEF ReadInv
  <2>3. kind # "blank" /\ parser.mode # "timestamp"
    OBVIOUS
  <2>4. ~(kind = "index" /\ (Len(file) = 0 \/ file[Len(file)] = "blank")
          /\ ~AfterLoneIndex(Len(file) + 1))
    <3>1. PICK l \in Nat : l = Len(c.lines)
      BY <1>3
    <3>2. PICK t \in Nat : t = c.time
      BY <1>3
    <3>3. t + l = n /\ t \in 1..n /\ file[t] = "time"
      BY <1>1, <1>3, <3>1, <3>2 DEF Open, LastLine, Lines
    <3>4. l # 0 => file[t + l] # "blank"
      <4>1. \A i \in 1..l : file[t + i] # "blank"
        <5>1. \A i \in 1..Len(c.lines) : file[c.time + i] # "blank"
          BY <1>3 DEF Open
        <5> QED BY ONLY <5>1, <3>1, <3>2
      <4>2. l # 0 => l \in 1..l
        BY <3>1
      <4> QED BY ONLY <4>1, <4>2
    <3>5. n # 0 /\ file[n] # "blank"
      BY ONLY <1>0, <3>1, <3>2, <3>3, <3>4
    <3> QED BY <1>1, <3>5
  <2> QED BY <2>1, <2>2, <2>3, <2>4, FollowedStep
<1> QED BY <1>6, <1>7, <1>8 DEF ReadInv

\* ... in stateSkipping.
LEMMA AtSkippingKeeps ==
  ASSUME Shape, ReadInv, NEW kind \in Kinds, file' = Append(file, kind),
         parser.mode = "skipping", parser' = AtSkipping(parser, Len(file'), kind)
  PROVE  ReadInv'
<1>0. PICK n \in Nat : n = Len(file)
  BY Longer
<1>1. n = Len(file) /\ Len(file') = n + 1 /\ file'[n + 1] = kind
  BY <1>0, Longer
<1>2. parser.current = NoBlock /\ n > 0 /\ (file[n] = "blank" => Begins(n - 1))
  BY <1>1 DEF ReadInv, AtWork
<1>3. /\ parser'.blocks = parser.blocks /\ parser'.current = NoBlock
      /\ parser'.mode = IF kind = "blank" THEN "index" ELSE "skipping"
  <2>1. parser \in [mode : Modes, current : Blocks, blocks : Seq(Blocks)]
    BY DEF Shape
  <2>2. CASE kind = "blank"
    BY <2>1, <2>2 DEF AtSkipping
  <2>3. CASE kind # "blank"
    BY <2>3, <1>2 DEF AtSkipping
  <2> QED BY <2>2, <2>3
<1>4. AtWork'
  BY <1>1, <1>3 DEF AtWork
<1>5. PutAside' /\ \A first \in Int : IsPutAside(first) => IsPutAside(first)'
  <2>1. blocks' = blocks
    BY <1>3 DEF blocks
  <2> QED BY <2>1, <1>3, PutAsideStep DEF ReadInv
<1>6. file[n] = "blank" => AfterLoneIndex(n + 1)
  <2> SUFFICES ASSUME file[n] = "blank" PROVE AfterLoneIndex(n + 1)
    OBVIOUS
  <2>1. n - 1 \in 1..n /\ file[n - 1] = "index" /\ (n - 1 = 1 \/ file[n - 1 - 1] = "blank")
    BY <1>1, <1>2 DEF Begins, Lines
  <2>2. /\ (n + 1) - 1 = n /\ (n + 1) - 2 = n - 1 /\ (n + 1) - 3 = n - 1 - 1
        /\ n + 1 > 2 /\ (n - 1 = 1 => n + 1 = 3)
    BY <2>1
  <2> QED BY <2>1, <2>2 DEF AfterLoneIndex
<1>7. Followed'
  <2>1. kind = "index" /\ (Len(file) = 0 \/ file[Len(file)] = "blank")
           => AfterLoneIndex(Len(file) + 1)
    BY <1>1, <1>2, <1>6
  <2> QED BY <2>1, <1>3, <1>5, FollowedStep DEF ReadInv
<1> QED BY <1>4, <1>5, <1>7 DEF ReadInv

-----------------------------------------------------------------------------
(* The steps of the file. *)

LEMMA ReadKeepsShape ==
  ASSUME Shape, NEW kind \in Kinds, ReadLine(kind)
  PROVE  Shape'
<1>0. PICK n \in Nat : n = Len(file')
  BY Longer DEF ReadLine
<1>1. file' \in Seq(Kinds) /\ phase' \in Phases /\ phase' = "reading" /\ phase = "reading"
  BY Longer DEF ReadLine, Phases
<1>2. parser.mode \in Modes \ {"done"} /\ parser.current \in Blocks /\ parser.blocks \in Seq(Blocks)
  BY <1>1 DEF Shape
<1>3. parser' = ParseLine(parser, n, kind)
  BY <1>0 DEF ReadLine
<1>4. /\ parser \in [mode : Modes, current : Blocks, blocks : Seq(Blocks)]
      /\ NoBlock \in Blocks
  <2>1. 0 \in Nat /\ <<>> \in Seq(Nat)
    OBVIOUS
  <2> QED BY <2>1 DEF Shape, NoBlock, Blocks
<1>5. CASE parser.mode = "index"
  <2>1. [NoBlock EXCEPT !.index = n] \in Blocks
    BY <1>4 DEF Blocks
  <2>2. parser' \in {parser, [parser EXCEPT !.mode = "skipping"],
                    [parser EXCEPT !.mode = "timestamp", !.current = [NoBlock EXCEPT !.index = n]]}
    BY <1>3, <1>5 DEF ParseLine, AtIndex
  <2> QED BY <2>1, <2>2, <1>1, <1>2, <1>4 DEF Shape, Modes
<1>6. CASE parser.mode = "timestamp"
  <2>1. [parser.current EXCEPT !.time = n] \in Blocks
    BY <1>2 DEF Blocks
  <2>2. parser' \in {[parser EXCEPT !.mode = "skipping", !.current = NoBlock],
                    [parser EXCEPT !.mode = "text", !.current = [parser.current EXCEPT !.time = n]]}
    BY <1>3, <1>4, <1>6 DEF ParseLine, AtTimestamp
  <2> QED BY <2>1, <2>2, <1>1, <1>4 DEF Shape, Modes
<1>7. CASE parser.mode = "text"
  <2>1. [parser.current EXCEPT !.lines = Append(@, n)] \in Blocks
    <3>1. parser.current.lines \in Seq(Nat)
      BY <1>2 DEF Blocks
    <3>2. Append(parser.current.lines, n) \in Seq(Nat)
      BY <3>1
    <3> QED BY <3>2, <1>2 DEF Blocks
  <2>2. Closed(parser) \in Seq(Blocks)
    BY <1>2 DEF Closed
  <2>3. parser' \in {[mode |-> "index", current |-> NoBlock, blocks |-> Closed(parser)],
                    [parser EXCEPT !.current = [parser.current EXCEPT !.lines = Append(@, n)]]}
    BY <1>3, <1>4, <1>7 DEF ParseLine, AtText
  <2>4. /\ parser' \in [mode : Modes, current : Blocks, blocks : Seq(Blocks)]
        /\ parser'.mode # "done"
    <3>1. CASE parser' = [mode |-> "index", current |-> NoBlock, blocks |-> Closed(parser)]
      BY <3>1, <2>2, <1>4 DEF Modes
    <3>2. CASE parser' = [parser EXCEPT !.current = [parser.current EXCEPT !.lines = Append(@, n)]]
      BY <3>2, <2>1, <1>2, <1>4
    <3> QED BY <3>1, <3>2, <2>3
  <2> QED BY <2>4, <1>1 DEF Shape
<1>8. CASE parser.mode = "skipping"
  <2>1. parser' \in {parser, [parser EXCEPT !.mode = "index", !.current = NoBlock]}
    BY <1>3, <1>8 DEF ParseLine, AtSkipping
  <2> QED BY <2>1, <1>1, <1>2, <1>4 DEF Shape, Modes
<1> QED BY <1>2, <1>5, <1>6, <1>7, <1>8 DEF Modes

LEMMA ReadKeeps ==
  ASSUME IInv, NEW kind \in Kinds, ReadLine(kind)
  PROVE  IInv'
<1>1. Shape /\ phase = "reading" /\ phase' = "reading" /\ parser.mode \in Modes \ {"done"}
  BY DEF IInv, Shape, ReadLine
<1>2. Shape' /\ parser'.mode # "done"
  <2>1. Shape'
    BY <1>1, ReadKeepsShape
  <2> QED BY <2>1, <1>1 DEF Shape
<1>3. ReadInv /\ file' = Append(file, kind) /\ parser' = ParseLine(parser, Len(file'), kind)
  BY <1>1 DEF IInv, ReadInv, ReadLine
<1>4. ReadInv'
  <2>1. CASE parser.mode = "index"
    BY <2>1, <1>1, <1>3, AtIndexKeeps DEF ParseLine
  <2>2. CASE parser.mode = "timestamp"
    BY <2>2, <1>1, <1>3, AtTimestampKeeps DEF ParseLine
  <2>3. CASE parser.mode = "text"
    <3>1. parser' = AtText(parser, Len(file'), kind)
      BY <2>3, <1>3 DEF ParseLine
    <3> QED BY <2>3, <3>1, <1>1, <1>3, AtTextBlankKeeps, AtTextLineKeeps
  <2>4. CASE parser.mode = "skipping"
    BY <2>4, <1>1, <1>3, AtSkippingKeeps DEF ParseLine
  <2> QED BY <2>1, <2>2, <2>3, <2>4, <1>1 DEF Modes
<1> QED BY <1>1, <1>2, <1>4 DEF IInv, ReadInv, LossExplained

\* At the end of the file Parse returns what it put aside and the open block.
LEMMA EndKeeps ==
  ASSUME IInv, EndOfFile
  PROVE  IInv'
<1>1. Shape /\ AtWork /\ PutAside /\ Followed /\ parser.mode \in Modes \ {"done"}
  BY DEF IInv, Shape, EndOfFile
<1>2. PICK c \in Blocks : c = parser.current
  BY <1>1 DEF Shape
<1>3. /\ file' = file /\ phase' = "parsed" /\ parser'.mode = "done"
      /\ blocks' = IF c.lines # <<>> THEN Append(blocks, c) ELSE blocks
  BY <1>1, <1>2 DEF EndOfFile, Shape, Closed, blocks
<1>4. PICK k \in Nat : k = Len(blocks)
  BY <1>1 DEF Shape, blocks
<1>5. /\ blocks \in Seq(Blocks)
      /\ \A i \in 1..k : blocks[i] \in Blocks /\ IsBlock(blocks[i]) /\ IsEnded(blocks[i])
      /\ \A i \in 1..k : \A j \in 1..k : i < j => LastLine(blocks[i]) < blocks[j].index
  BY <1>1, <1>4 DEF Shape, PutAside, blocks, IsEnded
<1>6. ASSUME c.lines # <<>>
      PROVE  /\ parser.mode = "text" /\ Open(c) /\ IsBlock(c) /\ IsEnded(c)
             /\ \A i \in 1..k : LastLine(blocks[i]) < c.index
  <2>1. parser.mode = "text" /\ Open(c)
    BY <1>1, <1>2, <1>6 DEF AtWork, NoBlock, Modes
  <2>2. IsBlock(c)
    BY <2>1, <1>1, <1>6, OpenIsBlock DEF Shape
  <2>3. IsEnded(c)
    BY <2>1 DEF Open, IsEnded
  <2> QED BY <2>1, <2>2, <2>3, <1>1, <1>2, <1>4 DEF PutAside
<1>7. BlocksAreParagraphs'
  <2>1. PICK s \in Seq(Blocks) : s = blocks'
    BY <1>2, <1>3, <1>5
  <2>2. /\ \A i \in DOMAIN s : IsBlock(s[i]) /\ IsEnded(s[i])
        /\ \A i \in DOMAIN s : \A j \in DOMAIN s : i < j => LastLine(s[i]) < s[j].index
    <3>1. CASE c.lines = <<>>
      <4>1. s = blocks /\ DOMAIN s = 1..k
        BY <3>1, <2>1, <1>3, <1>4, <1>5
      <4> QED BY <4>1, <1>5
    <3>2. CASE c.lines # <<>>
      <4>1. s = Append(blocks, c)
        BY <3>2, <2>1, <1>3
      <4>2. DOMAIN s = 1..(k + 1) /\ s[k + 1] = c /\ \A i \in 1..k : s[i] = blocks[i]
        BY <4>1, <1>4, <1>5
      <4>3. \A i \in DOMAIN s : i = k + 1 \/ i \in 1..k
        BY <4>2, <1>4
      <4>4. \A i \in DOMAIN s : \A j \in DOMAIN s : i < j => i \in 1..k
        BY <4>2, <1>4
      <4>5. \A i \in DOMAIN s : IsBlock(s[i]) /\ IsEnded(s[i])
        BY <3>2, <4>2, <4>3, <1>5, <1>6
      <4>6. \A i \in DOMAIN s : \A j \in DOMAIN s : i < j => LastLine(s[i]) < s[j].index
        BY <3>2, <4>2, <4>3, <4>4, <1>5, <1>6
      <4> QED BY <4>5, <4>6
    <3> QED BY <3>1, <3>2
  <2>3. \A b : (IsBlock(b) <=> IsBlock(b)') /\ (IsEnded(b) <=> IsEnded(b)')
    BY <1>3 DEF IsBlock, IsEnded, LastLine, Lines
  <2>4. \A i \in DOMAIN blocks' : IsBlock(blocks[i])' /\ IsEnded(blocks[i])'
    <3> SUFFICES ASSUME NEW i \in DOMAIN s PROVE IsBlock(blocks[i])' /\ IsEnded(blocks[i])'
      BY <2>1
    <3>1. PICK b : b = s[i]
      OBVIOUS
    <3>2. b = blocks'[i] /\ IsBlock(b)' /\ IsEnded(b)'
      BY <3>1, <2>1, <2>2, <2>3
    <3> QED BY <3>2 DEF IsBlock, IsEnded, LastLine
  <2>5. \A i \in DOMAIN blocks' : \A j \in DOMAIN blocks' :
          i < j => (LastLine(blocks[i]) < blocks[j].index)'
    BY <2>1, <2>2 DEF LastLine
  <2> QED BY <2>4, <2>5 DEF BlocksAreParagraphs
<1>8. LossExplained'
  <2>1. SUFFICES ASSUME NEW first \in Lines, NEW last \in Lines, WellFormed(first, last),
                        ~AfterLoneIndex(first)
        PROVE  \E i \in DOMAIN blocks' : blocks'[i].index = first
    <3>1. /\ Lines' = Lines
          /\ \A first, last : WellFormed(first, last)' => WellFormed(first, last)
          /\ \A first : AfterLoneIndex(first) => AfterLoneIndex(first)'
      BY <1>3 DEF WellFormed, AfterLoneIndex, Lines
    <3> QED BY <2>1, <3>1 DEF LossExplained
  <2>2. /\ first \in Nat /\ Begins(first) /\ first + 2 <= Len(file)
        /\ file[first + 1] = "time" /\ file[first + 2] # "blank"
    <3>1. first \in Nat /\ last \in Nat /\ last <= Len(file) /\ first + 2 <= last
      BY <2>1, Len(file) \in Nat DEF WellFormed, Lines
    <3>2. first + 2 \in (first + 2)..last /\ first + 2 <= Len(file)
      BY <3>1
    <3> QED BY <2>1, <3>1, <3>2 DEF WellFormed, Begins
  <2>3. \/ parser.mode = "text" /\ c.index = first
        \/ IsPutAside(first)
    BY <2>1, <2>2, <1>1, <1>2 DEF Followed
  <2>4. CASE IsPutAside(first)
    <3>1. PICK i \in 1..k : blocks[i].index = first
      BY <2>4, <1>4 DEF IsPutAside
    <3>2. i \in DOMAIN blocks' /\ blocks'[i] = blocks[i]
      BY <3>1, <1>3, <1>4, <1>5
    <3> QED BY <3>1, <3>2
  <2>5. CASE parser.mode = "text" /\ c.index = first
    <3>1. /\ c.time = c.index + 1 /\ c.time + Len(c.lines) = Len(file)
          /\ c.time \in Int /\ c.index \in Int /\ Len(c.lines) \in Int
      BY <2>5, <1>1, <1>2 DEF AtWork, Open, LastLine, Blocks
    <3>2. Len(c.lines) # 0
      <4>1. \A t, l, x, n \in Int : t = x + 1 /\ t + l = n /\ x + 2 <= n => l # 0
        OBVIOUS
      <4>2. Len(file) \in Int
        BY <1>1 DEF Shape
      <4> QED BY ONLY <4>1, <4>2, <3>1, <2>2, <2>5
    <3>3. blocks' = Append(blocks, c)
      BY <3>2, <1>3
    <3>4. k + 1 \in DOMAIN blocks' /\ blocks'[k + 1] = c
      BY <3>3, <1>4, <1>5
    <3> QED BY <3>4, <2>5
  <2> QED BY <2>3, <2>4, <2>5
<1>9. Shape'
  <2>1. NoBlock \in Blocks
    <3>1. 0 \in Nat /\ <<>> \in Seq(Nat)
      OBVIOUS
    <3> QED BY <3>1 DEF NoBlock, Blocks
  <2>2. Closed(parser) \in Seq(Blocks)
    BY <1>1 DEF Closed, Shape
  <2> QED BY <2>1, <2>2, <1>1, <1>3 DEF Shape, EndOfFile, Modes, Phases
<1> QED BY <1>3, <1>7, <1>8, <1>9 DEF IInv

\* processFile changes neither the file nor, but for the text of its lines,
\* what Parse returned.
LEMMA RestKeeps ==
  ASSUME IInv, UNCHANGED <<file, parser>>,
         phase' \in Phases \ {"reading", "parsed"} \/ phase' = phase
  PROVE  IInv'
<1>1. Shape'
  BY DEF IInv, Shape
<1>2. LossExplained'
  BY DEF IInv, LossExplained, WellFormed, AfterLoneIndex, Lines, blocks
<1>3. AtWork' = AtWork /\ PutAside' = PutAside /\ Followed' = Followed
  BY DEF AtWork, PutAside, Followed, Open, Begins, LastLine, Lines, blocks, IsBlock,
         AfterLoneIndex, IsPutAside
<1>4. BlocksAreParagraphs' = BlocksAreParagraphs
  BY DEF BlocksAreParagraphs, IsBlock, IsEnded, LastLine, Lines, blocks
<1> QED BY <1>1, <1>2, <1>3, <1>4 DEF IInv

LEMMA InitIInv == Init => IInv
<1> SUFFICES ASSUME Init PROVE IInv
  OBVIOUS
<1>1. file = <<>> /\ Len(file) = 0 /\ phase = "reading" /\ blocks = <<>> /\ Len(blocks) = 0
      /\ parser = [mode |-> "index", current |-> NoBlock, blocks |-> <<>>]
  BY DEF Init, Fresh, blocks
<1>2. Shape
  <2>1. NoBlock \in Blocks /\ <<>> \in Seq(Blocks) /\ <<>> \in Seq(Kinds)
    <3>1. 0 \in Nat /\ <<>> \in Seq(Nat)
      OBVIOUS
    <3> QED BY <3>1 DEF NoBlock, Blocks
  <2> QED BY <1>1, <2>1 DEF Shape, Modes, Phases
<1>3. AtWork
  BY <1>1 DEF AtWork
<1>4. PutAside
  BY <1>1 DEF PutAside
<1>5. Followed
  BY <1>1 DEF Followed, Lines
<1>6. LossExplained
  BY <1>1 DEF LossExplained
<1> QED BY <1>1, <1>2, <1>3, <1>4, <1>5, <1>6 DEF IInv

LEMMA NextIInv == IInv /\ [Next]_vars => IInv'
<1> SUFFICES ASSUME IInv, [Next]_vars PROVE IInv'
  OBVIOUS
<1>1. CASE \E kind \in Kinds : ReadLine(kind)
  BY <1>1, ReadKeeps
<1>2. CASE EndOfFile
  BY <1>2, EndKeeps
<1>3. CASE ReadFails
  BY <1>3, RestKeeps DEF ReadFails, Phases
<1>4. CASE Collect
  BY <1>4, RestKeeps DEF Collect, Phases
<1>5. CASE Translate
  BY <1>5, RestKeeps DEF Translate, Phases
<1>6. CASE WriteLine
  BY <1>6, RestKeeps DEF WriteLine, Phases
<1>7. CASE UNCHANGED vars
  BY <1>7, RestKeeps DEF vars
<1> QED BY <1>1, <1>2, <1>3, <1>4, <1>5, <1>6, <1>7 DEF Next

LEMMA AlwaysIInv == Spec => []IInv
BY InitIInv, NextIInv, PTL DEF Spec

-----------------------------------------------------------------------------
(* The theorems. *)

\* Parse (parser.go:31-35): every block it has put aside so far and every block
\* it returns is a whole paragraph of the file, in the order of the file, so
\* that no line of text belongs to two blocks.
THEOREM BlocksAreWhole == Spec => []BlocksAreParagraphs
<1>1. IInv => BlocksAreParagraphs
  <2> SUFFICES ASSUME IInv, parser.mode # "done" PROVE BlocksAreParagraphs
    BY DEF IInv
  <2>1. blocks \in Seq(Blocks) /\ DOMAIN blocks = 1..Len(blocks)
    BY DEF IInv, Shape, blocks
  <2> QED BY <2>1 DEF IInv, PutAside, BlocksAreParagraphs, IsEnded
<1> QED BY <1>1, AlwaysIInv, PTL

\* Parse (parser.go:33-35): a well-formed paragraph of the file is among the
\* blocks, whatever is wrong with the others, unless a lone number is just before.
THEOREM LossIsExplained == Spec => []LossExplained
BY AlwaysIInv, PTL DEF IInv

-----------------------------------------------------------------------------
(* Folds.  Induction is by the well-foundedness of < over the set of numbers *)
(* for which something fails.  FoldLeft takes an operator, which a lemma     *)
(* cannot be instantiated with: that its recursion has a solution is stated  *)
(* for the operator as a function.                                           *)

\* Induction: what holds for 0 and goes on to the next number holds up to n.
LEMMA UpTo ==
  ASSUME NEW n \in Nat, NEW S, 0 \in S, \A k \in 1..n : k - 1 \in S => k \in S
  PROVE  0..n \subseteq S
<1> DEFINE T == {k \in 0..n : k \notin S}
<1>1. SUFFICES ASSUME T # {} PROVE FALSE
  OBVIOUS
<1>2. T \subseteq Nat
  OBVIOUS
<1>3. PICK k \in T : \A j \in T : ~(<<j, k>> \in OpToRel(<, Nat))
  <2> HIDE DEF T
  <2> QED BY <1>1, <1>2, NatLessThanWellFounded, WFMin
<1>4. k \in 0..n /\ k # 0 /\ k \notin S
  BY <1>3
<1>5. k - 1 \in 0..n /\ k \in 1..n
  BY <1>4
<1>6. k - 1 \in S
  <2>1. ASSUME k - 1 \in T PROVE FALSE
    <3>1. ~(k - 1 < k)
      BY <2>1, <1>2, <1>3 DEF OpToRel
    <3> QED BY <3>1, <1>4
  <2> QED BY <2>1, <1>5
<1> QED BY <1>4, <1>5, <1>6

\* A set of numbers up to n that is not empty has a greatest.
LEMMA MaxOfBounded ==
  ASSUME NEW n \in Nat, NEW s \in SUBSET (1..n), s # {}
  PROVE  Max(s) \in s /\ \A j \in s : j <= Max(s)
<1> DEFINE FromEnd == {n - i : i \in s}
<1>1. FromEnd \subseteq Nat /\ FromEnd # {}
  <2>1. \A i \in s : n - i \in Nat
    OBVIOUS
  <2> QED BY <2>1
<1>2. PICK d \in FromEnd : \A e \in FromEnd : ~(<<e, d>> \in OpToRel(<, Nat))
  <2> HIDE DEF FromEnd
  <2> QED BY <1>1, NatLessThanWellFounded, WFMin
<1>3. PICK i \in s : d = n - i
  BY <1>2
<1>4. \A j \in s : j <= i
  <2> SUFFICES ASSUME NEW j \in s PROVE j <= i
    OBVIOUS
  <2>1. n - j \in FromEnd
    OBVIOUS
  <2>2. ~(n - j < d)
    BY <2>1, <1>1, <1>2 DEF OpToRel
  <2>3. n \in Int /\ i \in Int /\ j \in Int
    OBVIOUS
  <2> QED BY ONLY <2>2, <2>3, <1>3
<1>5. \E x \in s : \A y \in s : x >= y
  BY <1>4
<1> QED BY <1>5 DEF Max

\* The greatest of the numbers up to k, and of those that have k + 1.
LEMMA MaxUpTo ==
  ASSUME NEW k \in Nat, k # 0
  PROVE  1..k # {} /\ Max(1..k) = k /\ (1..k) \ {k} = 1..(k - 1)
<1>1. k \in 1..k /\ \A y \in 1..k : k >= y
  OBVIOUS
<1>2. Max(1..k) = k
  BY <1>1 DEF Max
<1> QED BY <1>1, <1>2

\* What the fold of w from the left, by Op, of every part of w is.
IsFold(h, X, base, w, Op) ==
  /\ h \in [SUBSET DOMAIN w -> X]
  /\ \A s \in SUBSET DOMAIN w :
       /\ s = {} => h[s] = base
       /\ s # {} => /\ Max(s) \in DOMAIN w
                    /\ h[s] = Op[<<h[s \ {Max(s)}], w[Max(s)]>>]

\* The recursion of a fold has a solution.
LEMMA FoldExists ==
  ASSUME NEW X, NEW Y, NEW base \in X, NEW w \in Seq(Y), NEW Op \in [X \X Y -> X]
  PROVE  \E h : IsFold(h, X, base, w, Op)
<1> DEFINE Solves(h, k) ==
      /\ h \in [SUBSET (1..k) -> X]
      /\ \A s \in SUBSET (1..k) :
           /\ s = {} => h[s] = base
           /\ s # {} => /\ Max(s) \in 1..k
                        /\ h[s] = Op[<<h[s \ {Max(s)}], w[Max(s)]>>]
           S == {k \in 0..Len(w) : \E h : Solves(h, k)}
<1>1. Len(w) \in Nat /\ DOMAIN w = 1..Len(w) /\ \A i \in 1..Len(w) : w[i] \in Y
  OBVIOUS
<1>2. 0 \in S
  <2>0. \A s \in SUBSET (1..0) : s = {}
    OBVIOUS
  <2>1. Solves([s \in SUBSET (1..0) |-> base], 0)
    BY <2>0
  <2> QED BY <2>1, <1>1
<1>3. ASSUME NEW k \in 1..Len(w), k - 1 \in S PROVE k \in S
  <2>1. PICK h : Solves(h, k - 1)
    BY <1>3
  <2> DEFINE g == [s \in SUBSET (1..k) |->
                     IF k \in s THEN Op[<<h[s \ {k}], w[k]>>] ELSE h[s]]
  <2>2. ASSUME NEW s \in SUBSET (1..k)
        PROVE  /\ k \in s => Max(s) = k /\ s \ {k} \in SUBSET (1..(k - 1))
               /\ k \notin s => s \in SUBSET (1..(k - 1))
    <3>1. ASSUME k \in s PROVE Max(s) = k
      <4>1. k \in Nat /\ s # {}
        BY <3>1
      <4>2. Max(s) \in s /\ k <= Max(s)
        BY <4>1, <3>1, MaxOfBounded
      <4>3. Max(s) \in 1..k
        BY <4>2
      <4> QED BY ONLY <4>1, <4>2, <4>3
    <3> QED BY <3>1
  <2>3. g \in [SUBSET (1..k) -> X]
    <3> SUFFICES ASSUME NEW s \in SUBSET (1..k)
                 PROVE  (IF k \in s THEN Op[<<h[s \ {k}], w[k]>>] ELSE h[s]) \in X
      OBVIOUS
    <3> QED BY <1>1, <2>1, <2>2
  <2>4. ASSUME NEW s \in SUBSET (1..k), s # {}
        PROVE  Max(s) \in 1..k /\ g[s] = Op[<<g[s \ {Max(s)}], w[Max(s)]>>]
    <3>1. CASE k \in s
      <4>1. Max(s) = k /\ s \ {k} \in SUBSET (1..k) /\ k \notin s \ {k}
        BY <2>2, <3>1
      <4>2. g[s \ {k}] = h[s \ {k}]
        BY <4>1
      <4>3. g[s] = Op[<<h[s \ {k}], w[k]>>]
        BY <3>1
      <4> QED BY <4>1, <4>2, <4>3
    <3>2. CASE k \notin s
      <4>1. s \in SUBSET (1..(k - 1)) /\ g[s] = h[s]
        BY <2>2, <3>2
      <4>2. Max(s) \in 1..(k - 1) /\ h[s] = Op[<<h[s \ {Max(s)}], w[Max(s)]>>]
        BY <2>1, <2>4, <4>1
      <4>3. s \ {Max(s)} \in SUBSET (1..k) /\ k \notin s \ {Max(s)}
        BY <3>2
      <4>4. g[s \ {Max(s)}] = h[s \ {Max(s)}]
        BY <4>3
      <4> HIDE DEF g
      <4>5. Max(s) \in 1..k
        BY <4>2
      <4> QED BY ONLY <4>1, <4>2, <4>4, <4>5
    <3> QED BY <3>1, <3>2
  <2>5. g[{}] = base
    BY <2>1
  <2>6. Solves(g, k)
    <3> HIDE DEF g
    <3> QED BY <2>3, <2>4, <2>5
  <2> HIDE DEF Solves
  <2> QED BY <2>6
<1>4. Len(w) \in S
  <2> HIDE DEF S
  <2>1. 0..Len(w) \subseteq S
    BY <1>1, <1>2, <1>3, UpTo
  <2> QED BY <1>1, <2>1
<1>5. PICK h : Solves(h, Len(w))
  BY <1>4
<1> QED BY <1>1, <1>5 DEF IsFold
-----------------------------------------------------------------------------
(* Sequences one after the other. *)

\* What FlattenSeq has joined after each sequence.
Joins(f, ss, X) ==
  /\ f \in [0..Len(ss) -> Seq(X)] /\ f[0] = <<>>
  /\ \A k \in 1..Len(ss) : f[k] = f[k - 1] \o ss[k]

LEMMA FlattenJoins ==
  ASSUME NEW X, NEW ss \in Seq(Seq(X))
  PROVE  \E f : Joins(f, ss, X) /\ FlattenSeq(ss) = f[Len(ss)]
<1> DEFINE n == Len(ss)
           Op == [x \in Seq(X) \X Seq(X) |-> x[1] \o x[2]]
           Step(g, i) == IF i = 1 THEN ss[i] ELSE g[i - 1] \o ss[i]
           Solution(g) == g = [i \in 1..n |-> Step(g, i)]
           G == CHOOSE g : Solution(g)
<1>1. n \in Nat /\ DOMAIN ss = 1..n /\ \A i \in 1..n : ss[i] \in Seq(X)
  OBVIOUS
<1>2. PICK h : IsFold(h, Seq(X), <<>>, ss, Op)
  <2>1. Op \in [Seq(X) \X Seq(X) -> Seq(X)] /\ <<>> \in Seq(X)
    OBVIOUS
  <2> HIDE DEF Op
  <2> QED BY <2>1, FoldExists
<1> DEFINE f == [k \in 0..n |-> h[1..k]]
<1>3. f \in [0..n -> Seq(X)]
  <2>1. \A k \in 0..n : 1..k \in SUBSET DOMAIN ss
    BY <1>1
  <2>2. h \in [SUBSET DOMAIN ss -> Seq(X)]
    BY <1>2 DEF IsFold
  <2> QED BY ONLY <2>1, <2>2
<1>4. f[0] = <<>>
  <2>1. 1..0 = {} /\ {} \in SUBSET DOMAIN ss
    OBVIOUS
  <2>2. h[{}] = <<>>
    BY <1>2, <2>1 DEF IsFold
  <2> QED BY <1>1, <2>1, <2>2
<1>5. ASSUME NEW k \in 1..n PROVE f[k] = f[k - 1] \o ss[k]
  <2>1. 1..k \in SUBSET DOMAIN ss /\ 1..k # {} /\ Max(1..k) = k /\ (1..k) \ {k} = 1..(k - 1)
    <3>1. k \in Nat /\ k # 0 /\ 1..k \subseteq 1..n
      BY <1>1
    <3> QED BY ONLY <1>1, <3>1, MaxUpTo
  <2>2. h[1..k] = Op[<<h[1..(k - 1)], ss[k]>>]
    <3> HIDE DEF Op
    <3> QED BY <1>2, <2>1 DEF IsFold
  <2>3. k \in 0..n /\ k - 1 \in 0..n
    BY <1>1
  <2>4. f[k] = h[1..k] /\ f[k - 1] = h[1..(k - 1)]
    BY ONLY <2>3
  <2>5. f[k - 1] \in Seq(X) /\ ss[k] \in Seq(X)
    BY <1>1, <1>3, <2>3
  <2> QED BY ONLY <2>2, <2>4, <2>5
<1> HIDE DEF f
<1>6. Joins(f, ss, X)
  BY <1>3, <1>4, <1>5 DEF Joins
<1>7. CASE n = 0
  <2>1. ss = <<>>
    BY <1>1, <1>7
  <2>2. FlattenSeq(ss) = ss
    BY <1>7 DEF FlattenSeq
  <2> QED BY <1>4, <1>6, <1>7, <2>1, <2>2
<1>8. CASE n # 0
  <2> DEFINE g == [i \in 1..n |-> f[i]]
  <2>1. ASSUME NEW i \in 1..n PROVE f[i] = Step(g, i)
    <3>1. CASE i = 1
      <4>1. 1 \in 1..n /\ 1 - 1 = 0 /\ ss[1] \in Seq(X)
        BY <1>1, <3>1
      <4>2. f[1] = f[0] \o ss[1]
        BY <1>5, <4>1
      <4>3. <<>> \o ss[1] = ss[1]
        BY ONLY <4>1
      <4>4. Step(g, i) = ss[i]
        BY ONLY <3>1
      <4> QED BY ONLY <1>4, <3>1, <4>2, <4>3, <4>4
    <3>2. CASE i # 1
      <4>1. i - 1 \in 1..n
        BY <3>2
      <4> QED BY <1>5, <3>2, <4>1
    <3> QED BY <3>1, <3>2
  <2>2. Solution(g)
    <3>1. [i \in 1..n |-> f[i]] = [i \in 1..n |-> Step(g, i)]
      <4> HIDE DEF Step, g
      <4> QED BY <2>1
    <3> QED BY <3>1
  <2>3. Solution(G)
    <3> HIDE DEF g, Solution
    <3> QED BY <2>2
  <2>4. FlattenSeq(ss) = G[n]
    BY <1>8 DEF FlattenSeq
  <2> HIDE DEF G
  <2>5. 0..n \subseteq {k \in 0..n : k = 0 \/ G[k] = f[k]}
    <3> DEFINE S == {k \in 0..n : k = 0 \/ G[k] = f[k]}
    <3>1. 0 \in S
      BY <1>1
    <3>2. ASSUME NEW k \in 1..n, k - 1 \in S PROVE k \in S
      <4>1. G[k] = Step(G, k)
        <5> HIDE DEF Step
        <5> QED BY <2>3
      <4>2. f[k] = Step(g, k)
        BY <2>1
      <4>3. k # 1 => G[k - 1] = g[k - 1]
        BY <3>2
      <4>4. G[k] = f[k]
        BY <4>1, <4>2, <4>3
      <4> QED BY <4>4, <1>1
    <3> HIDE DEF S
    <3>3. 0..n \subseteq S
      BY <1>1, <3>1, <3>2, UpTo
    <3> QED BY <3>3 DEF S
  <2>6. G[n] = f[n]
    BY <1>1, <1>8, <2>5
  <2> QED BY <1>6, <2>4, <2>6
<1> QED BY <1>7, <1>8

LEMMA Joined ==
  ASSUME NEW X, NEW s \in Seq(X), NEW t \in Seq(X)
  PROVE  /\ s \o t \in Seq(X) /\ Len(s \o t) \in Nat
         /\ Len(s \o t) = Len(s) + Len(t) /\ Len(s) <= Len(s \o t)
         /\ \A j \in 1..Len(t) : (s \o t)[Len(s) + j] = t[j]
         /\ \A a, c \in Nat : a + c <= Len(s) => \A j \in 1..c : (s \o t)[a + j] = s[a + j]
<1>1. Len(s) \in Nat /\ Len(t) \in Nat
  OBVIOUS
<1>2. s \o t \in Seq(X) /\ Len(s \o t) = Len(s) + Len(t)
  OBVIOUS
<1>3. \A j \in 1..Len(t) : (s \o t)[Len(s) + j] = t[j]
  BY <1>1
<1>4. ASSUME NEW a \in Nat, NEW c \in Nat, a + c <= Len(s), NEW j \in 1..c
      PROVE  (s \o t)[a + j] = s[a + j]
  <2>1. a + j \in 1..Len(s)
    BY <1>1, <1>4
  <2> QED BY <2>1
<1>5. Len(s) <= Len(s \o t) /\ Len(s \o t) \in Nat
  BY ONLY <1>1, <1>2
<1> QED BY <1>2, <1>3, <1>4, <1>5

\* Sequence b begins behind those before it.
Placed(f, ss, k, b) ==
  /\ Len(f[b]) = Len(f[b - 1]) + Len(ss[b]) /\ Len(f[b]) <= Len(f[k])
  /\ \A j \in 1..Len(ss[b]) : f[k][Len(f[b - 1]) + j] = ss[b][j]

\* Where the elements of each sequence are found.
LEMMA JoinsPlace ==
  ASSUME NEW X, NEW ss \in Seq(Seq(X)), NEW f, Joins(f, ss, X), NEW n \in 0..Len(ss)
  PROVE  \A b \in 1..n : Placed(f, ss, n, b)
<1> DEFINE S == {k \in 0..Len(ss) : \A b \in 1..k : Placed(f, ss, k, b)}
<1>1. Len(ss) \in Nat /\ \A k \in 1..Len(ss) : ss[k] \in Seq(X) /\ Len(ss[k]) \in Nat
  OBVIOUS
<1>2. \A k \in 0..Len(ss) : f[k] \in Seq(X) /\ Len(f[k]) \in Nat
  BY DEF Joins
<1>3. 0 \in S
  <2>1. 0 \in 0..Len(ss) /\ 1..0 = {}
    BY ONLY <1>1
  <2> QED BY <2>1
<1>4. ASSUME NEW k \in 1..Len(ss), k - 1 \in S PROVE k \in S
  <2>1. f[k] = f[k - 1] \o ss[k]
    BY DEF Joins
  <2>2. k \in Nat /\ k \in 0..Len(ss) /\ k - 1 \in 0..Len(ss) /\ k \in 1..k
    BY <1>1
  <2>3. /\ f[k - 1] \in Seq(X) /\ ss[k] \in Seq(X)
        /\ Len(f[k - 1]) \in Nat /\ Len(ss[k]) \in Nat /\ Len(f[k]) \in Nat
    BY <1>1, <1>2, <2>2
  <2> HIDE DEF S
  <2>s. PICK s \in Seq(X) : s = f[k - 1]
    BY <2>3
  <2>t. PICK t \in Seq(X) : t = ss[k]
    BY <2>3
  <2>4. /\ Len(f[k]) = Len(f[k - 1]) + Len(ss[k]) /\ Len(f[k - 1]) <= Len(f[k])
        /\ \A j \in 1..Len(ss[k]) : f[k][Len(f[k - 1]) + j] = ss[k][j]
        /\ \A a, c \in Nat : a + c <= Len(f[k - 1]) =>
             \A j \in 1..c : f[k][a + j] = f[k - 1][a + j]
    <3>1. /\ Len(s \o t) = Len(s) + Len(t) /\ Len(s) <= Len(s \o t)
          /\ \A j \in 1..Len(t) : (s \o t)[Len(s) + j] = t[j]
          /\ \A a, c \in Nat : a + c <= Len(s) => \A j \in 1..c : (s \o t)[a + j] = s[a + j]
      BY Joined
    <3>2. f[k] = s \o t
      BY ONLY <2>1, <2>s, <2>t
    <3> QED BY ONLY <2>s, <2>t, <3>1, <3>2, Zenon
  <2>5. ASSUME NEW b \in 1..k PROVE Placed(f, ss, k, b)
    <3>1. CASE b = k
      <4>1. Len(f[k]) <= Len(f[k])
        BY ONLY <2>3
      <4> QED BY ONLY <2>4, <3>1, <4>1 DEF Placed
    <3>2. CASE b # k
      <4>1. b \in 1..(k - 1)
        BY <3>2
      <4>2. Placed(f, ss, k - 1, b)
        BY <1>4, <4>1 DEF S
      <4>3. b \in 1..Len(ss) /\ b \in 0..Len(ss) /\ b - 1 \in 0..Len(ss)
        BY <4>1
      <4>4. Len(f[b]) \in Nat /\ Len(f[b - 1]) \in Nat /\ Len(ss[b]) \in Nat
        BY <1>1, <1>2, <4>3
      <4>5. Len(f[b]) = Len(f[b - 1]) + Len(ss[b]) /\ Len(f[b]) <= Len(f[k - 1])
        BY ONLY <4>2 DEF Placed
      <4>6. Len(f[b - 1]) + Len(ss[b]) <= Len(f[k - 1]) /\ Len(f[b]) <= Len(f[k])
        <5>1. Len(f[k - 1]) <= Len(f[k])
          BY ONLY <2>4
        <5>2. PICK x \in Nat, y \in Nat, z \in Nat, u \in Nat, v \in Nat :
                /\ x = Len(f[b]) /\ y = Len(f[b - 1]) /\ z = Len(ss[b])
                /\ u = Len(f[k - 1]) /\ v = Len(f[k])
          BY ONLY <2>3, <4>4, Zenon
        <5>3. x = y + z /\ x <= u /\ u <= v
          BY ONLY <4>5, <5>1, <5>2, Zenon
        <5>4. y + z <= u /\ x <= v
          BY <5>3
        <5> QED BY ONLY <5>2, <5>4, Zenon
      <4>7. \A j \in 1..Len(ss[b]) : f[k][Len(f[b - 1]) + j] = f[k - 1][Len(f[b - 1]) + j]
        BY ONLY <2>4, <4>4, <4>6
      <4> QED BY ONLY <4>2, <4>5, <4>6, <4>7 DEF Placed
    <3> QED BY <3>1, <3>2
  <2> QED BY <2>2, <2>5 DEF S
<1> HIDE DEF S
<1>5. 0..Len(ss) \subseteq S
  BY <1>1, <1>3, <1>4, UpTo
<1>6. n \in S
  BY <1>5
<1> QED BY <1>6 DEF S

-----------------------------------------------------------------------------
(* Reading the output again. *)

OutLine == [kind : Kinds, from : Nat]

\* The parser between two lines.
Parsers == [mode : Modes \ {"done"}, current : Blocks, blocks : Seq(Blocks)]

LEMMA ParseLineType ==
  ASSUME NEW p \in Parsers, NEW n \in Nat, NEW kind \in Kinds
  PROVE  ParseLine(p, n, kind) \in Parsers
<1>1. /\ p.mode \in {"index", "timestamp", "text", "skipping"}
      /\ p.current \in Blocks /\ p.blocks \in Seq(Blocks)
      /\ p.current.lines \in Seq(Nat)
  BY DEF Parsers, Modes, Blocks
<1>2. NoBlock \in Blocks
  <2>1. 0 \in Nat /\ <<>> \in Seq(Nat)
    OBVIOUS
  <2> QED BY <2>1 DEF NoBlock, Blocks
<1>3. AtIndex(p, n, kind) \in Parsers
  <2>1. [NoBlock EXCEPT !.index = n] \in Blocks
    BY <1>2 DEF Blocks
  <2> QED BY <1>1, <2>1 DEF AtIndex, Parsers, Modes
<1>4. AtTimestamp(p, n, kind) \in Parsers
  BY <1>1, <1>2 DEF AtTimestamp, Parsers, Modes, Blocks
<1>5. AtText(p, n, kind) \in Parsers
  <2>1. Closed(p) \in Seq(Blocks)
    BY <1>1 DEF Closed
  <2>2. Append(p.current.lines, n) \in Seq(Nat)
    BY <1>1
  <2> QED BY <1>1, <1>2, <2>1, <2>2 DEF AtText, Parsers, Modes, Blocks
<1>6. AtSkipping(p, n, kind) \in Parsers
  BY <1>1, <1>2 DEF AtSkipping, Parsers, Modes
<1> QED BY <1>1, <1>3, <1>4, <1>5, <1>6 DEF ParseLine

\* What Parse has made of o after each line.
Reads(r, o) ==
  /\ r[0] = Fresh
  /\ \A n \in 1..Len(o) : r[n] = ParseLine(r[n - 1], n, o[n].kind)

LEMMA FreshType == Fresh \in Parsers
<1>1. 0 \in Nat /\ <<>> \in Seq(Nat) /\ <<>> \in Seq(Blocks)
  OBVIOUS
<1> QED BY <1>1 DEF Fresh, NoBlock, Parsers, Modes, Blocks

LEMMA ReparseReads ==
  ASSUME out \in Seq(OutLine)
  PROVE  \E r : Reads(r, out) /\ Reparsed = Closed(r[Len(out)])
<1> DEFINE w == [i \in DOMAIN out |-> i]
           D == SUBSET DOMAIN w
           Step(g, s) == IF s = {} THEN Fresh
                         ELSE ParseLine(g[s \ {Max(s)}], w[Max(s)], out[w[Max(s)]].kind)
           Solution(g) == g = [s \in D |-> Step(g, s)]
           G == CHOOSE g : Solution(g)
           Op == [x \in Parsers \X DOMAIN out |-> ParseLine(x[1], x[2], out[x[2]].kind)]
           Solves(h, s) == /\ s = {} => h[s] = Fresh
                           /\ s # {} => /\ Max(s) \in DOMAIN w
                                        /\ h[s] = Op[<<h[s \ {Max(s)}], w[Max(s)]>>]
<1>0. /\ DOMAIN out = 1..Len(out) /\ Len(out) \in Nat
      /\ \A i \in DOMAIN out : out[i].kind \in Kinds /\ i \in Nat
      /\ w \in Seq(DOMAIN out) /\ DOMAIN w = 1..Len(out) /\ Len(w) = Len(out)
      /\ \A i \in DOMAIN w : w[i] = i
  <2>1. DOMAIN out = 1..Len(out) /\ Len(out) \in Nat /\ \A i \in DOMAIN out : out[i] \in OutLine
    OBVIOUS
  <2>2. w = [i \in 1..Len(out) |-> i] /\ w \in Seq(1..Len(out))
    BY <2>1
  <2>3. Len(w) = Len(out)
    BY <2>1, <2>2
  <2> HIDE DEF w
  <2> QED BY <2>1, <2>2, <2>3 DEF OutLine
<1>1. \E g : Solution(g)
  <2>1. Op \in [Parsers \X DOMAIN out -> Parsers]
    BY <1>0, ParseLineType
  <2>2. PICK h : IsFold(h, Parsers, Fresh, w, Op)
    <3> HIDE DEF Op, w
    <3> QED BY <1>0, <2>1, FreshType, FoldExists
  <2>3. h \in [D -> Parsers] /\ \A s \in D : Solves(h, s)
    <3> HIDE DEF Op, w
    <3> QED BY <2>2 DEF IsFold
  <2>4. ASSUME NEW s \in D PROVE h[s] = Step(h, s)
    <3> HIDE DEF w
    <3>1. CASE s = {}
      BY <2>3, <3>1
    <3>2. CASE s # {}
      <4>1. Max(s) \in DOMAIN w /\ h[s] = Op[<<h[s \ {Max(s)}], w[Max(s)]>>]
        BY <2>3, <3>2
      <4>2. s \ {Max(s)} \in D /\ w[Max(s)] \in DOMAIN out
        BY <1>0, <4>1
      <4>3. h[s \ {Max(s)}] \in Parsers
        BY <2>3, <4>2
      <4> QED BY <3>2, <4>1, <4>2, <4>3
    <3> QED BY <3>1, <3>2
  <2>5. h = [s \in D |-> h[s]]
    BY <2>3
  <2>6. [s \in D |-> h[s]] = [s \in D |-> Step(h, s)]
    <3> HIDE DEF D, Step
    <3> QED BY <2>4
  <2> HIDE DEF D, Step
  <2> QED BY <2>5, <2>6
<1>2. Solution(G)
  BY <1>1
<1>3. Reparsed = Closed(G[DOMAIN w])
  BY DEF Reparsed, FoldLeftDomain, FoldLeft, MapThenFoldSet
<1> DEFINE r == [k \in 0..Len(out) |-> G[1..k]]
<1> HIDE DEF G, w
<1>4. r[0] = Fresh
  <2>1. 1..0 = {} /\ {} \in D
    OBVIOUS
  <2>2. G[{}] = Step(G, {})
    BY <1>2, <2>1
  <2> QED BY <1>0, <2>1, <2>2
<1>5. ASSUME NEW k \in 1..Len(out)
      PROVE  r[k] = ParseLine(r[k - 1], k, out[k].kind)
  <2>1. 1..k \in D /\ 1..k # {} /\ Max(1..k) = k /\ (1..k) \ {k} = 1..(k - 1)
    <3>1. k \in Nat /\ k # 0 /\ 1..k \subseteq DOMAIN w
      BY <1>0
    <3> QED BY <3>1, MaxUpTo
  <2>2. G[1..k] = Step(G, 1..k)
    <3> HIDE DEF D, Step
    <3> QED BY <1>2, <2>1
  <2>3. w[k] = k
    BY <1>0
  <2>4. G[1..k] = ParseLine(G[1..(k - 1)], k, out[k].kind)
    BY ONLY <2>1, <2>2, <2>3
  <2>5. k \in 0..Len(out) /\ k - 1 \in 0..Len(out)
    BY <1>0
  <2>6. r[k] = G[1..k] /\ r[k - 1] = G[1..(k - 1)]
    BY ONLY <2>5
  <2> QED BY ONLY <2>4, <2>6
<1>6. Reparsed = Closed(r[Len(out)])
  BY <1>0, <1>3
<1> HIDE DEF r
<1>7. Reads(r, out)
  BY <1>4, <1>5 DEF Reads
<1> QED BY <1>6, <1>7

-----------------------------------------------------------------------------
(* What Write prints, block by block. *)

\* What Translate and Write start from.
Answered ==
  /\ blocks \in Seq(Blocks) /\ \A b \in 1..Len(blocks) : blocks[b].lines # <<>>
  /\ texts = FlattenSeq([b \in DOMAIN blocks |-> Refs(b)])
  /\ answers \in [DOMAIN texts -> Translations]

LEMMA BlocksAre ==
  ASSUME blocks \in Seq(Blocks)
  PROVE  /\ Len(blocks) \in Nat /\ DOMAIN blocks = 1..Len(blocks)
         /\ \A b \in 1..Len(blocks) :
              /\ blocks[b].index \in Nat /\ blocks[b].time \in Nat
              /\ blocks[b].lines \in Seq(Nat) /\ Len(blocks[b].lines) \in Nat
              /\ DOMAIN blocks[b].lines = 1..Len(blocks[b].lines)
              /\ \A i \in 1..Len(blocks[b].lines) : blocks[b].lines[i] \in Nat
<1>1. Len(blocks) \in Nat /\ DOMAIN blocks = 1..Len(blocks)
  OBVIOUS
<1>2. ASSUME NEW b \in 1..Len(blocks)
      PROVE  /\ blocks[b].index \in Nat /\ blocks[b].time \in Nat
             /\ blocks[b].lines \in Seq(Nat) /\ Len(blocks[b].lines) \in Nat
             /\ DOMAIN blocks[b].lines = 1..Len(blocks[b].lines)
             /\ \A i \in 1..Len(blocks[b].lines) : blocks[b].lines[i] \in Nat
  <2>1. blocks[b] \in Blocks
    OBVIOUS
  <2>2. blocks[b].index \in Nat /\ blocks[b].time \in Nat /\ blocks[b].lines \in Seq(Nat)
    BY <2>1 DEF Blocks
  <2> QED BY <2>2
<1> QED BY <1>1, <1>2

\* Every line of every block is sent, and nothing but lines of blocks.
LEMMA RefsFound ==
  ASSUME blocks \in Seq(Blocks), texts = FlattenSeq([b \in DOMAIN blocks |-> Refs(b)])
  PROVE  /\ texts \in Seq(Nat \X Nat)
         /\ Len(blocks) = 0 => texts = <<>>
         /\ \A b \in 1..Len(blocks) : \A i \in 1..Len(blocks[b].lines) :
              \E t \in DOMAIN texts : texts[t] = <<b, i>>
<1> DEFINE ss == [b \in DOMAIN blocks |-> Refs(b)]
           X == Nat \X Nat
<1>1. ASSUME NEW b \in 1..Len(blocks)
      PROVE  /\ Refs(b) \in Seq(X) /\ Len(Refs(b)) = Len(blocks[b].lines)
             /\ \A i \in 1..Len(blocks[b].lines) : Refs(b)[i] = <<b, i>>
  <2>1. Len(blocks[b].lines) \in Nat /\ DOMAIN blocks[b].lines = 1..Len(blocks[b].lines)
    BY BlocksAre
  <2>2. Refs(b) = [i \in 1..Len(blocks[b].lines) |-> <<b, i>>]
    BY <2>1 DEF Refs
  <2>3. \A i \in 1..Len(blocks[b].lines) : <<b, i>> \in X
    BY BlocksAre
  <2> HIDE DEF X
  <2> QED BY <2>1, <2>2, <2>3
<1>2. ss \in Seq(Seq(X)) /\ Len(ss) = Len(blocks) /\ \A b \in 1..Len(blocks) : ss[b] = Refs(b)
  <2> HIDE DEF X
  <2> QED BY <1>1, BlocksAre
<1> HIDE DEF ss, X
<1>3. PICK f : Joins(f, ss, X) /\ texts = f[Len(ss)]
  <2>1. texts = FlattenSeq(ss)
    BY DEF ss
  <2> QED BY <1>2, <2>1, FlattenJoins
<1>4. Len(ss) \in 0..Len(ss) /\ Len(ss) \in Nat
  BY <1>2, BlocksAre
<1>5. texts \in Seq(X)
  BY <1>3, <1>4 DEF Joins
<1>6. Len(blocks) = 0 => texts = <<>>
  BY <1>2, <1>3 DEF Joins
<1>7. ASSUME NEW b \in 1..Len(blocks), NEW i \in 1..Len(blocks[b].lines)
      PROVE  \E t \in DOMAIN texts : texts[t] = <<b, i>>
  <2>1. b \in 1..Len(ss) /\ i \in 1..Len(ss[b]) /\ ss[b][i] = <<b, i>>
    BY <1>1, <1>2
  <2>2. Placed(f, ss, Len(ss), b)
    BY <1>2, <1>3, <1>4, <2>1, JoinsPlace
  <2> DEFINE t == Len(f[b - 1]) + i
  <2>3. texts[t] = <<b, i>>
    BY <1>3, <2>1, <2>2 DEF Placed
  <2>4. Len(f[b - 1]) \in Nat /\ Len(f[b]) \in Nat /\ Len(texts) \in Nat /\ Len(ss[b]) \in Nat
    <3>1. b - 1 \in 0..Len(ss) /\ b \in 0..Len(ss)
      BY <1>4, <2>1
    <3>2. f[b - 1] \in Seq(X) /\ f[b] \in Seq(X) /\ ss[b] \in Seq(X)
      <4>1. f \in [0..Len(ss) -> Seq(X)]
        BY <1>3 DEF Joins
      <4>2. ss[b] \in Seq(X)
        BY <1>2, <2>1
      <4> QED BY ONLY <3>1, <4>1, <4>2
    <3>3. \A q \in Seq(X) : Len(q) \in Nat
      OBVIOUS
    <3> QED BY ONLY <1>5, <3>2, <3>3
  <2>5. t \in 1..Len(texts)
    <3>1. Len(f[b]) = Len(f[b - 1]) + Len(ss[b]) /\ Len(f[b]) <= Len(texts)
      BY <1>3, <2>2 DEF Placed
    <3>2. PICK x \in Nat, y \in Nat, z \in Nat, v \in Nat :
            x = Len(f[b]) /\ y = Len(f[b - 1]) /\ z = Len(ss[b]) /\ v = Len(texts)
      BY ONLY <2>4
    <3>3. x = y + z /\ x <= v /\ i \in 1..z
      BY ONLY <2>1, <3>1, <3>2
    <3>4. y + i \in 1..v
      BY <3>3
    <3> QED BY ONLY <3>2, <3>4
  <2>6. t \in DOMAIN texts
    BY <1>5, <2>5
  <2> QED BY <2>3, <2>6
<1> QED BY <1>5, <1>6, <1>7 DEF X

LEMMA AnswerIs ==
  ASSUME Answered, NEW b \in 1..Len(blocks), NEW i \in 1..Len(blocks[b].lines)
  PROVE  /\ Answer(b, i) \in OutLine /\ Answer(b, i).from = blocks[b].lines[i]
         /\ \E t \in DOMAIN answers : Answer(b, i).kind = answers[t]
<1> DEFINE t == CHOOSE x \in DOMAIN texts : texts[x] = <<b, i>>
<1>1. t \in DOMAIN texts
  BY RefsFound DEF Answered
<1> HIDE DEF t
<1>2. Answer(b, i) = [kind |-> answers[t], from |-> blocks[b].lines[i]]
  BY DEF Answer, t
<1>3. t \in DOMAIN answers /\ answers[t] \in Kinds
  BY <1>1, LinesAssumption DEF Answered
<1>4. blocks[b].lines[i] \in Nat
  BY BlocksAre DEF Answered
<1> QED BY <1>2, <1>3, <1>4 DEF OutLine

LEMMA BlockOutIs ==
  ASSUME Answered, NEW b \in 1..Len(blocks)
  PROVE  LET o == BlockOut(b)
             n == Len(blocks[b].lines)
         IN  /\ o \in Seq(OutLine) /\ n \in Nat \ {0}
             /\ Len(o) = IF b < Len(blocks) THEN n + 3 ELSE n + 2
             /\ o[1] = [kind |-> "index", from |-> blocks[b].index]
             /\ o[2] = [kind |-> "time", from |-> blocks[b].time]
             /\ \A i \in 1..n : o[2 + i] = Answer(b, i)
             /\ b < Len(blocks) => o[n + 3] = [kind |-> "blank", from |-> 0]
<1> DEFINE n == Len(blocks[b].lines)
           first == [kind |-> "index", from |-> blocks[b].index]
           second == [kind |-> "time", from |-> blocks[b].time]
           said == [i \in 1..n |-> Answer(b, i)]
           blank == [kind |-> "blank", from |-> 0]
<1>1. /\ n \in Nat \ {0} /\ DOMAIN blocks[b].lines = 1..n
      /\ blocks[b].index \in Nat /\ blocks[b].time \in Nat
  <2>1. blocks[b].lines # <<>> /\ blocks[b].lines \in Seq(Nat) /\ n \in Nat
    BY BlocksAre DEF Answered
  <2>2. n # 0
    BY <2>1
  <2> QED BY <2>1, <2>2, BlocksAre DEF Answered
<1>2. first \in OutLine /\ second \in OutLine /\ blank \in OutLine
  BY <1>1 DEF OutLine, Kinds
<1>3. said \in Seq(OutLine) /\ Len(said) = n /\ \A i \in 1..n : said[i] = Answer(b, i)
  <2>1. \A i \in 1..n : Answer(b, i) \in OutLine
    BY AnswerIs
  <2> HIDE DEF n
  <2> QED BY <1>1, <2>1
<1>4. BlockOut(b) = (<<first, second>> \o said) \o Separator(b)
  BY <1>1 DEF BlockOut
<1> HIDE DEF n, first, second, said, blank
<1> DEFINE s == <<first, second>> \o said
<1>5. /\ s \in Seq(OutLine) /\ Len(s) = n + 2 /\ s[1] = first /\ s[2] = second
      /\ \A i \in 1..n : s[2 + i] = said[i]
  <2>1. /\ <<first, second>> \in Seq(OutLine) /\ Len(<<first, second>>) = 2
        /\ <<first, second>>[1] = first /\ <<first, second>>[2] = second
    BY <1>2
  <2>2. PICK x \in Seq(OutLine) : x = <<first, second>>
    BY <2>1
  <2>3. Len(x) = 2 /\ x[1] = first /\ x[2] = second
    BY <2>1, <2>2
  <2>4. /\ x \o said \in Seq(OutLine) /\ Len(x \o said) = n + 2
        /\ (x \o said)[1] = x[1] /\ (x \o said)[2] = x[2]
        /\ \A i \in 1..n : (x \o said)[2 + i] = said[i]
    <3>1. /\ x \o said \in Seq(OutLine) /\ Len(x \o said) = Len(x) + Len(said)
          /\ \A j \in 1..Len(x) : (x \o said)[j] = x[j]
          /\ \A j \in 1..Len(said) : (x \o said)[Len(x) + j] = said[j]
      BY <1>3
    <3>2. Len(x) = 2 /\ Len(said) = n /\ n \in Nat /\ 1 \in 1..2 /\ 2 \in 1..2
      BY <1>1, <1>3, <2>3
    <3>3. 2 + n = n + 2
      BY ONLY <3>2
    <3> QED BY ONLY <3>1, <3>2, <3>3
  <2> QED BY <2>2, <2>3, <2>4
<1> HIDE DEF s
<1>6. CASE b < Len(blocks)
  <2>1. Separator(b) = <<blank>> /\ <<blank>> \in Seq(OutLine)
        /\ Len(<<blank>>) = 1 /\ <<blank>>[1] = blank
    BY <1>2, <1>6 DEF Separator, blank
  <2>2. PICK y \in Seq(OutLine) : y = <<blank>>
    BY <2>1
  <2>3. Len(y) = 1 /\ y[1] = blank
    BY <2>1, <2>2
  <2>4. /\ s \o y \in Seq(OutLine) /\ Len(s \o y) = n + 3
        /\ \A i \in 1..(n + 2) : (s \o y)[i] = s[i]
        /\ (s \o y)[n + 3] = y[1]
    <3>1. /\ s \o y \in Seq(OutLine) /\ Len(s \o y) = Len(s) + Len(y)
          /\ \A j \in 1..Len(s) : (s \o y)[j] = s[j]
          /\ \A j \in 1..Len(y) : (s \o y)[Len(s) + j] = y[j]
      BY <1>5
    <3>2. Len(s) = n + 2 /\ Len(y) = 1 /\ n \in Nat /\ 1 \in 1..1
      BY <1>1, <1>5, <2>3
    <3>3. n + 2 + 1 = n + 3
      BY ONLY <3>2
    <3> QED BY ONLY <3>1, <3>2, <3>3
  <2>5. BlockOut(b) = s \o y
    BY <1>4, <2>1, <2>2 DEF s
  <2>6. 1 \in 1..(n + 2) /\ 2 \in 1..(n + 2) /\ \A i \in 1..n : 2 + i \in 1..(n + 2)
    BY <1>1
  <2>7. /\ BlockOut(b)[1] = first /\ BlockOut(b)[2] = second
        /\ \A i \in 1..n : BlockOut(b)[2 + i] = Answer(b, i)
    BY ONLY <1>3, <1>5, <2>4, <2>5, <2>6
  <2> QED BY <1>1, <1>6, <2>3, <2>4, <2>5, <2>7 DEF n, first, second, blank
<1>7. CASE ~(b < Len(blocks))
  <2>1. Separator(b) = <<>>
    BY <1>7 DEF Separator
  <2>2. BlockOut(b) = s
    BY <1>4, <1>5, <2>1 DEF s
  <2> QED BY <1>1, <1>3, <1>5, <1>7, <2>2 DEF n, first, second
<1> QED BY <1>6, <1>7

\* Where the blocks are in the output: block b from line f[b - 1] + 1 to line f[b].
Lays(f) ==
  /\ f \in [0..Len(blocks) -> Nat] /\ f[0] = 0 /\ f[Len(blocks)] = Len(Output)
  /\ \A b \in 1..Len(blocks) :
       /\ f[b] = f[b - 1] + Len(BlockOut(b)) /\ f[b] <= Len(Output)
       /\ \A j \in 1..Len(BlockOut(b)) : Output[f[b - 1] + j] = BlockOut(b)[j]
  /\ \A c \in 1..Len(blocks) : \A b \in 1..c : f[b] <= f[c]

LEMMA OutputIs ==
  ASSUME Answered
  PROVE  Output \in Seq(OutLine) /\ \E f : Lays(f)
<1> DEFINE ss == [b \in DOMAIN blocks |-> BlockOut(b)]
           m == Len(blocks)
<1>1. m \in Nat /\ DOMAIN blocks = 1..m
  BY BlocksAre DEF Answered
<1>2. ss \in Seq(Seq(OutLine)) /\ Len(ss) = m /\ \A b \in 1..m : ss[b] = BlockOut(b)
  <2>1. \A b \in 1..m : BlockOut(b) \in Seq(OutLine)
    BY BlockOutIs
  <2> HIDE DEF m
  <2> QED BY <1>1, <2>1
<1> HIDE DEF ss
<1>3. PICK f : Joins(f, ss, OutLine) /\ Output = f[m]
  <2>1. Output = FlattenSeq(ss)
    BY DEF Output, ss
  <2> QED BY <1>2, <2>1, FlattenJoins
<1>4. f \in [0..m -> Seq(OutLine)] /\ f[0] = <<>>
  BY <1>2, <1>3 DEF Joins
<1>5. \A q \in Seq(OutLine) : Len(q) \in Nat
  OBVIOUS
<1> DEFINE g == [b \in 0..m |-> Len(f[b])]
<1>6. g \in [0..m -> Nat]
  BY <1>4, <1>5
<1>7. 0 \in 0..m /\ m \in 0..m /\ Len(<<>>) = 0
  BY <1>1
<1>8. g[0] = 0 /\ g[m] = Len(Output)
  BY <1>3, <1>4, <1>7
<1>9. ASSUME NEW c \in 1..m, NEW b \in 1..c PROVE Placed(f, ss, c, b)
  <2>1. c \in 0..Len(ss)
    BY <1>2
  <2> QED BY <1>2, <1>3, <2>1, JoinsPlace
<1>10. ASSUME NEW c \in 1..m, NEW b \in 1..c PROVE g[b] <= g[c]
  <2>1. b \in 0..m /\ c \in 0..m
    OBVIOUS
  <2> QED BY <1>9, <2>1 DEF Placed
<1>11. ASSUME NEW b \in 1..m
       PROVE  /\ g[b] = g[b - 1] + Len(BlockOut(b)) /\ g[b] <= Len(Output)
              /\ \A j \in 1..Len(BlockOut(b)) : Output[g[b - 1] + j] = BlockOut(b)[j]
  <2>1. m \in 1..m /\ b \in 0..m /\ b - 1 \in 0..m
    OBVIOUS
  <2>2. Placed(f, ss, m, b)
    BY <1>9, <2>1
  <2>3. g[b] = Len(f[b]) /\ g[b - 1] = Len(f[b - 1])
    BY ONLY <2>1
  <2>4. ss[b] = BlockOut(b)
    BY <1>2
  <2> HIDE DEF g, m
  <2> QED BY ONLY <1>3, <2>2, <2>3, <2>4 DEF Placed
<1> HIDE DEF g
<1>12. Lays(g)
  BY <1>6, <1>8, <1>10, <1>11 DEF Lays
<1>13. Output \in Seq(OutLine)
  BY <1>3, <1>4, <1>7
<1> QED BY <1>12, <1>13

-----------------------------------------------------------------------------
(* What the parser makes of it. *)

\* Block b as it stands in the output, with k of its lines.
Copy(f, b, k) ==
  [index |-> f[b - 1] + 1, time |-> f[b - 1] + 2, lines |-> [i \in 1..k |-> f[b - 1] + 2 + i]]

Copies(f, k) == [b \in 1..k |-> Copy(f, b, Len(blocks[b].lines))]

\* The parser between two blocks.
Between(f, k) == [mode |-> "index", current |-> NoBlock, blocks |-> Copies(f, k)]

\* The parser after line j of block b.
Halfway(f, b, j) ==
  IF j = 1 THEN [mode |-> "timestamp", current |-> [NoBlock EXCEPT !.index = f[b - 1] + 1],
                 blocks |-> Copies(f, b - 1)]
  ELSE IF j <= Len(blocks[b].lines) + 2
       THEN [mode |-> "text", current |-> Copy(f, b, j - 2), blocks |-> Copies(f, b - 1)]
       ELSE Between(f, b)

\* The parser, and a block, part by part.
InMode(m, c, bs) == [mode |-> m, current |-> c, blocks |-> bs]
BlockOf(i, t, l) == [index |-> i, time |-> t, lines |-> l]

LEMMA NumberRead ==
  ASSUME NEW bs, NEW n
  PROVE  ParseLine(InMode("index", NoBlock, bs), n, "index")
           = InMode("timestamp", BlockOf(n, 0, <<>>), bs)
<1> DEFINE p == InMode("index", NoBlock, bs)
<1>1. PICK c : c = BlockOf(n, 0, <<>>)
  OBVIOUS
<1>2. [NoBlock EXCEPT !.index = n] = c
  BY <1>1 DEF NoBlock, BlockOf
<1>3. ParseLine(p, n, "index") = [p EXCEPT !.mode = "timestamp", !.current = c]
  BY <1>2 DEF ParseLine, AtIndex, InMode
<1>4. [p EXCEPT !.mode = "timestamp", !.current = c] = InMode("timestamp", c, bs)
  <2>1. [p EXCEPT !.mode = "timestamp", !.current = c]
          \in [mode : {"timestamp"}, current : {c}, blocks : {bs}]
    BY DEF InMode
  <2>2. \A q \in [mode : {"timestamp"}, current : {c}, blocks : {bs}] :
          q = InMode("timestamp", c, bs)
    BY DEF InMode
  <2> QED BY ONLY <2>1, <2>2
<1>5. ParseLine(p, n, "index") = InMode("timestamp", BlockOf(n, 0, <<>>), bs)
  <2> HIDE DEF p
  <2> QED BY ONLY <1>1, <1>3, <1>4
<1> QED BY <1>5

LEMMA TimeRead ==
  ASSUME NEW bs, NEW n, NEW x
  PROVE  ParseLine(InMode("timestamp", BlockOf(x, 0, <<>>), bs), n, "time")
           = InMode("text", BlockOf(x, n, <<>>), bs)
BY DEF ParseLine, AtTimestamp, InMode, BlockOf

LEMMA TextRead ==
  ASSUME NEW bs, NEW n, NEW x, NEW t, NEW l, NEW kind, kind # "blank"
  PROVE  ParseLine(InMode("text", BlockOf(x, t, l), bs), n, kind)
           = InMode("text", BlockOf(x, t, Append(l, n)), bs)
<1> DEFINE p == InMode("text", BlockOf(x, t, l), bs)
<1>1. PICK a : a = Append(l, n)
  OBVIOUS
<1>2. ParseLine(p, n, kind) = [p EXCEPT !.current.lines = Append(@, n)]
  BY DEF ParseLine, AtText, InMode
<1>3. p.current.lines = l
  BY DEF InMode, BlockOf
<1>4. [p EXCEPT !.current.lines = Append(@, n)] = [p EXCEPT !.current.lines = a]
  BY <1>1, <1>3
<1>5. [p EXCEPT !.current.lines = a] = InMode("text", BlockOf(x, t, a), bs)
  BY DEF InMode, BlockOf
<1> HIDE DEF p
<1>6. ParseLine(p, n, kind) = InMode("text", BlockOf(x, t, Append(l, n)), bs)
  BY ONLY <1>1, <1>2, <1>4, <1>5
<1> QED BY <1>6 DEF p

LEMMA ReadsNumber ==
  ASSUME NEW f, NEW b
  PROVE  ParseLine(Between(f, b - 1), f[b - 1] + 1, "index") = Halfway(f, b, 1)
<1>1. Halfway(f, b, 1)
        = InMode("timestamp", BlockOf(f[b - 1] + 1, 0, <<>>), Copies(f, b - 1))
  BY DEF Halfway, NoBlock, InMode, BlockOf
<1>2. Between(f, b - 1) = InMode("index", NoBlock, Copies(f, b - 1))
  BY DEF Between, InMode
<1> QED BY ONLY <1>1, <1>2, NumberRead

LEMMA ReadsTime ==
  ASSUME Answered, NEW f, NEW b \in 1..Len(blocks)
  PROVE  ParseLine(Halfway(f, b, 1), f[b - 1] + 2, "time") = Halfway(f, b, 2)
<1>1. Halfway(f, b, 1)
        = InMode("timestamp", BlockOf(f[b - 1] + 1, 0, <<>>), Copies(f, b - 1))
  BY DEF Halfway, NoBlock, InMode, BlockOf
<1>2. [i \in 1..(2 - 2) |-> f[b - 1] + 2 + i] = <<>>
  OBVIOUS
<1>3. Len(blocks[b].lines) \in Nat
  BY BlocksAre DEF Answered
<1>4. Halfway(f, b, 2)
        = InMode("text", BlockOf(f[b - 1] + 1, f[b - 1] + 2, <<>>), Copies(f, b - 1))
  <2>1. 2 # 1 /\ 2 <= Len(blocks[b].lines) + 2
    BY <1>3
  <2>2. Halfway(f, b, 2) = InMode("text", Copy(f, b, 2 - 2), Copies(f, b - 1))
    BY <2>1 DEF Halfway, InMode
  <2>3. Copy(f, b, 2 - 2) = BlockOf(f[b - 1] + 1, f[b - 1] + 2, <<>>)
    BY <1>2 DEF Copy, BlockOf
  <2> QED BY <2>2, <2>3
<1> QED BY ONLY <1>1, <1>4, TimeRead

LEMMA CopyGrows ==
  ASSUME NEW f, NEW b, NEW k \in Nat, f[b - 1] \in Nat
  PROVE  Append(Copy(f, b, k).lines, f[b - 1] + k + 3) = Copy(f, b, k + 1).lines
<1> DEFINE s == [i \in 1..k |-> f[b - 1] + 2 + i]
           t == [i \in 1..(k + 1) |-> f[b - 1] + 2 + i]
<1>1. s \in Seq(Nat) /\ Len(s) = k
  OBVIOUS
<1>2. f[b - 1] + k + 3 = f[b - 1] + 2 + (k + 1)
  OBVIOUS
<1>3. Append(s, f[b - 1] + 2 + (k + 1)) = t
  <2>1. Append(s, f[b - 1] + 2 + (k + 1)) =
          [i \in 1..(k + 1) |-> IF i <= k THEN s[i] ELSE f[b - 1] + 2 + (k + 1)]
    BY <1>1
  <2>2. \A i \in 1..(k + 1) :
          (IF i <= k THEN s[i] ELSE f[b - 1] + 2 + (k + 1)) = f[b - 1] + 2 + i
    OBVIOUS
  <2> QED BY <2>1, <2>2
<1> HIDE DEF s, t
<1> QED BY <1>2, <1>3 DEF Copy, s, t

LEMMA ReadsText ==
  ASSUME Answered, NEW f, NEW b \in 1..Len(blocks), f[b - 1] \in Nat,
         NEW j \in 2..(Len(blocks[b].lines) + 1), NEW kind, kind # "blank"
  PROVE  ParseLine(Halfway(f, b, j), f[b - 1] + j + 1, kind) = Halfway(f, b, j + 1)
<1>1. Len(blocks[b].lines) \in Nat /\ j \in Nat
  BY BlocksAre DEF Answered
<1>2. j # 1 /\ j + 1 # 1 /\ j + 1 <= Len(blocks[b].lines) + 2 /\ j <= Len(blocks[b].lines) + 2
  BY <1>1
<1>3. PICK k \in Nat : j = k + 2 /\ j - 2 = k /\ j + 1 - 2 = k + 1 /\ j + 1 = k + 3
  <2>1. j - 2 \in Nat
    BY <1>1
  <2> WITNESS j - 2 \in Nat
  <2> QED BY <1>1, <2>1
<1>4. /\ Halfway(f, b, j) = InMode("text", Copy(f, b, k), Copies(f, b - 1))
      /\ Halfway(f, b, j + 1) = InMode("text", Copy(f, b, k + 1), Copies(f, b - 1))
  BY ONLY <1>2, <1>3 DEF Halfway, InMode
<1>5. Append(Copy(f, b, k).lines, f[b - 1] + j + 1) = Copy(f, b, k + 1).lines
  <2>1. f[b - 1] + j + 1 = f[b - 1] + k + 3
    BY <1>3
  <2> QED BY <2>1, CopyGrows
<1> DEFINE x == f[b - 1] + 1
           t == f[b - 1] + 2
           l == Copy(f, b, k).lines
           n == f[b - 1] + j + 1
<1>6. /\ Copy(f, b, k) = BlockOf(x, t, l)
      /\ Copy(f, b, k + 1) = BlockOf(x, t, Copy(f, b, k + 1).lines)
  BY DEF Copy, BlockOf
<1> HIDE DEF x, t, l, n
<1>7. ParseLine(InMode("text", BlockOf(x, t, l), Copies(f, b - 1)), n, kind)
        = InMode("text", BlockOf(x, t, Append(l, n)), Copies(f, b - 1))
  BY TextRead
<1>8. Append(l, n) = Copy(f, b, k + 1).lines
  BY <1>5 DEF l, n
<1>9. ParseLine(Halfway(f, b, j), n, kind) = Halfway(f, b, j + 1)
  BY ONLY <1>4, <1>6, <1>7, <1>8
<1> QED BY <1>9 DEF n

LEMMA CopiesGrow ==
  ASSUME blocks \in Seq(Blocks), NEW f, NEW b \in 1..Len(blocks)
  PROVE  Append(Copies(f, b - 1), Copy(f, b, Len(blocks[b].lines))) = Copies(f, b)
<1> DEFINE s == Copies(f, b - 1)
           c == Copy(f, b, Len(blocks[b].lines))
<1>1. b - 1 \in Nat /\ b - 1 + 1 = b /\ b \in Nat
  BY BlocksAre
<1>2. s = [i \in 1..(b - 1) |-> Copy(f, i, Len(blocks[i].lines))]
  BY DEF Copies
<1> DEFINE X == {Copy(f, i, Len(blocks[i].lines)) : i \in 1..b}
<1>3. s \in Seq(X) /\ Len(s) = b - 1
  <2>1. \A i \in 1..(b - 1) : Copy(f, i, Len(blocks[i].lines)) \in X
    BY <1>1
  <2> HIDE DEF X, s
  <2> QED BY <1>1, <1>2, <2>1
<1> HIDE DEF X, s
<1>4. Append(s, c) = [i \in 1..b |-> IF i <= b - 1 THEN s[i] ELSE c]
  BY <1>1, <1>3
<1>5. ASSUME NEW i \in 1..b
      PROVE  (IF i <= b - 1 THEN s[i] ELSE c) = Copy(f, i, Len(blocks[i].lines))
  <2>1. CASE i <= b - 1
    <3>1. i \in 1..(b - 1)
      BY <1>1, <2>1
    <3> QED BY <1>2, <2>1, <3>1
  <2>2. CASE ~(i <= b - 1)
    <3>1. i = b
      BY <1>1, <2>2
    <3> QED BY <2>2, <3>1
  <2> QED BY <2>1, <2>2
<1> HIDE DEF c
<1>6. Append(s, c) = Copies(f, b)
  BY <1>4, <1>5 DEF Copies
<1> QED BY <1>6 DEF s, c

LEMMA ReadsBlank ==
  ASSUME Answered, NEW f, NEW b \in 1..Len(blocks), NEW n
  PROVE  LET k == Len(blocks[b].lines)
         IN  /\ Closed(Halfway(f, b, k + 2)) = Copies(f, b)
             /\ ParseLine(Halfway(f, b, k + 2), n, "blank") = Halfway(f, b, k + 3)
<1> DEFINE k == Len(blocks[b].lines)
           p == Halfway(f, b, k + 2)
<1>1. k \in Nat \ {0}
  BY BlockOutIs
<1>2. p = [mode |-> "text", current |-> Copy(f, b, k), blocks |-> Copies(f, b - 1)]
  <2>1. k + 2 # 1 /\ k + 2 <= k + 2 /\ k + 2 - 2 = k
    BY <1>1
  <2> HIDE DEF k
  <2> QED BY <2>1 DEF Halfway, k
<1>3. Halfway(f, b, k + 3) = Between(f, b)
  <2>1. k + 3 # 1 /\ ~(k + 3 <= k + 2)
    BY <1>1
  <2> QED BY <2>1 DEF Halfway
<1>4. Copy(f, b, k).lines # <<>>
  <2>1. Copy(f, b, k).lines = [i \in 1..k |-> f[b - 1] + 2 + i]
    BY DEF Copy
  <2>2. 1 \in DOMAIN Copy(f, b, k).lines
    BY <1>1, <2>1
  <2>3. 1 \notin DOMAIN <<>>
    OBVIOUS
  <2> QED BY ONLY <2>2, <2>3
<1>5. Closed(p) = Copies(f, b)
  <2>1. Closed(p) = Append(Copies(f, b - 1), Copy(f, b, k))
    BY <1>2, <1>4 DEF Closed
  <2> QED BY <2>1, CopiesGrow DEF Answered
<1>6. ParseLine(p, n, "blank") = Between(f, b)
  BY <1>2, <1>5 DEF ParseLine, AtText, Between
<1> QED BY <1>3, <1>5, <1>6

\* No translation is an empty line.
NoneBlank == \A t \in DOMAIN answers : answers[t] # "blank"

LEMMA WithinBlock ==
  ASSUME Answered, NoneBlank, NEW f, NEW b \in 1..Len(blocks), f[b - 1] \in Nat,
         NEW j \in 1..Len(BlockOut(b)), j < Len(BlockOut(b))
  PROVE  ParseLine(Halfway(f, b, j), f[b - 1] + j + 1, BlockOut(b)[j + 1].kind)
           = Halfway(f, b, j + 1)
<1> DEFINE k == Len(blocks[b].lines)
           o == BlockOut(b)
<1>1. /\ k \in Nat \ {0} /\ Len(o) = IF b < Len(blocks) THEN k + 3 ELSE k + 2
      /\ o[2] = [kind |-> "time", from |-> blocks[b].time]
      /\ \A i \in 1..k : o[2 + i] = Answer(b, i)
      /\ b < Len(blocks) => o[k + 3] = [kind |-> "blank", from |-> 0]
  BY BlockOutIs
<1> HIDE DEF k, o
<1>2. j \in 1..(k + 2) /\ (j = k + 2 => b < Len(blocks))
  <2>1. j \in 1..Len(o) /\ j < Len(o)
    BY DEF o
  <2> QED BY ONLY <1>1, <2>1
<1>3. CASE j = 1
  <2>1. f[b - 1] + j + 1 = f[b - 1] + 2 /\ j + 1 = 2
    BY <1>3
  <2>2. o[j + 1].kind = "time"
    BY <1>1, <2>1
  <2>3. ParseLine(Halfway(f, b, 1), f[b - 1] + 2, "time") = Halfway(f, b, 2)
    BY ReadsTime
  <2> QED BY ONLY <1>3, <2>1, <2>2, <2>3 DEF o
<1>4. CASE j \in 2..(k + 1)
  <2>1. j - 1 \in 1..k /\ 2 + (j - 1) = j + 1
    BY <1>1, <1>4
  <2>2. o[j + 1] = Answer(b, j - 1)
    BY ONLY <1>1, <2>1
  <2>3. Answer(b, j - 1).kind # "blank"
    <3>1. \E t \in DOMAIN answers : Answer(b, j - 1).kind = answers[t]
      BY <2>1, AnswerIs DEF k
    <3> QED BY <3>1 DEF NoneBlank
  <2>4. ParseLine(Halfway(f, b, j), f[b - 1] + j + 1, Answer(b, j - 1).kind)
          = Halfway(f, b, j + 1)
    BY <1>4, <2>3, ReadsText DEF k
  <2> QED BY ONLY <2>2, <2>4 DEF o
<1>5. CASE j = k + 2
  <2>1. o[k + 3].kind = "blank" /\ j + 1 = k + 3
    BY <1>1, <1>2, <1>5
  <2>2. ParseLine(Halfway(f, b, k + 2), f[b - 1] + j + 1, "blank") = Halfway(f, b, k + 3)
    BY ReadsBlank DEF k
  <2> QED BY ONLY <1>5, <2>1, <2>2 DEF o
<1>6. j = 1 \/ j \in 2..(k + 1) \/ j = k + 2
  BY <1>1, <1>2
<1> QED BY <1>3, <1>4, <1>5, <1>6

\* How much of the output is there.
Printed ==
  /\ out \in Seq(OutLine) /\ Len(out) <= Len(Output)
  /\ \A n \in 1..Len(out) : out[n] = Output[n]

\* The parser is after line j of block b.
Reached(f, r, n, b, j) == n = f[b - 1] + j /\ r[n] = Halfway(f, b, j)

LEMMA ReadsBlocks ==
  ASSUME Answered, NoneBlank, Printed, NEW f, Lays(f), NEW r, Reads(r, out)
  PROVE  \A n \in 1..Len(out) :
           \E b \in 1..Len(blocks) : \E j \in 1..Len(BlockOut(b)) : Reached(f, r, n, b, j)
<1> DEFINE m == Len(blocks)
           Somewhere(n) == \E b \in 1..m : \E j \in 1..Len(BlockOut(b)) : Reached(f, r, n, b, j)
           S == {n \in 0..Len(out) : n = 0 \/ Somewhere(n)}
<1>1. /\ m \in Nat /\ Len(out) \in Nat
      /\ \A b \in 1..m : f[b - 1] \in Nat /\ f[b] \in Nat /\ Len(BlockOut(b)) \in Nat \ {0, 1}
  <2>1. m \in Nat /\ Len(out) \in Nat
    BY BlocksAre DEF Answered, Printed
  <2>2. ASSUME NEW b \in 1..m
        PROVE  f[b - 1] \in Nat /\ f[b] \in Nat /\ Len(BlockOut(b)) \in Nat \ {0, 1}
    <3>1. b - 1 \in 0..m /\ b \in 0..m
      BY <2>1
    <3>2. f[b - 1] \in Nat /\ f[b] \in Nat
      BY <3>1 DEF Lays
    <3>3. PICK k \in Nat : k = Len(blocks[b].lines) /\ k # 0
      BY BlockOutIs
    <3>4. Len(BlockOut(b)) = IF b < m THEN k + 3 ELSE k + 2
      BY <3>3, BlockOutIs
    <3> QED BY ONLY <3>2, <3>3, <3>4
  <2> QED BY <2>1, <2>2
<1>2. ASSUME NEW n \in 1..Len(out), NEW b \in 1..m, NEW j \in 1..Len(BlockOut(b)),
             n = f[b - 1] + j
      PROVE  r[n] = ParseLine(r[n - 1], f[b - 1] + j, BlockOut(b)[j].kind)
  <2>1. r[n] = ParseLine(r[n - 1], n, out[n].kind)
    BY DEF Reads
  <2>2. out[n] = Output[n]
    BY DEF Printed
  <2>3. Output[f[b - 1] + j] = BlockOut(b)[j]
    BY DEF Lays
  <2> QED BY ONLY <1>2, <2>1, <2>2, <2>3
<1>3. ASSUME NEW b \in 1..m, NEW n \in 1..Len(out), n = f[b - 1] + 1,
             r[n - 1] = Between(f, b - 1)
      PROVE  Somewhere(n)
  <2>1. 1 \in 1..Len(BlockOut(b))
    BY <1>1
  <2>2. BlockOut(b)[1].kind = "index"
    <3>1. BlockOut(b)[1] = [kind |-> "index", from |-> blocks[b].index]
      BY BlockOutIs
    <3> QED BY ONLY <3>1
  <2>3. r[n] = Halfway(f, b, 1)
    BY <1>2, <1>3, <2>1, <2>2, ReadsNumber
  <2> QED BY <1>3, <2>1, <2>3 DEF Reached
<1> HIDE DEF m
<1>4. 0 \in S
  BY <1>1
<1>5. ASSUME NEW n \in 1..Len(out), n - 1 \in S PROVE n \in S
  <2>1. n \in 0..Len(out)
    BY <1>1
  <2>2. CASE n - 1 = 0
    <3>1. m # 0
      <4>1. n \in Nat /\ n # 0 /\ n <= Len(out) /\ Len(out) <= Len(Output)
        BY <1>1 DEF Printed
      <4>2. f[0] = 0 /\ f[m] = Len(Output)
        BY DEF Lays, m
      <4> QED BY <1>1, <4>1, <4>2
    <3>2. 1 \in 1..m /\ 1 - 1 = 0 /\ f[1 - 1] = 0 /\ n = 1
      BY <1>1, <2>2, <3>1 DEF Lays
    <3>3. r[n - 1] = Between(f, 0)
      <4>1. Copies(f, 0) = <<>>
        BY DEF Copies
      <4>2. r[0] = Between(f, 0)
        BY <4>1 DEF Reads, Fresh, Between
      <4> QED BY <2>2, <4>2
    <3>4. n = f[1 - 1] + 1 /\ r[n - 1] = Between(f, 1 - 1)
      BY ONLY <3>2, <3>3
    <3>5. Somewhere(n)
      BY <1>3, <3>2, <3>4
    <3> QED BY <2>1, <3>5
  <2>3. CASE n - 1 # 0
    <3>1. PICK b \in 1..m : \E j \in 1..Len(BlockOut(b)) : Reached(f, r, n - 1, b, j)
      BY <1>5, <2>3
    <3>2. PICK j \in 1..Len(BlockOut(b)) : Reached(f, r, n - 1, b, j)
      BY <3>1
    <3> HIDE DEF Somewhere
    <3>3. n - 1 = f[b - 1] + j /\ r[n - 1] = Halfway(f, b, j)
      BY <3>2 DEF Reached
    <3>4. f[b - 1] \in Nat /\ j \in Nat /\ Len(BlockOut(b)) \in Nat /\ n \in Nat
      BY <1>1
    <3>5. CASE j < Len(BlockOut(b))
      <4>1. j + 1 \in 1..Len(BlockOut(b)) /\ n = f[b - 1] + (j + 1)
        BY ONLY <3>2, <3>3, <3>4, <3>5
      <4>2. f[b - 1] + (j + 1) = f[b - 1] + j + 1
        BY ONLY <3>4
      <4>3. r[n] = ParseLine(Halfway(f, b, j), f[b - 1] + j + 1, BlockOut(b)[j + 1].kind)
        BY <1>2, <3>3, <4>1, <4>2
      <4>4. r[n] = Halfway(f, b, j + 1)
        BY <3>4, <3>5, <4>3, WithinBlock DEF m
      <4>5. Somewhere(n)
        BY <4>1, <4>4 DEF Somewhere, Reached
      <4> QED BY <2>1, <4>5
    <3>6. CASE ~(j < Len(BlockOut(b)))
      <4>1. j = Len(BlockOut(b))
        BY <3>4, <3>6
      <4>2. n - 1 = f[b]
        <5>1. f[b] = f[b - 1] + Len(BlockOut(b))
          BY DEF Lays, m
        <5> QED BY ONLY <3>3, <4>1, <5>1
      <4>3. b # m
        <5>1. n <= Len(out) /\ Len(out) <= Len(Output) /\ f[m] = Len(Output)
          BY <1>1 DEF Printed, Lays, m
        <5>2. Len(out) \in Nat /\ f[b] \in Nat
          BY <1>1
        <5> QED BY ONLY <3>4, <4>2, <5>1, <5>2
      <4>4. b + 1 \in 1..m /\ b < m /\ b + 1 - 1 = b
        BY <1>1, <4>3
      <4>5. j = Len(blocks[b].lines) + 3 /\ Len(blocks[b].lines) \in Nat
        BY <4>1, <4>4, BlockOutIs DEF m
      <4>6. Halfway(f, b, j) = Between(f, b)
        <5>1. j # 1 /\ ~(j <= Len(blocks[b].lines) + 2)
          BY ONLY <4>5
        <5> QED BY <5>1 DEF Halfway
      <4>7. n = f[(b + 1) - 1] + 1 /\ r[n - 1] = Between(f, (b + 1) - 1)
        <5>1. f[b] \in Nat
          BY <1>1
        <5> QED BY ONLY <3>3, <3>4, <4>2, <4>4, <4>6, <5>1
      <4>8. Somewhere(n)
        BY <1>3, <4>4, <4>7
      <4> QED BY <2>1, <4>8
    <3> QED BY <3>5, <3>6
  <2> QED BY <2>2, <2>3
<1> HIDE DEF S
<1>6. 0..Len(out) \subseteq S
  BY <1>1, <1>4, <1>5, UpTo
<1>7. \A n \in 1..Len(out) : n \in 0..Len(out) /\ n # 0
  BY <1>1
<1> QED BY <1>6, <1>7 DEF S, m

\* What a copy shows is what the block of the file was.
LEMMA CopyStands ==
  ASSUME Answered, Printed, NEW f, Lays(f), NEW b \in 1..Len(blocks),
         NEW l \in 1..Len(blocks[b].lines), f[b - 1] + 2 + l <= Len(out)
  PROVE  LET new == Copy(f, b, l)
         IN  /\ out[new.index].from = blocks[b].index /\ out[new.time].from = blocks[b].time
             /\ DOMAIN new.lines = 1..l /\ Len(new.lines) = l
             /\ \A i \in 1..l : out[new.lines[i]].from = blocks[b].lines[i]
<1> DEFINE k == Len(blocks[b].lines)
           o == BlockOut(b)
           s == f[b - 1]
<1>1. /\ k \in Nat \ {0} /\ Len(o) = IF b < Len(blocks) THEN k + 3 ELSE k + 2
      /\ o[1] = [kind |-> "index", from |-> blocks[b].index]
      /\ o[2] = [kind |-> "time", from |-> blocks[b].time]
      /\ \A i \in 1..k : o[2 + i] = Answer(b, i)
  BY BlockOutIs
<1>2. s \in Nat /\ l \in Nat /\ Len(out) \in Nat
  <2>1. b - 1 \in 0..Len(blocks) /\ k \in Nat
    BY BlocksAre DEF Answered
  <2>2. s \in Nat
    BY <2>1 DEF Lays
  <2>3. l \in Nat
    BY <2>1
  <2>4. Len(out) \in Nat
    BY DEF Printed
  <2> QED BY ONLY <2>2, <2>3, <2>4
<1>3. ASSUME NEW j \in 1..(l + 2)
      PROVE  out[s + j] = o[j]
  <2>1. j \in 1..Len(o) /\ s + j \in 1..Len(out)
    <3>1. l <= k /\ s + 2 + l <= Len(out)
      BY <1>1
    <3> HIDE DEF k, o, s
    <3> QED BY ONLY <1>1, <1>2, <1>3, <3>1
  <2>2. Output[s + j] = o[j]
    BY <2>1 DEF Lays
  <2>3. out[s + j] = Output[s + j]
    BY <2>1 DEF Printed
  <2> QED BY ONLY <2>2, <2>3
<1>4. 1 \in 1..(l + 2) /\ 2 \in 1..(l + 2) /\ \A i \in 1..l : 2 + i \in 1..(l + 2) /\ i \in 1..k
  BY <1>1, <1>2
<1>5. out[s + 1].from = blocks[b].index /\ out[s + 2].from = blocks[b].time
  BY ONLY <1>1, <1>3, <1>4
<1>6. ASSUME NEW i \in 1..l PROVE out[s + 2 + i].from = blocks[b].lines[i]
  <2>1. out[s + (2 + i)] = Answer(b, i)
    BY ONLY <1>1, <1>3, <1>4, i \in 1..l
  <2>2. s + (2 + i) = s + 2 + i
    BY <1>2
  <2>3. Answer(b, i).from = blocks[b].lines[i]
    BY <1>4, AnswerIs
  <2> QED BY ONLY <2>1, <2>2, <2>3
<1>7. /\ Copy(f, b, l).index = s + 1 /\ Copy(f, b, l).time = s + 2
      /\ Copy(f, b, l).lines = [i \in 1..l |-> s + 2 + i]
  BY DEF Copy
<1> HIDE DEF s, k, o
<1>8. DOMAIN Copy(f, b, l).lines = 1..l /\ Len(Copy(f, b, l).lines) = l
  BY <1>2, <1>7
<1>9. ASSUME NEW i \in 1..l PROVE out[Copy(f, b, l).lines[i]].from = blocks[b].lines[i]
  <2>1. Copy(f, b, l).lines[i] = s + 2 + i
    BY <1>7
  <2> QED BY <1>6, <2>1
<1> QED BY <1>5, <1>7, <1>8, <1>9

LEMMA CopiesAre ==
  ASSUME NEW f, NEW k \in Nat
  PROVE  Len(Copies(f, k)) = k /\ \A i \in 1..k : Copies(f, k)[i] = Copy(f, i, Len(blocks[i].lines))
BY DEF Copies

\* What Parse returns if the file ends after line j of block b: the blocks before,
\* and block b if one of its lines of text is there.
LEMMA EndsInBlock ==
  ASSUME Answered, NEW f, NEW b \in 1..Len(blocks), NEW j \in 1..Len(BlockOut(b))
  PROVE  LET q == Closed(Halfway(f, b, j))
             k == Len(blocks[b].lines)
         IN  /\ Len(q) = IF j <= 2 THEN b - 1 ELSE b
             /\ \A i \in 1..(b - 1) : q[i] = Copy(f, i, Len(blocks[i].lines))
             /\ j \in 3..(k + 2) => q[b] = Copy(f, b, j - 2)
             /\ j = k + 3 => q[b] = Copy(f, b, k)
<1> DEFINE k == Len(blocks[b].lines)
           p == Halfway(f, b, j)
           before == Copies(f, b - 1)
<1>1. k \in Nat \ {0} /\ Len(BlockOut(b)) = IF b < Len(blocks) THEN k + 3 ELSE k + 2
  BY BlockOutIs
<1>2. b - 1 \in Nat /\ b \in Nat /\ b \in 1..b
  BY BlocksAre DEF Answered
<1>3. Len(before) = b - 1 /\ \A i \in 1..(b - 1) : before[i] = Copy(f, i, Len(blocks[i].lines))
  BY <1>2, CopiesAre
<1> HIDE DEF k
<1>4. j \in Nat /\ j <= k + 3 /\ (j <= 2 \/ j \in 3..(k + 2) \/ j = k + 3)
  <2>1. j \in 1..(k + 3)
    BY <1>1
  <2> QED BY ONLY <1>1, <2>1
<1>5. CASE j <= 2
  <2>1. p.current.lines = <<>> /\ p.blocks = before
    <3>1. CASE j = 1
      BY <3>1 DEF Halfway, NoBlock
    <3>2. CASE j # 1
      <4>1. j = 2 /\ 2 - 2 = 0 /\ 2 <= k + 2 /\ 1..0 = {}
        BY <1>1, <1>4, <1>5, <3>2
      <4>2. p = [mode |-> "text", current |-> Copy(f, b, 0), blocks |-> before]
        BY <4>1 DEF Halfway, k
      <4>3. Copy(f, b, 0).lines = <<>>
        BY DEF Copy
      <4> QED BY <4>2, <4>3
    <3> QED BY <3>1, <3>2
  <2>2. Closed(p) = before
    BY <2>1 DEF Closed
  <2>3. j \notin 3..(k + 2) /\ j # k + 3
    BY <1>1, <1>4, <1>5
  <2> HIDE DEF before, p
  <2>4. Closed(p) = before /\ Len(before) = b - 1
    BY <1>3, <2>2
  <2> QED BY <1>3, <1>5, <2>3, <2>4 DEF k, p
<1>6. CASE j \in 3..(k + 2)
  <2>1. j # 1 /\ j <= k + 2 /\ ~(j <= 2) /\ j # k + 3 /\ j - 2 \in Nat \ {0}
    BY <1>1, <1>6
  <2>2. p = [mode |-> "text", current |-> Copy(f, b, j - 2), blocks |-> before]
    BY <2>1 DEF Halfway, k
  <2>3. Copy(f, b, j - 2).lines # <<>>
    <3>1. Copy(f, b, j - 2).lines = [i \in 1..(j - 2) |-> f[b - 1] + 2 + i]
      BY DEF Copy
    <3>2. 1 \in DOMAIN Copy(f, b, j - 2).lines /\ 1 \notin DOMAIN <<>>
      BY <2>1, <3>1
    <3> QED BY ONLY <3>2
  <2>4. Closed(p) = Append(before, Copy(f, b, j - 2))
    BY <2>2, <2>3 DEF Closed
  <2>5. PICK c : c = Copy(f, b, j - 2)
    OBVIOUS
  <2>6. /\ Len(Append(before, c)) = b /\ Append(before, c)[b] = c
        /\ \A i \in 1..(b - 1) : Append(before, c)[i] = before[i]
    <3>1. before = [i \in 1..(b - 1) |-> Copy(f, i, Len(blocks[i].lines))]
      BY DEF Copies
    <3> DEFINE X == {Copy(f, i, Len(blocks[i].lines)) : i \in 1..(b - 1)} \cup {c}
    <3>2. \A i \in 1..(b - 1) : Copy(f, i, Len(blocks[i].lines)) \in X
      OBVIOUS
    <3>3. c \in X
      OBVIOUS
    <3> HIDE DEF X, before
    <3>4. before \in Seq(X)
      BY <1>2, <3>1, <3>2
    <3> QED BY <1>2, <1>3, <3>3, <3>4
  <2> HIDE DEF before
  <2>7. /\ Len(Closed(p)) = b /\ Closed(p)[b] = Copy(f, b, j - 2)
        /\ \A i \in 1..(b - 1) : Closed(p)[i] = Copy(f, i, Len(blocks[i].lines))
    BY ONLY <1>3, <2>4, <2>5, <2>6
  <2> QED BY <2>1, <2>7 DEF k
<1>7. CASE j = k + 3
  <2>1. j # 1 /\ ~(j <= k + 2) /\ ~(j <= 2) /\ j \notin 3..(k + 2)
    BY <1>1, <1>7
  <2>2. p = Between(f, b)
    BY <2>1 DEF Halfway, k
  <2>3. Closed(p) = Copies(f, b)
    BY <2>2 DEF Closed, Between, NoBlock
  <2>4. /\ Len(Copies(f, b)) = b
        /\ \A i \in 1..b : Copies(f, b)[i] = Copy(f, i, Len(blocks[i].lines))
    BY <1>2, CopiesAre
  <2>5. \A i \in 1..(b - 1) : i \in 1..b
    BY <1>2
  <2> QED BY <1>2, <2>1, <2>3, <2>4, <2>5 DEF k
<1> QED BY <1>4, <1>5, <1>6, <1>7

\* What the parser returns of the output as it is.
LEMMA ReparsedIs ==
  ASSUME Answered, NoneBlank, Printed, Len(blocks) # 0
  PROVE  /\ Len(Reparsed) \in Nat /\ Len(Reparsed) <= Len(blocks)
         /\ \A i \in 1..Len(Reparsed) :
              Stands(Reparsed[i], blocks[i], i = Len(Reparsed) /\ out # Output)
         /\ Len(out) = Len(Output) => Len(Reparsed) = Len(blocks)
<1> DEFINE m == Len(blocks)
           n == Len(out)
<1>1. m \in Nat /\ m # 0 /\ n \in Nat /\ m \in 1..m /\ 1 \in 1..m
  BY BlocksAre DEF Answered, Printed
<1>2. PICK f : Lays(f)
  BY OutputIs
<1>3. PICK r : Reads(r, out) /\ Reparsed = Closed(r[n])
  BY ReparseReads DEF Printed
<1>4. ASSUME NEW b \in 1..m
      PROVE  /\ f[b] \in Nat /\ f[b - 1] \in Nat /\ f[b] = f[b - 1] + Len(BlockOut(b))
             /\ f[b] <= Len(Output)
             /\ Len(blocks[b].lines) \in Nat \ {0}
             /\ Len(BlockOut(b)) = IF b < m THEN Len(blocks[b].lines) + 3
                                   ELSE Len(blocks[b].lines) + 2
  <2>1. b \in 0..m /\ b - 1 \in 0..m
    BY <1>1
  <2>2. f[b] \in Nat /\ f[b - 1] \in Nat
    BY <1>2, <2>1 DEF Lays
  <2>3. f[b] = f[b - 1] + Len(BlockOut(b)) /\ f[b] <= Len(Output)
    BY <1>2 DEF Lays
  <2>4. /\ Len(blocks[b].lines) \in Nat \ {0}
        /\ Len(BlockOut(b)) = IF b < m THEN Len(blocks[b].lines) + 3
                              ELSE Len(blocks[b].lines) + 2
    BY BlockOutIs
  <2> QED BY ONLY <2>2, <2>3, <2>4
<1> HIDE DEF m, n
<1>5. CASE n = 0
  <2>1. Reparsed = <<>>
    BY <1>3, <1>5 DEF Reads, Fresh, NoBlock, Closed
  <2>2. Len(Output) # 0
    <3>1. PICK k \in Nat : k = Len(blocks[1].lines) /\ k # 0
      BY <1>1, <1>4
    <3>2. 1 - 1 = 0 /\ f[0] = 0
      BY <1>2 DEF Lays
    <3>3. f[1] \in Nat /\ f[1] = Len(BlockOut(1)) /\ f[1] <= Len(Output)
      <4>1. f[1] = f[1 - 1] + Len(BlockOut(1)) /\ f[1] \in Nat /\ f[1] <= Len(Output)
        BY <1>1, <1>4
      <4>2. Len(BlockOut(1)) \in Nat
        BY <1>1, <1>4
      <4> QED BY ONLY <3>2, <4>1, <4>2
    <3>4. Len(BlockOut(1)) = k + 3 \/ Len(BlockOut(1)) = k + 2
      BY <1>1, <1>4, <3>1
    <3> QED BY ONLY <3>1, <3>3, <3>4
  <2>3. Len(Reparsed) = 0 /\ 1..0 = {}
    BY <2>1
  <2> QED BY <1>1, <1>5, <2>2, <2>3 DEF n, m
<1>6. CASE n # 0
  <2>1. n \in 1..n
    BY <1>1, <1>6
  <2>2. PICK b \in 1..m : \E j \in 1..Len(BlockOut(b)) : Reached(f, r, n, b, j)
    BY <1>2, <1>3, <2>1, ReadsBlocks DEF n, m
  <2>3. PICK j \in 1..Len(BlockOut(b)) : Reached(f, r, n, b, j)
    BY <2>2
  <2> DEFINE k == Len(blocks[b].lines)
             q == Reparsed
  <2>4. n = f[b - 1] + j /\ q = Closed(Halfway(f, b, j))
    BY <1>3, <2>3 DEF Reached
  <2>5. /\ Len(q) = IF j <= 2 THEN b - 1 ELSE b
        /\ \A i \in 1..(b - 1) : q[i] = Copy(f, i, Len(blocks[i].lines))
        /\ j \in 3..(k + 2) => q[b] = Copy(f, b, j - 2)
        /\ j = k + 3 => q[b] = Copy(f, b, k)
    BY <2>4, EndsInBlock DEF m
  <2>6. /\ b \in Nat /\ b <= m /\ b # 0 /\ k \in Nat \ {0} /\ j \in Nat \ {0} /\ j <= k + 3
        /\ f[b - 1] \in Nat /\ f[b] \in Nat /\ f[b] <= Len(Output)
        /\ j <= Len(BlockOut(b)) /\ f[b] = f[b - 1] + Len(BlockOut(b))
        /\ Len(BlockOut(b)) = IF b < m THEN k + 3 ELSE k + 2
    <3>1. b \in Nat /\ b <= m /\ b # 0
      BY <1>1
    <3>2. /\ k \in Nat \ {0} /\ f[b - 1] \in Nat /\ f[b] \in Nat /\ f[b] <= Len(Output)
          /\ f[b] = f[b - 1] + Len(BlockOut(b))
          /\ Len(BlockOut(b)) = IF b < m THEN k + 3 ELSE k + 2
      BY <1>4
    <3> HIDE DEF k
    <3>3. j \in Nat \ {0} /\ j <= Len(BlockOut(b)) /\ j <= k + 3
      BY <3>2
    <3> QED BY ONLY <3>1, <3>2, <3>3
  <2> HIDE DEF k, q
  <2>7. Len(q) \in Nat /\ Len(q) <= m
    BY ONLY <1>1, <2>5, <2>6
  <2>8. n = Len(Output) => b = m /\ j = k + 2
    <3> SUFFICES ASSUME n = Len(Output) PROVE b = m /\ j = k + 2
      OBVIOUS
    <3>1. j = Len(BlockOut(b))
      <4>1. f[b - 1] + Len(BlockOut(b)) <= f[b - 1] + j
        BY <2>4, <2>6
      <4>2. Len(BlockOut(b)) \in Nat
        BY ONLY <2>6
      <4> QED BY ONLY <2>6, <4>1, <4>2
    <3>2. b = m
      <4>0. b \in Nat /\ m \in Nat /\ b <= m
        BY ONLY <1>1, <2>6
      <4> SUFFICES ASSUME b < m PROVE FALSE
        BY <4>0
      <4>1. b + 1 \in 1..m /\ b + 1 - 1 = b
        BY <1>1, <2>6
      <4>2. f[b + 1] = f[b] + Len(BlockOut(b + 1)) /\ f[b + 1] <= Len(Output)
            /\ Len(BlockOut(b + 1)) \in Nat \ {0} /\ f[b + 1] \in Nat
        <5>1. /\ f[b + 1] = f[b] + Len(BlockOut(b + 1)) /\ f[b + 1] <= Len(Output)
              /\ f[b + 1] \in Nat
          BY <1>4, <4>1
        <5>2. PICK l \in Nat \ {0} : l = Len(blocks[b + 1].lines)
          BY <1>4, <4>1
        <5>3. Len(BlockOut(b + 1)) = l + 3 \/ Len(BlockOut(b + 1)) = l + 2
          BY <1>4, <4>1, <5>2
        <5>4. Len(BlockOut(b + 1)) \in Nat \ {0}
          BY <5>3
        <5> QED BY ONLY <5>1, <5>4
      <4>3. Len(Output) = f[b]
        BY <2>4, <2>6, <3>1
      <4> QED BY ONLY <2>6, <4>2, <4>3
    <3> QED BY ONLY <1>1, <2>6, <3>1, <3>2
  <2>9. n = Len(Output) => Len(q) = m
    <3>1. k + 2 > 2
      BY <2>6
    <3> QED BY <2>5, <2>6, <2>8, <3>1
  <2>10. ASSUME NEW i \in 1..(b - 1)
         PROVE  Stands(q[i], blocks[i], i = Len(q) /\ out # Output)
    <3> DEFINE l == Len(blocks[i].lines)
    <3>1. i \in 1..m /\ i \in 1..(b - 1) /\ b - 1 \in 1..m
      BY <1>1, <2>6
    <3>2. l \in 1..l /\ f[i - 1] + 2 + l <= n
      <4>1. /\ l \in Nat \ {0} /\ f[i - 1] \in Nat /\ f[i] \in Nat
            /\ f[i] = f[i - 1] + Len(BlockOut(i))
            /\ Len(BlockOut(i)) = IF i < m THEN l + 3 ELSE l + 2
        BY <1>4, <3>1
      <4>2. f[i] <= f[b - 1]
        BY <1>2, <3>1 DEF Lays, m
      <4> HIDE DEF l
      <4>3. f[i - 1] + 2 + l <= f[i]
        BY ONLY <4>1
      <4>4. f[b - 1] <= n
        BY ONLY <2>4, <2>6
      <4>5. f[i - 1] + 2 + l \in Nat
        BY ONLY <4>1
      <4>6. PICK x \in Nat : x = f[i - 1] + 2 + l
        BY ONLY <4>5
      <4>7. PICK y \in Nat : y = f[i]
        BY ONLY <4>1
      <4>8. PICK z \in Nat : z = f[b - 1]
        BY ONLY <2>6
      <4>9. n \in Nat
        BY ONLY <1>1
      <4>10. x <= y /\ y <= z /\ z <= n
        BY ONLY <4>2, <4>3, <4>4, <4>6, <4>7, <4>8
      <4>11. x <= n
        BY ONLY <4>9, <4>10
      <4> QED BY ONLY <4>1, <4>6, <4>11
    <3>3. q[i] = Copy(f, i, l)
      BY <2>5
    <3>5. l \in 1..Len(blocks[i].lines)
      BY <3>2
    <3> HIDE DEF l
    <3>4. /\ out[q[i].index].from = blocks[i].index /\ out[q[i].time].from = blocks[i].time
          /\ DOMAIN q[i].lines = 1..l /\ Len(q[i].lines) = l
          /\ \A x \in 1..l : out[q[i].lines[x]].from = blocks[i].lines[x]
      BY <1>2, <3>1, <3>2, <3>3, <3>5, CopyStands DEF n, m
    <3> QED BY ONLY <3>4 DEF Stands, l
  <2>11. ASSUME j > 2
         PROVE  Stands(q[b], blocks[b], b = Len(q) /\ out # Output)
    <3> DEFINE l == IF j = k + 3 THEN k ELSE j - 2
    <3>1. /\ l \in 1..k /\ f[b - 1] + 2 + l <= n
          /\ l # k => l < k /\ j < Len(BlockOut(b))
      <4>1. j \in 3..(k + 3)
        BY <2>6, <2>11
      <4>2. l \in 1..k /\ l + 2 <= j
        BY <2>6, <4>1
      <4>3. l # k => l < k /\ j < Len(BlockOut(b))
        BY <2>6, <4>1
      <4> HIDE DEF l
      <4>4. f[b - 1] + 2 + l <= n
        BY <2>4, <2>6, <4>2
      <4> QED BY <4>2, <4>3, <4>4
    <3>2. q[b] = Copy(f, b, l) /\ Len(q) = b
      <4>1. j = k + 3 \/ j \in 3..(k + 2)
        BY <2>6, <2>11
      <4> QED BY <2>5, <2>6, <2>11, <4>1
    <3> HIDE DEF l
    <3>3. /\ out[q[b].index].from = blocks[b].index /\ out[q[b].time].from = blocks[b].time
          /\ DOMAIN q[b].lines = 1..l /\ Len(q[b].lines) = l
          /\ \A x \in 1..l : out[q[b].lines[x]].from = blocks[b].lines[x]
      <4>1. l \in 1..Len(blocks[b].lines) /\ b \in 1..Len(blocks)
        BY ONLY <3>1, <2>6 DEF k, m
      <4>2. f[b - 1] + 2 + l <= Len(out)
        BY ONLY <3>1 DEF n
      <4>3. LET new == Copy(f, b, l)
            IN  /\ out[new.index].from = blocks[b].index /\ out[new.time].from = blocks[b].time
                /\ DOMAIN new.lines = 1..l /\ Len(new.lines) = l
                /\ \A x \in 1..l : out[new.lines[x]].from = blocks[b].lines[x]
        BY ONLY Answered, Printed, <1>2, <4>1, <4>2, CopyStands
      <4> QED BY ONLY <3>2, <4>3
    <3>4. l # k => out # Output
      <4> SUFFICES ASSUME l # k, out = Output PROVE FALSE
        OBVIOUS
      <4>1. n = Len(Output)
        BY DEF n
      <4>2. j = k + 2 /\ b = m
        BY <2>8, <4>1
      <4> QED BY <2>6, <3>1, <4>2
    <3>5. \/ Len(q[b].lines) = Len(blocks[b].lines)
          \/ (b = Len(q) /\ out # Output) /\ Len(q[b].lines) < Len(blocks[b].lines)
      BY ONLY <3>1, <3>2, <3>3, <3>4 DEF k
    <3> QED BY ONLY <3>3, <3>5 DEF Stands
  <2>12. ASSUME NEW i \in 1..Len(q)
         PROVE  Stands(q[i], blocks[i], i = Len(q) /\ out # Output)
    <3>1. i \in 1..(b - 1) \/ (i = b /\ j > 2)
      BY <2>5, <2>6
    <3> QED BY <2>10, <2>11, <3>1
  <2> QED BY <2>7, <2>9, <2>12 DEF n, m, q
<1> QED BY <1>5, <1>6

-----------------------------------------------------------------------------
(* The output of processFile. *)

\* Translations and output appear in this order, and Write prints Output line by line.
Written ==
  /\ phase \in {"reading", "parsed", "translating"} => answers = <<>>
  /\ phase \in {"parsed", "translating"} => parser.mode = "done"
  /\ phase = "translating" =>
       texts # <<>> /\ texts = FlattenSeq([b \in DOMAIN blocks |-> Refs(b)])
  /\ phase = "writing" => answers # <<>>
  /\ answers = <<>> => out = <<>>
  /\ answers # <<>> =>
       /\ Answered /\ Printed /\ Len(blocks) # 0
       /\ phase = "ok" => Len(out) = Len(Output)

LEMMA OutputType == Answered => Output \in Seq(OutLine)
BY OutputIs

LEMMA InitWritten == Init => Written
<1> SUFFICES ASSUME Init PROVE Written
  OBVIOUS
<1> QED BY DEF Init, Written

LEMMA TranslateKeeps ==
  ASSUME IInv, Written, Translate
  PROVE  Written'
<1>1. CASE phase' = "failed" /\ UNCHANGED answers
  BY <1>1 DEF Translate, Written
<1>2. CASE answers' \in [DOMAIN texts -> Translations] /\ phase' = "writing"
  <2>1. /\ phase = "translating" /\ UNCHANGED <<file, parser, texts, out>>
        /\ parser.mode = "done" /\ texts # <<>> /\ out = <<>>
        /\ texts = FlattenSeq([b \in DOMAIN blocks |-> Refs(b)])
    BY DEF Translate, Written
  <2>2. blocks \in Seq(Blocks) /\ UNCHANGED blocks
    BY <2>1 DEF IInv, Shape, blocks
  <2>3. \A b \in 1..Len(blocks) : blocks[b].lines # <<>>
    <3>1. BlocksAreParagraphs /\ DOMAIN blocks = 1..Len(blocks)
      BY <2>1, <2>2 DEF IInv
    <3> QED BY <3>1 DEF BlocksAreParagraphs, IsBlock
  <2>4. texts \in Seq(Nat \X Nat) /\ Len(blocks) # 0
    BY <2>1, <2>2, RefsFound
  <2>5. answers' # <<>>
    <3>1. DOMAIN texts # {}
      <4>1. Len(texts) \in Nat /\ Len(texts) # 0 /\ DOMAIN texts = 1..Len(texts)
        BY <2>1, <2>4
      <4>2. 1 \in 1..Len(texts)
        BY <4>1
      <4> QED BY <4>1, <4>2
    <3>2. DOMAIN answers' = DOMAIN texts
      BY <1>2
    <3>3. DOMAIN <<>> = {}
      OBVIOUS
    <3> QED BY ONLY <3>1, <3>2, <3>3
  <2>6. Answered'
    <3>1. texts' = FlattenSeq([b \in DOMAIN blocks' |-> Refs(b)'])
      BY <2>1, <2>2 DEF Refs, blocks
    <3> QED BY <1>2, <2>1, <2>2, <2>3, <3>1 DEF Answered
  <2>7. Printed'
    <3>1. (Answered => Output \in Seq(OutLine))'
      BY OutputType, PTL
    <3>2. OutLine' = OutLine
      BY DEF OutLine
    <3>3. Output' \in Seq(OutLine)
      BY <2>6, <3>1, <3>2
    <3>4. Len(Output') \in Nat /\ Len(<<>>) = 0 /\ 1..0 = {} /\ <<>> \in Seq(OutLine)
      BY <3>3
    <3> QED BY <2>1, <3>2, <3>4 DEF Printed
  <2> QED BY <1>2, <2>1, <2>2, <2>4, <2>5, <2>6, <2>7 DEF Written
<1> QED BY <1>1, <1>2 DEF Translate

LEMMA WriteKeeps ==
  ASSUME IInv, Written, WriteLine
  PROVE  Written'
<1>1. /\ phase = "writing" /\ answers # <<>> /\ Answered /\ Printed /\ Len(blocks) # 0
      /\ UNCHANGED <<file, parser, texts, answers>>
  BY DEF WriteLine, Written
<1>2. UNCHANGED <<blocks, Output>> /\ (Answered' <=> Answered)
  <2>1. UNCHANGED <<parser, texts, answers>>
    BY <1>1
  <2>2. UNCHANGED blocks
    BY <2>1 DEF blocks
  <2>3. UNCHANGED Output
    BY <2>1, <2>2 DEF Output, BlockOut, Answer, Separator, blocks
  <2> QED BY <2>1, <2>2, <2>3 DEF Answered, Refs, blocks
<1>3. Output \in Seq(OutLine) /\ out \in Seq(OutLine) /\ Len(out) \in Nat /\ Len(Output) \in Nat
  <2>1. Output \in Seq(OutLine) /\ out \in Seq(OutLine)
    BY <1>1, OutputIs DEF Printed
  <2> QED BY <2>1
<1>4. CASE /\ Len(out) < Len(Output)
           /\ out' = Append(out, Output[Len(out) + 1]) /\ UNCHANGED phase
  <2>1. Len(out) + 1 \in 1..Len(Output)
    BY <1>3, <1>4
  <2>2. PICK x \in OutLine : x = Output[Len(out) + 1]
    BY <1>3, <2>1
  <2>3. out' = Append(out, x)
    BY <1>4, <2>2
  <2>4. /\ out' \in Seq(OutLine) /\ Len(out') = Len(out) + 1
        /\ \A n \in 1..Len(out) : out'[n] = out[n]
        /\ out'[Len(out) + 1] = x
    BY <1>3, <2>3
  <2>5. ASSUME NEW n \in 1..Len(out') PROVE out'[n] = Output[n]
    <3>1. CASE n \in 1..Len(out)
      BY <1>1, <2>4, <3>1 DEF Printed
    <3>2. CASE n \notin 1..Len(out)
      <4>1. n = Len(out) + 1
        BY <1>3, <2>4, <3>2
      <4> QED BY <2>2, <2>4, <4>1
    <3> QED BY <3>1, <3>2
  <2>6. Len(out') <= Len(Output)
    BY <1>3, <2>1, <2>4
  <2>7. Printed'
    BY <1>2, <2>4, <2>5, <2>6 DEF Printed, OutLine
  <2> QED BY <1>1, <1>2, <1>4, <2>7 DEF Written
<1>5. CASE Len(out) < Len(Output) /\ phase' = "failed" /\ UNCHANGED out
  <2>1. Printed'
    BY <1>1, <1>2, <1>5 DEF Printed, OutLine
  <2> QED BY <1>1, <1>2, <1>5, <2>1 DEF Written
<1>6. CASE ~(Len(out) < Len(Output)) /\ phase' = "ok" /\ UNCHANGED out
  <2>1. Printed'
    BY <1>1, <1>2, <1>6 DEF Printed, OutLine
  <2>2. Len(out') = Len(Output')
    BY <1>1, <1>2, <1>3, <1>6 DEF Printed
  <2> QED BY <1>1, <1>2, <1>6, <2>1, <2>2 DEF Written
<1> QED BY <1>4, <1>5, <1>6 DEF WriteLine

LEMMA NextWritten == IInv /\ Written /\ [Next]_vars => Written'
<1> SUFFICES ASSUME IInv, Written, [Next]_vars PROVE Written'
  OBVIOUS
<1>1. CASE \E kind \in Kinds : ReadLine(kind)
  BY <1>1 DEF ReadLine, Written
<1>2. CASE EndOfFile
  BY <1>2 DEF EndOfFile, Written, IInv, Shape
<1>3. CASE ReadFails
  BY <1>3 DEF ReadFails, Written
<1>4. CASE Collect
  <2>1. UNCHANGED blocks /\ UNCHANGED <<parser, out, answers>> /\ phase = "parsed"
    BY <1>4 DEF Collect, blocks
  <2>2. texts' = FlattenSeq([b \in DOMAIN blocks' |-> Refs(b)'])
    BY <1>4, <2>1 DEF Collect, Refs
  <2>3. phase' = "ok" \/ (phase' = "translating" /\ texts' # <<>>)
    BY <1>4 DEF Collect
  <2> QED BY <2>1, <2>2, <2>3 DEF Written
<1>5. CASE Translate
  BY <1>5, TranslateKeeps
<1>6. CASE WriteLine
  BY <1>6, WriteKeeps
<1>7. CASE UNCHANGED vars
  <2>1. UNCHANGED <<parser, phase, texts, answers, out>> /\ UNCHANGED blocks
    BY <1>7 DEF vars, blocks
  <2>2. UNCHANGED Output
    BY <2>1 DEF Output, BlockOut, Answer, Separator, blocks
  <2>3. Answered' <=> Answered
    BY <2>1, <2>2 DEF Answered, Refs, blocks
  <2>4. Printed' <=> Printed
    BY <2>1, <2>2 DEF Printed, OutLine
  <2>5. texts' = texts /\ FlattenSeq([b \in DOMAIN blocks' |-> Refs(b)'])
                            = FlattenSeq([b \in DOMAIN blocks |-> Refs(b)])
    BY <2>1 DEF Refs, blocks
  <2> QED BY <2>1, <2>2, <2>3, <2>4, <2>5 DEF Written
<1> QED BY <1>1, <1>2, <1>3, <1>4, <1>5, <1>6, <1>7 DEF Next

\* srt.Write (writer.go:9-38) after Parse: for files of any length and answers of
\* every kind but an empty line, what is written reads back as the blocks of the
\* file, all of them if the file was finished, and otherwise those begun before a
\* write failed, the last of them up to there.
THEOREM OutputReadsAgain == Spec => []OutputReadsBack
<1>1. Spec => []Written
  BY InitWritten, NextWritten, AlwaysIInv, PTL DEF Spec
<1>2. IInv /\ Written => OutputReadsBack
  <2> SUFFICES ASSUME IInv, Written, \A t \in DOMAIN answers : answers[t] # "blank"
               PROVE  /\ Len(Reparsed) <= Len(blocks)
                      /\ \A i \in DOMAIN Reparsed :
                           Stands(Reparsed[i], blocks[i], i = Len(Reparsed) /\ out # Output)
                      /\ answers # <<>> /\ phase = "ok" => Len(Reparsed) = Len(blocks)
    BY DEF OutputReadsBack
  <2>1. CASE answers = <<>>
    <3>1. out = <<>> /\ out \in Seq(OutLine)
      BY <2>1 DEF Written
    <3>2. Reparsed = <<>>
      <4>1. PICK r : Reads(r, out) /\ Reparsed = Closed(r[Len(out)])
        BY <3>1, ReparseReads
      <4>2. Len(out) = 0 /\ r[0] = Fresh
        BY <3>1, <4>1 DEF Reads
      <4> QED BY <4>1, <4>2 DEF Closed, Fresh, NoBlock
    <3>3. Len(blocks) \in Nat
      BY DEF IInv, Shape, blocks
    <3>4. Len(Reparsed) = 0 /\ DOMAIN Reparsed = {}
      BY <3>2
    <3> QED BY <2>1, <3>3, <3>4
  <2>2. CASE answers # <<>>
    <3>1. Answered /\ Printed /\ Len(blocks) # 0 /\ (phase = "ok" => Len(out) = Len(Output))
      BY <2>2 DEF Written
    <3>2. NoneBlank
      BY DEF NoneBlank
    <3>3. /\ Len(Reparsed) \in Nat /\ Len(Reparsed) <= Len(blocks)
          /\ \A i \in 1..Len(Reparsed) :
               Stands(Reparsed[i], blocks[i], i = Len(Reparsed) /\ out # Output)
          /\ Len(out) = Len(Output) => Len(Reparsed) = Len(blocks)
      BY <3>1, <3>2, ReparsedIs
    <3>4. DOMAIN Reparsed = 1..Len(Reparsed)
      <4>1. PICK r : Reads(r, out) /\ Reparsed = Closed(r[Len(out)])
        BY <3>1, ReparseReads DEF Printed
      <4> QED OBVIOUS
    <3> QED BY <3>1, <3>3, <3>4
  <2> QED BY <2>1, <2>2
<1> QED BY <1>1, <1>2, AlwaysIInv, PTL

=============================================================================
