--------------------------- MODULE MCTranslateClient ---------------------------
(* TranslateClient on small files, and the recursion its fallback stands for. *)
EXTENDS TranslateClient

CONSTANTS Hello, HELLO, Bye

\* Two of three lines differ in case only.
NormalValue == [line \in Lines |-> IF line = HELLO THEN Hello ELSE line]

\* No line, one line, and three: alike, sharing an entry next to each other or
\* not, with one of them first or last put, and alone.
InputsValue ==
  {<<>>, <<Bye>>, <<Hello, Hello, Hello>>, <<HELLO, Hello, Bye>>,
   <<Hello, Bye, HELLO>>, <<Bye, Hello, HELLO>>, <<Bye, HELLO, Bye>>}

\* translateSplit as it is written, on the lines it would send alone.
RECURSIVE SplitOrder(_)
SplitOrder(b) ==
  IF Len(b) <= 1 THEN b
  ELSE LET mid == Len(b) \div 2
       IN  SplitOrder(SubSeq(b, 1, mid)) \o SplitOrder(SubSeq(b, mid + 1, Len(b)))

\* translate.go:104-122: the recursion sends the lines of a batch one by one,
\* from left to right, as the steps of TranslateClient do.
ASSUME SplitGoesLeftToRight ==
  \A n \in 0..12 : LET b == [i \in 1..n |-> i] IN SplitOrder(b) = b

=============================================================================
