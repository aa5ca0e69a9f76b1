---------------------------- MODULE MCFrontEnd ----------------------------
(* FrontEnd with a tree of two drives, three folders in one and one in one   *)
(* of these, and command lines with the cases that matter for their merge.   *)
EXTENDS FrontEnd

CONSTANTS c, d, a1, a2, a3, deep

DirsValue == {c, d, a1, a2, a3, deep}
ParentValue ==
  c :> c @@ d :> d @@ a1 :> c @@ a2 :> c @@ a3 :> c @@ deep :> a2
ListingValue ==
  c :> <<a1, a2, a3>> @@ d :> <<>> @@ a1 :> <<>> @@ a2 :> <<deep>> @@ a3 :> <<>> @@ deep :> <<>>
DrivesValue == <<c, d>>

Command(i, h, fl, fi) ==
  [version |-> FALSE, interactive |-> i, hasFile |-> h, flags |-> fl, file |-> fi]

\* None of the flags is given, one of them, or all.
Given(o, t) ==
  LET all == [dir |-> a1, api |-> ValidURL, concurrency |-> 2, overwrite |-> o, adaptive |-> t]
  IN  {Restrict(all, S) : S \in {{}, DOMAIN all} \cup {{f} : f \in DOMAIN all}}

\* Files that set everything, nothing, or what is not taken over.
Contents ==
  {[dir |-> a2, api |-> BadURL, concurrency |-> 1, overwrite |-> TRUE, adaptive |-> FALSE],
   [concurrency |-> 0, overwrite |-> FALSE], <<>>}

CommandLinesValue ==
  {Command(FALSE, TRUE, fl, fi) : fl \in Given(FALSE, FALSE), fi \in Contents}
  \cup {Command(FALSE, FALSE, fl, <<>>) : fl \in Given(TRUE, FALSE)}
  \cup {Command(TRUE, FALSE, <<>>, <<>>), Command(FALSE, FALSE, [concurrency |-> 0], <<>>),
        [Command(FALSE, FALSE, [dir |-> Nowhere], <<>>) EXCEPT !.version = TRUE]}

=============================================================================
