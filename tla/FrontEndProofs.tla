--------------------------- MODULE FrontEndProofs ---------------------------
(***************************************************************************)
(* Proofs about FrontEnd.  What the command line promises follows from the *)
(* steps alone; the health check, the browser and the dashboard need       *)
(* invariants of their own: ProbeSound, BrowserSound and ScreenSound.      *)
(***************************************************************************)
EXTENDS FrontEnd, FiniteSetTheorems, TLAPS

-----------------------------------------------------------------------------
(* The command line *)

\* Only the command line leads from the shell into a run.
LEMMA OnlyParseFlags ==
  ASSUME [Next]_vars, where = "shell", where' = "checking"
  PROVE  ParseFlags
<1>1. CASE Menus
  BY <1>1 DEF Menus, MainMenu, ChooseDirectory, TypeDirectory, Confirm, ChangeSettings,
              Pause, OpenBrowser, BrowserKey, CloseBrowser
<1>2. CASE HealthCheck
  BY <1>2 DEF HealthCheck, CheckContext, SendProbe, ProbeSucceeds, ProbeFails, RetryDelayEnds,
              CheckCancelled, Probing
<1>3. CASE Work \/ Draw \/ Finish \/ Report \/ Signal \/ \E d \in Dirs : Disappear(d)
  BY <1>3 DEF Work, Draw, front, Finish, Report, Signal, Disappear
<1>4. CASE UNCHANGED vars
  BY <1>4 DEF vars, front
<1> QED BY <1>1, <1>2, <1>3, <1>4 DEF Next

\* main.go:98: a setting of the run is the flag's, else the file's, else the
\* default, whatever is given and on every command line.
THEOREM FlagsWin == Spec => FlagsOverrideFile
<1> DEFINE Wanted(f) ==
      CASE f \in DOMAIN args.flags -> args.flags[f]
        [] f \notin DOMAIN args.flags /\ args.hasFile /\ f \in DOMAIN args.file
           /\ Counts(args.file, f) -> args.file[f]
        [] OTHER -> Default[f]
<1> DEFINE Merged == \A f \in DOMAIN Default \ {"adaptive"} : cfg'[f] = Wanted(f)
<1>1. ASSUME [Next]_vars, where = "shell", where' = "checking" PROVE Merged
  <2>1. ParseFlags
    BY <1>1, OnlyParseFlags
  <2>2. ~args.version /\ ~StartsInteractive(args)
        /\ cfg' = IF args.hasFile
                  THEN Overlay(Reapplied(args.flags), LoadFromFile(args.file))
                  ELSE Overlay(args.flags, Default)
    BY <1>1, <2>1 DEF ParseFlags, Enters
  <2> SUFFICES ASSUME NEW f \in DOMAIN Default \ {"adaptive"} PROVE cfg'[f] = Wanted(f)
    OBVIOUS
  <2>3. CASE ~args.hasFile
    BY <2>2, <2>3 DEF Overlay
  <2>4. CASE args.hasFile /\ f \in DOMAIN args.flags
    BY <2>2, <2>4 DEF Overlay, Reapplied, Restrict
  <2>5. CASE args.hasFile /\ f \notin DOMAIN args.flags
    <3>1. f \in DOMAIN LoadFromFile(args.file) /\ cfg'[f] = LoadFromFile(args.file)[f]
      BY <2>2, <2>5 DEF Overlay, Reapplied, Restrict, LoadFromFile
    <3>2. LoadFromFile(args.file)[f]
            = IF f \in DOMAIN args.file /\ Counts(args.file, f) THEN args.file[f] ELSE Default[f]
      BY DEF LoadFromFile, Overlay, Restrict
    <3> QED BY <2>5, <3>1, <3>2
  <2> QED BY <2>3, <2>4, <2>5
<1>2. [Next]_vars => (where = "shell" /\ where' = "checking" => Merged)
  BY <1>1
<1> QED BY <1>2, PTL DEF Spec, FlagsOverrideFile

-----------------------------------------------------------------------------
(* The browser *)

\* A list of folders, as far as the cursor depends on it.
Listed(folders) ==
  folders # <<>> => Len(folders) \in Nat \ {0} /\ DOMAIN folders = 1..Len(folders)

\* A browser between two keys, and in the middle of a turn of its loop.
Sane(b) ==
  /\ DOMAIN b = {"current", "cursor", "scroll", "back", "fwd", "entries"}
  /\ b.cursor \in Int /\ b.scroll \in Int
  /\ Listed(b.entries)

\* The cursor is on a listed folder, and in the window.
Visible(b) ==
  b.entries # <<>> =>
    /\ b.cursor \in DOMAIN b.entries
    /\ b.scroll < b.cursor /\ b.cursor <= b.scroll + MaxVisible

BrowserSound ==
  /\ Sane(browser)
  /\ where = "browse" => Visible(browser)

\* What listFolders returns is a list, of any directory.
LEMMA FoldersListed ==
  ASSUME NEW d
  PROVE  Listed(Folders(d))
<1> DEFINE all == IF d \in Dirs \ gone THEN Listing[d] ELSE <<>>
           left == {i \in DOMAIN all : Exists(all[i])}
           Place(i) == Cardinality({j \in left : j <= i})
           Folder(n) == all[CHOOSE i \in left : Place(i) = n]
           number == Cardinality(left)
           T == {Folder(n) : n \in 1..number}
<1>1. Folders(d) = [n \in 1..number |-> Folder(n)]
  BY DEF Folders
<1>2. number \in Nat
  <2>1. all \in Seq(Dirs)
    <3>1. CASE d \in Dirs \ gone
      BY <3>1, FrontEndAssumption
    <3>2. CASE d \notin Dirs \ gone
      BY <3>2
    <3> QED BY <3>1, <3>2
  <2>2. DOMAIN all = 1..Len(all) /\ Len(all) \in Nat
    BY <2>1
  <2>3. IsFiniteSet(1..Len(all))
    BY <2>2, FS_Interval
  <2>4. left \in SUBSET (1..Len(all))
    BY <2>2
  <2> HIDE DEF left
  <2>5. IsFiniteSet(left)
    BY <2>3, <2>4, FS_Subset
  <2> QED BY <2>5, FS_CardinalityType
<1> HIDE DEF number, Folder
<1>3. [n \in 1..number |-> Folder(n)] \in Seq(T)
  BY <1>2
<1> QED
  <2>1. ASSUME NEW f \in Seq(T), f # <<>> PROVE Len(f) \in Nat \ {0} /\ DOMAIN f = 1..Len(f)
    BY ONLY <2>1
  <2> QED BY <1>1, <1>3, <2>1 DEF Listed

\* The cursor is brought between the ends of a list.
LEMMA BetweenIn ==
  ASSUME NEW n \in Int, NEW high \in Nat \ {0}
  PROVE  Between(1, n, high) \in 1..high
BY DEF Between

\* Whatever a key made of the browser, the top of the loop puts that right.
LEMMA ShownIsSound ==
  ASSUME NEW b, Sane(b)
  PROVE  Sane(Shown(b)) /\ Visible(Shown(b))
<1> DEFINE entries == Folders(b.current)
           high == IF entries = <<>> THEN 1 ELSE Len(entries)
           cursor == Between(1, b.cursor, high)
           top == Scrolled(cursor, b.scroll)
           shown == [b EXCEPT !.entries = entries, !.cursor = cursor, !.scroll = top]
<1>1. Shown(b) = shown
  BY DEF Shown
<1>2. Listed(entries)
  BY FoldersListed
<1> HIDE DEF entries
<1>3. high \in Nat \ {0}
  BY <1>2 DEF Listed
<1>4. entries # <<>> => DOMAIN entries = 1..high
  BY <1>2 DEF Listed
<1> HIDE DEF high
<1>5. b.cursor \in Int /\ b.scroll \in Int
  BY DEF Sane
<1>6. cursor \in 1..high
  BY <1>3, <1>5, BetweenIn
<1> HIDE DEF cursor
<1>7. /\ cursor \in Int /\ top \in Int
      /\ top < cursor /\ cursor <= top + MaxVisible
  BY <1>3, <1>5, <1>6, FrontEndAssumption DEF Scrolled
<1> HIDE DEF top
<1>8. /\ DOMAIN shown = {"current", "cursor", "scroll", "back", "fwd", "entries"}
      /\ shown.cursor = cursor /\ shown.scroll = top /\ shown.entries = entries
  BY DEF Sane
<1> HIDE DEF shown
<1>9. Sane(shown)
  BY <1>2, <1>7, <1>8 DEF Sane
<1>10. Visible(shown)
  BY <1>4, <1>6, <1>7, <1>8 DEF Visible
<1> QED BY <1>1, <1>9, <1>10

\* No key makes anything else of the browser.
LEMMA KeysAreSane ==
  ASSUME NEW b, Sane(b), NEW d
  PROVE  /\ Sane(Up1(b)) /\ Sane(Down1(b))
         /\ Sane(Visited(b, d)) /\ Sane(Entered(b)) /\ Sane(ToParent(b))
         /\ Sane(Back(b)) /\ Sane(Forward(b))
<1>1. ASSUME NEW n \in Int PROVE Sane([b EXCEPT !.cursor = n])
  BY DEF Sane
<1>2. Sane(Up1(b))
  <2>1. Between(1, b.cursor - 1, b.cursor) \in Int
    BY DEF Between, Sane
  <2> QED BY <1>1, <2>1 DEF Up1
<1>3. Sane(Down1(b))
  <2>1. Between(1, b.cursor + 1, IF b.entries = <<>> THEN 1 ELSE Len(b.entries)) \in Int
    BY DEF Between, Sane, Listed
  <2> QED BY <1>1, <2>1 DEF Down1
<1>4. \A e : Sane(Visited(b, e))
  BY DEF Visited, At, Sane
<1>5. Sane(Entered(b)) /\ Sane(ToParent(b))
  BY <1>4 DEF Entered, ToParent
<1>6. Sane(Back(b))
  <2>1. CASE IsRoot(b.current) /\ b.back # <<>>
    BY <2>1 DEF Back, At, Sane
  <2>2. CASE ~(IsRoot(b.current) /\ b.back # <<>>)
    BY <1>5, <2>2 DEF Back
  <2> QED BY <2>1, <2>2
<1>7. Sane(Forward(b))
  BY DEF Forward, At, Sane
<1> QED BY <1>2, <1>3, <1>4, <1>5, <1>6, <1>7

\* A browser that is not open.
LEMMA ClosedIsSane == Sane(Closed)
BY DEF Sane, Closed, Listed

\* Where the browser opens, the cursor is a number.
LEMMA StartsAreSane ==
  ASSUME NEW b \in Starts
  PROVE  Sane(b)
<1> DEFINE here == Parent[cfg.dir]
           known == {n \in DOMAIN Folders(here) : Folders(here)[n] = cfg.dir}
<1>1. CASE cfg.dir = Dot
  <2>1. PICK d : b = [Closed EXCEPT !.current = d]
    BY <1>1 DEF Starts
  <2> QED BY <2>1 DEF Closed, Sane, Listed
<1>2. CASE cfg.dir # Dot
  <2> DEFINE start == IF known = {} THEN 1 ELSE CHOOSE n \in known : TRUE
  <2>1. b = [Closed EXCEPT !.current = here, !.cursor = start]
    BY <1>2 DEF Starts
  <2>2. start \in Int
    <3>1. CASE known # {}
      <4>1. start \in DOMAIN Folders(here)
        BY <3>1
      <4>2. Listed(Folders(here))
        BY FoldersListed
      <4>3. Folders(here) # <<>>
        BY <4>1
      <4> QED BY ONLY <4>1, <4>2, <4>3 DEF Listed
    <3> QED BY <3>1
  <2> HIDE DEF start, here
  <2> QED BY <2>1, <2>2 DEF Closed, Sane, Listed
<1> QED BY <1>1, <1>2

LEMMA BrowserStep ==
  ASSUME BrowserSound, [Next]_vars
  PROVE  BrowserSound'
<1>1. CASE OpenBrowser
  <2>1. PICK b \in Starts : browser' = Shown(b)
    BY <1>1 DEF OpenBrowser
  <2>2. Sane(Shown(b)) /\ Visible(Shown(b))
    BY StartsAreSane, ShownIsSound
  <2> QED BY <2>1, <2>2 DEF BrowserSound, Sane, Visible, Listed
<1>2. CASE BrowserKey
  <2>1. PICK b : /\ \/ b \in {Up1(browser), Down1(browser), Entered(browser),
                             ToParent(browser), Back(browser), Forward(browser)}
                    \/ \E d : b = Visited(browser, d)
                 /\ browser' = Shown(b)
    BY <1>2 DEF BrowserKey
  <2>2. Sane(b)
    BY <2>1, KeysAreSane DEF BrowserSound
  <2>3. Sane(Shown(b)) /\ Visible(Shown(b))
    BY <2>2, ShownIsSound
  <2> QED BY <2>1, <2>3 DEF BrowserSound, Sane, Visible, Listed
<1>3. CASE CloseBrowser
  <2>1. browser' = Closed /\ where' # "browse"
    BY <1>3 DEF CloseBrowser, DirChosen, BackToMain, Enters
  <2> QED BY <2>1, ClosedIsSane DEF BrowserSound, Sane, Listed
<1>4. browser' = browser /\ (where' = "browse" => where = "browse") => BrowserSound'
  BY DEF BrowserSound, Sane, Visible, Listed
<1>5. CASE ParseFlags
  BY <1>4, <1>5 DEF ParseFlags, Enters, BeginRun
<1>6. CASE MainMenu \/ ChooseDirectory \/ TypeDirectory \/ Confirm \/ ChangeSettings \/ Pause
  BY <1>4, <1>6 DEF MainMenu, ChooseDirectory, TypeDirectory, Confirm, ChangeSettings, Pause,
                    MenuKeeps, DirChosen, BackToMain, Enters, BeginRun
<1>7. CASE HealthCheck \/ Work \/ Draw \/ Finish \/ Report
  BY <1>4, <1>7 DEF HealthCheck, CheckContext, SendProbe, ProbeSucceeds, ProbeFails,
                    RetryDelayEnds, CheckCancelled, Probes, RunReturns, RunKeeps, Work, Draw,
                    Finish, Report, front
<1>8. CASE Signal \/ (\E d \in Dirs : Disappear(d)) \/ UNCHANGED vars
  BY <1>4, <1>8 DEF Signal, Disappear, vars, front
<1> QED BY <1>1, <1>2, <1>3, <1>5, <1>6, <1>7, <1>8 DEF Next, Menus

\* browser.go:79-93: the cursor is on a listed folder and on the screen after
\* any series of keys, in any tree whose directories come and go.
THEOREM CursorStaysVisible == Spec => []CursorVisible
<1>1. Init => BrowserSound
  BY ClosedIsSane DEF Init, BrowserSound
<1>2. BrowserSound /\ [Next]_vars => BrowserSound'
  BY BrowserStep
<1>3. BrowserSound => CursorVisible
  BY DEF BrowserSound, Visible, CursorVisible
<1> QED BY <1>1, <1>2, <1>3, PTL DEF Spec

-----------------------------------------------------------------------------
(* The health check *)

\* Before a cancellation no probe is late, nor is one when its check was passed.
ProbeSound ==
  /\ late \in {0, 1}
  /\ late = 1 => where = "checking" /\ runCtx /\ probe # "checked"

\* health.go:32-34: of a cancelled run at most one probe more goes out, whatever
\* moment it is cancelled at and whatever becomes ready first in the select of the
\* delay, with any number of attempts.
THEOREM ProbeStopsOnCancel == Spec => []AtMostOneLateProbe
<1>1. Init => ProbeSound
  BY DEF Init, ProbeSound
<1>2. ProbeSound /\ [Next]_vars => ProbeSound'
  <2> SUFFICES ASSUME ProbeSound, [Next]_vars PROVE ProbeSound'
    OBVIOUS
  <2>1. CASE ParseFlags \/ Menus
    BY <2>1 DEF ParseFlags, Menus, MainMenu, ChooseDirectory, TypeDirectory, Confirm,
                ChangeSettings, Pause, OpenBrowser, BrowserKey, CloseBrowser, DirChosen,
                Enters, BackToMain, NoRun, BeginRun, ProbeSound
  <2>2. CASE CheckContext
    BY <2>2 DEF CheckContext, Probing, Probes, RunReturns, ProbeSound
  <2>3. CASE SendProbe
    BY <2>3 DEF SendProbe, Probing, Probes, ProbeSound
  <2>4. CASE ProbeSucceeds \/ ProbeFails \/ RetryDelayEnds \/ CheckCancelled
    BY <2>4 DEF ProbeSucceeds, ProbeFails, RetryDelayEnds, CheckCancelled, Probing, Probes,
                RunReturns, ProbeSound
  <2>5. CASE Work \/ Draw \/ (\E d \in Dirs : Disappear(d)) \/ UNCHANGED vars
    BY <2>5 DEF Work, Draw, Disappear, vars, front, ProbeSound
  <2>6. CASE Finish \/ Report
    BY <2>6 DEF Finish, Report, RunReturns, ProbeSound
  <2>7. CASE Signal
    BY <2>7 DEF Signal, ProbeSound
  <2> QED BY <2>1, <2>2, <2>3, <2>4, <2>5, <2>6, <2>7 DEF Next, HealthCheck
<1>3. ProbeSound => AtMostOneLateProbe
  BY DEF ProbeSound, AtMostOneLateProbe
<1> QED BY <1>1, <1>2, <1>3, PTL DEF Spec

-----------------------------------------------------------------------------
(* The dashboard *)

\* The places of what earlier renders left.
Olds(lines) == {i \in 1..Len(lines) : lines[i].kind = "old"}

\* A screen on which a render has put the first p of its lines, below top lines
\* of earlier ones and of the logger; k of the logger's came since.
Laid(lines, p, l, height, h, w, top, k) ==
  /\ Len(lines) = top + p + k
  /\ \A i \in 1..top : lines[i].kind \in {"old", "warn"}
  /\ \A i \in (top + 1)..Len(lines) :
       lines[i].kind = "warn" \/ \E q \in 1..p : lines[i] = Line(q - l, height, h)
  /\ \A q \in 1..p : \E i \in (top + 1)..Len(lines) : lines[i] = Line(q - l, height, h)
  /\ \A i, j \in (top + 1)..Len(lines) :
       i < j /\ lines[i].kind # "warn" /\ lines[j].kind # "warn" => lines[i].n < lines[j].n
  /\ Cardinality(Olds(lines)) + k <= w

\* What the render still has to print.
Left(rest, p, l, height, h) == \A j \in 1..Len(rest) : rest[j] = Line(p + j - l, height, h)

Whole(lines, rest, last, height, h, w) ==
  \E top, k, p, l \in Nat :
    /\ l <= 1 /\ l + height <= last /\ last <= height + 1 /\ last = p + Len(rest)
    /\ Laid(lines, p, l, height, h, w, top, k)
    /\ Left(rest, p, l, height, h)

\* A screen that has lines, and a text that ends at or below the old ones.
Drawn(lines, rest, below, last, height, h, w) ==
  /\ \E S : lines \in Seq(S)
  /\ \E T : rest \in Seq(T)
  /\ below \in Nat /\ below <= Len(rest) /\ last \in Nat
  /\ Whole(lines, rest, last, height, h, w)

\* Without a run there is no dashboard; with one that fits, its screen is whole
\* as far as it is drawn.
ScreenSound ==
  /\ where = "shell" => args \in CommandLines
  /\ "concurrency" \in DOMAIN cfg /\ cfg.concurrency \in Int
  /\ crew \in Int /\ warned \in Nat
  /\ where \notin {"running", "finished"} =>
       crew = 0 /\ screen = <<>> /\ text = <<>> /\ lastPrintedLines = 0
  /\ crew > 0 /\ Fits =>
       Drawn(screen, text, under, lastPrintedLines, BoxHeight, doneFiles, warned)

LEMMA LineIs ==
  ASSUME NEW n \in Int, NEW height \in Nat, NEW h
  PROVE  /\ Line(n, height, h).kind \in {"log", "box", "blank"}
         /\ Line(n, height, h).n = n
BY DEF Line

LEMMA OldsFinite ==
  ASSUME NEW lines, Len(lines) \in Nat
  PROVE  IsFiniteSet(Olds(lines)) /\ Cardinality(Olds(lines)) \in Nat
<1>1. IsFiniteSet(1..Len(lines)) /\ Olds(lines) \in SUBSET (1..Len(lines))
  BY FS_Interval DEF Olds
<1> QED BY <1>1, FS_Subset, FS_CardinalityType

\* A line after others.
LEMMA Appended ==
  ASSUME NEW S, NEW lines \in Seq(S), NEW line, NEW n \in Nat, n = Len(lines)
  PROVE  /\ Append(lines, line) \in Seq(S \cup {line})
         /\ Len(Append(lines, line)) = n + 1
         /\ Append(lines, line)[n + 1] = line
         /\ \A i \in 1..n : Append(lines, line)[i] = lines[i]
<1> DEFINE T == S \cup {line}
<1>1. lines \in Seq(T) /\ line \in T
  OBVIOUS
<1> HIDE DEF T
<1>2. Append(lines, line) \in Seq(T) /\ Len(Append(lines, line)) = n + 1
  BY <1>1
<1>3. Append(lines, line)[n + 1] = line /\ \A i \in 1..n : Append(lines, line)[i] = lines[i]
  BY <1>1
<1> QED BY <1>2, <1>3 DEF T

\* A render under way prints its next line.
LEMMA PrintLaid ==
  ASSUME NEW S, NEW lines \in Seq(S), NEW p \in Nat, NEW l \in Nat, NEW height \in Nat, NEW h,
         NEW w \in Nat, NEW top \in Nat, NEW k \in Nat,
         Laid(lines, p, l, height, h, w, top, k)
  PROVE  Laid(Append(lines, Line(p + 1 - l, height, h)), p + 1, l, height, h, w, top, k)
<1> DEFINE line == Line(p + 1 - l, height, h)
           more == Append(lines, line)
<1>1. PICK n \in Nat : n = Len(lines)
  OBVIOUS
<1>2. n = top + p + k
  BY <1>1 DEF Laid
<1>3. line.kind \in {"log", "box", "blank"} /\ line.n = p + 1 - l
  BY LineIs
<1> HIDE DEF line
<1>4. /\ Len(more) = n + 1 /\ more[n + 1] = line
      /\ \A i \in 1..n : more[i] = lines[i]
  BY <1>1, Appended
<1> HIDE DEF more
<1>5. Len(more) = top + (p + 1) + k
  BY <1>2, <1>4
<1>6. \A i \in 1..top : more[i].kind \in {"old", "warn"}
  <2> SUFFICES ASSUME NEW i \in 1..top PROVE more[i].kind \in {"old", "warn"}
    OBVIOUS
  <2>1. i \in 1..n
    BY <1>2
  <2> QED BY <1>4, <2>1 DEF Laid
<1>7. \A i \in (top + 1)..Len(more) :
        more[i].kind = "warn" \/ \E q \in 1..(p + 1) : more[i] = Line(q - l, height, h)
  <2> SUFFICES ASSUME NEW i \in (top + 1)..(n + 1), more[i].kind # "warn"
               PROVE  \E q \in 1..(p + 1) : more[i] = Line(q - l, height, h)
    BY <1>4
  <2>1. CASE i = n + 1
    <3>1. PICK q \in 1..(p + 1) : q = p + 1
      OBVIOUS
    <3>2. more[i] = Line(q - l, height, h)
      BY <1>4, <2>1, <3>1 DEF line
    <3> QED BY <3>2
  <2>2. CASE i # n + 1
    <3>1. i \in (top + 1)..n /\ i \in 1..n
      BY <2>2
    <3>2. PICK q \in 1..p : lines[i] = Line(q - l, height, h)
      BY <1>1, <1>4, <3>1 DEF Laid
    <3>3. q \in 1..(p + 1)
      OBVIOUS
    <3> QED BY <1>4, <3>1, <3>2, <3>3
  <2> QED BY <2>1, <2>2
<1>8. \A q \in 1..(p + 1) : \E i \in (top + 1)..Len(more) : more[i] = Line(q - l, height, h)
  <2> SUFFICES ASSUME NEW q \in 1..(p + 1)
               PROVE  \E i \in (top + 1)..(n + 1) : more[i] = Line(q - l, height, h)
    BY <1>4
  <2>1. CASE q = p + 1
    <3>1. n + 1 \in (top + 1)..(n + 1) /\ more[n + 1] = Line(q - l, height, h)
      BY <1>2, <1>4, <2>1 DEF line
    <3> QED BY <3>1
  <2>2. CASE q # p + 1
    <3>1. q \in 1..p
      BY <2>2
    <3>2. PICK i \in (top + 1)..n : lines[i] = Line(q - l, height, h)
      BY <1>1, <3>1 DEF Laid
    <3>3. i \in 1..n /\ i \in (top + 1)..(n + 1)
      OBVIOUS
    <3> QED BY <1>4, <3>2, <3>3
  <2> QED BY <2>1, <2>2
<1>9. \A i, j \in (top + 1)..Len(more) :
        i < j /\ more[i].kind # "warn" /\ more[j].kind # "warn" => more[i].n < more[j].n
  <2> SUFFICES ASSUME NEW i \in (top + 1)..(n + 1), NEW j \in (top + 1)..(n + 1), i < j,
                      more[i].kind # "warn", more[j].kind # "warn"
               PROVE  more[i].n < more[j].n
    BY <1>4
  <2>1. i \in (top + 1)..n /\ i \in 1..n
    OBVIOUS
  <2>2. more[i] = lines[i]
    BY <1>4, <2>1
  <2>3. CASE j = n + 1
    <3>1. PICK q \in 1..p : lines[i] = Line(q - l, height, h)
      BY <1>1, <2>1, <2>2 DEF Laid
    <3>2. lines[i].n = q - l
      BY <3>1, LineIs
    <3>3. more[j].n = p + 1 - l
      BY <1>3, <1>4, <2>3
    <3> QED BY <2>2, <3>2, <3>3
  <2>4. CASE j # n + 1
    <3>1. j \in (top + 1)..n /\ j \in 1..n
      BY <2>4
    <3>2. more[j] = lines[j]
      BY <1>4, <3>1
    <3> QED BY <1>1, <2>1, <2>2, <3>1, <3>2 DEF Laid
  <2> QED BY <2>3, <2>4
<1>10. Cardinality(Olds(more)) + k <= w
  <2>1. Olds(more) = Olds(lines)
    <3>1. \A i \in 1..(n + 1) : more[i].kind = "old" <=> (i \in 1..n /\ lines[i].kind = "old")
      <4> SUFFICES ASSUME NEW i \in 1..(n + 1)
                   PROVE  more[i].kind = "old" <=> (i \in 1..n /\ lines[i].kind = "old")
        OBVIOUS
      <4>1. CASE i = n + 1
        BY <1>3, <1>4, <4>1
      <4>2. CASE i # n + 1
        <5>1. i \in 1..n
          BY <4>2
        <5> QED BY <1>4, <5>1
      <4> QED BY <4>1, <4>2
    <3>2. \A i \in 1..n : i \in 1..(n + 1)
      OBVIOUS
    <3> QED BY <1>1, <1>4, <3>1, <3>2 DEF Olds
  <2> QED BY <2>1 DEF Laid
<1> QED BY <1>5, <1>6, <1>7, <1>8, <1>9, <1>10 DEF Laid, line, more

\* The logger writes a line.
LEMMA WarnLaid ==
  ASSUME NEW S, NEW lines \in Seq(S), NEW p \in Nat, NEW l \in Nat, NEW height \in Nat, NEW h,
         NEW w \in Nat, NEW top \in Nat, NEW k \in Nat, NEW line, line.kind = "warn",
         Laid(lines, p, l, height, h, w, top, k)
  PROVE  Laid(Append(lines, line), p, l, height, h, w + 1, top, k + 1)
<1> DEFINE more == Append(lines, line)
<1>1. PICK n \in Nat : n = Len(lines)
  OBVIOUS
<1>2. n = top + p + k
  BY <1>1 DEF Laid
<1>3. /\ Len(more) = n + 1 /\ more[n + 1] = line
      /\ \A i \in 1..n : more[i] = lines[i]
  BY <1>1, Appended
<1> HIDE DEF more
<1>4. Len(more) = top + p + (k + 1)
  BY <1>2, <1>3
<1>5. \A i \in 1..top : more[i].kind \in {"old", "warn"}
  <2> SUFFICES ASSUME NEW i \in 1..top PROVE more[i].kind \in {"old", "warn"}
    OBVIOUS
  <2>1. i \in 1..n
    BY <1>2
  <2> QED BY <1>3, <2>1 DEF Laid
<1>6. ASSUME NEW i \in (top + 1)..(n + 1), more[i].kind # "warn"
      PROVE  i \in (top + 1)..n /\ more[i] = lines[i]
  <2>1. i # n + 1
    BY <1>3, <1>6
  <2>2. i \in (top + 1)..n /\ i \in 1..n
    BY <2>1
  <2> QED BY <1>3, <2>2
<1>7. \A i \in (top + 1)..Len(more) :
        more[i].kind = "warn" \/ \E q \in 1..p : more[i] = Line(q - l, height, h)
  <2> SUFFICES ASSUME NEW i \in (top + 1)..(n + 1), more[i].kind # "warn"
               PROVE  \E q \in 1..p : more[i] = Line(q - l, height, h)
    BY <1>3
  <2>1. i \in (top + 1)..n /\ more[i] = lines[i]
    BY <1>6
  <2> QED BY <1>1, <2>1 DEF Laid
<1>8. \A q \in 1..p : \E i \in (top + 1)..Len(more) : more[i] = Line(q - l, height, h)
  <2> SUFFICES ASSUME NEW q \in 1..p
               PROVE  \E i \in (top + 1)..(n + 1) : more[i] = Line(q - l, height, h)
    BY <1>3
  <2>1. PICK i \in (top + 1)..n : lines[i] = Line(q - l, height, h)
    BY <1>1 DEF Laid
  <2>2. i \in 1..n /\ i \in (top + 1)..(n + 1)
    OBVIOUS
  <2> QED BY <1>3, <2>1, <2>2
<1>9. \A i, j \in (top + 1)..Len(more) :
        i < j /\ more[i].kind # "warn" /\ more[j].kind # "warn" => more[i].n < more[j].n
  <2> SUFFICES ASSUME NEW i \in (top + 1)..(n + 1), NEW j \in (top + 1)..(n + 1), i < j,
                      more[i].kind # "warn", more[j].kind # "warn"
               PROVE  more[i].n < more[j].n
    BY <1>3
  <2>1. /\ i \in (top + 1)..n /\ more[i] = lines[i]
        /\ j \in (top + 1)..n /\ more[j] = lines[j]
    BY <1>6
  <2> QED BY <1>1, <2>1 DEF Laid
<1>10. Cardinality(Olds(more)) + (k + 1) <= w + 1
  <2>1. Olds(more) = Olds(lines)
    <3>1. \A i \in 1..(n + 1) : more[i].kind = "old" <=> (i \in 1..n /\ lines[i].kind = "old")
      <4> SUFFICES ASSUME NEW i \in 1..(n + 1)
                   PROVE  more[i].kind = "old" <=> (i \in 1..n /\ lines[i].kind = "old")
        OBVIOUS
      <4>1. CASE i = n + 1
        BY <1>3, <4>1
      <4>2. CASE i # n + 1
        <5>1. i \in 1..n
          BY <4>2
        <5> QED BY <1>3, <5>1
      <4> QED BY <4>1, <4>2
    <3>2. \A i \in 1..n : i \in 1..(n + 1)
      OBVIOUS
    <3> QED BY <1>1, <1>3, <3>1, <3>2 DEF Olds
  <2>2. Cardinality(Olds(lines)) \in Nat
    BY <1>1, OldsFinite
  <2>3. Cardinality(Olds(lines)) + k <= w
    BY DEF Laid
  <2> QED BY ONLY <2>1, <2>2, <2>3, k \in Nat, w \in Nat
<1> QED BY <1>4, <1>5, <1>7, <1>8, <1>9, <1>10 DEF Laid, more

\* A render begins when the one before has printed all its p lines: of these, as
\* many stay above the cursor as the logger wrote since.
LEMMA RenderLaid ==
  ASSUME NEW S, NEW lines \in Seq(S), NEW p \in Nat, NEW l \in Nat, NEW height \in Nat, NEW h,
         NEW w \in Nat, NEW top \in Nat, NEW k \in Nat,
         Laid(lines, p, l, height, h, w, top, k), NEW m, NEW g,
         NEW kept, Len(kept) = Len(lines) - p,
         \A i \in 1..Len(kept) : kept[i] = Aged(lines[i])
  PROVE  Laid(kept, 0, m, height, g, w, top + k, 0)
<1>1. PICK n \in Nat : n = top + k
  OBVIOUS
<1>2. Len(kept) = n
  <2>1. Len(lines) = top + p + k
    BY DEF Laid
  <2> QED BY <1>1, <2>1
<1>3. \A i \in 1..n : kept[i] = Aged(lines[i])
  BY <1>2
<1>4. \A i \in 1..n : kept[i].kind \in {"old", "warn"}
  BY <1>3 DEF Aged
<1>5. Cardinality(Olds(kept)) + 0 <= w
  <2> DEFINE since == (top + 1)..n
  <2>1. ASSUME NEW i \in Olds(kept) PROVE i \in Olds(lines) \cup since
    <3>1. i \in 1..n /\ Aged(lines[i]).kind = "old"
      BY <1>3, <1>2 DEF Olds
    <3>2. lines[i].kind # "warn"
      BY <3>1 DEF Aged
    <3>3. CASE i \in 1..top
      <4>1. lines[i].kind = "old"
        BY <3>2, <3>3 DEF Laid
      <4>2. i \in 1..Len(lines)
        BY <3>3 DEF Laid
      <4> QED BY <4>1, <4>2 DEF Olds
    <3>4. CASE i \notin 1..top
      BY <3>1, <3>4
    <3> QED BY <3>3, <3>4
  <2>2. Len(lines) \in Nat
    OBVIOUS
  <2>3. IsFiniteSet(Olds(lines)) /\ Cardinality(Olds(lines)) \in Nat
    BY <2>2, OldsFinite
  <2>4. IsFiniteSet(since) /\ Cardinality(since) = k
    <3>1. PICK first \in Int : first = top + 1
      OBVIOUS
    <3>2. IsFiniteSet(first..n)
          /\ Cardinality(first..n) = IF first > n THEN 0 ELSE n - first + 1
      BY ONLY FS_Interval, first \in Int, n \in Nat
    <3>3. since = first..n
      BY <3>1
    <3> HIDE DEF since
    <3> QED BY <1>1, <3>1, <3>2, <3>3
  <2> HIDE DEF since
  <2>5. /\ IsFiniteSet(Olds(lines) \cup since)
        /\ Cardinality(Olds(lines) \cup since)
             = Cardinality(Olds(lines)) + Cardinality(since) - Cardinality(Olds(lines) \cap since)
    BY <2>3, <2>4, FS_Union
  <2>6. Cardinality(Olds(lines) \cap since) \in Nat
    BY <2>3, FS_Intersection, FS_CardinalityType
  <2>7. Cardinality(Olds(kept)) <= Cardinality(Olds(lines) \cup since)
    BY <2>1, <2>5, FS_Subset
  <2>8. Cardinality(Olds(kept)) \in Nat
    BY <1>2, OldsFinite
  <2>9. Cardinality(Olds(lines)) + k <= w
    BY DEF Laid
  <2> QED BY ONLY <2>3, <2>4, <2>5, <2>6, <2>7, <2>8, <2>9, k \in Nat, w \in Nat
<1>6. \A i : i \notin (n + 1)..n
  OBVIOUS
<1>7. \A i : i \notin 1..0
  OBVIOUS
<1>8. Len(kept) = n + 0 + 0
  BY ONLY <1>2, n \in Nat
<1>9. Laid(kept, 0, m, height, g, w, n, 0)
  BY <1>2, <1>4, <1>5, <1>6, <1>7, <1>8 DEF Laid
<1> QED BY <1>1, <1>9

\* The beginning of a render, on any screen that is drawn to the end.
LEMMA RenderDrawn ==
  ASSUME NEW S, screen \in Seq(S), lastPrintedLines \in Nat,
         NEW height \in Nat, height > 0, height + 1 < Rows,
         NEW p \in Nat, p = lastPrintedLines, p <= height + 1,
         NEW l \in Nat, NEW h, NEW w \in Nat, NEW top \in Nat, NEW k \in Nat,
         Laid(screen, p, l, height, h, w, top, k),
         NEW m \in {0, 1}, NEW g, Render(g, height, m)
  PROVE  Drawn(screen', text', under', lastPrintedLines', height, g, w)
<1>1. Up(p) = p
  BY DashboardAssumption DEF Up, AtMost
<1>2. PICK length \in Nat : length = AtLeast(m + height, p)
  BY DEF AtLeast
<1>3. /\ m + height <= length /\ p <= length /\ length <= height + 1
  BY <1>2 DEF AtLeast
<1>4. /\ screen' = [i \in 1..(Len(screen) - p) |-> Aged(screen[i])]
      /\ under' = p
      /\ text' = [i \in 1..length |-> Line(i - m, height, g)]
      /\ lastPrintedLines' = length
  BY <1>1, <1>2 DEF Render
<1>5. (\E T : screen' \in Seq(T)) /\ Laid(screen', 0, m, height, g, w, top + k, 0)
  <2>1. PICK kept : kept = screen'
    OBVIOUS
  <2>2. PICK n \in Nat : n = Len(screen) - p
    BY DEF Laid
  <2>3. kept = [i \in 1..n |-> Aged(screen[i])]
    BY <1>4, <2>1, <2>2
  <2> DEFINE T == {Aged(screen[i]) : i \in 1..n}
  <2>4. kept \in [1..n -> T]
    BY <2>3
  <2> HIDE DEF T
  <2>5. kept \in Seq(T) /\ Len(kept) = n
    BY ONLY <2>4, n \in Nat
  <2>6. \A i \in 1..Len(kept) : kept[i] = Aged(screen[i])
    BY ONLY <2>3, <2>5
  <2>7. Laid(kept, 0, m, height, g, w, top + k, 0)
    BY <2>2, <2>5, <2>6, RenderLaid
  <2> QED BY <2>1, <2>5, <2>7
<1>6. Len(text') = length /\ \E T : text' \in Seq(T)
  <2> DEFINE T == {Line(i - m, height, g) : i \in 1..length}
  <2>1. PICK new : new = text'
    OBVIOUS
  <2>2. new \in [1..length -> T]
    BY <1>4, <2>1
  <2> HIDE DEF T
  <2>3. new \in Seq(T) /\ Len(new) = length
    BY ONLY <2>2, length \in Nat
  <2> QED BY <2>1, <2>3
<1>7. Left(text', 0, m, height, g)
  <2> SUFFICES ASSUME NEW i \in 1..length PROVE text'[i] = Line(0 + i - m, height, g)
    BY <1>6 DEF Left
  <2>1. 0 + i - m = i - m
    OBVIOUS
  <2> QED BY <1>4, <2>1
<1>8. Whole(screen', text', lastPrintedLines', height, g, w)
  <2>1. top + k \in Nat /\ 0 \in Nat /\ m \in Nat /\ m <= 1
    OBVIOUS
  <2>2. lastPrintedLines' = 0 + Len(text')
    BY <1>4, <1>6
  <2> QED BY <1>3, <1>4, <1>5, <1>7, <2>1, <2>2 DEF Whole
<1> QED BY <1>3, <1>4, <1>5, <1>6, <1>8 DEF Drawn

\* A render by one of the calls, which hold the mutex.
LEMMA RenderStep ==
  ASSUME ScreenSound, Unlocked, NEW m \in {0, 1}, NEW g, Render(g, BoxHeight, m),
         doneFiles' = g, UNCHANGED <<crew, warned, cfg>>, where' \in {"running", "finished"}
  PROVE  ScreenSound'
<1>1. BoxHeight' = BoxHeight /\ (Fits' <=> Fits)
  BY DEF BoxHeight, Fits
<1>2. ASSUME crew > 0, Fits
      PROVE  Drawn(screen', text', under', lastPrintedLines', BoxHeight, g, warned)
  <2>1. PICK height \in Nat : height = BoxHeight /\ height > 0
    BY <1>2, DashboardAssumption DEF ScreenSound, BoxHeight
  <2>2. Drawn(screen, text, under, lastPrintedLines, height, doneFiles, warned)
    BY <1>2, <2>1 DEF ScreenSound
  <2>3. PICK S : screen \in Seq(S)
    BY <2>2 DEF Drawn
  <2>4. PICK top \in Nat, k \in Nat, p \in Nat, l \in Nat :
          /\ lastPrintedLines <= height + 1 /\ lastPrintedLines = p + Len(text)
          /\ Laid(screen, p, l, height, doneFiles, warned, top, k)
    BY <2>2 DEF Drawn, Whole
  <2>5. p = lastPrintedLines
    BY <2>4 DEF Unlocked
  <2>6. lastPrintedLines \in Nat /\ warned \in Nat /\ height + 1 < Rows
    BY <1>2, <2>1, <2>5 DEF ScreenSound, Fits
  <2> QED BY <2>1, <2>3, <2>4, <2>5, <2>6, RenderDrawn
<1> QED BY <1>1, <1>2 DEF ScreenSound

\* One line goes out below the others.
LEMMA DrawStep ==
  ASSUME ScreenSound, Draw
  PROVE  ScreenSound'
<1>1. UNCHANGED <<where, args, cfg, crew, doneFiles, lastPrintedLines>>
  BY DEF Draw, front, PrintLine, Warn
<1>2. BoxHeight' = BoxHeight /\ (Fits' <=> Fits)
  BY <1>1 DEF BoxHeight, Fits
<1>3. warned' \in Nat
  BY DEF Draw, PrintLine, Warn, ScreenSound
<1>4. where \in {"running", "finished"}
  BY DEF Draw, ScreenSound, PrintLine, Warn, Unlocked
<1>5. ASSUME crew > 0, Fits
      PROVE  Drawn(screen', text', under', lastPrintedLines', BoxHeight, doneFiles, warned')
  <2>1. PICK height \in Nat : height = BoxHeight
    BY <1>5, DashboardAssumption DEF ScreenSound, BoxHeight
  <2>2. Drawn(screen, text, under, lastPrintedLines, height, doneFiles, warned)
    BY <1>5, <2>1 DEF ScreenSound
  <2>3. PICK S, T : screen \in Seq(S) /\ text \in Seq(T)
    BY <2>2 DEF Drawn
  <2>4. PICK top \in Nat, k \in Nat, p \in Nat, l \in Nat :
          /\ l <= 1 /\ l + height <= lastPrintedLines /\ lastPrintedLines <= height + 1
          /\ lastPrintedLines = p + Len(text)
          /\ Laid(screen, p, l, height, doneFiles, warned, top, k)
          /\ Left(text, p, l, height, doneFiles)
    BY <2>2 DEF Drawn, Whole
  <2>5. PICK n \in Nat : n = Len(text)
    BY <2>3
  <2>6. PICK w \in Nat : w = warned
    BY DEF ScreenSound
  <2>7. under \in Nat /\ under <= n /\ lastPrintedLines \in Nat
    BY <2>2, <2>5 DEF Drawn
  <2>8. ASSUME NEW line
        PROVE  \E U : Append(screen, line) \in Seq(U)
    <3>1. PICK len \in Nat : len = Len(screen)
      BY <2>3
    <3>2. Append(screen, line) \in Seq(S \cup {line})
      BY <2>3, <3>1, Appended
    <3> QED BY <3>2
  <2>9. CASE PrintLine
    <3>1. /\ text # <<>> /\ screen' = Append(screen, Head(text)) /\ text' = Tail(text)
          /\ under' = AtLeast(0, under - 1) /\ warned' = w
      BY <2>6, <2>9 DEF PrintLine, Writes, Unlocked
    <3>2. /\ n > 0 /\ Head(text) = text[1]
          /\ Tail(text) \in Seq(T) /\ Len(Tail(text)) = n - 1
          /\ \A j \in 1..(n - 1) : Tail(text)[j] = text[j + 1]
      BY <2>3, <2>5, <3>1
    <3>3. Head(text) = Line(p + 1 - l, height, doneFiles)
      BY <2>4, <2>5, <3>2 DEF Left
    <3>4. Laid(screen', p + 1, l, height, doneFiles, w, top, k)
      BY <2>3, <2>4, <2>6, <3>1, <3>3, PrintLaid
    <3>5. Left(text', p + 1, l, height, doneFiles)
      <4> SUFFICES ASSUME NEW j \in 1..(n - 1)
                   PROVE  text'[j] = Line(p + 1 + j - l, height, doneFiles)
        BY <3>1, <3>2 DEF Left
      <4>1. j + 1 \in 1..n
        OBVIOUS
      <4>2. text[j + 1] = Line(p + (j + 1) - l, height, doneFiles)
        BY <2>4, <2>5, <4>1 DEF Left
      <4>3. p + (j + 1) - l = p + 1 + j - l
        OBVIOUS
      <4> QED BY <3>1, <3>2, <4>2, <4>3
    <3>6. lastPrintedLines = (p + 1) + Len(text') /\ p + 1 \in Nat
      BY <2>4, <2>5, <3>1, <3>2
    <3>7. under' \in Nat /\ under' <= Len(text')
      BY <2>7, <3>1, <3>2 DEF AtLeast
    <3>8. Whole(screen', text', lastPrintedLines, height, doneFiles, w)
      BY <2>4, <3>4, <3>5, <3>6 DEF Whole
    <3>9. (\E U : screen' \in Seq(U)) /\ \E U : text' \in Seq(U)
      BY <2>8, <3>1, <3>2
    <3> QED BY <1>1, <2>1, <2>7, <3>1, <3>7, <3>8, <3>9 DEF Drawn
  <2>10. CASE Warn
    <3> DEFINE line == [kind |-> "warn", n |-> 0, done |-> 0]
    <3>1. line.kind = "warn"
      OBVIOUS
    <3>2. /\ screen' = Append(screen, line) /\ text' = text
          /\ under' = AtLeast(0, under - 1) /\ warned' = w + 1
      BY <2>6, <2>10 DEF Warn, Writes
    <3> HIDE DEF line
    <3>3. Laid(screen', p, l, height, doneFiles, w + 1, top, k + 1)
      BY <2>3, <2>4, <2>6, <3>1, <3>2, WarnLaid
    <3>4. under' \in Nat /\ under' <= Len(text')
      BY <2>5, <2>7, <3>2 DEF AtLeast
    <3>5. Whole(screen', text', lastPrintedLines, height, doneFiles, w + 1)
      <4>1. k + 1 \in Nat
        OBVIOUS
      <4> QED BY <2>4, <3>2, <3>3, <4>1 DEF Whole
    <3>6. (\E U : screen' \in Seq(U)) /\ \E U : text' \in Seq(U)
      BY <2>3, <2>8, <3>2
    <3> QED BY <1>1, <2>1, <2>7, <3>2, <3>4, <3>5, <3>6 DEF Drawn
  <2> QED BY <2>9, <2>10 DEF Draw
<1> QED BY <1>1, <1>2, <1>3, <1>4, <1>5 DEF ScreenSound

\* The first render of a run, on an empty screen.
LEMMA NewDashboardStep ==
  ASSUME ScreenSound, where = "checking", NEW files \in Nat,
         NewDashboard(cfg.concurrency, files), cfg' = cfg, where' = "running"
  PROVE  ScreenSound'
<1>1. screen = <<>> /\ lastPrintedLines = 0 /\ cfg.concurrency \in Int
  BY DEF ScreenSound
<1>2. PICK c \in Int : c = AtMost(cfg.concurrency, files)
  BY <1>1 DEF AtMost
<1>3. crew' = c /\ doneFiles' = 0 /\ warned' = 0 /\ Render(0, FrameRows + c, 0)
  BY <1>2 DEF NewDashboard
<1>4. BoxHeight' = FrameRows + c
  BY <1>3 DEF BoxHeight
<1>5. ASSUME c > 0, FrameRows + c + 1 < Rows
      PROVE  Drawn(screen', text', under', lastPrintedLines', FrameRows + c, 0, 0)
  <2>1. PICK height \in Nat : height = FrameRows + c /\ height > 0
    BY <1>5, DashboardAssumption
  <2>2. screen \in Seq({}) /\ Len(screen) = 0
    BY <1>1
  <2>3. PICK z \in Nat : z = 0
    OBVIOUS
  <2>4. Laid(screen, z, z, height, z, z, z, z)
    <3>1. Olds(screen) = {}
      BY <2>2 DEF Olds
    <3>2. Cardinality(Olds(screen)) = 0
      BY <3>1, FS_EmptySet
    <3> QED BY <2>2, <2>3, <3>2 DEF Laid
  <2>5. height + 1 < Rows /\ z = lastPrintedLines /\ z <= height + 1 /\ 0 \in {0, 1}
    BY <1>1, <1>5, <2>1, <2>3
  <2>6. Render(0, height, 0)
    BY <1>3, <2>1
  <2>7. Drawn(screen', text', under', lastPrintedLines', height, 0, z)
    BY <1>1, <2>1, <2>2, <2>3, <2>4, <2>5, <2>6, RenderDrawn
  <2> QED BY <2>1, <2>3, <2>7
<1>6. Fits' => FrameRows + c + 1 < Rows
  BY <1>4 DEF Fits
<1> QED BY <1>1, <1>2, <1>3, <1>4, <1>5, <1>6 DEF ScreenSound

\* A step that neither renders nor logs.
LEMMA QuietStep ==
  ASSUME ScreenSound, UNCHANGED <<crew, doneFiles, screen, text, under, lastPrintedLines, warned>>,
         "concurrency" \in DOMAIN cfg', cfg'.concurrency \in Int,
         where' \in {"running", "finished"} <=> where \in {"running", "finished"},
         where' = "shell" => args' = args /\ where = "shell"
  PROVE  ScreenSound'
<1>1. BoxHeight' = BoxHeight /\ (Fits' <=> Fits)
  BY DEF BoxHeight, Fits
<1> QED BY <1>1 DEF ScreenSound

\* The merge of the command line keeps the concurrency a number.
LEMMA ParseFlagsStep ==
  ASSUME ScreenSound, ParseFlags
  PROVE  ScreenSound'
<1>1. args \in CommandLines
  BY DEF ScreenSound, ParseFlags
<1>2. /\ "concurrency" \in DOMAIN args.flags => args.flags["concurrency"] \in Int
      /\ "concurrency" \in DOMAIN args.file => args.file["concurrency"] \in Int
  BY <1>1, FrontEndAssumption
<1>3. "concurrency" \in DOMAIN Default /\ Default["concurrency"] \in Int
  BY DEF Default
<1>4. ASSUME NEW given, NEW base,
             "concurrency" \in DOMAIN given => given["concurrency"] \in Int,
             "concurrency" \in DOMAIN base, base["concurrency"] \in Int
      PROVE  /\ "concurrency" \in DOMAIN Overlay(given, base)
             /\ Overlay(given, base)["concurrency"] \in Int
  BY <1>4 DEF Overlay
<1>5. /\ "concurrency" \in DOMAIN LoadFromFile(args.file)
      /\ LoadFromFile(args.file)["concurrency"] \in Int
  <2> DEFINE taken == Restrict(args.file, {f \in DOMAIN args.file : Counts(args.file, f)})
  <2>1. "concurrency" \in DOMAIN taken => taken["concurrency"] \in Int
    BY <1>2 DEF Restrict
  <2> HIDE DEF taken
  <2>2. /\ "concurrency" \in DOMAIN Overlay(taken, Default)
        /\ Overlay(taken, Default)["concurrency"] \in Int
    BY <1>3, <1>4, <2>1
  <2> QED BY <2>2 DEF LoadFromFile, taken
<1>6. "concurrency" \in DOMAIN Reapplied(args.flags)
        => Reapplied(args.flags)["concurrency"] \in Int
  BY <1>2 DEF Reapplied, Restrict
<1>7. /\ "concurrency" \in DOMAIN Overlay(Reapplied(args.flags), LoadFromFile(args.file))
      /\ Overlay(Reapplied(args.flags), LoadFromFile(args.file))["concurrency"] \in Int
  BY <1>4, <1>5, <1>6
<1>8. /\ "concurrency" \in DOMAIN Overlay(args.flags, Default)
      /\ Overlay(args.flags, Default)["concurrency"] \in Int
  BY <1>2, <1>3, <1>4
<1>9. \/ cfg' = cfg
      \/ cfg' = Overlay(args.flags, Default)
      \/ cfg' = Overlay(Reapplied(args.flags), LoadFromFile(args.file))
  BY DEF ParseFlags, Enters
<1>10. "concurrency" \in DOMAIN cfg' /\ cfg'["concurrency"] \in Int
  BY <1>7, <1>8, <1>9 DEF ScreenSound
<1>11. /\ where = "shell" /\ where' \in {"left", "main", "checking"}
       /\ UNCHANGED <<crew, doneFiles, screen, text, under, lastPrintedLines, warned>>
  BY DEF ParseFlags, Enters, BeginRun, dash
<1> QED BY <1>10, <1>11, QuietStep

LEMMA WorkStep ==
  ASSUME ScreenSound, Work
  PROVE  ScreenSound'
<1>1. where = "running" /\ where' = "running" /\ cfg' = cfg /\ DashboardStep(runCtx)
  BY DEF Work, front
<1>2. "concurrency" \in DOMAIN cfg' /\ cfg'.concurrency \in Int
  BY <1>1 DEF ScreenSound
<1>3. CASE StartWorkers
  BY <1>1, <1>2, <1>3, QuietStep DEF StartWorkers, NoRender
<1>4. ASSUME NEW id \in Workers, Receive(id, runCtx) \/ SetWorkerIdle(id)
      PROVE  ScreenSound'
  BY <1>1, <1>2, <1>4, QuietStep DEF Receive, SetWorkerIdle, NoRender
<1>5. ASSUME NEW id \in Workers, SetWorkerFile(id) PROVE ScreenSound'
  BY <1>1, <1>5, RenderStep DEF SetWorkerFile
<1>6. ASSUME NEW id \in Workers, SetWorkerProgress(id) PROVE ScreenSound'
  <2>1. CASE NoRender
    BY <1>1, <1>2, <1>6, <2>1, QuietStep DEF SetWorkerProgress, NoRender
  <2>2. CASE Render(doneFiles, BoxHeight, 0)
    BY <1>1, <1>6, <2>2, RenderStep DEF SetWorkerProgress
  <2> QED BY <1>6, <2>1, <2>2 DEF SetWorkerProgress
<1>7. ASSUME NEW id \in Workers, MarkWorkerDone(id) PROVE ScreenSound'
  BY <1>1, <1>7, RenderStep DEF MarkWorkerDone
<1> QED BY <1>1, <1>3, <1>4, <1>5, <1>6, <1>7 DEF DashboardStep, WorkerStep

LEMMA ScreenStep ==
  ASSUME ScreenSound, [Next]_vars
  PROVE  ScreenSound'
<1>1. "concurrency" \in DOMAIN cfg /\ cfg.concurrency \in Int
  BY DEF ScreenSound
<1>2. CASE Menus
  <2>1. \/ cfg' = cfg
        \/ \E d : cfg' = [cfg EXCEPT !.dir = d]
        \/ \E u : cfg' = [cfg EXCEPT !.api = u]
        \/ \E n \in 1..MaxWorkers : cfg' = [cfg EXCEPT !.concurrency = n]
        \/ cfg' = [cfg EXCEPT !.overwrite = ~@]
    BY <1>2 DEF Menus, MainMenu, ChooseDirectory, TypeDirectory, Confirm, ChangeSettings,
                Pause, OpenBrowser, BrowserKey, CloseBrowser, DirChosen
  <2>2. "concurrency" \in DOMAIN cfg' /\ cfg'.concurrency \in Int
    BY <1>1, <2>1, DashboardAssumption
  <2>3. /\ where \notin {"shell", "running", "finished"}
        /\ where' \notin {"shell", "running", "finished"}
        /\ UNCHANGED dash
    BY <1>2 DEF Menus, MainMenu, ChooseDirectory, TypeDirectory, Confirm, ChangeSettings,
                Pause, OpenBrowser, BrowserKey, CloseBrowser, DirChosen, MenuKeeps,
                Enters, BackToMain, BeginRun
  <2> QED BY <2>2, <2>3, QuietStep DEF dash
<1>3. CASE ParseFlags
  BY <1>3, ParseFlagsStep
<1>4. CASE HealthCheck
  <2>1. ASSUME NEW n \in 1..MaxFiles, NewDashboard(cfg.concurrency, n), where = "checking",
               where' = "running", RunKeeps
        PROVE  ScreenSound'
    <3>1. n \in Nat
      BY DashboardAssumption
    <3> QED BY <2>1, <3>1, NewDashboardStep DEF RunKeeps
  <2>2. ASSUME where = "checking", where' \in {"checking", "left", "pause"}, RunKeeps,
               UNCHANGED dash
        PROVE  ScreenSound'
    BY <1>1, <2>2, QuietStep DEF RunKeeps, dash
  <2>3. CASE ProbeSucceeds
    BY <2>1, <2>2, <2>3 DEF ProbeSucceeds, Probing, RunReturns
  <2>4. CASE CheckContext \/ SendProbe \/ ProbeFails \/ RetryDelayEnds \/ CheckCancelled
    BY <2>2, <2>4 DEF CheckContext, SendProbe, ProbeFails, RetryDelayEnds, CheckCancelled,
                      Probing, Probes, RunReturns
  <2> QED BY <1>4, <2>3, <2>4 DEF HealthCheck
<1>5. CASE Work
  BY <1>5, WorkStep
<1>6. CASE Finish
  BY <1>6, RenderStep DEF Finish, FinishDashboard, RunKeeps
<1>7. CASE Report
  <2>1. /\ crew' = 0 /\ screen' = <<>> /\ text' = <<>> /\ lastPrintedLines' = 0 /\ warned' = 0
        /\ where' \in {"left", "pause"} /\ cfg' = cfg
    BY <1>7 DEF Report, DropDashboard, RunReturns, RunKeeps
  <2> QED BY <1>1, <2>1 DEF ScreenSound
<1>8. CASE Signal \/ (\E d \in Dirs : Disappear(d)) \/ UNCHANGED vars
  <2>1. UNCHANGED <<where, args, cfg, dash>>
    BY <1>8 DEF Signal, Disappear, vars, front
  <2> QED BY <1>1, <2>1, QuietStep DEF dash
<1>9. CASE Draw
  BY <1>9, DrawStep
<1> QED BY <1>2, <1>3, <1>4, <1>5, <1>6, <1>7, <1>8, <1>9 DEF Next

\* dashboard.go:127: on any terminal the box fits, with any number of workers,
\* files and lines of the logger, which fall before, between and after the lines
\* of a render, a render leaves a whole box, in order and up to date; of older
\* ones no more lines are left than the logger wrote.
THEOREM NewestBoxIsWhole == Spec => []BoxIsWhole
<1>1. Init => ScreenSound
  BY DEF Init, NoDashboard, ScreenSound, Default
<1>2. ScreenSound /\ [Next]_vars => ScreenSound'
  BY ScreenStep
<1>3. ScreenSound => BoxIsWhole
  <2> SUFFICES ASSUME ScreenSound, crew > 0, Fits, text = <<>>
               PROVE  /\ under = 0
                      /\ \A q \in 1..BoxHeight :
                           \E i \in DOMAIN screen : screen[i] = Line(q, BoxHeight, doneFiles)
                      /\ \A i \in Newest, j \in DOMAIN screen : i < j =>
                           /\ j \notin Remains
                           /\ j \in Newest => screen[i].n < screen[j].n
                      /\ Cardinality(Remains) <= warned
    BY DEF BoxIsWhole, Unlocked
  <2>1. PICK height \in Nat : height = BoxHeight
    BY DashboardAssumption DEF ScreenSound, BoxHeight
  <2>2. Drawn(screen, text, under, lastPrintedLines, height, doneFiles, warned)
    BY <2>1 DEF ScreenSound
  <2>3. PICK S : screen \in Seq(S)
    BY <2>2 DEF Drawn
  <2>4. PICK top \in Nat, k \in Nat, p \in Nat, l \in Nat :
          /\ l + height <= lastPrintedLines /\ lastPrintedLines = p + Len(text)
          /\ Laid(screen, p, l, height, doneFiles, warned, top, k)
    BY <2>2 DEF Drawn, Whole
  <2>5. PICK n \in Nat : n = Len(screen) /\ DOMAIN screen = 1..n
    BY <2>3
  <2>6. l + height <= p /\ n = top + p + k
    BY <2>4, <2>5 DEF Laid
  <2>7. under = 0
    BY <2>2 DEF Drawn
  <2>8. ASSUME NEW q \in 1..height
        PROVE  \E i \in DOMAIN screen : screen[i] = Line(q, height, doneFiles)
    <3>1. PICK r \in 1..p : r = q + l
      BY <2>6
    <3>2. PICK i \in (top + 1)..n : screen[i] = Line(r - l, height, doneFiles)
      BY <2>4, <2>5 DEF Laid
    <3>3. r - l = q /\ i \in 1..n
      BY <3>1
    <3> QED BY <2>5, <3>2, <3>3
  <2>9. ASSUME NEW i \in Newest PROVE i \in (top + 1)..n
    <3>1. i \in 1..n /\ screen[i].kind \in {"box", "log", "blank"}
      BY <2>5 DEF Newest
    <3>2. i \notin 1..top
      BY <2>4, <3>1 DEF Laid
    <3> QED BY <3>1, <3>2
  <2>10. ASSUME NEW i \in Newest, NEW j \in 1..n, i < j
         PROVE  j \notin Remains /\ (j \in Newest => screen[i].n < screen[j].n)
    <3>1. i \in (top + 1)..n /\ j \in (top + 1)..n
      BY <2>9, <2>10
    <3>2. j \notin Remains
      <4>1. screen[j].kind = "warn" \/ \E q \in 1..p : screen[j] = Line(q - l, height, doneFiles)
        BY <2>4, <2>5, <3>1 DEF Laid
      <4>2. ASSUME NEW q \in 1..p, screen[j] = Line(q - l, height, doneFiles)
            PROVE  screen[j].kind # "old"
        <5>1. PICK m \in Int : m = q - l
          OBVIOUS
        <5>2. Line(m, height, doneFiles).kind \in {"log", "box", "blank"}
          BY LineIs
        <5> QED BY <4>2, <5>1, <5>2
      <4>3. screen[j].kind # "old"
        BY <4>1, <4>2
      <4> QED BY <4>3 DEF Remains
    <3>3. ASSUME j \in Newest PROVE screen[i].n < screen[j].n
      <4>1. screen[i].kind # "warn" /\ screen[j].kind # "warn"
        BY <3>3 DEF Newest
      <4> QED BY <2>4, <2>5, <2>10, <3>1, <4>1 DEF Laid
    <3> QED BY <3>2, <3>3
  <2>11. Cardinality(Remains) <= warned
    <3>1. Remains = Olds(screen)
      BY <2>5 DEF Remains, Olds
    <3>2. Cardinality(Olds(screen)) + k <= warned
      BY <2>4 DEF Laid
    <3>3. Cardinality(Olds(screen)) \in Nat
      BY <2>5, OldsFinite
    <3>4. warned \in Nat
      BY DEF ScreenSound
    <3> QED BY ONLY <3>1, <3>2, <3>3, <3>4, k \in Nat
  <2> QED BY <2>1, <2>5, <2>7, <2>8, <2>10, <2>11
<1> QED BY <1>1, <1>2, <1>3, PTL DEF Spec

=============================================================================
