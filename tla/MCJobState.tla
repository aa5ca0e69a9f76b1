----------------------------- MODULE MCJobState -----------------------------
(* JobState on a small instance, with the order of replayWAL's assignments   *)
(* spelled out as a fold to compare Replay with.                             *)
EXTENDS JobState, SequencesExt

\* replayWAL as the code runs it: one assignment per line, in file order.
ReplayLoop(base, w) ==
  FoldLeft(LAMBDA table, line : [table EXCEPT ![line.path] = line.status], base, w)

\* The declarative Replay that every theorem speaks about is the loop of
\* jobstate.go's replayWAL, on every snapshot and log the system reaches.
ReplayIsTheLoop == Recovered = ReplayLoop(snapshot, wal)

=============================================================================
