------------------------------ MODULE Recorder ------------------------------
(***************************************************************************)
(* The demonstration recorder of src/teleop/recording/recorder.py.  An     *)
(* episode is kept in memory until stop(), which forgets it and then       *)
(* writes its files: the meta data, and a table of its frames, as Parquet, *)
(* or as JSON lines if that does not work out.  The files are named after  *)
(* the second in which the episode was started, as the wall clock has it:  *)
(* a second may come twice, and two episodes may start in one.             *)
(*                                                                         *)
(* One thread of the program calls the recorder.  Every write may fail,    *)
(* leaving a part of the file or nothing behind, and the process may end   *)
(* at any moment; the files remain.  What a frame contains does not matter *)
(* here: a frame counts.                                                   *)
(***************************************************************************)
EXTENDS Integers, FiniteSets

CONSTANTS
  MaxEpisodes, MaxFrames, MaxNotes, MaxStamp,   \* bounds
  HaveEngine    \* pandas can be imported

ASSUME RecorderAssumption ==
  /\ MaxEpisodes \in Nat /\ MaxFrames \in Nat /\ MaxNotes \in Nat /\ MaxStamp \in Nat
  /\ HaveEngine \in BOOLEAN

VARIABLES
  episodes,   \* the number of episodes started
  episode,    \* _episode, the one being recorded, or None
  ep,         \* the one that is being written, or None
  pc,         \* where _write is
  next,       \* the episode is written for start(), which is to start another
  disk,       \* the files
  saved,      \* history: the episodes for which stop() returned
  lost        \* history: those whose writing raised, or ended with the process

vars == <<episodes, episode, ep, pc, next, disk, saved, lost>>

Stamps == 0..MaxStamp
Suffixes == {"meta", "parquet", "jsonl"}
None == [id |-> 0, started |-> 0, frames |-> 0, interventions |-> 0]
Episodes == [id : 1..MaxEpisodes, started : Stamps, frames : 0..MaxFrames,
             interventions : 0..MaxNotes]
NoFile == [of |-> None, whole |-> FALSE]
Files == [of : Episodes \cup {None}, whole : BOOLEAN]

TypeOK ==
  /\ episodes \in 0..MaxEpisodes
  /\ episode \in Episodes \cup {None}
  /\ ep \in Episodes \cup {None}
  /\ pc \in {"idle", "meta", "parquet", "jsonl"}
  /\ next \in BOOLEAN
  /\ disk \in [Stamps \X Suffixes -> Files]
  /\ saved \subseteq Episodes /\ lost \subseteq Episodes

Init ==
  /\ episodes = 0 /\ episode = None /\ ep = None /\ pc = "idle" /\ next = FALSE
  /\ disk = [f \in Stamps \X Suffixes |-> NoFile]
  /\ saved = {} /\ lost = {}
-----------------------------------------------------------------------------
NewEpisode ==
  /\ episodes < MaxEpisodes
  /\ \E now \in Stamps :
       episode' = [id |-> episodes + 1, started |-> now, frames |-> 0, interventions |-> 0]
  /\ episodes' = episodes + 1

CanStart == episodes < MaxEpisodes

\* Mutant of Start: the episode before is not finished.
StartOver ==
  /\ pc = "idle"
  /\ NewEpisode
  /\ UNCHANGED <<ep, pc, next, disk, saved, lost>>

Start ==
  /\ pc = "idle" /\ episode = None
  /\ NewEpisode
  /\ UNCHANGED <<ep, pc, next, disk, saved, lost>>

\* Mutant of Record: nobody looks whether an episode is being recorded.
RecordAlways ==
  /\ pc = "idle"
  /\ episode.frames < MaxFrames
  /\ episode' = [episode EXCEPT !.frames = @ + 1]
  /\ UNCHANGED <<episodes, ep, pc, next, disk, saved, lost>>

Record ==
  /\ pc = "idle" /\ episode # None
  /\ episode.frames < MaxFrames
  /\ episode' = [episode EXCEPT !.frames = @ + 1]
  /\ UNCHANGED <<episodes, ep, pc, next, disk, saved, lost>>

NoteIntervention ==
  /\ pc = "idle" /\ episode # None
  /\ episode.interventions < MaxNotes
  /\ episode' = [episode EXCEPT !.interventions = @ + 1]
  /\ UNCHANGED <<episodes, ep, pc, next, disk, saved, lost>>

\* Mutant of Stop: the table is written first.
StopTableFirst(another) ==
  /\ pc = "idle" /\ episode # None /\ (another => CanStart)
  /\ ep' = episode /\ episode' = None
  /\ pc' = "parquet" /\ next' = another
  /\ UNCHANGED <<episodes, disk, saved, lost>>

\* stop(), and start() while an episode is being recorded.  The episode is forgotten
\* before it is written.
Stop(another) ==
  /\ pc = "idle" /\ episode # None /\ (another => CanStart)
  /\ ep' = episode /\ episode' = None
  /\ pc' = "meta" /\ next' = another
  /\ UNCHANGED <<episodes, disk, saved, lost>>
-----------------------------------------------------------------------------
(* _write *)

Write(suffix, whole) ==
  disk' = [disk EXCEPT ![<<ep.started, suffix>>] = [of |-> ep, whole |-> whole]]

\* stop() has returned.  For start() that is not the end.
Returns ==
  /\ saved' = saved \cup {ep}
  /\ ep' = None /\ pc' = "idle" /\ next' = FALSE
  /\ IF next THEN NewEpisode ELSE UNCHANGED <<episodes, episode>>
  /\ UNCHANGED lost

\* The exception is the caller's: nothing is written once more, and start() starts nothing.
Raises ==
  /\ lost' = lost \cup {ep}
  /\ ep' = None /\ pc' = "idle" /\ next' = FALSE
  /\ UNCHANGED <<episodes, episode, saved>>

Continues(at) == pc' = at /\ UNCHANGED <<episodes, episode, ep, next, saved, lost>>

WriteMeta ==
  /\ pc = "meta"
  /\ \/ Write("meta", TRUE) /\ Continues("parquet")
     \/ Write("meta", FALSE) /\ Raises
     \/ UNCHANGED disk /\ Raises

\* Mutant of WriteParquet: it reports success in any case.
WriteParquetSilently ==
  /\ pc = "parquet"
  /\ \/ HaveEngine /\ \E whole \in BOOLEAN : Write("parquet", whole) /\ Returns
     \/ UNCHANGED disk /\ Continues("jsonl")

\* Whatever goes wrong with the Parquet file, the other format is tried next.
WriteParquet ==
  /\ pc = "parquet"
  /\ \/ HaveEngine /\ Write("parquet", TRUE) /\ Returns
     \/ HaveEngine /\ Write("parquet", FALSE) /\ Continues("jsonl")
     \/ UNCHANGED disk /\ Continues("jsonl")

WriteJsonl ==
  /\ pc = "jsonl"
  /\ \/ Write("jsonl", TRUE) /\ Returns
     \/ Write("jsonl", FALSE) /\ Raises
     \/ UNCHANGED disk /\ Raises

\* The process ends; the next one has a recorder of its own, for the same directory.
Crash ==
  /\ episode # None \/ ep # None
  /\ lost' = lost \cup ({episode, ep} \ {None})
  /\ episode' = None /\ ep' = None /\ pc' = "idle" /\ next' = FALSE
  /\ UNCHANGED <<episodes, disk, saved>>

Next == \/ Start \/ Record \/ NoteIntervention \/ (\E another \in BOOLEAN : Stop(another))
        \/ WriteMeta \/ WriteParquet \/ WriteJsonl \/ Crash

Spec == Init /\ [][Next]_vars
-----------------------------------------------------------------------------
(* Properties *)

File(e, suffix) == disk[<<e.started, suffix>>]
Is(file, e) == file = [of |-> e, whole |-> TRUE]

\* The episodes that something is known of.
Known == (saved \cup lost \cup {episode, ep}) \ {None}

\* A later episode was started in the same second: its files have the same names.
Overtaken(e) == \E d \in Known : d.started = e.started /\ d.id > e.id

\* An episode for which stop() returned is on disk as it was recorded, its meta data and
\* a whole table, and stays there, whatever is recorded, written or lost after it: only
\* an episode that is started later in the same second takes its files (recorder.py:87-95).
SavedStays ==
  \A e \in saved :
    \/ Overtaken(e)
    \/ /\ Is(File(e, "meta"), e)
       /\ Is(File(e, "parquet"), e) \/ Is(File(e, "jsonl"), e)

\* No episode disappears: each that was started is being recorded, being written, saved,
\* or was lost with an exception or with the process.
Accounted == {e.id : e \in Known} = 1..episodes

\* A whole table has the meta data of its own episode beside it, and so as many frames as
\* those say, also when a later write failed or the process ended half-way: except that
\* the meta data may be of an episode that was started later in the same second.
CountsAgree ==
  \A s \in Stamps : \A table \in {"parquet", "jsonl"} :
    disk[<<s, table>>].whole => LET e == disk[<<s, table>>].of
                                IN  Overtaken(e) \/ Is(disk[<<s, "meta">>], e)
=============================================================================
