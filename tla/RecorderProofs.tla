--------------------------- MODULE RecorderProofs ---------------------------
(***************************************************************************)
(* Proofs about the recorder, for any number of episodes, frames and       *)
(* notes, with and without pandas, whatever the clock says and whichever   *)
(* writes fail.                                                            *)
(***************************************************************************)
EXTENDS Recorder, TLAPS

\* None is told from every episode by its id.
LEMMA NoneIsNoEpisode == None \notin Episodes
BY RecorderAssumption DEF None, Episodes

LEMMA InitTypeOK == Init => TypeOK
<1> SUFFICES ASSUME Init PROVE TypeOK
  OBVIOUS
<1> USE RecorderAssumption DEF Init
<1>1. NoFile \in Files
  BY DEF NoFile, Files
<1>2. disk \in [Stamps \X Suffixes -> Files]
  BY <1>1
<1>3. episodes \in 0..MaxEpisodes
  OBVIOUS
<1> QED BY <1>2, <1>3 DEF TypeOK

\* What NewEpisode makes.
LEMMA NewIsEpisode ==
  ASSUME TypeOK, NewEpisode
  PROVE  /\ episodes' = episodes + 1 /\ episodes' \in 0..MaxEpisodes
         /\ episode' \in Episodes /\ episode'.id = episodes + 1
<1>1. PICK now \in Stamps :
        episode' = [id |-> episodes + 1, started |-> now, frames |-> 0, interventions |-> 0]
  BY DEF NewEpisode
<1>2. episodes' = episodes + 1 /\ episodes < MaxEpisodes
  BY DEF NewEpisode
<1>3. episodes + 1 \in 1..MaxEpisodes
  BY <1>2, RecorderAssumption DEF TypeOK
<1>4. 0 \in 0..MaxFrames /\ 0 \in 0..MaxNotes
  BY RecorderAssumption
<1>5. episode' \in Episodes
  BY <1>1, <1>3, <1>4 DEF Episodes
<1> QED BY <1>1, <1>2, <1>3, <1>5

\* The disk after a write of the episode that is being written.
LEMMA WriteKeepsType ==
  ASSUME TypeOK, ep # None, NEW suffix \in Suffixes, NEW whole \in BOOLEAN, Write(suffix, whole)
  PROVE  /\ disk' \in [Stamps \X Suffixes -> Files]
         /\ ep \in Episodes /\ ep.started \in Stamps
         /\ disk'[<<ep.started, suffix>>] = [of |-> ep, whole |-> whole]
         /\ \A s \in Stamps, x \in Suffixes :
              s # ep.started \/ x # suffix => disk'[<<s, x>>] = disk[<<s, x>>]
<1>1. ep \in Episodes /\ ep.started \in Stamps
  BY DEF TypeOK, Episodes
<1>2. [of |-> ep, whole |-> whole] \in Files
  BY <1>1 DEF Files
<1> QED BY <1>1, <1>2 DEF TypeOK, Write

-----------------------------------------------------------------------------
(* Types *)

\* The variables that Returns, Raises and Continues leave in their types, the disk excepted.
TypeOfRest ==
  /\ episodes \in 0..MaxEpisodes
  /\ episode \in Episodes \cup {None}
  /\ ep \in Episodes \cup {None}
  /\ pc \in {"idle", "meta", "parquet", "jsonl"}
  /\ next \in BOOLEAN
  /\ saved \subseteq Episodes /\ lost \subseteq Episodes

LEMMA ReturnsTypeOK ==
  ASSUME TypeOK, ep # None, Returns
  PROVE  TypeOfRest'
<1>1. episodes' \in 0..MaxEpisodes /\ episode' \in Episodes \cup {None}
  <2>1. CASE next
    <3>1. NewEpisode
      BY <2>1 DEF Returns
    <3> QED BY <3>1, NewIsEpisode
  <2>2. CASE ~next
    BY <2>2 DEF Returns, TypeOK
  <2> QED BY <2>1, <2>2
<1>2. saved' \subseteq Episodes /\ lost' \subseteq Episodes
  BY DEF Returns, TypeOK
<1> QED BY <1>1, <1>2 DEF Returns, TypeOfRest

LEMMA RaisesTypeOK ==
  ASSUME TypeOK, ep # None, Raises
  PROVE  TypeOfRest'
BY DEF TypeOK, Raises, TypeOfRest

LEMMA ContinuesTypeOK ==
  ASSUME TypeOK, NEW at \in {"parquet", "jsonl"}, Continues(at)
  PROVE  TypeOfRest'
BY DEF TypeOK, Continues, TypeOfRest

\* The state of _write: an episode is being written or is being recorded, and not both.
OneAtATime == /\ pc = "idle" <=> ep = None
              /\ ep # None => episode = None

LEMMA NextTypeOK == TypeOK /\ OneAtATime /\ [Next]_vars => TypeOK'
<1> SUFFICES ASSUME TypeOK, OneAtATime, [Next]_vars PROVE TypeOK'
  OBVIOUS
<1>a. ASSUME TypeOfRest', disk' \in [Stamps \X Suffixes -> Files] PROVE TypeOK'
  BY <1>a DEF TypeOK, TypeOfRest
<1>1. CASE Start
  BY <1>1, NewIsEpisode DEF Start, TypeOK
<1>2. CASE Record
  <2>1. episode \in Episodes /\ episode.frames + 1 \in 0..MaxFrames
    BY <1>2, RecorderAssumption DEF Record, TypeOK, Episodes
  <2>2. episode' \in Episodes
    BY <1>2, <2>1 DEF Record, Episodes
  <2> QED BY <1>2, <2>2 DEF Record, TypeOK
<1>3. CASE NoteIntervention
  <2>1. episode \in Episodes /\ episode.interventions + 1 \in 0..MaxNotes
    BY <1>3, RecorderAssumption DEF NoteIntervention, TypeOK, Episodes
  <2>2. episode' \in Episodes
    BY <1>3, <2>1 DEF NoteIntervention, Episodes
  <2> QED BY <1>3, <2>2 DEF NoteIntervention, TypeOK
<1>4. ASSUME NEW another \in BOOLEAN, Stop(another) PROVE TypeOK'
  BY <1>4 DEF Stop, TypeOK
<1>5. CASE WriteMeta
  <2>1. ep # None /\ "meta" \in Suffixes
    BY <1>5 DEF WriteMeta, OneAtATime, Suffixes
  <2>2. TypeOfRest'
    BY <1>5, <2>1, RaisesTypeOK, ContinuesTypeOK DEF WriteMeta
  <2>3. disk' \in [Stamps \X Suffixes -> Files]
    BY <1>5, <2>1, WriteKeepsType DEF WriteMeta, TypeOK
  <2> QED BY <1>a, <2>2, <2>3
<1>6. CASE WriteParquet
  <2>1. ep # None /\ "parquet" \in Suffixes
    BY <1>6 DEF WriteParquet, OneAtATime, Suffixes
  <2>2. TypeOfRest'
    BY <1>6, <2>1, ReturnsTypeOK, ContinuesTypeOK DEF WriteParquet
  <2>3. disk' \in [Stamps \X Suffixes -> Files]
    BY <1>6, <2>1, WriteKeepsType DEF WriteParquet, TypeOK
  <2> QED BY <1>a, <2>2, <2>3
<1>7. CASE WriteJsonl
  <2>1. ep # None /\ "jsonl" \in Suffixes
    BY <1>7 DEF WriteJsonl, OneAtATime, Suffixes
  <2>2. TypeOfRest'
    BY <1>7, <2>1, ReturnsTypeOK, RaisesTypeOK DEF WriteJsonl
  <2>3. disk' \in [Stamps \X Suffixes -> Files]
    BY <1>7, <2>1, WriteKeepsType DEF WriteJsonl, TypeOK
  <2> QED BY <1>a, <2>2, <2>3
<1>8. CASE Crash
  BY <1>8 DEF Crash, TypeOK
<1>9. CASE UNCHANGED vars
  BY <1>9 DEF vars, TypeOK
<1> QED BY <1>1, <1>2, <1>3, <1>4, <1>5, <1>6, <1>7, <1>8, <1>9 DEF Next

LEMMA NextOneAtATime == TypeOK /\ OneAtATime /\ [Next]_vars => OneAtATime'
<1> SUFFICES ASSUME TypeOK, OneAtATime, [Next]_vars PROVE OneAtATime'
  OBVIOUS
<1> USE DEF OneAtATime
<1>1. CASE Start
  BY <1>1 DEF Start
<1>2. CASE Record
  BY <1>2 DEF Record
<1>3. CASE NoteIntervention
  BY <1>3 DEF NoteIntervention
<1>4. ASSUME NEW another \in BOOLEAN, Stop(another) PROVE OneAtATime'
  BY <1>4 DEF Stop
<1>5. CASE WriteMeta
  BY <1>5 DEF WriteMeta, Continues, Raises
<1>6. CASE WriteParquet
  BY <1>6 DEF WriteParquet, Continues, Returns
<1>7. CASE WriteJsonl
  BY <1>7 DEF WriteJsonl, Returns, Raises
<1>8. CASE Crash
  BY <1>8 DEF Crash
<1>9. CASE UNCHANGED vars
  BY <1>9 DEF vars
<1> QED BY <1>1, <1>2, <1>3, <1>4, <1>5, <1>6, <1>7, <1>8, <1>9 DEF Next

LEMMA TypeInvariant == Spec => [](TypeOK /\ OneAtATime)
<1>1. Init => OneAtATime
  BY DEF Init, OneAtATime
<1> QED BY <1>1, InitTypeOK, NextTypeOK, NextOneAtATime, PTL DEF Spec

\* Every variable of the recorder keeps its type.
THEOREM RecorderTypeCorrect == Spec => []TypeOK
<1> QED BY TypeInvariant, PTL
-----------------------------------------------------------------------------
(* No episode disappears *)

\* Accounted, element by element.
LEMMA AccountedMeans ==
  Accounted <=> /\ \A e \in Known : e.id \in 1..episodes
                /\ \A n \in 1..episodes : \E e \in Known : e.id = n
BY DEF Accounted, Known

LEMMA AccountedMeansNext ==
  Accounted' <=> /\ \A e \in Known' : e.id \in 1..episodes'
                 /\ \A n \in 1..episodes' : \E e \in Known' : e.id = n
BY DEF Accounted, Known

\* One more episode, and one more number.
LEMMA OneMoreAccounted ==
  ASSUME TypeOK, Accounted, NewEpisode, Known' = Known \cup {episode'}
  PROVE  Accounted'
<1>1. /\ episodes' = episodes + 1 /\ episodes \in Nat
      /\ episode'.id = episodes + 1
  BY NewIsEpisode DEF TypeOK
<1>2. \A e \in Known' : e.id \in 1..episodes'
  BY <1>1, AccountedMeans
<1>3. \A n \in 1..episodes' : \E e \in Known' : e.id = n
  <2>1. ASSUME NEW n \in 1..episodes' PROVE n \in 1..episodes \/ n = episodes + 1
    BY <1>1
  <2> QED BY <1>1, <2>1, AccountedMeans
<1> QED BY <1>2, <1>3, AccountedMeansNext

\* The episode that is recorded changes, and keeps its number.
LEMMA SameNumberAccounted ==
  ASSUME TypeOK, Accounted, episode # None, episode' # None, episode'.id = episode.id,
         UNCHANGED <<episodes, ep, saved, lost>>
  PROVE  Accounted'
<1>1. \A e \in Known' : \E d \in Known : d.id = e.id
  BY DEF Known
<1>2. \A d \in Known : \E e \in Known' : d.id = e.id
  BY DEF Known
<1> QED BY <1>1, <1>2, AccountedMeans, AccountedMeansNext

LEMMA NextAccounted == TypeOK /\ OneAtATime /\ Accounted /\ [Next]_vars => Accounted'
<1> SUFFICES ASSUME TypeOK, OneAtATime, Accounted, [Next]_vars PROVE Accounted'
  OBVIOUS
<1>a. ASSUME Known' = Known, episodes' = episodes PROVE Accounted'
  BY <1>a, AccountedMeans, AccountedMeansNext
<1>r. ASSUME ep # None, Returns PROVE Accounted'
  <2>1. CASE next
    <3>1. NewEpisode /\ episode' # None
      BY <1>r, <2>1, NewIsEpisode, NoneIsNoEpisode DEF Returns
    <3>2. Known' = Known \cup {episode'}
      BY <1>r, <3>1 DEF Known, Returns, OneAtATime
    <3> QED BY <3>1, <3>2, OneMoreAccounted
  <2>2. CASE ~next
    BY <1>a, <1>r, <2>2 DEF Known, Returns
  <2> QED BY <2>1, <2>2
<1>f. ASSUME Raises PROVE Accounted'
  BY <1>a, <1>f DEF Known, Raises
<1>c. ASSUME NEW at, Continues(at) PROVE Accounted'
  BY <1>a, <1>c DEF Known, Continues
<1>1. CASE Start
  <2>1. NewEpisode /\ episode' # None
    BY <1>1, NewIsEpisode, NoneIsNoEpisode DEF Start
  <2>2. Known' = Known \cup {episode'}
    BY <1>1, <2>1 DEF Known, Start, OneAtATime
  <2> QED BY <2>1, <2>2, OneMoreAccounted
<1>2. CASE Record
  <2>1. episode \in Episodes
    BY <1>2 DEF Record, TypeOK
  <2>2. episode'.id = episode.id
    BY <1>2, <2>1 DEF Record, Episodes
  <2>3. episode' # None
    BY <2>1, <2>2, RecorderAssumption DEF Episodes, None
  <2> QED BY <1>2, <2>2, <2>3, SameNumberAccounted DEF Record
<1>3. CASE NoteIntervention
  <2>1. episode \in Episodes
    BY <1>3 DEF NoteIntervention, TypeOK
  <2>2. episode'.id = episode.id
    BY <1>3, <2>1 DEF NoteIntervention, Episodes
  <2>3. episode' # None
    BY <2>1, <2>2, RecorderAssumption DEF Episodes, None
  <2> QED BY <1>3, <2>2, <2>3, SameNumberAccounted DEF NoteIntervention
<1>4. ASSUME NEW another \in BOOLEAN, Stop(another) PROVE Accounted'
  BY <1>a, <1>4 DEF Known, Stop, OneAtATime
<1>5. CASE WriteMeta
  BY <1>5, <1>c, <1>f DEF WriteMeta
<1>6. CASE WriteParquet
  BY <1>6, <1>c, <1>r DEF WriteParquet, OneAtATime
<1>7. CASE WriteJsonl
  BY <1>7, <1>f, <1>r DEF WriteJsonl, OneAtATime
<1>8. CASE Crash
  BY <1>a, <1>8 DEF Known, Crash
<1>9. CASE UNCHANGED vars
  BY <1>a, <1>9 DEF Known, vars
<1> QED BY <1>1, <1>2, <1>3, <1>4, <1>5, <1>6, <1>7, <1>8, <1>9 DEF Next

\* No episode disappears, whichever writes fail and whenever the process ends: each that
\* was started is being recorded, being written, saved, or was lost with an exception or
\* with the process.
THEOREM NoneDisappears == Spec => []Accounted
<1>1. Init => Accounted
  BY DEF Init, Accounted, Known
<1> QED BY <1>1, NextAccounted, TypeInvariant, PTL DEF Spec
-----------------------------------------------------------------------------
(* The files *)

\* What is known of an episode stays known, and with it that another has its file names.
LEMMA KnownStays ==
  ASSUME TypeOK, OneAtATime, [Next]_vars
  PROVE  \A d \in Known : \E e \in Known' : e.id = d.id /\ e.started = d.started
<1>r. ASSUME ep # None, Returns PROVE Known \subseteq Known'
  <2>1. episode = None \/ episode' = episode
    BY <1>r DEF OneAtATime, Returns
  <2> QED BY <1>r, <2>1 DEF Known, Returns
<1>f. ASSUME Raises PROVE Known \subseteq Known'
  BY <1>f DEF Known, Raises
<1>c. ASSUME NEW at, Continues(at) PROVE Known \subseteq Known'
  BY <1>c DEF Known, Continues
<1>e. ASSUME UNCHANGED <<ep, saved, lost>>,
             episode # None =>
               episode' # None /\ episode'.id = episode.id /\ episode'.started = episode.started
      PROVE  \A d \in Known : \E e \in Known' : e.id = d.id /\ e.started = d.started
  BY <1>e DEF Known
<1>n. ASSUME episode \in Episodes, episode' \in Episodes PROVE episode # None /\ episode' # None
  BY <1>n, NoneIsNoEpisode
<1>1. CASE Start
  BY <1>1 DEF Known, Start
<1>2. CASE Record
  <2>1. episode \in Episodes /\ episode' \in Episodes
    BY <1>2, NextTypeOK DEF Record, TypeOK, Episodes, None
  <2>2. episode'.id = episode.id /\ episode'.started = episode.started
    BY <1>2, <2>1 DEF Record, Episodes
  <2> QED BY <1>2, <1>e, <1>n, <2>1, <2>2 DEF Record
<1>3. CASE NoteIntervention
  <2>1. episode \in Episodes /\ episode' \in Episodes
    BY <1>3, NextTypeOK DEF NoteIntervention, TypeOK, Episodes, None
  <2>2. episode'.id = episode.id /\ episode'.started = episode.started
    BY <1>3, <2>1 DEF NoteIntervention, Episodes
  <2> QED BY <1>3, <1>e, <1>n, <2>1, <2>2 DEF NoteIntervention
<1>4. ASSUME NEW another \in BOOLEAN, Stop(another) PROVE Known \subseteq Known'
  BY <1>4 DEF Known, Stop, OneAtATime
<1>5. CASE WriteMeta
  BY <1>5, <1>c, <1>f DEF WriteMeta
<1>6. CASE WriteParquet
  BY <1>6, <1>c, <1>r DEF WriteParquet, OneAtATime
<1>7. CASE WriteJsonl
  BY <1>7, <1>f, <1>r DEF WriteJsonl, OneAtATime
<1>8. CASE Crash
  BY <1>8 DEF Known, Crash
<1>9. CASE UNCHANGED vars
  BY <1>9 DEF Known, vars
<1> QED BY <1>1, <1>2, <1>3, <1>4, <1>5, <1>6, <1>7, <1>8, <1>9 DEF Next

LEMMA OvertakenStays ==
  ASSUME TypeOK, OneAtATime, [Next]_vars, NEW e, Overtaken(e)
  PROVE  Overtaken(e)'
<1>1. PICK d \in Known : d.started = e.started /\ d.id > e.id
  BY DEF Overtaken
<1>2. PICK c \in Known' : c.id = d.id /\ c.started = d.started
  BY KnownStays
<1> QED BY <1>1, <1>2 DEF Overtaken

\* The episode in hand is the latest, a whole table is of one that is being written or
\* is done with, and the meta data are written before the table.  SavedStays and
\* CountsAgree are inductive with it.
FilesInv ==
  /\ episode # None => episode.id = episodes
  /\ ep # None => ep.id = episodes
  /\ \A e \in saved \cup lost : /\ e.id <= episodes
                                /\ episode # None \/ ep # None => e.id < episodes
  /\ \A s \in Stamps : \A table \in {"parquet", "jsonl"} :
       disk[<<s, table>>].whole => LET e == disk[<<s, table>>].of
                                   IN  /\ e.started = s
                                       /\ \/ e \in saved \cup lost
                                          \/ pc \in {"parquet", "jsonl"} /\ e = ep
  /\ pc \in {"parquet", "jsonl"} => Is(File(ep, "meta"), ep)

DiskInv == FilesInv /\ SavedStays /\ CountsAgree

\* The files of a finished episode are overwritten only if it is overtaken.
LEMMA SameNamesOvertaken ==
  ASSUME TypeOK, FilesInv, ep # None, NEW e \in saved \cup lost, e.started = ep.started
  PROVE  Overtaken(e)
<1>1. ep \in Known /\ ep.id = episodes /\ e.id < episodes
  BY DEF Known, FilesInv
<1>2. ep.id > e.id
  BY <1>1 DEF TypeOK, Episodes
<1> QED BY <1>1, <1>2 DEF Overtaken

\* A new episode has a number above those of the finished ones.
LEMMA NewEpisodeNumbered ==
  ASSUME TypeOK, FilesInv, NewEpisode, NEW S, S \subseteq saved \cup lost \cup ({ep} \ {None})
  PROVE  episode'.id = episodes' /\ \A e \in S : e.id <= episodes' /\ e.id < episodes'
<1>1. episodes' = episodes + 1 /\ episodes \in Nat /\ episode'.id = episodes'
  BY NewIsEpisode DEF TypeOK
<1>2. ASSUME NEW e \in S PROVE e.id \in Int /\ e.id <= episodes
  BY <1>1 DEF FilesInv, TypeOK, Episodes
<1> QED BY <1>1, <1>2

\* The first three parts of FilesInv.
Numbered ==
  /\ episode # None => episode.id = episodes
  /\ ep # None => ep.id = episodes
  /\ \A e \in saved \cup lost : /\ e.id <= episodes
                                /\ episode # None \/ ep # None => e.id < episodes

LEMMA NextNumbered ==
  ASSUME TypeOK, OneAtATime, FilesInv, [Next]_vars
  PROVE  Numbered'
<1>r. ASSUME ep # None, Returns PROVE Numbered'
  <2>1. ep \in Episodes /\ ep.id = episodes /\ episodes \in Nat /\ episode = None
    BY <1>r DEF FilesInv, TypeOK, OneAtATime
  <2>2. ep' = None /\ saved' \cup lost' = saved \cup lost \cup ({ep} \ {None})
    BY <1>r DEF Returns
  <2>3. CASE next
    <3>1. NewEpisode
      BY <1>r, <2>3 DEF Returns
    <3> QED BY <2>2, <3>1, NewEpisodeNumbered DEF Numbered
  <2>4. CASE ~next
    <3>1. episode' = None /\ episodes' = episodes
      BY <1>r, <2>1, <2>4 DEF Returns
    <3>2. \A e \in saved' \cup lost' : e.id <= episodes
      BY <2>1, <2>2 DEF FilesInv
    <3> QED BY <2>2, <3>1, <3>2 DEF Numbered
  <2> QED BY <2>3, <2>4
<1>f. ASSUME ep # None, Raises PROVE Numbered'
  <2>1. ep \in Episodes /\ ep.id = episodes /\ episodes \in Nat /\ episode = None
    BY <1>f DEF FilesInv, TypeOK, OneAtATime
  <2> QED BY <1>f, <2>1 DEF Raises, FilesInv, Numbered
<1>c. ASSUME NEW at, Continues(at) PROVE Numbered'
  BY <1>c DEF Continues, FilesInv, Numbered
<1>1. CASE Start
  <2>1. NewEpisode /\ ep' = None /\ saved' \cup lost' = saved \cup lost
    BY <1>1 DEF Start, OneAtATime
  <2> QED BY <2>1, NewEpisodeNumbered DEF Numbered
<1>2. CASE Record
  BY <1>2 DEF Record, FilesInv, TypeOK, Episodes, Numbered
<1>3. CASE NoteIntervention
  BY <1>3 DEF NoteIntervention, FilesInv, TypeOK, Episodes, Numbered
<1>4. ASSUME NEW another \in BOOLEAN, Stop(another) PROVE Numbered'
  BY <1>4 DEF Stop, FilesInv, Numbered
<1>5. CASE WriteMeta
  BY <1>5, <1>c, <1>f DEF WriteMeta, OneAtATime
<1>6. CASE WriteParquet
  BY <1>6, <1>c, <1>r DEF WriteParquet, OneAtATime
<1>7. CASE WriteJsonl
  BY <1>7, <1>f, <1>r DEF WriteJsonl, OneAtATime
<1>8. CASE Crash
  <2>1. episode' = None /\ ep' = None /\ episodes' = episodes
    BY <1>8 DEF Crash
  <2>2. ASSUME NEW e \in saved' \cup lost' PROVE e.id <= episodes
    <3>1. e \in saved \cup lost \/ (e = episode /\ e # None) \/ (e = ep /\ e # None)
      BY <1>8 DEF Crash
    <3> QED BY <3>1 DEF FilesInv, TypeOK
  <2> QED BY <2>1, <2>2 DEF Numbered
<1>9. CASE UNCHANGED vars
  BY <1>9 DEF vars, FilesInv, Numbered
<1> QED BY <1>1, <1>2, <1>3, <1>4, <1>5, <1>6, <1>7, <1>8, <1>9 DEF Next

-----------------------------------------------------------------------------
(* A write, and steps without one *)

\* Steps that write nothing: what is on disk was there before, and what is known stays.
LEMMA NothingWritten ==
  ASSUME TypeOK, OneAtATime, DiskInv, [Next]_vars, UNCHANGED <<disk, saved>>,
         lost \subseteq lost',
         pc \in {"parquet", "jsonl"} => (pc' \in {"parquet", "jsonl"} /\ ep' = ep) \/ ep \in lost',
         pc' \in {"parquet", "jsonl"} => pc \in {"parquet", "jsonl"} /\ ep' = ep
  PROVE  DiskInv'
<1>1. SavedStays'
  BY OvertakenStays DEF DiskInv, SavedStays, File
<1>2. CountsAgree'
  BY OvertakenStays DEF DiskInv, CountsAgree
<1>3. \A s \in Stamps : \A table \in {"parquet", "jsonl"} :
        disk'[<<s, table>>].whole => LET e == disk'[<<s, table>>].of
                                     IN  /\ e.started = s
                                         /\ \/ e \in saved' \cup lost'
                                            \/ pc' \in {"parquet", "jsonl"} /\ e = ep'
  BY DEF DiskInv, FilesInv
<1>4. pc' \in {"parquet", "jsonl"} => Is(disk'[<<ep'.started, "meta">>], ep')
  BY DEF DiskInv, FilesInv, File
<1>5. Numbered'
  BY NextNumbered DEF DiskInv
<1> QED BY <1>1, <1>2, <1>3, <1>4, <1>5 DEF DiskInv, FilesInv, Numbered, File

\* The meta data are written, whole or in part: over those of overtaken episodes at most.
LEMMA MetaWritten ==
  ASSUME TypeOK, OneAtATime, DiskInv, [Next]_vars, pc = "meta",
         NEW whole \in BOOLEAN, Write("meta", whole), saved' = saved, lost \subseteq lost',
         pc' \in {"parquet", "jsonl"} => whole /\ ep' = ep
  PROVE  DiskInv'
<1>1. ep # None /\ "meta" \in Suffixes
  BY DEF OneAtATime, Suffixes
<1>2. /\ ep \in Episodes /\ ep.started \in Stamps
      /\ disk'[<<ep.started, "meta">>] = [of |-> ep, whole |-> whole]
      /\ \A s \in Stamps, x \in Suffixes :
           s # ep.started \/ x # "meta" => disk'[<<s, x>>] = disk[<<s, x>>]
  BY <1>1, WriteKeepsType
<1>3. SavedStays'
  <2> SUFFICES ASSUME NEW e \in saved
               PROVE  \/ Overtaken(e)'
                      \/ /\ Is(disk'[<<e.started, "meta">>], e)
                         /\ \/ Is(disk'[<<e.started, "parquet">>], e)
                            \/ Is(disk'[<<e.started, "jsonl">>], e)
    BY DEF SavedStays, File
  <2>1. CASE Overtaken(e) \/ e.started = ep.started
    BY <1>1, <2>1, SameNamesOvertaken, OvertakenStays DEF DiskInv
  <2>2. CASE ~Overtaken(e) /\ e.started # ep.started
    <3>1. e.started \in Stamps
      BY DEF TypeOK, Episodes
    <3> QED BY <1>2, <2>2, <3>1 DEF DiskInv, SavedStays, File, Suffixes
  <2> QED BY <2>1, <2>2
<1>4. \A s \in Stamps, table \in {"parquet", "jsonl"} : disk'[<<s, table>>] = disk[<<s, table>>]
  BY <1>2 DEF Suffixes
<1>5. \A s \in Stamps, table \in {"parquet", "jsonl"} :
        disk[<<s, table>>].whole => LET e == disk[<<s, table>>].of
                                    IN  e.started = s /\ e \in saved \cup lost
  BY DEF DiskInv, FilesInv
<1>6. CountsAgree'
  <2> SUFFICES ASSUME NEW s \in Stamps, NEW table \in {"parquet", "jsonl"},
                      disk[<<s, table>>].whole, NEW e, e = disk[<<s, table>>].of
               PROVE  Overtaken(e)' \/ Is(disk'[<<s, "meta">>], e)
    BY <1>4 DEF CountsAgree
  <2>1. CASE s = ep.started
    BY <1>1, <1>5, <2>1, SameNamesOvertaken, OvertakenStays DEF DiskInv
  <2>2. CASE s # ep.started
    BY <1>1, <1>2, <2>2, OvertakenStays DEF DiskInv, CountsAgree
  <2> QED BY <2>1, <2>2
<1>7. \A s \in Stamps : \A table \in {"parquet", "jsonl"} :
        disk'[<<s, table>>].whole => LET e == disk'[<<s, table>>].of
                                     IN  e.started = s /\ e \in saved' \cup lost'
  <2> TAKE s \in Stamps
  <2> TAKE table \in {"parquet", "jsonl"}
  <2>1. disk'[<<s, table>>] = disk[<<s, table>>]
    BY <1>4
  <2>2. disk[<<s, table>>].whole => /\ disk[<<s, table>>].of.started = s
                                    /\ disk[<<s, table>>].of \in saved \cup lost
    BY <1>5
  <2>3. saved \cup lost \subseteq saved' \cup lost'
    OBVIOUS
  <2> QED BY ONLY <2>1, <2>2, <2>3
<1>8. pc' \in {"parquet", "jsonl"} => Is(disk'[<<ep'.started, "meta">>], ep')
  BY <1>2 DEF Is
<1>9. Numbered'
  BY NextNumbered DEF DiskInv
<1> QED BY <1>3, <1>6, <1>7, <1>8, <1>9 DEF DiskInv, FilesInv, Numbered, File

\* A table is written, and if whole, perhaps the episode is saved; its meta data are there.
LEMMA TableWritten ==
  ASSUME TypeOK, OneAtATime, DiskInv, [Next]_vars, pc \in {"parquet", "jsonl"},
         NEW table \in {"parquet", "jsonl"}, NEW whole \in BOOLEAN, Write(table, whole),
         whole => saved' = saved \cup {ep}, ~whole => saved' = saved, lost \subseteq lost',
         pc' \in {"parquet", "jsonl"} => ep' = ep,
         pc' \in {"parquet", "jsonl"} \/ ep \in saved' \cup lost'
  PROVE  DiskInv'
<1>1. ep # None /\ table \in Suffixes
  BY DEF OneAtATime, Suffixes
<1>2. /\ ep \in Episodes /\ ep.started \in Stamps
      /\ disk'[<<ep.started, table>>] = [of |-> ep, whole |-> whole]
      /\ \A s \in Stamps, x \in Suffixes :
           s # ep.started \/ x # table => disk'[<<s, x>>] = disk[<<s, x>>]
  BY <1>1, WriteKeepsType
<1>3. \A s \in Stamps : disk'[<<s, "meta">>] = disk[<<s, "meta">>]
  BY <1>2 DEF Suffixes
<1>4. Is(disk[<<ep.started, "meta">>], ep)
  BY DEF DiskInv, FilesInv, File
<1>5. SavedStays'
  <2> SUFFICES ASSUME NEW e \in saved'
               PROVE  \/ Overtaken(e)'
                      \/ /\ Is(disk'[<<e.started, "meta">>], e)
                         /\ \/ Is(disk'[<<e.started, "parquet">>], e)
                            \/ Is(disk'[<<e.started, "jsonl">>], e)
    BY DEF SavedStays, File
  <2>1. CASE e \notin saved
    <3>1. e = ep /\ whole
      BY <2>1
    <3> QED BY <1>2, <1>3, <1>4, <3>1 DEF Is
  <2>2. CASE e \in saved /\ (Overtaken(e) \/ e.started = ep.started)
    BY <1>1, <2>2, SameNamesOvertaken, OvertakenStays DEF DiskInv
  <2>3. CASE e \in saved /\ ~Overtaken(e) /\ e.started # ep.started
    <3>1. e.started \in Stamps
      BY <2>3 DEF TypeOK, Episodes
    <3> QED BY <1>2, <2>3, <3>1 DEF DiskInv, SavedStays, File, Suffixes
  <2> QED BY <2>1, <2>2, <2>3
<1>6. ASSUME NEW s \in Stamps, NEW x \in {"parquet", "jsonl"}
      PROVE  \/ s = ep.started /\ disk'[<<s, x>>].of = ep
             \/ disk'[<<s, x>>] = disk[<<s, x>>]
  <2>1. CASE s = ep.started /\ x = table
    BY <1>2, <2>1
  <2>2. CASE s # ep.started \/ x # table
    BY <1>2, <2>2 DEF Suffixes
  <2> QED BY <2>1, <2>2
<1>7. CountsAgree'
  <2> SUFFICES ASSUME NEW s \in Stamps, NEW x \in {"parquet", "jsonl"}, disk'[<<s, x>>].whole,
                      NEW e, e = disk'[<<s, x>>].of
               PROVE  Overtaken(e)' \/ Is(disk'[<<s, "meta">>], e)
    BY DEF CountsAgree
  <2>1. CASE s = ep.started /\ e = ep
    BY <1>3, <1>4, <2>1
  <2>2. CASE disk'[<<s, x>>] = disk[<<s, x>>]
    BY <1>3, <2>2, OvertakenStays DEF DiskInv, CountsAgree
  <2> QED BY <1>6, <2>1, <2>2
<1>8. \A s \in Stamps : \A x \in {"parquet", "jsonl"} :
        disk'[<<s, x>>].whole => LET e == disk'[<<s, x>>].of
                                 IN  /\ e.started = s
                                     /\ \/ e \in saved' \cup lost'
                                        \/ pc' \in {"parquet", "jsonl"} /\ e = ep'
  <2> TAKE s \in Stamps
  <2> TAKE x \in {"parquet", "jsonl"}
  <2> HAVE disk'[<<s, x>>].whole
  <2> DEFINE e == disk'[<<s, x>>].of
  <2>1. e.started = s /\ (e \in saved \cup lost \/ e = ep)
    <3>1. CASE s = ep.started /\ e = ep
      BY <3>1
    <3>2. CASE disk'[<<s, x>>] = disk[<<s, x>>]
      <4>1. disk[<<s, x>>].whole /\ e = disk[<<s, x>>].of
        BY <3>2
      <4> HIDE DEF e
      <4> QED BY <4>1 DEF DiskInv, FilesInv
    <3> QED BY <1>6, <3>1, <3>2
  <2>2. \A c \in saved \cup lost : c \in saved' \cup lost'
    OBVIOUS
  <2> HIDE DEF e
  <2>3. /\ e.started = s
        /\ \/ e \in saved' \cup lost'
           \/ pc' \in {"parquet", "jsonl"} /\ e = ep'
    BY <2>1, <2>2
  <2> QED BY <2>3 DEF e
<1>9. pc' \in {"parquet", "jsonl"} => Is(disk'[<<ep'.started, "meta">>], ep')
  BY <1>2, <1>3, <1>4
<1>10. Numbered'
  BY NextNumbered DEF DiskInv
<1> QED BY <1>5, <1>7, <1>8, <1>9, <1>10 DEF DiskInv, FilesInv, Numbered, File

LEMMA NextDiskInv == TypeOK /\ OneAtATime /\ DiskInv /\ [Next]_vars => DiskInv'
<1> SUFFICES ASSUME TypeOK, OneAtATime, DiskInv, [Next]_vars PROVE DiskInv'
  OBVIOUS
<1>1. CASE Start
  BY <1>1, NothingWritten DEF Start
<1>2. CASE Record
  BY <1>2, NothingWritten DEF Record
<1>3. CASE NoteIntervention
  BY <1>3, NothingWritten DEF NoteIntervention
<1>4. ASSUME NEW another \in BOOLEAN, Stop(another) PROVE DiskInv'
  BY <1>4, NothingWritten DEF Stop
<1>5. CASE WriteMeta
  <2>1. CASE Write("meta", TRUE) /\ Continues("parquet")
    BY <1>5, <2>1, MetaWritten DEF WriteMeta, Continues
  <2>2. CASE Write("meta", FALSE) /\ Raises
    BY <1>5, <2>2, MetaWritten DEF WriteMeta, Raises
  <2>3. CASE UNCHANGED disk /\ Raises
    BY <1>5, <2>3, NothingWritten DEF WriteMeta, Raises
  <2> QED BY <1>5, <2>1, <2>2, <2>3 DEF WriteMeta
<1>6. CASE WriteParquet
  <2>1. CASE Write("parquet", TRUE) /\ Returns
    BY <1>6, <2>1, TableWritten DEF WriteParquet, Returns
  <2>2. CASE Write("parquet", FALSE) /\ Continues("jsonl")
    BY <1>6, <2>2, TableWritten DEF WriteParquet, Continues
  <2>3. CASE UNCHANGED disk /\ Continues("jsonl")
    BY <1>6, <2>3, NothingWritten DEF WriteParquet, Continues
  <2> QED BY <1>6, <2>1, <2>2, <2>3 DEF WriteParquet
<1>7. CASE WriteJsonl
  <2>1. CASE Write("jsonl", TRUE) /\ Returns
    BY <1>7, <2>1, TableWritten DEF WriteJsonl, Returns
  <2>2. CASE Write("jsonl", FALSE) /\ Raises
    BY <1>7, <2>2, TableWritten DEF WriteJsonl, Raises
  <2>3. CASE UNCHANGED disk /\ Raises
    BY <1>7, <2>3, NothingWritten DEF WriteJsonl, Raises
  <2> QED BY <1>7, <2>1, <2>2, <2>3 DEF WriteJsonl
<1>8. CASE Crash
  <2>1. pc \in {"parquet", "jsonl"} => ep \in lost'
    BY <1>8 DEF Crash, OneAtATime
  <2> QED BY <1>8, <2>1, NothingWritten DEF Crash
<1>9. CASE UNCHANGED vars
  BY <1>9, NothingWritten DEF vars
<1> QED BY <1>1, <1>2, <1>3, <1>4, <1>5, <1>6, <1>7, <1>8, <1>9 DEF Next

LEMMA DiskInvariant == Spec => []DiskInv
<1>1. Init => DiskInv
  <2> SUFFICES ASSUME Init PROVE DiskInv
    OBVIOUS
  <2>1. \A s \in Stamps, table \in {"parquet", "jsonl"} : ~disk[<<s, table>>].whole
    BY DEF Init, NoFile, Suffixes
  <2> QED BY <2>1 DEF Init, DiskInv, FilesInv, SavedStays, CountsAgree
<1> QED BY <1>1, NextDiskInv, TypeInvariant, PTL DEF Spec

\* An episode for which stop() returned is on disk as it was recorded, and stays there,
\* until one is started later in the same second.
THEOREM SavedForGood == Spec => []SavedStays
<1>1. DiskInv => SavedStays
  BY DEF DiskInv
<1> QED BY <1>1, DiskInvariant, PTL

\* A whole table has the meta data of its own episode beside it, whichever writes failed,
\* unless one was started later in the same second.
THEOREM CountsAlwaysAgree == Spec => []CountsAgree
<1>1. DiskInv => CountsAgree
  BY DEF DiskInv
<1> QED BY <1>1, DiskInvariant, PTL
=============================================================================
